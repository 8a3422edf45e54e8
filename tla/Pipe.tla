-------------------------------- MODULE Pipe --------------------------------
(***************************************************************************)
(* A pipe of pipe.c shared by reading and writing processes.  p->lock makes *)
(* the code between two sleeps one step.  killed is tested under p->lock,   *)
(* which kill does not take: the call of sleep that follows the test is a   *)
(* step of its own, with the lock held.                                    *)
(***************************************************************************)
EXTENDS Integers, Sequences, FiniteSets

CONSTANTS
  Reader, Writer,  \* processes with the read end, with the write end
  Byte,
  PIPESIZE,
  Wrap,            \* nread and nwrite count modulo Wrap (2^32 in the code)
  Writes,          \* what a write may be given: sequences of bytes
  MaxCalls,        \* calls of each process before it closes its end
  None

Proc == Reader \cup Writer

ASSUME PipeAssumption ==
  /\ PIPESIZE \in Nat \ {0} /\ Wrap \in Nat /\ \E m \in 2..Wrap : Wrap = m * PIPESIZE
  /\ Reader \cap Writer = {} /\ None \notin Proc \cup {"nread", "nwrite"}
  /\ Byte # {} /\ Writes \subseteq Seq(Byte)

VARIABLES
  nread, nwrite, data,      \* struct pipe
  readopen, writeopen,
  lock,                     \* holder of p->lock
  pc, chan, killed,         \* of each process
  rest,                     \* bytes a writer has yet to copy
  got, eof,                 \* what a reader's last call returned
  calls                     \* calls each process has left

ring == <<nread, nwrite, data>>
ends == <<readopen, writeopen>>
vars == <<ring, ends, lock, pc, chan, killed, rest, got, eof, calls>>

Init ==
  /\ nread = 0 /\ nwrite = 0 /\ data \in [0..PIPESIZE - 1 -> {CHOOSE b \in Byte : TRUE}]
  /\ readopen = TRUE /\ writeopen = TRUE
  /\ lock = None
  /\ pc = [p \in Proc |-> "user"]
  /\ chan = [p \in Proc |-> None]
  /\ killed = {}
  /\ rest = [p \in Writer |-> <<>>]
  /\ got = [p \in Reader |-> <<>>] /\ eof = {}
  /\ calls = MaxCalls

Count == (nwrite - nread) % Wrap
Contents == [i \in 1..Count |-> data[((nread + i - 1) % Wrap) % PIPESIZE]]

Full == nwrite = (nread + PIPESIZE) % Wrap

M_Woken_First(c) ==
  [p \in Proc |-> IF chan[p] = c /\ p = CHOOSE q \in Proc : chan[q] = c THEN None ELSE chan[p]]
Woken(c) == [p \in Proc |-> IF chan[p] = c THEN None ELSE chan[p]]
Goto(p, l) == pc' = [pc EXCEPT ![p] = l]
Ready(p, l) == pc[p] = l /\ chan[p] = None /\ lock = None

-----------------------------------------------------------------------------
(* pipewrite.                                                              *)
WriteCall(p, s) ==
  /\ pc[p] = "user" /\ calls[p] > 0 /\ p \notin killed
  /\ rest' = [rest EXCEPT ![p] = s]
  /\ calls' = [calls EXCEPT ![p] = @ - 1]
  /\ Goto(p, "write")
  /\ UNCHANGED <<ring, ends, lock, chan, killed, got, eof>>

(* The copying loop, up to a full pipe or the end.                         *)
M_Room_NotModular == PIPESIZE - (nwrite - nread)
Room == PIPESIZE - Count

Copied(p) == IF Len(rest[p]) <= Room THEN Len(rest[p]) ELSE Room

Copy(p) ==
  LET k == Copied(p)
      At(i) == ((nwrite + i - 1) % Wrap) % PIPESIZE
  IN /\ data' = [j \in DOMAIN data |->
                   IF \E i \in 1..k : At(i) = j
                   THEN rest[p][CHOOSE i \in 1..k : At(i) = j] ELSE data[j]]
     /\ nwrite' = (nwrite + k) % Wrap

WriteAll(p) ==
  /\ Ready(p, "write") /\ Copied(p) = Len(rest[p])
  /\ Copy(p)
  /\ rest' = [rest EXCEPT ![p] = <<>>]
  /\ chan' = Woken("nread")
  /\ Goto(p, "user")
  /\ UNCHANGED <<nread, ends, lock, killed, got, eof, calls>>

WriteSome(p) ==
  /\ Ready(p, "write") /\ Copied(p) < Len(rest[p])
  /\ Copy(p)
  /\ IF ~readopen \/ p \in killed
     THEN /\ Goto(p, "user")
          /\ rest' = [rest EXCEPT ![p] = <<>>]
          /\ UNCHANGED <<chan, lock>>
     ELSE /\ Goto(p, "wsleep")
          /\ rest' = [rest EXCEPT ![p] = SubSeq(@, Copied(p) + 1, Len(@))]
          /\ chan' = Woken("nread")
          /\ lock' = p
  /\ UNCHANGED <<nread, ends, killed, got, eof, calls>>

-----------------------------------------------------------------------------
(* piperead.                                                               *)
ReadCall(p) ==
  /\ pc[p] = "user" /\ calls[p] > 0 /\ p \notin killed
  /\ got' = [got EXCEPT ![p] = <<>>] /\ eof' = eof \ {p}
  /\ calls' = [calls EXCEPT ![p] = @ - 1]
  /\ Goto(p, "read")
  /\ UNCHANGED <<ring, ends, lock, chan, killed, rest>>

MustWait == nread = nwrite /\ writeopen

ReadWait(p) ==
  /\ Ready(p, "read") /\ MustWait
  /\ IF p \in killed
     THEN Goto(p, "user") /\ UNCHANGED lock
     ELSE Goto(p, "rsleep") /\ lock' = p
  /\ UNCHANGED <<ring, ends, chan, killed, rest, got, eof, calls>>

(* A read of n bytes takes min(n, Count) of them.                          *)
M_ReadSome_SpinsAtEof(p, n) ==
  /\ Ready(p, "read") /\ ~MustWait
  /\ LET k == IF n <= Count THEN n ELSE Count
     IN /\ got' = [got EXCEPT ![p] = SubSeq(Contents, 1, k)]
        /\ eof' = IF k = 0 THEN eof \cup {p} ELSE eof
        /\ nread' = (nread + k) % Wrap
  /\ chan' = Woken("nwrite")
  /\ Goto(p, IF nread = nwrite THEN "read" ELSE "user")
  /\ UNCHANGED <<nwrite, data, ends, lock, killed, rest, calls>>
ReadSome(p, n) ==
  /\ Ready(p, "read") /\ ~MustWait
  /\ LET k == IF n <= Count THEN n ELSE Count
     IN /\ got' = [got EXCEPT ![p] = SubSeq(Contents, 1, k)]
        /\ eof' = IF k = 0 THEN eof \cup {p} ELSE eof
        /\ nread' = (nread + k) % Wrap
  /\ chan' = Woken("nwrite")
  /\ Goto(p, "user")
  /\ UNCHANGED <<nwrite, data, ends, lock, killed, rest, calls>>

(* sleep(chan, &p->lock).                                                  *)
PipeSleep(p) ==
  /\ pc[p] \in {"wsleep", "rsleep"}
  /\ chan' = [chan EXCEPT ![p] = IF pc[p] = "wsleep" THEN "nwrite" ELSE "nread"]
  /\ lock' = None
  /\ Goto(p, IF pc[p] = "wsleep" THEN "write" ELSE "read")
  /\ UNCHANGED <<ring, ends, killed, rest, got, eof, calls>>

-----------------------------------------------------------------------------
(* A process closes its end; pipeclose runs with the last one of that end  *)
(* (fileclose counts the references; module File has the end of the pipe). *)
LastOf(p, S) == \A q \in S \ {p} : pc[q] = "closed"

pipeclose(p) ==
  /\ pc[p] = "user" /\ lock = None
  /\ Goto(p, "closed")
  /\ writeopen' = (writeopen /\ ~(p \in Writer /\ LastOf(p, Writer)))
  /\ readopen' = (readopen /\ ~(p \in Reader /\ LastOf(p, Reader)))
  /\ chan' = IF writeopen' # writeopen THEN Woken("nread")
             ELSE IF readopen' # readopen THEN Woken("nwrite") ELSE chan
  /\ UNCHANGED <<ring, lock, killed, rest, got, eof, calls>>

kill(p) ==
  /\ p \notin killed /\ pc[p] # "closed"
  /\ killed' = killed \cup {p}
  /\ chan' = [chan EXCEPT ![p] = None]
  /\ UNCHANGED <<ring, ends, lock, pc, rest, got, eof, calls>>

Step(p) ==
  \/ p \in Writer /\ (WriteAll(p) \/ WriteSome(p))
  \/ p \in Reader /\ (ReadWait(p) \/ \E n \in 1..PIPESIZE : ReadSome(p, n))
  \/ PipeSleep(p) \/ pipeclose(p)

Next ==
  \/ \E p \in Proc : Step(p) \/ kill(p)
  \/ \E p \in Writer : \E s \in Writes : WriteCall(p, s)
  \/ \E p \in Reader : ReadCall(p)
  \/ (\A p \in Proc : pc[p] = "closed") /\ UNCHANGED vars

Safe == Init /\ [][Next]_vars

(* Every process is scheduled, and closes its end at some time (exit).     *)
Fairness == \A p \in Proc : WF_vars(Step(p))

Spec == Safe /\ Fairness

-----------------------------------------------------------------------------
TypeOK ==
  /\ nread \in 0..Wrap - 1 /\ nwrite \in 0..Wrap - 1
  /\ data \in [0..PIPESIZE - 1 -> Byte]
  /\ readopen \in BOOLEAN /\ writeopen \in BOOLEAN
  /\ lock \in Proc \cup {None}
  /\ pc \in [Proc -> {"user", "write", "wsleep", "read", "rsleep", "closed"}]
  /\ chan \in [Proc -> {"nread", "nwrite", None}]
  /\ killed \subseteq Proc
  /\ rest \in [Writer -> Seq(Byte)] /\ got \in [Reader -> Seq(Byte)]

(* The ring with its two wrapping counters is a FIFO of PIPESIZE bytes,    *)
(* and reads report the end of the stream only when it has come.           *)
Queue == INSTANCE Fifo WITH q <- Contents, open <- writeopen, Cap <- PIPESIZE
ImplementsFifo == Queue!Spec

(* A writer sleeps only on a full pipe that has a reader, and a reader only *)
(* on an empty pipe that has a writer: no wakeup of pipewrite, piperead or  *)
(* pipeclose was missed.  The code has one exception: a killed writer that  *)
(* fills the pipe returns without waking the readers.                      *)
NoWakeupMissed ==
  \A p \in Proc :
    /\ chan[p] = "nwrite" => Full /\ readopen
    /\ chan[p] = "nread" => writeopen /\ (nread = nwrite \/ Writer \cap killed # {})

(* Who is where: the holder of p->lock is about to sleep, for the reason    *)
(* its loop tested; an end is open while a process that has it is; a read    *)
(* has returned nothing before it ends.                                    *)
Placed ==
  \A p \in Proc :
    /\ lock = p <=> pc[p] \in {"wsleep", "rsleep"}
    /\ pc[p] \in {"write", "wsleep"} => p \in Writer
    /\ pc[p] \in {"read", "rsleep"} => p \in Reader /\ got[p] = <<>>
    /\ pc[p] = "wsleep" => Full /\ readopen
    /\ pc[p] = "rsleep" => nread = nwrite /\ writeopen
    /\ chan[p] = "nwrite" => pc[p] = "write"
    /\ chan[p] = "nread" => pc[p] = "read"
    /\ pc[p] # "closed" => (p \in Writer => writeopen) /\ (p \in Reader => readopen)

(* The inductive invariant: the ring is never overfull, and nobody misses a *)
(* wakeup.                                                                 *)
PipeInv == TypeOK /\ Count <= PIPESIZE /\ Placed /\ NoWakeupMissed

Returned(p) == pc[p] \in {"user", "closed"}

(* Every call returns, killed or not: readers and writers do not wait for  *)
(* each other for ever.                                                    *)
CallReturns == \A p \in Proc : []<>Returned(p)
=============================================================================
