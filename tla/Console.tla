------------------------------ MODULE Console -------------------------------
(***************************************************************************)
(* The input side of console.c: keyboard and serial interrupts fill and     *)
(* edit the ring input.buf, processes read complete lines from it.          *)
(* input.lock makes the handling of a character, and a read between two     *)
(* sleeps, one step.  As in a pipe, killed is tested without the lock that  *)
(* kill takes, so the call of sleep is a step of its own.                  *)
(***************************************************************************)
EXTENDS Integers, Sequences, FiniteSets

CONSTANTS
  Reader,                  \* processes in consoleread
  Plain, Newline, Eof,     \* characters: ordinary ones, '\n', C('D')
  INPUT_BUF,
  Wrap,                    \* r, w and e count modulo Wrap (2^32 in the code)
  MaxRead,                 \* longest read of the model
  None

(* What the constants must satisfy: the ring fits the counters a whole      *)
(* number of times, as 128 does 2^32.                                      *)
ConsoleAssumption ==
  /\ INPUT_BUF \in Nat \ {0} /\ Wrap \in Nat /\ \E m \in 2..Wrap : Wrap = m * INPUT_BUF
  /\ None \notin Reader /\ Newline # Eof /\ MaxRead \in Nat

VARIABLES
  buf, r, w, e,            \* input
  lock,                    \* holder of input.lock, if a process
  pc, asleep, killed,      \* of each reader
  left, target, text       \* locals of consoleread; what it has copied

input == <<buf, r, w, e>>
vars == <<input, lock, pc, asleep, killed, left, target, text>>

Char == Plain \cup {Newline, Eof}

Init ==
  /\ buf = [i \in 0..INPUT_BUF - 1 |-> Newline]
  /\ r = 0 /\ w = 0 /\ e = 0
  /\ lock = None
  /\ pc = [p \in Reader |-> "user"]
  /\ asleep = {} /\ killed = {}
  /\ left = [p \in Reader |-> 0]
  /\ target = [p \in Reader |-> 0]
  /\ text = [p \in Reader |-> <<>>]

Dist(a, b) == (b - a) % Wrap
Ring(a, b) == [i \in 1..Dist(a, b) |-> buf[((a + i - 1) % Wrap) % INPUT_BUF]]
At(i) == (i % Wrap) % INPUT_BUF

-----------------------------------------------------------------------------
(* consoleintr, one character c.                                           *)
Commits(c) == c \in {Newline, Eof} \/ (e + 1) % Wrap = (r + INPUT_BUF) % Wrap

HasRoom == Dist(r, e) < INPUT_BUF

M_Key_NoWakeup(c) ==
  /\ lock = None /\ HasRoom
  /\ buf' = [buf EXCEPT ![At(e)] = c]
  /\ e' = (e + 1) % Wrap
  /\ IF Commits(c) THEN w' = e' /\ asleep' = asleep ELSE UNCHANGED <<w, asleep>>
  /\ UNCHANGED <<r, lock, pc, killed, left, target, text>>
Key(c) ==
  /\ lock = None /\ HasRoom
  /\ buf' = [buf EXCEPT ![At(e)] = c]
  /\ e' = (e + 1) % Wrap
  /\ IF Commits(c) THEN w' = e' /\ asleep' = {} ELSE UNCHANGED <<w, asleep>>
  /\ UNCHANGED <<r, lock, pc, killed, left, target, text>>

(* C('H') takes back one character, C('U') all up to a newline or to w.    *)
M_Backspace_PastLine ==
  /\ lock = None /\ e # r
  /\ e' = (e - 1) % Wrap
  /\ UNCHANGED <<buf, r, w, lock, pc, asleep, killed, left, target, text>>
Backspace ==
  /\ lock = None /\ e # w
  /\ e' = (e - 1) % Wrap
  /\ UNCHANGED <<buf, r, w, lock, pc, asleep, killed, left, target, text>>

KillLine ==
  /\ lock = None /\ e # w
  /\ \E k \in 0..Dist(w, e) :
       /\ k > 0 => Ring(w, e)[k] = Newline
       /\ \A j \in k + 1..Dist(w, e) : Ring(w, e)[j] # Newline
       /\ e' = (w + k) % Wrap
  /\ UNCHANGED <<buf, r, w, lock, pc, asleep, killed, left, target, text>>

-----------------------------------------------------------------------------
(* consoleread.                                                            *)
ReadCall(p, n) ==
  /\ pc[p] = "user" /\ p \notin killed
  /\ left' = [left EXCEPT ![p] = n]
  /\ target' = [target EXCEPT ![p] = n]
  /\ text' = [text EXCEPT ![p] = <<>>]
  /\ pc' = [pc EXCEPT ![p] = "read"]
  /\ UNCHANGED <<input, lock, asleep, killed>>

(* The loop copies characters until it has n, or meets a newline or an end *)
(* of file, or runs out of complete input and sleeps.                      *)
Available(n) == IF n <= Dist(r, w) THEN n ELSE Dist(r, w)
Stops(n) == {i \in 1..Available(n) : Ring(r, w)[i] \in {Newline, Eof}}

Copy(p, k) ==
  text' = [text EXCEPT ![p] = @ \o SubSeq(Ring(r, w), 1, k)]

Return(p) ==
  /\ pc' = [pc EXCEPT ![p] = "user"]
  /\ left' = [left EXCEPT ![p] = 0]
  /\ target' = [target EXCEPT ![p] = 0]

(* A C('D') after some characters is left for the next call.               *)
KeepEof(p, i) == i > 1 \/ left[p] < target[p]

StopAt(p, i) ==
  LET isEof == Ring(r, w)[i] = Eof
  IN /\ Copy(p, IF isEof THEN i - 1 ELSE i)
     /\ r' = (r + (IF isEof /\ KeepEof(p, i) THEN i - 1 ELSE i)) % Wrap

ReadStop(p) ==
  /\ pc[p] = "read" /\ p \notin asleep /\ lock = None
  /\ \E i \in Stops(left[p]) : (\A j \in Stops(left[p]) : i <= j) /\ StopAt(p, i)
  /\ Return(p)
  /\ UNCHANGED <<buf, w, e, lock, asleep, killed>>

ReadFull(p) ==
  /\ pc[p] = "read" /\ p \notin asleep /\ lock = None
  /\ Stops(left[p]) = {} /\ Dist(r, w) >= left[p]
  /\ Copy(p, left[p])
  /\ r' = (r + left[p]) % Wrap
  /\ Return(p)
  /\ UNCHANGED <<buf, w, e, lock, asleep, killed>>

ReadWait(p) ==
  /\ pc[p] = "read" /\ p \notin asleep /\ lock = None
  /\ Stops(left[p]) = {} /\ Dist(r, w) < left[p]
  /\ Copy(p, Dist(r, w))
  /\ r' = w
  /\ IF p \in killed
     THEN Return(p) /\ UNCHANGED lock
     ELSE /\ pc' = [pc EXCEPT ![p] = "sleep"]
          /\ left' = [left EXCEPT ![p] = @ - Dist(r, w)]
          /\ lock' = p
          /\ UNCHANGED target
  /\ UNCHANGED <<buf, w, e, asleep, killed>>

ReadSleep(p) ==
  /\ pc[p] = "sleep"
  /\ pc' = [pc EXCEPT ![p] = "read"]
  /\ asleep' = asleep \cup {p}
  /\ lock' = None
  /\ UNCHANGED <<input, killed, left, target, text>>

kill(p) ==
  /\ p \notin killed
  /\ killed' = killed \cup {p}
  /\ asleep' = asleep \ {p}
  /\ UNCHANGED <<input, lock, pc, left, target, text>>

(* A killed process exits when it is back in user mode; another takes its  *)
(* place at the console.                                                   *)
Exit(p) ==
  /\ pc[p] = "user" /\ p \in killed
  /\ killed' = killed \ {p}
  /\ UNCHANGED <<input, lock, pc, asleep, left, target, text>>

Run(p) == ReadStop(p) \/ ReadFull(p) \/ ReadWait(p) \/ ReadSleep(p) \/ Exit(p)

Next ==
  \/ \E c \in Char : Key(c)
  \/ Backspace \/ KillLine
  \/ \E p \in Reader : Run(p) \/ kill(p) \/ \E n \in 1..MaxRead : ReadCall(p, n)

Spec == Init /\ [][Next]_vars

-----------------------------------------------------------------------------
TypeOK ==
  /\ buf \in [0..INPUT_BUF - 1 -> Char]
  /\ r \in 0..Wrap - 1 /\ w \in 0..Wrap - 1 /\ e \in 0..Wrap - 1
  /\ lock \in Reader \cup {None}
  /\ pc \in [Reader -> {"user", "read", "sleep"}]
  /\ asleep \subseteq Reader /\ killed \subseteq Reader
  /\ left \in [Reader -> Nat] /\ target \in [Reader -> Nat]
  /\ text \in [Reader -> Seq(Char)]

(* The ring holds the complete input and behind it the line being typed,    *)
(* which has no newline and no end of file.                                *)
Held ==
  /\ Dist(r, w) + Dist(w, e) <= INPUT_BUF
  /\ \A i \in 1..Dist(w, e) : Ring(w, e)[i] \notin {Newline, Eof}

(* A call of consoleread has copied what it was asked for and has not left. *)
Calls ==
  /\ \A p \in Reader :
       pc[p] # "user" => left[p] > 0 /\ Len(text[p]) + left[p] = target[p]
  /\ \A p \in Reader : pc[p] = "sleep" <=> lock = p
  /\ \A p \in asleep : pc[p] = "read"

(* No reader sleeps, or is about to, beside complete input.                *)
NoWakeupMissed == lock # None \/ asleep # {} => r = w

(* The inductive invariant of the input side of console.c.                 *)
ConsoleInv == TypeOK /\ Held /\ Calls /\ NoWakeupMissed

(* Editing never touches a complete line, what is typed is not lost or     *)
(* reordered although readers are interrupted and killed half way, and a    *)
(* C('D') is an end of file for exactly one read.                          *)
Lines == INSTANCE LineInput WITH
           ready <- Ring(r, w), line <- Ring(w, e), Cap <- INPUT_BUF
ImplementsLineInput == Lines!Spec
=============================================================================
