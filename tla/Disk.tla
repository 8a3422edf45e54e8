-------------------------------- MODULE Disk --------------------------------
(***************************************************************************)
(* The buffer cache of bio.c on top of the IDE driver of ide.c: buffers    *)
(* kept in order of use and recycled, processes that wait for a busy        *)
(* buffer or for the disk (both asleep on the address of the buffer), the   *)
(* queue of requests, and the disk interrupt.                              *)
(*                                                                         *)
(* bcache.lock and idelock make each of bget, brelse, the body of iderw     *)
(* and ideintr one step; sleep gives up the lock and the process at once.   *)
(* Several processes read; one at a time, the one in a transaction, writes, *)
(* holds up to WHold buffers at once and keeps up to LogCap buffers dirty   *)
(* after it has released them (log_write).                                 *)
(***************************************************************************)
EXTENDS Integers, Sequences, FiniteSets, SequencesExt

CONSTANTS
  Proc, Writer,    \* processes; the one in a transaction
  Sector, Val,     \* sectors, and the contents each of them may have
  NBUF,            \* number of buffers
  WHold,           \* buffers the writer holds at once: block, indirect, log
  LogCap,          \* buffers a transaction may keep dirty
  Failing,         \* sectors a read of which may fail
  None

Buf == 1..NBUF

VARIABLES
  mru,                        \* bcache list, most recently used first
  sector, data,               \* of each buffer
  busy, valid, dirty,         \* buffers with B_BUSY, B_VALID, B_DIRTY
  queue,                      \* idequeue
  dev,                   \* the controller's command; interrupt pending
  disk,                       \* the sectors
  most, pinned,               \* buffers the writer holds; keeps dirty
  lost,                       \* sectors whose last read failed in the drive
  pc, want, held, chan        \* per process: code, sector, buffers, channel

cacheVars == <<mru, sector, busy>>
vars == <<cacheVars, data, valid, dirty, queue, dev, disk, lost,
          most, pinned, pc, want, held, chan>>

Idle == [cmd |-> "none", sector |-> None, data |-> None]

(* binit: every buffer free, on no device; the last one added comes first. *)
Init ==
  /\ mru = [i \in Buf |-> NBUF + 1 - i]
  /\ sector = [b \in Buf |-> None]
  /\ data = [b \in Buf |-> None]
  /\ busy = {} /\ valid = {} /\ dirty = {}
  /\ queue = <<>> /\ dev = Idle
  /\ disk \in {d \in [Sector -> UNION Range(Val)] : \A s \in Sector : d[s] \in Val[s]}
  /\ lost = {} /\ most \in 1..WHold /\ pinned \in 0..LogCap
  /\ pc = [p \in Proc |-> "run"]
  /\ want = [p \in Proc |-> None]
  /\ held = [p \in Proc |-> <<>>]
  /\ chan = [p \in Proc |-> None]

Awake(p) == chan[p] = None

Wakeup(b) == chan' = [p \in Proc |-> IF chan[p] = b THEN None ELSE chan[p]]

Top(p) == Last(held[p])

-----------------------------------------------------------------------------
(* bget.                                                                   *)
bread(p, s) ==
  /\ pc[p] = "run"
  /\ Len(held[p]) < (IF p = Writer THEN most ELSE 1)
  /\ \A i \in DOMAIN held[p] : sector[held[p][i]] # s
  /\ want' = [want EXCEPT ![p] = s]
  /\ pc' = [pc EXCEPT ![p] = "bget"]
  /\ UNCHANGED <<most, pinned, cacheVars, data, valid, dirty, queue, dev, disk, lost, held, chan>>

Cached(s) == {b \in Buf : sector[b] = s}

(* bget returns b; bread reads it from the disk if it is not valid.        *)
Got(p, b, ok) ==
  /\ busy' = busy \cup {b}
  /\ held' = [held EXCEPT ![p] = Append(@, b)]
  /\ want' = [want EXCEPT ![p] = None]
  /\ pc' = [pc EXCEPT ![p] = IF ok THEN "run" ELSE "iderw"]

BgetHit(p) ==
  /\ pc[p] = "bget" /\ Awake(p)
  /\ \E b \in Cached(want[p]) \ busy : Got(p, b, b \in valid)
  /\ UNCHANGED <<most, pinned, mru, sector, data, valid, dirty, queue, dev, disk, lost, chan>>

BgetSleep(p) ==
  /\ pc[p] = "bget" /\ Awake(p)
  /\ \E b \in Cached(want[p]) \cap busy : chan' = [chan EXCEPT ![p] = b]
  /\ UNCHANGED <<most, pinned, cacheVars, data, valid, dirty, queue, dev, disk, lost, pc, want, held>>

Recyclable == {i \in Buf : mru[i] \notin busy \cup dirty}

(* b->flags = B_BUSY: the recycled buffer is no longer valid.  Its data,   *)
(* left over from another sector, is None.                                 *)
M_Recycled_StillValid(b) == valid
Recycled(b) == valid \ {b}

BgetRecycle(p) ==
  /\ pc[p] = "bget" /\ Awake(p) /\ Cached(want[p]) = {}
  /\ Recyclable # {}
  /\ LET b == mru[CHOOSE i \in Recyclable : \A j \in Recyclable : j <= i]
     IN /\ sector' = [sector EXCEPT ![b] = want[p]]
        /\ valid' = Recycled(b)
        /\ data' = [data EXCEPT ![b] = None]
        /\ Got(p, b, b \in valid')
  /\ UNCHANGED <<most, pinned, mru, dirty, queue, dev, disk, lost, chan>>

BgetPanic(p) ==
  /\ pc[p] = "bget" /\ Awake(p) /\ Cached(want[p]) = {}
  /\ Recyclable = {}
  /\ pc' = [pc EXCEPT ![p] = "panic"]
  /\ UNCHANGED <<most, pinned, cacheVars, data, valid, dirty, queue, dev, disk, lost, want, held, chan>>

-----------------------------------------------------------------------------
(* ide.c.  idestart hands the controller a command, with the data of a     *)
(* write; the interrupt follows the completion of the command.             *)
Command(b, fl, dt) ==
  [cmd |-> IF b \in fl THEN "write" ELSE "read", sector |-> sector[b], data |-> dt[b]]

(* iderw up to its first sleep.                                            *)
Request(p, b, fl, dt) ==
  /\ queue' = Append(queue, b)
  /\ dev' = IF queue = <<>> THEN Command(b, fl, dt) ELSE dev
  /\ chan' = [chan EXCEPT ![p] = b]
  /\ pc' = [pc EXCEPT ![p] = "io"]

iderw(p) ==
  /\ pc[p] = "iderw"
  /\ Request(p, Top(p), dirty, data)
  /\ UNCHANGED <<most, pinned, cacheVars, data, valid, dirty, disk, lost, want, held>>

Finished(b) == b \in valid /\ b \notin dirty

(* Woken, by the interrupt or by someone else: the loop tests the flags.   *)
IoWoken(p) ==
  /\ pc[p] = "io" /\ Awake(p)
  /\ IF Finished(Top(p))
     THEN pc' = [pc EXCEPT ![p] = "run"] /\ UNCHANGED chan
     ELSE chan' = [chan EXCEPT ![p] = Top(p)] /\ UNCHANGED pc
  /\ UNCHANGED <<most, pinned, cacheVars, data, valid, dirty, queue, dev, disk, lost, want, held>>

M_StartNext_Forgotten(q, fl, dt) == Idle
StartNext(q, fl, dt) == IF q = <<>> THEN Idle ELSE Command(Head(q), fl, dt)

(* The drive finishes its command and ideintr runs.  A read that the drive *)
(* reports as failed leaves the data alone, and the buffer is marked valid  *)
(* all the same.                                                           *)
ideintr(ok) ==
  /\ queue # <<>> /\ dev # Idle
  /\ ok \/ (dev.cmd = "read" /\ dev.sector \in Failing)
  /\ disk' = IF dev.cmd = "write" THEN [disk EXCEPT ![dev.sector] = dev.data] ELSE disk
  /\ LET b == Head(queue)
     IN /\ data' = IF b \notin dirty /\ ok THEN [data EXCEPT ![b] = disk[dev.sector]] ELSE data
        /\ lost' = IF b \in dirty \/ ok THEN lost \ {sector[b]} ELSE lost \cup {sector[b]}
        /\ valid' = valid \cup {b}
        /\ dirty' = dirty \ {b}
        /\ queue' = Tail(queue)
        /\ dev' = StartNext(queue', dirty', data')
        /\ Wakeup(b)
  /\ UNCHANGED <<most, pinned, cacheVars, pc, want, held>>

-----------------------------------------------------------------------------
(* What the holder of a buffer does with it.                               *)
bwrite(p, v) ==
  LET b == Top(p)
  IN /\ p = Writer /\ pc[p] = "run" /\ held[p] # <<>> /\ v \in Val[sector[b]]
     /\ data' = [data EXCEPT ![b] = v]
     /\ dirty' = dirty \cup {b}
     /\ Request(p, b, dirty', data')
     /\ UNCHANGED <<most, pinned, cacheVars, valid, disk, lost, want, held>>

(* log_write changes the data and marks the buffer, to be written later.   *)
MarkDirty(p, v) ==
  LET b == Top(p)
  IN /\ p = Writer /\ pc[p] = "run" /\ held[p] # <<>> /\ v \in Val[sector[b]]
     /\ Cardinality(dirty \cup {b}) <= pinned
     /\ data' = [data EXCEPT ![b] = v]
     /\ dirty' = dirty \cup {b}
     /\ lost' = lost \ {sector[b]}
     /\ UNCHANGED <<most, pinned, cacheVars, valid, queue, dev, disk, pc, want, held, chan>>

ToFront(b) == <<b>> \o Remove(mru, b)

brelse(p) ==
  /\ pc[p] = "run" /\ held[p] # <<>>
  /\ LET b == Top(p)
     IN /\ mru' = ToFront(b)
        /\ busy' = busy \ {b}
        /\ Wakeup(b)
  /\ held' = [held EXCEPT ![p] = Front(@)]
  /\ UNCHANGED <<most, pinned, sector, data, valid, dirty, queue, dev, disk, lost, pc, want>>

(* kill makes a sleeping process runnable, whatever it sleeps on.          *)
kill(p) ==
  /\ chan[p] # None
  /\ chan' = [chan EXCEPT ![p] = None]
  /\ UNCHANGED <<most, pinned, cacheVars, data, valid, dirty, queue, dev, disk, lost, pc, want, held>>

Bget(p) == BgetHit(p) \/ BgetSleep(p) \/ BgetRecycle(p) \/ BgetPanic(p)

Panicked == \E p \in Proc : pc[p] = "panic"

(* A panic halts the machine.                                              *)
Next ==
  \/ ~Panicked /\ \E p \in Proc :
       \/ \E s \in Sector : bread(p, s)
       \/ Bget(p) \/ iderw(p) \/ IoWoken(p) \/ brelse(p) \/ kill(p)
       \/ \E v \in UNION Range(Val) : bwrite(p, v) \/ MarkDirty(p, v)
  \/ ~Panicked /\ \E ok \in BOOLEAN : ideintr(ok)
  \/ Panicked /\ UNCHANGED vars

Safe == Init /\ [][Next]_vars

(* Processes are scheduled and the disk answers.  A process writes a       *)
(* buffer, and takes a second one beside it, a finite number of times       *)
(* before it releases it.                                                  *)
Fairness ==
  /\ \A p \in Proc : WF_vars(Bget(p)) /\ WF_vars(iderw(p) \/ IoWoken(p))
  /\ \A p \in Proc :
       SF_vars(brelse(p)) /\ SF_vars(brelse(p) /\ Len(held[p]) = 1)
  /\ WF_vars(\E ok \in BOOLEAN : ideintr(ok))

Spec == Safe /\ Fairness

-----------------------------------------------------------------------------
TypeOK ==
  /\ mru \in [Buf -> Buf] /\ \A b \in Buf : \E i \in Buf : mru[i] = b
  /\ sector \in [Buf -> Sector \cup {None}]
  /\ data \in [Buf -> UNION Range(Val) \cup {None}]
  /\ busy \subseteq Buf /\ valid \subseteq Buf /\ dirty \subseteq Buf
  /\ queue \in Seq(Buf)
  /\ disk \in [Sector -> UNION Range(Val)] /\ lost \subseteq Sector
  /\ pc \in [Proc -> {"run", "bget", "iderw", "io", "panic"}]
  /\ want \in [Proc -> Sector \cup {None}]
  /\ held \in [Proc -> Seq(Buf)]
  /\ chan \in [Proc -> Buf \cup {None}]

(* bget never gives a sector two buffers, although the processes that miss *)
(* it together each look for one, and a busy buffer has one holder.        *)
OneBufferPerSector ==
  /\ \A b, c \in Buf : sector[b] = sector[c] /\ sector[b] # None => b = c
  /\ \A b \in busy : Cardinality({p \in Proc : Contains(held[p], b)}) = 1


(* A process asleep in bget waits for a buffer that is busy, one asleep in *)
(* iderw for a buffer that is still in the queue: no wakeup was missed.    *)
NoWakeupMissed ==
  \A p \in Proc : chan[p] # None =>
    \/ pc[p] = "bget" /\ chan[p] \in busy
    \/ pc[p] = "io" /\ chan[p] = Top(p) /\ Contains(queue, chan[p])

(* The contents of a sector, as the next bread of it will return them, and *)
(* who has it.  A failed read aside, cache, queue and drive implement a     *)
(* store in which every bread returns the last bwrite or log_write.        *)
Latest ==
  [s \in Sector |->
     IF \E b \in valid \cup dirty : sector[b] = s
     THEN data[CHOOSE b \in valid \cup dirty : sector[b] = s] ELSE disk[s]]

Using == [p \in Proc |-> {sector[held[p][i]] : i \in DOMAIN held[p]}]

Store == INSTANCE SectorStore WITH
           contents <- [s \in Sector |-> IF s \in lost THEN disk[s] ELSE Latest[s]],
           using <- Using

ImplementsStore == Store!Spec

(* Whoever sleeps in bget or iderw is woken, in whatever order requests,    *)
(* interrupts and releases come.                                           *)
SleeperWoken == \A p \in Proc : []<>(chan[p] = None \/ Panicked)
=============================================================================
