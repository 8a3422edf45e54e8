-------------------------------- MODULE Boot --------------------------------
(***************************************************************************)
(* How the boot processor counts the processors of the machine (mpinit of   *)
(* mp.c) and starts the others (startothers and mpmain of main.c), all of   *)
(* which find their stack in the same word below the entry code.            *)
(***************************************************************************)
EXTENDS Integers, Sequences, FiniteSets, SequencesExt

CONSTANTS
  Kinds,      \* kinds of entries of the MP table besides processors
  Ids,        \* local APIC ids
  MaxTable    \* entries of the table

Cpus == 0..(MaxTable - 1)

Entry == [kind : {"MPPROC"}, id : Ids, boot : BOOLEAN] \cup
         [kind : Kinds, id : {0}, boot : {FALSE}]
Procs(t) == SelectSeq(t, LAMBDA e : e.kind = "MPPROC")

(* Tables with one boot processor; the empty one when mpconfig finds none. *)
Tables == {t \in SeqOf(Entry, MaxTable) :
             /\ \A i, j \in DOMAIN Procs(t) : i # j => Procs(t)[i].id # Procs(t)[j].id
             /\ Cardinality({i \in DOMAIN Procs(t) : Procs(t)[i].boot}) = 1} \cup {<<>>}

VARIABLES
  table, p,        \* the MP table; entry that mpinit looks at
  ismp, lapic,     \* lapic: the local APIC is used
  ncpu, cpuId,     \* number of processors; cpus[].id
  stage,           \* boot processor: "mpinit", "startothers", "wait", "mpmain"
  c,               \* loop variable of startothers
  nstack, slot,    \* stacks taken from kalloc; the word at code - 4
  woken,           \* processors that lapicstartap was called for
  stack,           \* stack of each other processor, 0 before it runs
  started          \* cpus[].started, and the boot processor in scheduler

mp == <<table, p, ismp, lapic, ncpu, cpuId>>
vars == <<mp, stage, c, nstack, slot, woken, stack, started>>

Init ==
  /\ table \in Tables /\ p = 1
  /\ ismp = (table # <<>>) /\ lapic = (table # <<>>)
  /\ ncpu = 0 /\ cpuId = [i \in Cpus |-> 0]
  /\ stage = "mpinit" /\ c = 0 /\ nstack = 0 /\ slot = 0 /\ woken = {}
  /\ stack = [i \in Ids |-> 0] /\ started = {}

-----------------------------------------------------------------------------
(* One turn of the loop of mpinit; a kind it does not know leaves p alone. *)
Known == {"MPIOAPIC", "MPBUS", "MPIOINTR", "MPLINTR"}

MpEntry ==
  /\ stage = "mpinit" /\ p <= Len(table)
  /\ LET e == table[p]
     IN \/ /\ e.kind = "MPPROC"
           /\ ismp' = (ismp /\ ncpu = e.id)
           /\ cpuId' = [cpuId EXCEPT ![ncpu] = ncpu]
           /\ ncpu' = ncpu + 1 /\ p' = p + 1
        \/ /\ e.kind \in Known
           /\ p' = p + 1
           /\ UNCHANGED <<ismp, ncpu, cpuId>>
        \/ /\ e.kind \notin Known \cup {"MPPROC"}
           /\ ismp' = FALSE
           /\ UNCHANGED <<p, ncpu, cpuId>>
  /\ UNCHANGED <<table, lapic, stage, c, nstack, slot, woken, stack, started>>

M_MpDone_KeepsCount ==
  /\ stage = "mpinit" /\ p > Len(table)
  /\ lapic' = (lapic /\ ismp) /\ stage' = "startothers"
  /\ UNCHANGED <<table, p, ismp, ncpu, cpuId, c, nstack, slot, woken, stack, started>>
MpDone ==
  /\ stage = "mpinit" /\ p > Len(table)
  /\ ncpu' = IF ~ismp /\ table # <<>> THEN 1 ELSE ncpu
  /\ lapic' = (lapic /\ ismp) /\ stage' = "startothers"
  /\ UNCHANGED <<table, p, ismp, cpuId, c, nstack, slot, woken, stack, started>>

-----------------------------------------------------------------------------
BootId == LET b == SelectSeq(table, LAMBDA e : e.boot) IN IF lapic THEN b[1].id ELSE 0
cpunum == BootId

StartOthers ==
  /\ stage = "startothers" /\ c < ncpu
  /\ IF c = cpunum
     THEN c' = c + 1 /\ UNCHANGED <<stage, nstack, slot, woken>>
     ELSE /\ nstack' = nstack + 1 /\ slot' = nstack + 1
          /\ woken' = woken \cup {cpuId[c]}
          /\ stage' = "wait" /\ UNCHANGED c
  /\ UNCHANGED <<mp, stack, started>>

M_Wait_Not ==
  /\ stage = "wait"
  /\ c' = c + 1 /\ stage' = "startothers"
  /\ UNCHANGED <<mp, nstack, slot, woken, stack, started>>
Wait ==
  /\ stage = "wait" /\ c \in started
  /\ c' = c + 1 /\ stage' = "startothers"
  /\ UNCHANGED <<mp, nstack, slot, woken, stack, started>>

Spin == stage = "wait" /\ c \notin started /\ UNCHANGED vars

(* The processor that lapicstartap woke, if the machine has it: entryother *)
(* takes the stack, then mpenter and mpmain run on it.                     *)
Present(i) == \E k \in DOMAIN table : table[k].kind = "MPPROC" /\ table[k].id = i

EntryOther(i) ==
  /\ i \in woken /\ Present(i) /\ stack[i] = 0
  /\ stack' = [stack EXCEPT ![i] = slot]
  /\ UNCHANGED <<mp, stage, c, nstack, slot, woken, started>>

mpenter(i) ==
  /\ stack[i] # 0 /\ i \notin started
  /\ started' = started \cup {i}
  /\ UNCHANGED <<mp, stage, c, nstack, slot, woken, stack>>

mpmain ==
  /\ stage = "startothers" /\ c >= ncpu
  /\ stage' = "mpmain" /\ started' = started \cup {cpunum}
  /\ UNCHANGED <<mp, c, nstack, slot, woken, stack>>

Running == stage = "mpmain" /\ UNCHANGED vars

Next ==
  \/ MpEntry \/ MpDone \/ StartOthers \/ Wait \/ Spin \/ mpmain \/ Running
  \/ \E i \in Ids : EntryOther(i) \/ mpenter(i)

Spec == Init /\ [][Next]_vars /\ WF_vars(Next)

-----------------------------------------------------------------------------
(* Every other processor runs on a stack of its own, although startothers   *)
(* hands all of them their stack in the same word.                          *)
OwnStack ==
  \A i, j \in Ids : i # j /\ stack[i] # 0 => stack[i] # stack[j]

AllKnown == \A k \in DOMAIN table : table[k].kind \in Known \cup {"MPPROC"}
AllStarted == started = IF ismp THEN {i \in Ids : Present(i)}
                        ELSE {0}

Booted == AllKnown => stage = "mpmain" /\ AllStarted

(* On a table of known kinds the boot processor gets through mpinit and     *)
(* startothers to its scheduler, with every processor of the table started, *)
(* or, when the ids of the table are not the numbers of cpus[], alone.      *)
BootFinishes == []<>Booted
=============================================================================
