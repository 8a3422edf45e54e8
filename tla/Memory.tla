------------------------------- MODULE Memory -------------------------------
(***************************************************************************)
(* Physical pages and address spaces: kalloc.c, vm.c, growproc, the memory  *)
(* of fork, exit and wait, and exec.c.  A call works on an address space    *)
(* that no other call uses, so a call is one step, and kalloc fails exactly *)
(* when no page is free.                                                   *)
(*                                                                         *)
(* Pages are counted: an address space is the set of its page tables (the   *)
(* kernel's is one of them) and of the user pages that are mapped.          *)
(* m is the state a call works on: the number of free pages, the address    *)
(* space m.s, whether the call goes well so far and the latest kalloc did,  *)
(* and two records of what the code loses sight of: lost, the pages that no *)
(* list or table names any more, and torn, that allocuvm has ignored a      *)
(* failure of mappages.                                                    *)
(***************************************************************************)
EXTENDS Integers, Sequences, SequencesExt, FiniteSets, FiniteSetsExt

CONSTANTS
  Proc, First,      \* process slots; the first process
  PGSIZE, NPT,      \* bytes of a page, entries of a page table
  KERNBASE,         \* bytes of user address space
  End, PHYSTOP,     \* physical memory that kinit1 and kinit2 hand out
  Programs          \* programs: ends of the segments, as in the ELF headers

PGROUNDUP(a) == ((a + PGSIZE - 1) \div PGSIZE) * PGSIZE
VPage == 0..(KERNBASE \div PGSIZE) - 1
PDX(v) == v \div NPT
KERN == -1          \* the page table of the kernel's mappings
NoSpace == [pgd |-> 0, tab |-> {}, map |-> {}]
Size(s) == s.pgd + Cardinality(s.tab) + Cardinality(s.map)

(* kinit1 and kinit2: the whole pages of a range of memory.                *)
freerange(a, b) == {x \in 1..b : x * PGSIZE >= PGROUNDUP(a) /\ (x + 1) * PGSIZE <= b}
Page == freerange(End, PHYSTOP)

VARIABLES
  free, lost, torn,
  space, sz,       \* address space and size of each process
  life,            \* "unused", "alive", "doomed" (has unmapped itself) or "zombie"
  panic

vars == <<free, lost, torn, space, sz, life, panic>>

-----------------------------------------------------------------------------
M0(f, s) == [free |-> f, lost |-> lost, torn |-> torn, s |-> s, ok |-> TRUE, page |-> TRUE, panic |-> panic]

kalloc(m) == IF m.free = 0 THEN [m EXCEPT !.page = FALSE]
             ELSE [m EXCEPT !.page = TRUE, !.free = @ - 1]
kfree(m, n) == [m EXCEPT !.free = @ + n]
Lose(m) == [m EXCEPT !.lost = @ + 1]

(* The page directory and the kernel's page table, a new one for each      *)
(* process.  On failure the directory is forgotten.                        *)
setupkvm(m) ==
  LET a == kalloc(m) b == kalloc(a)
  IN IF ~a.page THEN [a EXCEPT !.ok = FALSE, !.s = NoSpace]
     ELSE IF ~b.page THEN [Lose(b) EXCEPT !.ok = FALSE, !.s = NoSpace]
     ELSE [b EXCEPT !.s = [NoSpace EXCEPT !.pgd = 1, !.tab = {KERN}]]

(* mappages of one page at v; ~page when it returns -1.                    *)
mappages(m, v) ==
  LET t == IF PDX(v) \in m.s.tab THEN m ELSE kalloc(m)
  IN IF ~t.page THEN t
     ELSE IF v \in t.s.map THEN [t EXCEPT !.panic = "remap"]
     ELSE [t EXCEPT !.s.tab = @ \cup {PDX(v)}, !.s.map = @ \cup {v}]

RECURSIVE Dealloc(_, _, _)
Dealloc(m, v, end) ==
  IF v * PGSIZE >= end THEN m
  ELSE IF PDX(v) \notin m.s.tab THEN Dealloc(m, v + NPT, end)
  ELSE IF v \notin m.s.map THEN Dealloc(m, v + 1, end)
  ELSE Dealloc([kfree(m, 1) EXCEPT !.s.map = @ \ {v}], v + 1, end)

deallocuvm(m, old, new) ==
  IF new >= old THEN m ELSE Dealloc(m, PGROUNDUP(new) \div PGSIZE, old)

Pages(a, b) == [k \in 1..((PGROUNDUP(b) - PGROUNDUP(a)) \div PGSIZE) |->
                  (PGROUNDUP(a) \div PGSIZE) + k - 1]

(* allocuvm: a page that cannot be mapped is lost, and the call goes on.   *)
allocuvm(m, old, new) ==
  LET grow(n, v) ==
        LET a == kalloc(n) b == mappages(a, v)
        IN IF ~n.ok THEN n
           ELSE IF ~a.page THEN [deallocuvm(a, new, old) EXCEPT !.ok = FALSE]
           ELSE IF ~b.page THEN [Lose(b) EXCEPT !.torn = TRUE]
           ELSE b
  IN IF new >= KERNBASE THEN [m EXCEPT !.ok = FALSE]
     ELSE IF new < old THEN m
     ELSE FoldLeft(grow, m, Pages(old, new))

M_freevm_NoTables(m) ==
  LET n == deallocuvm(m, KERNBASE, 0) IN [kfree(n, 1) EXCEPT !.s = NoSpace]
freevm(m) ==
  LET n == deallocuvm(m, KERNBASE, 0)
  IN [kfree(n, Cardinality(n.s.tab) + n.s.pgd) EXCEPT !.s = NoSpace]

(* copyuvm of a parent's space; a copied page that cannot be mapped is lost. *)
copyuvm(parent, size) ==
  LET copy(n, v) ==
        LET a == kalloc(n) b == mappages(a, v)
        IN IF ~n.ok \/ n.panic # "no" THEN n
           ELSE IF v \notin parent.map THEN [n EXCEPT !.panic = "copyuvm"]
           ELSE IF ~a.page THEN [freevm(a) EXCEPT !.ok = FALSE]
           ELSE IF ~b.page THEN [freevm(Lose(b)) EXCEPT !.ok = FALSE]
           ELSE b
      d == setupkvm(M0(free, NoSpace))
  IN IF d.ok THEN FoldLeft(copy, d, Pages(0, size)) ELSE d

-----------------------------------------------------------------------------
(* userinit: setupkvm and inituvm, before any other use of memory.         *)
Init ==
  /\ lost = 0 /\ torn = FALSE /\ panic = "no"
  /\ LET boot == [free |-> Cardinality(Page), lost |-> 0, torn |-> FALSE, s |-> NoSpace,
                  ok |-> TRUE, page |-> TRUE, panic |-> "no"]
         i == mappages(kalloc(setupkvm(boot)), 0)
     IN /\ free = i.free
        /\ space = [p \in Proc |-> IF p = First THEN i.s ELSE NoSpace]
  /\ sz = [p \in Proc |-> IF p = First THEN PGSIZE ELSE 0]
  /\ life = [p \in Proc |-> IF p = First THEN "alive" ELSE "unused"]

(* What a call leaves behind: the space of p, of size n.                   *)
Leave(m, p, s, n) ==
  /\ free' = m.free /\ lost' = m.lost /\ torn' = m.torn /\ panic' = m.panic
  /\ space' = [space EXCEPT ![p] = s]
  /\ sz' = [sz EXCEPT ![p] = n]

(* growproc.  To shrink to nothing unmaps the caller and reports an error. *)
growproc(p, n) ==
  /\ panic = "no" /\ life[p] = "alive"
  /\ LET m == M0(free, space[p]) new == sz[p] + n
         g == IF n > 0 THEN allocuvm(m, sz[p], new)
              ELSE IF new < 0 THEN m ELSE deallocuvm(m, sz[p], new)
         done == IF n > 0 THEN g.ok ELSE new > 0
     IN /\ Leave(g, p, g.s, IF done THEN new ELSE sz[p])
        /\ life' = [life EXCEPT ![p] = IF new = 0 THEN "doomed" ELSE @]

(* fork, with the kernel stack of allocproc left out.                      *)
fork(p, c) ==
  /\ panic = "no" /\ life[p] = "alive" /\ life[c] = "unused"
  /\ LET d == copyuvm(space[p], sz[p]) ok == d.ok /\ d.panic = "no"
     IN /\ Leave(d, c, IF ok THEN d.s ELSE NoSpace, IF ok THEN sz[p] ELSE 0)
        /\ life' = [life EXCEPT ![c] = IF ok THEN "alive" ELSE @]

exit(p) ==
  /\ panic = "no" /\ life[p] \in {"alive", "doomed"}
  /\ life' = [life EXCEPT ![p] = "zombie"]
  /\ panic' = IF p = First THEN "init exiting" ELSE panic
  /\ UNCHANGED <<free, lost, torn, space, sz>>

wait(c) ==
  /\ panic = "no" /\ life[c] = "zombie"
  /\ Leave(freevm(M0(free, space[c])), c, NoSpace, 0)
  /\ life' = [life EXCEPT ![c] = "unused"]

(* exec: segments, each loaded into pages that must be there, then a guard *)
(* page and a stack page.  bad is what goes wrong: the segment that cannot  *)
(* be read, or, numbered behind the segments, the arguments, which do not   *)
(* fit, or nothing.                                                        *)
exec(p, prog, bad) ==
  /\ panic = "no" /\ life[p] = "alive"
  /\ LET start == setupkvm(M0(free, space[p]))
         load(m, i) ==
           LET a == allocuvm(m, IF i = 1 THEN 0 ELSE prog[i - 1], prog[i])
           IN IF ~m.ok \/ m.panic # "no" THEN m
              ELSE IF i = bad THEN [m EXCEPT !.ok = FALSE]
              ELSE IF a.ok /\ \E v \in VPage : v * PGSIZE < prog[i] /\ PDX(v) \notin a.s.tab
              THEN [a EXCEPT !.panic = "loaduvm"] ELSE a
         image == FoldLeft(load, start, [i \in 1..Len(prog) |-> i])
         size == PGROUNDUP(prog[Len(prog)])
         stack == allocuvm(image, size, size + 2 * PGSIZE)
         m == IF image.ok /\ image.panic = "no" THEN stack ELSE image
         top == (size \div PGSIZE) + 1
     IN IF ~start.ok THEN Leave(start, p, space[p], sz[p])
        ELSE IF m.panic # "no" THEN Leave(m, p, space[p], sz[p])
        ELSE IF ~m.ok THEN Leave(freevm(m), p, space[p], sz[p])
        ELSE IF {PDX(top), PDX(top - 1)} \ m.s.tab # {}
        THEN Leave([m EXCEPT !.panic = "clearpteu"], p, space[p], sz[p])
        ELSE IF bad = Len(prog) + 1 THEN Leave(freevm(m), p, space[p], sz[p])
        ELSE LET old == freevm([m EXCEPT !.s = space[p]])
             IN Leave(old, p, m.s, size + 2 * PGSIZE)
  /\ UNCHANGED life

Stopped == panic # "no" /\ UNCHANGED vars

Next ==
  \/ Stopped
  \/ \E p \in Proc :
       \/ \E n \in -KERNBASE..KERNBASE : n # 0 /\ growproc(p, n)
       \/ \E c \in Proc : fork(p, c)
       \/ exit(p) \/ wait(p)
       \/ \E prog \in Programs : \E bad \in 1..Len(prog) + 2 : exec(p, prog, bad)

Spec == Init /\ [][Next]_vars

-----------------------------------------------------------------------------
(* Every page is on the free list, or in one address space, or lost:        *)
(* nothing is freed twice or kept, on any error path of fork, exec, sbrk    *)
(* and wait, and pages are lost only where setupkvm forgets its directory   *)
(* and where allocuvm and copyuvm cannot map the page they have.            *)
PagesRight ==
  panic = "no" => free + lost + FoldSet(LAMBDA p, k : k + Size(space[p]), 0, Proc) = Cardinality(Page)

(* The pages mapped for a process are those below its size, no fewer, as    *)
(* fork expects, and no more.  (Unless a failure of mappages was ignored.)  *)
SizeRight ==
  ~torn => \A p \in Proc :
             life[p] = "alive" => space[p].map = {v \in VPage : v * PGSIZE < sz[p]}

(* The checks of mappages, copyuvm, loaduvm and clearpteu fail only after   *)
(* allocuvm has reported success for pages it could not map.                *)
ChecksHold == panic \notin {"no", "init exiting"} => torn
=============================================================================
