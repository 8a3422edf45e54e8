------------------------------ MODULE Umalloc -------------------------------
(***************************************************************************)
(* The allocator of user programs, umalloc.c.  Addresses count headers; the *)
(* static header base lies below the heap.                                  *)
(***************************************************************************)
EXTENDS Integers, FiniteSets

CONSTANTS
  Bytes,        \* sizes that programs ask for
  HeaderSize,   \* sizeof(Header)
  More,         \* least number of units asked of sbrk (4096)
  Heap          \* units that sbrk can give

Base == 0
Bottom == 2     \* first address of the heap

VARIABLES
  ptr, size,    \* headers of the free blocks, base included
  freep,        \* Base from the first malloc on (it is 0 before)
  brk,          \* end of the heap
  live          \* blocks in use: <<address, units>>

vars == <<ptr, size, freep, brk, live>>

Init ==
  /\ ptr = [p \in {Base} |-> Base] /\ size = [p \in {Base} |-> 0]
  /\ freep = Base /\ brk = Bottom /\ live = {}

-----------------------------------------------------------------------------
(* A free list with its freep; free() as a function of it.                 *)
h0 == [ptr |-> ptr, size |-> size, freep |-> freep, brk |-> brk, at |-> 0]
Block(f, p, v) == [x \in DOMAIN f \cup {p} |-> IF x = p THEN v ELSE f[x]]
Without(f, p) == [x \in DOMAIN f \ {p} |-> f[x]]

RECURSIVE Place(_, _, _)
Place(h, p, bp) ==
  LET n == h.ptr[p]
  IN IF (bp > p /\ bp < n) \/ (p >= n /\ (bp > p \/ bp < n)) THEN p ELSE Place(h, n, bp)

M_JoinUpper_Never(h, bp, n, p) == [h EXCEPT !.ptr = Block(@, bp, h.ptr[p]), !.size = Block(@, bp, n)]
JoinUpper(h, bp, n, p) ==
  LET up == h.ptr[p]
  IN IF bp + n = up
     THEN [h EXCEPT !.ptr = Block(Without(@, up), bp, h.ptr[up]),
                    !.size = Block(Without(@, up), bp, n + h.size[up])]
     ELSE [h EXCEPT !.ptr = Block(@, bp, up), !.size = Block(@, bp, n)]

JoinLower(h, bp, p) ==
  IF p + h.size[p] = bp
  THEN [h EXCEPT !.ptr = [Without(@, bp) EXCEPT ![p] = h.ptr[bp]],
                 !.size = [Without(@, bp) EXCEPT ![p] = @ + h.size[bp]]]
  ELSE [h EXCEPT !.ptr[p] = bp]

Release(h, bp, n) ==
  LET p == Place(h, h.freep, bp)
  IN [JoinLower(JoinUpper(h, bp, n, p), bp, p) EXCEPT !.freep = p]

morecore(h, nu) ==
  LET n == IF nu < More THEN More ELSE nu
  IN IF h.brk + n > Bottom + Heap THEN [h EXCEPT !.at = -1]
     ELSE Release([h EXCEPT !.brk = @ + n], h.brk, n)

(* The first block that is large enough, cut at its upper end; at = 0 when *)
(* memory ran out.                                                         *)
Take(h, prev, p, nunits) ==
  IF h.size[p] = nunits
  THEN [h EXCEPT !.ptr = Without([@ EXCEPT ![prev] = h.ptr[p]], p),
                 !.size = Without(@, p), !.freep = prev, !.at = p]
  ELSE [h EXCEPT !.size[p] = @ - nunits, !.freep = prev, !.at = p + (h.size[p] - nunits)]

RECURSIVE Search(_, _, _, _)
Search(h, prev, p, nunits) ==
  IF h.size[p] >= nunits THEN Take(h, prev, p, nunits)
  ELSE IF p # h.freep THEN Search(h, p, h.ptr[p], nunits)
  ELSE LET m == morecore(h, nunits)
       IN IF m.at = -1 THEN [h EXCEPT !.at = 0]
          ELSE Search(m, m.freep, m.ptr[m.freep], nunits)

-----------------------------------------------------------------------------
Keep(h) == ptr' = h.ptr /\ size' = h.size /\ freep' = h.freep /\ brk' = h.brk

malloc(nbytes) ==
  LET nunits == ((nbytes + HeaderSize - 1) \div HeaderSize) + 1
      h == Search(h0, freep, ptr[freep], nunits)
  IN Keep(h) /\ live' = IF h.at = 0 THEN live ELSE live \cup {<<h.at, nunits>>}

free(b) == Keep(Release(h0, b[1], b[2])) /\ live' = live \ {b}

Next == (\E n \in Bytes : malloc(n)) \/ (\E b \in live : free(b))

Spec == Init /\ [][Next]_vars

-----------------------------------------------------------------------------
FreeBlocks == {<<p, size[p]>> : p \in DOMAIN ptr \ {Base}}
Units(b) == b[1]..(b[1] + b[2] - 1)

(* Whatever the order of malloc and free, every unit of the heap belongs to *)
(* one block, free or in use, and none to two.                              *)
HeapRight ==
  LET blocks == FreeBlocks \cup live
  IN /\ UNION {Units(b) : b \in blocks} = Bottom..(brk - 1)
     /\ \A b, c \in blocks : b # c => Units(b) \cap Units(c) = {}

(* The free list is a circle in address order, on which free() finds the    *)
(* place of every block, and no two blocks on it touch.                     *)
ListRight ==
  /\ freep \in DOMAIN ptr
  /\ \A p \in DOMAIN ptr :
       LET above == {x \in DOMAIN ptr : x > p}
       IN /\ above = {} => ptr[p] = Base
          /\ above # {} => ptr[p] \in above /\ \A x \in above : ptr[p] <= x
          /\ p # Base => p + size[p] \notin DOMAIN ptr
=============================================================================
