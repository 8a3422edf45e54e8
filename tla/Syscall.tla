------------------------------ MODULE Syscall -------------------------------
(***************************************************************************)
(* How a system call fetches its arguments (syscall.c), and the loop of     *)
(* sys_sleep on the wrapping tick counter (sysproc.c, trap.c).  Words are   *)
(* kept to their width: addresses and ticks count modulo WORD.              *)
(***************************************************************************)
EXTENDS Integers

CONSTANTS
  WORD,       \* 2^32
  KERNBASE,   \* p->sz stays below it (2^31)
  IntSize,    \* sizeof(int)
  MaxArg,     \* arguments of a call
  Naps,       \* arguments of sys_sleep, as the unsigned numbers of the comparison
  Late        \* ticks that may pass before a woken sleeper runs

VARIABLES
  sz,             \* proc->sz
  want, ok,       \* bytes that an argument stands for; whether the kernel takes it
  ticks, ticks0, n,
  elapsed,        \* ticks counted since sys_sleep read ticks0
  sleeping        \* in sys_sleep

args == <<want, ok>>
nap == <<ticks, ticks0, n, elapsed, sleeping>>
vars == <<sz, args, nap>>

Init ==
  /\ sz \in 0..(KERNBASE - 1) /\ want = {} /\ ok = FALSE
  /\ ticks \in 0..(WORD - 1)
  /\ ticks0 = 0 /\ n = 0 /\ elapsed = 0 /\ sleeping = FALSE

-----------------------------------------------------------------------------
M_InSpace_EndOnly(addr, size) == ~((addr + size) % WORD > sz)
InSpace(addr, size) == ~(addr >= sz \/ (addr + size) % WORD > sz)

fetchint(addr) == InSpace(addr, IntSize)

(* The search for the NUL, which lies at nul or nowhere below it.          *)
fetchstr(addr, nul) == addr < sz /\ nul < sz

Slot(esp, k) == (esp + IntSize + IntSize * k) % WORD
Word(a) == a..(a + IntSize - 1)

argint(esp, k) == want' = Word(Slot(esp, k)) /\ ok' = fetchint(Slot(esp, k))

(* The size of argptr is an int: the words from WORD / 2 on are negative.  *)
Signed(w) == IF w < WORD \div 2 THEN w ELSE w - WORD

(* The block of a positive size; for the sizes that are not (sys_read and  *)
(* sys_write pass on the n they were given), the bytes from where i + size  *)
(* points back to, up to i.                                                 *)
Block(i, size) == IF size > 0 THEN i..(i + size - 1) ELSE (i + size)..i

(* i and addr are the word that argint found.                              *)
argptr(esp, k, i, size) ==
  /\ want' = Word(Slot(esp, k)) \cup Block(i, Signed(size))
  /\ ok' = (fetchint(Slot(esp, k)) /\ InSpace(i, size))

argstr(esp, k, addr, nul) ==
  /\ want' = Word(Slot(esp, k)) \cup (addr..nul)
  /\ ok' = (fetchint(Slot(esp, k)) /\ fetchstr(addr, nul))

Fetch ==
  /\ ticks = 0 /\ want = {} /\ ~sleeping   \* once for each sz
  /\ \E esp \in 0..(WORD - 1), k \in 0..(MaxArg - 1) :
       \/ argint(esp, k)
       \/ \E i, size \in 0..(WORD - 1) : argptr(esp, k, i, size)
       \/ \E addr \in 0..(WORD - 1) : \E nul \in addr..WORD : argstr(esp, k, addr, nul)
  /\ UNCHANGED <<sz, nap>>

-----------------------------------------------------------------------------
sys_sleep ==
  /\ sz = 0 /\ ~sleeping /\ want = {}   \* once for each value of ticks
  /\ \E k \in Naps : n' = k
  /\ ticks0' = ticks /\ elapsed' = 0 /\ sleeping' = TRUE
  /\ UNCHANGED <<sz, args, ticks>>

(* while(ticks - ticks0 < n), each time the sleeper holds tickslock.       *)
MustSleep == (ticks - ticks0) % WORD < n

(* trap: a timer interrupt.                                                *)
Tick ==
  /\ sleeping /\ elapsed < n + Late
  /\ ticks' = (ticks + 1) % WORD
  /\ elapsed' = elapsed + 1
  /\ UNCHANGED <<sz, args, ticks0, n, sleeping>>

Wake ==
  /\ sleeping /\ ~MustSleep
  /\ ticks0' = 0 /\ n' = 0 /\ elapsed' = 0 /\ sleeping' = FALSE
  /\ UNCHANGED <<sz, args, ticks>>

Next == Fetch \/ sys_sleep \/ Tick \/ Wake \/ UNCHANGED vars

Spec == Init /\ [][Next]_vars

-----------------------------------------------------------------------------
(* The kernel takes an argument exactly when every byte it stands for (the  *)
(* word on the stack; the block of a positive size, or the string with its  *)
(* NUL, that the word points to) is below proc->sz, in spite of sums that   *)
(* wrap: it faults on no argument it has taken and refuses none that ends   *)
(* with the memory.  A size of zero or less is not refused as such: argptr  *)
(* takes it exactly when the pointer, and the address that i + size leads   *)
(* back to, lie in the memory, and what the call then does with its n is    *)
(* not settled here.                                                        *)
ArgsInside == want # {} => (ok <=> want \subseteq 0..(sz - 1))

(* sys_sleep returns only after its n ticks and never sleeps on after them, *)
(* wherever the counter wraps, as long as the sleeper runs again before the *)
(* counter has gone once around.                                            *)
SleepsItsTicks == sleeping => (MustSleep <=> elapsed < n)
=============================================================================
