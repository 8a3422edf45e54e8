----------------------------- MODULE PipeProofs -----------------------------
(***************************************************************************)
(* pipe.c implements a bounded queue, and no sleeper misses a wakeup, for   *)
(* every number of readers and writers, every PIPESIZE and every width of   *)
(* the counters that is a multiple of it.  First the arithmetic of the ring, *)
(* then PipeInv, then the refinement.                                       *)
(***************************************************************************)
EXTENDS Pipe, SequenceTheorems, TLAPS

(* Division with remainder.                                                *)
LEMMA ModUnique ==
  ASSUME NEW b \in Nat \ {0}, NEW a \in Int, NEW k \in Int, NEW r \in 0..b - 1, a = k * b + r
  PROVE  a % b = r
OBVIOUS

(* Quotient and remainder exist.                                           *)
LEMMA ModRange ==
  ASSUME NEW b \in Nat \ {0}, NEW a \in Int
  PROVE  \E k \in Int, r \in 0..b - 1 : a = (k * b) + r /\ a % b = r
<1>1. a % b \in 0..b - 1 
  OBVIOUS
<1>2. a \div b \in Int /\ a = (a \div b) * b + (a % b)
  OBVIOUS
<1> QED
  BY <1>1, <1>2

(* The remainder of a counter that has wrapped at most once.               *)
LEMMA ModSmall ==
  ASSUME NEW b \in Nat \ {0}, NEW r \in 0..b - 1
  PROVE  r % b = r /\ (r + b) % b = r /\ (r - b) % b = r
OBVIOUS

(* A counter reduced before or after an addition: the same place.          *)
LEMMA ModAdd ==
  ASSUME NEW b \in Nat \ {0}, NEW a \in Int, NEW c \in Int
  PROVE  ((a % b) + c) % b = (a + c) % b
<1>1. PICK k \in Int, r \in 0..b - 1 : a = (k * b) + r /\ a % b = r
  BY ModRange
<1>2. PICK z \in Int : z = r + c
  OBVIOUS
<1>3. PICK m \in Int, s \in 0..b - 1 : z = (m * b) + s /\ z % b = s
  BY ModRange
<1>4. PICK y \in Int : y = a + c
  OBVIOUS
<1>5. y = (k + m) * b + s
  BY <1>1, <1>2, <1>3, <1>4
<1>6. y % b = s
  BY <1>5, ModUnique
<1> QED
  BY <1>1, <1>2, <1>3, <1>4, <1>6

(* The place of a counter in the ring does not depend on the wrap.         *)
LEMMA ModMod ==
  ASSUME NEW p \in Nat \ {0}, NEW m \in Nat \ {0}, NEW w \in Nat \ {0}, w = m * p, NEW a \in Int
  PROVE  (a % w) % p = a % p
<1>1. PICK k \in Int, r \in 0..w - 1 : a = (k * w) + r /\ a % w = r
  BY ONLY ModRange
<1>2. PICK j \in Int, s \in 0..p - 1 : r = (j * p) + s /\ r % p = s
  BY ONLY r \in Int, p \in Nat \ {0}, ModRange
<1>3. PICK n \in Int : n = k * m
  OBVIOUS
<1>4. k * w = n * p
  <2>1. k * (m * p) = (k * m) * p
    BY ONLY k \in Int, m \in Int, p \in Int
  <2> QED
    BY ONLY <1>3, <2>1, w = m * p
<1>5. a = (n + j) * p + s
  BY <1>1, <1>2, <1>4
<1>6. a % p = s
  BY <1>5, ModUnique
<1> QED
  BY <1>1, <1>2, <1>6

(* Counters less than PIPESIZE apart have different places.                *)
LEMMA ModDiff ==
  ASSUME NEW p \in Nat \ {0}, NEW a \in Int, NEW d \in 1..p - 1
  PROVE  (a + d) % p # a % p
<1> SUFFICES ASSUME (a + d) % p = a % p PROVE FALSE
  OBVIOUS
<1>1. PICK k \in Int, r \in 0..p - 1 : a = (k * p) + r /\ a % p = r
  BY ONLY ModRange
<1>2. PICK z \in Int : z = a + d
  OBVIOUS
<1>3. PICK m \in Int, s \in 0..p - 1 : z = (m * p) + s /\ z % p = s
  BY ModRange
<1>4. d = (m - k) * p
  BY <1>1, <1>2, <1>3
<1>5. CASE m - k <= 0
  BY <1>4, <1>5
<1>6. CASE m - k >= 1
  BY <1>4, <1>6
<1> QED
  BY <1>5, <1>6

-----------------------------------------------------------------------------
(* The place in data of a counter.                                         *)
Ix(x) == (x % Wrap) % PIPESIZE

(* What PipeAssumption says of processes, markers and writes.               *)
LEMMA Setting ==
  /\ \A p \in Reader : p \notin Writer
  /\ \A p \in Proc : p # None
  /\ None # "nread" /\ None # "nwrite"
  /\ \A s \in Writes : s \in Seq(Byte)
BY PipeAssumption

(* The ring is smaller than the range of the counters.                      *)
LEMMA Sizes ==
  PIPESIZE \in Nat \ {0} /\ Wrap \in Nat \ {0} /\ PIPESIZE < Wrap
<1>1. PICK m \in 2..Wrap : Wrap = m * PIPESIZE
  BY PipeAssumption
<1>2. /\ m \in Nat \ {0} /\ m >= 2 /\ PIPESIZE \in Nat \ {0} /\ Wrap \in Nat
  BY PipeAssumption
<1>3. m * PIPESIZE >= 2 * PIPESIZE
  BY <1>2
<1> QED
  BY <1>1, <1>2, <1>3

(* Places of the ring, of a counter that has advanced, and of two counters  *)
(* less than PIPESIZE apart.                                               *)
LEMMA IxFacts ==
  ASSUME NEW x \in Nat, NEW y \in Nat
  PROVE  /\ Ix(x) \in 0..PIPESIZE - 1
         /\ Ix((x % Wrap) + y) = Ix(x + y)
         /\ \A i, j \in 0..PIPESIZE - 1 : Ix(x + i) = Ix(x + j) => i = j
<1>1. PICK m \in Nat \ {0} : Wrap = m * PIPESIZE
  BY PipeAssumption
<1>2. \A a \in Int : (a % Wrap) % PIPESIZE = a % PIPESIZE
  BY <1>1, Sizes, ModMod, Zenon
<1>3. Ix(x) \in 0..PIPESIZE - 1
  BY <1>2, ModRange, Sizes DEF Ix
<1>4. Ix((x % Wrap) + y) = Ix(x + y)
  <2>1. x \in Int /\ y \in Int /\ Wrap \in Nat \ {0}
    BY Sizes
  <2>2. ((x % Wrap) + y) % Wrap = (x + y) % Wrap
    BY ONLY ModAdd, <2>1, Zenon
  <2> QED
    BY <2>2 DEF Ix
<1>5. ASSUME NEW i \in 0..PIPESIZE - 1, NEW j \in 0..PIPESIZE - 1, i < j
      PROVE  Ix(x + i) # Ix(x + j)
  <2>1. PICK a \in Int, d \in 1..PIPESIZE - 1 : a = x + i /\ d = j - i
    BY <1>5, Sizes
  <2>2. (a + d) % PIPESIZE # a % PIPESIZE
    BY Sizes, ModDiff
  <2>3. Ix(x + i) = a % PIPESIZE
    BY <1>2, <2>1 DEF Ix
  <2>4. PICK b \in Int : b = a + d
    OBVIOUS
  <2>5. Ix(x + j) = b % PIPESIZE
    <3>1. b = x + j
      BY <2>1, <2>4
    <3> QED
      BY <1>2, <3>1 DEF Ix
  <2> QED
    BY <2>2, <2>3, <2>4, <2>5
<1>6. ASSUME NEW i \in 0..PIPESIZE - 1, NEW j \in 0..PIPESIZE - 1, Ix(x + i) = Ix(x + j)
      PROVE  i = j
  BY <1>5, <1>6, Sizes
<1> QED
  BY <1>3, <1>4, <1>6

(* How many bytes lie between two counters, and after one of them moves.   *)
LEMMA Between ==
  ASSUME NEW r \in 0..Wrap - 1, NEW v \in 0..Wrap - 1, NEW n \in Nat, n = (v - r) % Wrap
  PROVE  /\ n \in 0..Wrap - 1 /\ v = (r + n) % Wrap
         /\ n = 0 => r = v
         /\ r = v => n = 0
         /\ \A k \in 0..Wrap - 1 :
              /\ (r + k) % Wrap \in 0..Wrap - 1 /\ (v + k) % Wrap \in 0..Wrap - 1
              /\ k <= n => (v - ((r + k) % Wrap)) % Wrap = n - k
              /\ n + k < Wrap => (((v + k) % Wrap) - r) % Wrap = n + k
<1>1. \A x \in 0..Wrap - 1 : x % Wrap = x /\ (x + Wrap) % Wrap = x /\ (x - Wrap) % Wrap = x
  BY ModSmall, Sizes
<1>2. \/ v >= r /\ n = v - r
      \/ v < r /\ n = v - r + Wrap
  <2>1. CASE v >= r
    <3>1. PICK x \in 0..Wrap - 1 : x = v - r
      BY <2>1, Sizes
    <3> QED
      BY <1>1, <2>1, <3>1
  <2>2. CASE v < r
    <3>1. PICK x \in 0..Wrap - 1 : x - Wrap = v - r
      BY <2>2, Sizes
    <3> QED
      BY <1>1, <2>2, <3>1, Sizes
  <2> QED
    BY <2>1, <2>2
<1>3. n \in 0..Wrap - 1 /\ (n = 0 <=> r = v)
  BY <1>2, Sizes
<1>4. ASSUME NEW x \in 0..Wrap - 1, NEW k \in 0..Wrap - 1
      PROVE  \E y \in 0..Wrap - 1 :
               /\ (x + k) % Wrap = y
               /\ x + k < Wrap => y = x + k
               /\ x + k >= Wrap => y = x + k - Wrap
  <2>1. CASE x + k < Wrap
    <3>1. PICK y \in 0..Wrap - 1 : y = x + k
      BY <2>1, Sizes
    <3> QED
      BY <1>1, <2>1, <3>1, Sizes
  <2>2. CASE x + k >= Wrap
    <3>1. PICK y \in 0..Wrap - 1 : y + Wrap = x + k
      BY <2>2, Sizes
    <3> QED
      BY <1>1, <2>2, <3>1, Sizes
  <2> QED
    BY <2>1, <2>2, Sizes
<1>5. v = (r + n) % Wrap
  <2>1. PICK y \in 0..Wrap - 1 :
          /\ (r + n) % Wrap = y
          /\ r + n < Wrap => y = r + n
          /\ r + n >= Wrap => y = r + n - Wrap
    BY <1>3, <1>4
  <2>2. v = y
    BY <1>2, <2>1, Sizes
  <2> QED
    BY <2>1, <2>2
<1>6. ASSUME NEW x \in 0..Wrap - 1, NEW y \in 0..Wrap - 1, NEW d \in 0..Wrap - 1,
             x - y = d \/ x - y = d - Wrap
      PROVE  (x - y) % Wrap = d
  BY <1>1, <1>6, Sizes
<1>7. ASSUME NEW k \in 0..Wrap - 1, k <= n
      PROVE  (v - ((r + k) % Wrap)) % Wrap = n - k
  <2>1. PICK y \in 0..Wrap - 1 :
          /\ (r + k) % Wrap = y
          /\ r + k < Wrap => y = r + k
          /\ r + k >= Wrap => y = r + k - Wrap
    BY <1>4
  <2>2. PICK d \in 0..Wrap - 1 : d = n - k
    BY <1>3, <1>7, Sizes
  <2>3. v - y = d \/ v - y = d - Wrap
    BY <1>2, <2>1, <2>2, Sizes
  <2> QED
    BY <1>6, <2>1, <2>2, <2>3
<1>8. ASSUME NEW k \in 0..Wrap - 1, n + k < Wrap
      PROVE  (((v + k) % Wrap) - r) % Wrap = n + k
  <2>1. PICK y \in 0..Wrap - 1 :
          /\ (v + k) % Wrap = y
          /\ v + k < Wrap => y = v + k
          /\ v + k >= Wrap => y = v + k - Wrap
    BY <1>4
  <2>2. PICK d \in 0..Wrap - 1 : d = n + k
    BY <1>3, <1>8, Sizes
  <2>3. y - r = d \/ y - r = d - Wrap
    BY <1>2, <2>1, <2>2, Sizes
  <2>4. (y - r) % Wrap = d
    BY ONLY <1>6, <2>3, r \in 0..Wrap - 1
  <2> QED
    BY ONLY <2>1, <2>2, <2>4, Zenon
<1>9. ASSUME NEW k \in 0..Wrap - 1
      PROVE  (r + k) % Wrap \in 0..Wrap - 1 /\ (v + k) % Wrap \in 0..Wrap - 1
  BY ONLY <1>4, Zenon
<1> QED
  BY ONLY <1>3, <1>5, <1>7, <1>8, <1>9, Zenon

-----------------------------------------------------------------------------
(* The bytes of the pipe before and after a step, with counters that are     *)
(* numbers.                                                                *)
LEMMA Prefix ==
  ASSUME NEW S, NEW s \in Seq(S), NEW k \in Nat, k <= Len(s)
  PROVE  /\ SubSeq(s, 1, k) \in Seq(S) /\ Len(SubSeq(s, 1, k)) = k
         /\ \A i \in 1..k : SubSeq(s, 1, k)[i] = s[i]
  OBVIOUS

(* The counters of the pipe tell how many bytes it holds, and that it is    *)
(* empty or full.                                                           *)
LEMMA Counted ==
  ASSUME PipeInv
  PROVE  /\ Count \in 0..PIPESIZE /\ Room \in 0..PIPESIZE /\ Room = PIPESIZE - Count
         /\ Contents \in Seq(Byte) /\ Len(Contents) = Count
         /\ nwrite = (nread + Count) % Wrap
         /\ Count = 0 <=> nread = nwrite
         /\ Count = PIPESIZE <=> Full
<1>1. PICK r \in 0..Wrap - 1, v \in 0..Wrap - 1 : r = nread /\ v = nwrite
  BY DEF PipeInv, TypeOK
<1>2. PICK n \in Nat : n = (v - r) % Wrap /\ n = Count
  BY <1>1, ModRange, Sizes DEF Count
<1>3. /\ n \in 0..Wrap - 1 /\ v = (r + n) % Wrap /\ (n = 0 <=> r = v)
  <2>1. n = (v - r) % Wrap
    BY <1>2
  <2>2. n \in 0..Wrap - 1
    BY <2>1, Between
  <2>3. v = (r + n) % Wrap
    BY <2>1, Between
  <2>4. n = 0 => r = v
    BY <2>1, Between
  <2>5. r = v => n = 0
    BY <2>1, Between
  <2> QED
    BY <2>2, <2>3, <2>4, <2>5
<1>4. n \in 0..PIPESIZE
  BY <1>2, Sizes DEF PipeInv
<1>5. n = PIPESIZE <=> Full
  <2>1. ASSUME Full PROVE n = PIPESIZE
    <3>1. v = (r + PIPESIZE) % Wrap
      BY <1>1, <2>1 DEF Full
    <3>2. PICK z \in 0..Wrap - 1 : z = 0 /\ z = (r - r) % Wrap
      BY ModSmall, Sizes
    <3>3. PIPESIZE \in 0..Wrap - 1
      BY Sizes
    <3>4. (((r + PIPESIZE) % Wrap) - r) % Wrap = z + PIPESIZE
      BY <3>2, <3>3, Between, Sizes
    <3> QED
      BY <1>2, <3>1, <3>2, <3>4, Sizes
  <2>2. ASSUME n = PIPESIZE PROVE Full
    BY <1>1, <1>3, <2>2 DEF Full
  <2> QED
    BY <2>1, <2>2
<1>6. \A i \in 1..n : data[Ix(nread + i - 1)] \in Byte
  <2> SUFFICES ASSUME NEW i \in 1..n PROVE data[Ix(nread + i - 1)] \in Byte
    OBVIOUS
  <2>1. PICK x \in Nat : x = nread + i - 1
    BY <1>1
  <2>2. Ix(x) \in 0..PIPESIZE - 1
    BY IxFacts
  <2> QED
    BY <2>1, <2>2 DEF PipeInv, TypeOK
<1>7. Contents = [i \in 1..n |-> data[Ix(nread + i - 1)]]
  BY <1>2 DEF Contents, Ix
<1>8. Contents \in Seq(Byte) /\ Len(Contents) = n
  BY <1>6, <1>7
<1> QED
  BY <1>1, <1>2, <1>3, <1>4, <1>5, <1>8, Sizes DEF Room

(* What makes a sequence the concatenation of two.                         *)
LEMMA Joined ==
  ASSUME NEW S, NEW q \in Seq(S), NEW t \in Seq(S), NEW f \in Seq(S), Len(f) = Len(q) + Len(t),
         \A i \in 1..Len(q) : f[i] = q[i], \A i \in 1..Len(t) : f[Len(q) + i] = t[i]
  PROVE  f = q \o t
<1>1. /\ q \o t \in Seq(S) /\ Len(q \o t) = Len(q) + Len(t)
      /\ \A i \in 1..Len(q) + Len(t) : (q \o t)[i] = IF i <= Len(q) THEN q[i] ELSE t[i - Len(q)]
  BY ConcatProperties
<1>2. PICK m \in Nat, n \in Nat : m = Len(q) /\ n = Len(t)
  OBVIOUS
<1>3. ASSUME NEW i \in 1..m + n
      PROVE  f[i] = (q \o t)[i]
  <2>1. CASE i <= m
    BY <1>1, <1>2, <2>1
  <2>2. CASE i > m
    <3>1. PICK j \in 1..n : j = i - m
      BY <2>2
    <3>2. Len(q) + j = i /\ i \in 1..Len(q) + Len(t) /\ ~(i <= Len(q)) /\ i - Len(q) = j
      BY <1>2, <2>2, <3>1
    <3>3. f[Len(q) + j] = t[j]
      BY <1>2
    <3>4. (q \o t)[i] = t[i - Len(q)]
      BY <1>1, <3>2
    <3> QED
      BY <3>2, <3>3, <3>4
  <2>3. i <= m \/ i > m
    OBVIOUS
  <2> QED
    BY ONLY <2>1, <2>2, <2>3
<1> QED
  BY <1>1, <1>2, <1>3, SeqEqual

(* The copying loop of pipewrite appends what it copies.                   *)
LEMMA CopyAppends ==
  ASSUME PipeInv, NEW p \in Writer, Copy(p), nread' = nread
  PROVE  /\ Copied(p) \in 0..Room /\ Copied(p) <= Len(rest[p])
         /\ Contents' = Contents \o SubSeq(rest[p], 1, Copied(p))
         /\ Count' = Count + Copied(p)
         /\ nwrite' \in 0..Wrap - 1 /\ data' \in [0..PIPESIZE - 1 -> Byte]
         /\ Copied(p) = 0 => nwrite' = nwrite
         /\ Copied(p) = Room => Full'
<1>1. PICK r \in 0..Wrap - 1, v \in 0..Wrap - 1 : r = nread /\ v = nwrite
  BY DEF PipeInv, TypeOK
<1>2. PICK n \in 0..PIPESIZE : n = Count /\ v = (r + n) % Wrap
  BY <1>1, Counted
<1>3. rest[p] \in Seq(Byte)
  BY DEF PipeInv, TypeOK
<1>4. PICK s \in Seq(Byte) : s = rest[p]
  BY <1>3
<1>5. PICK k \in 0..PIPESIZE : k = Copied(p) /\ k <= Len(s) /\ n + k <= PIPESIZE
  <2>1. PIPESIZE \in Nat /\ Len(s) \in Nat
    BY Sizes
  <2>2. Copied(p) = IF Len(s) <= PIPESIZE - n THEN Len(s) ELSE PIPESIZE - n
    BY ONLY <1>2, <1>4 DEF Copied, Room
  <2> QED
    BY ONLY <2>1, <2>2
<1>6. n = (v - r) % Wrap
  BY ONLY <1>1, <1>2 DEF Count
<1>7. nwrite' = (v + k) % Wrap /\ nwrite' \in 0..Wrap - 1 /\ Count' = n + k
  <2>1. k \in 0..Wrap - 1 /\ n + k < Wrap /\ n \in Nat
    BY <1>5, Sizes
  <2>2. /\ (v + k) % Wrap \in 0..Wrap - 1
        /\ (((v + k) % Wrap) - r) % Wrap = n + k
    BY <1>6, <2>1, Between
  <2> QED
    BY <1>1, <1>5, <2>2 DEF Copy, Count
<1>8. ASSUME NEW i \in 1..k
      PROVE  ((nwrite + i - 1) % Wrap) % PIPESIZE = Ix(r + n + i - 1)
  <2>1. PICK x \in Nat, y \in Nat : x = r + n /\ y = i - 1
    BY <1>2
  <2>2. Ix((x % Wrap) + y) = Ix(x + y)
    BY IxFacts
  <2>3. (nwrite + i - 1) = (x % Wrap) + y
    BY <1>1, <1>2, <2>1
  <2>4. x + y = r + n + i - 1
    BY <2>1
  <2> QED
    BY <2>2, <2>3, <2>4 DEF Ix
<1>9. ASSUME NEW i \in 1..n + k, NEW j \in 1..n + k, Ix(r + i - 1) = Ix(r + j - 1)
      PROVE  i = j
  <2>1. PICK a \in 0..PIPESIZE - 1, b \in 0..PIPESIZE - 1 : a = i - 1 /\ b = j - 1
    BY <1>5, Sizes
  <2>2. Ix(r + a) = Ix(r + b)
    <3>1. r + a = r + i - 1 /\ r + b = r + j - 1
      BY <2>1
    <3> QED
      BY <1>9, <3>1
  <2>3. r \in Nat
    BY Sizes
  <2>4. a = b
    BY ONLY r \in Nat, 0 \in Nat, <2>2, <2>3, IxFacts, a \in 0..PIPESIZE - 1, b \in
       0..PIPESIZE - 1, Zenon
  <2> QED
    BY <2>1, <2>4
<1>10. \A i \in 1..n + k : Ix(r + i - 1) \in 0..PIPESIZE - 1
  <2> SUFFICES ASSUME NEW i \in 1..n + k PROVE Ix(r + i - 1) \in 0..PIPESIZE - 1
    OBVIOUS
  <2>1. PICK x \in Nat : x = r + i - 1
    OBVIOUS
  <2> QED
    BY <2>1, IxFacts
<1>11. /\ \A i \in 1..n : data'[Ix(r + i - 1)] = data[Ix(r + i - 1)]
       /\ \A i \in 1..k : data'[Ix(r + n + i - 1)] = s[i]
       /\ data' \in [0..PIPESIZE - 1 -> Byte]
  <2>1. DOMAIN data = 0..PIPESIZE - 1 /\ \A j \in 0..PIPESIZE - 1 : data[j] \in Byte
    BY DEF PipeInv, TypeOK
  <2>2. data' = [j \in 0..PIPESIZE - 1 |->
                   IF \E i \in 1..k : Ix(r + n + i - 1) = j
                   THEN s[CHOOSE i \in 1..k : Ix(r + n + i - 1) = j] ELSE data[j]]
    <3> DEFINE Was(i) == ((nwrite + i - 1) % Wrap) % PIPESIZE
               Is(i) == Ix(r + n + i - 1)
    <3>1. \A i \in 1..k : Was(i) = Is(i)
      BY <1>8
    <3>2. data' = [j \in 0..PIPESIZE - 1 |-> IF \E i \in 1..k : Was(i) = j
                                          THEN s[CHOOSE i \in 1..k : Was(i) = j] ELSE data[j]]
      BY <1>4, <1>5, <2>1, Zenon DEF Copy
    <3> HIDE DEF Was, Is
    <3>3. \A j : (CHOOSE i \in 1..k : Was(i) = j) = CHOOSE i \in 1..k : Is(i) = j
      BY <3>1
    <3>4. data' = [j \in 0..PIPESIZE - 1 |-> IF \E i \in 1..k : Is(i) = j
                                          THEN s[CHOOSE i \in 1..k : Is(i) = j] ELSE data[j]]
      BY <3>1, <3>2, <3>3
    <3> QED
      BY <3>4 DEF Is
  <2>3. ASSUME NEW i \in 1..k
        PROVE  data'[Ix(r + n + i - 1)] = s[i]
    <3>1. PICK j \in 0..PIPESIZE - 1 : j = Ix(r + n + i - 1)
      <4>1. PICK h \in 1..n + k : h = n + i
        OBVIOUS
      <4>2. r + h - 1 = r + n + i - 1
        BY <4>1
      <4> QED
        BY <1>10, <4>2
    <3>2. \A i2 \in 1..k : Ix(r + n + i2 - 1) = j => i2 = i
      <4> SUFFICES ASSUME NEW i2 \in 1..k, Ix(r + n + i2 - 1) = j PROVE i2 = i
        OBVIOUS
      <4>1. PICK h \in 1..n + k, h2 \in 1..n + k : h = n + i /\ h2 = n + i2
        OBVIOUS
      <4>2. r + h - 1 = r + n + i - 1 /\ r + h2 - 1 = r + n + i2 - 1
        BY <4>1
      <4>3. h = h2
        BY <1>9, <3>1, <4>2
      <4> QED
        BY <4>1, <4>3
    <3>3. (CHOOSE i2 \in 1..k : Ix(r + n + i2 - 1) = j) = i
      BY <3>1, <3>2
    <3> QED
      BY ONLY <2>2, <3>1, <3>3
  <2>4. ASSUME NEW i \in 1..n
        PROVE  data'[Ix(r + i - 1)] = data[Ix(r + i - 1)]
    <3>1. PICK j \in 0..PIPESIZE - 1 : j = Ix(r + i - 1)
      <4>1. i \in 1..n + k
        OBVIOUS
      <4> QED
        BY ONLY <1>10, <4>1
    <3>2. \A i2 \in 1..k : Ix(r + n + i2 - 1) # j
      <4> SUFFICES ASSUME NEW i2 \in 1..k, Ix(r + n + i2 - 1) = j PROVE FALSE
        OBVIOUS
      <4>1. PICK h \in 1..n + k, h2 \in 1..n + k : h = i /\ h2 = n + i2
        OBVIOUS
      <4>2. r + h - 1 = r + i - 1 /\ r + h2 - 1 = r + n + i2 - 1
        BY <4>1
      <4>3. h = h2
        BY <1>9, <3>1, <4>2, Zenon
      <4> QED
        BY <4>1, <4>3
    <3> QED
      BY <2>2, <3>1, <3>2
  <2>5. \A j \in 0..PIPESIZE - 1 : data'[j] \in Byte
    <3> SUFFICES ASSUME NEW j \in 0..PIPESIZE - 1 PROVE data'[j] \in Byte
      OBVIOUS
    <3>1. CASE \E i \in 1..k : Ix(r + n + i - 1) = j
      <4>1. PICK i \in 1..k : Ix(r + n + i - 1) = j
        BY ONLY <3>1
      <4>2. data'[j] = s[i]
        BY <2>3, <4>1, Zenon
      <4> QED
        BY <1>5, <4>2
    <3>2. CASE ~\E i \in 1..k : Ix(r + n + i - 1) = j
      BY ONLY <2>1, <2>2, <3>2
    <3> QED
      BY <3>1, <3>2
  <2> QED
    BY <2>2, <2>3, <2>4, <2>5
<1>12. Contents' = Contents \o SubSeq(s, 1, k)
  <2>1. PICK q \in Seq(Byte) : q = Contents /\ Len(q) = n
    BY <1>2, Counted
  <2>2. q = [i \in 1..n |-> data[Ix(r + i - 1)]]
    BY <1>1, <1>2, <2>1 DEF Contents, Ix
  <2>3. Contents' = [i \in 1..n + k |-> data'[Ix(r + i - 1)]]
    BY <1>1, <1>7 DEF Contents, Ix
  <2>4. \A i \in 1..n + k : data'[Ix(r + i - 1)] \in Byte
    BY <1>10, <1>11
  <2>5. PICK f \in Seq(Byte) : f = Contents' /\ Len(f) = n + k
    <3>1. Contents' \in Seq(Byte) /\ Len(Contents') = n + k
      BY <2>3, <2>4, n + k \in Nat
    <3> QED
      BY <3>1
  <2>6. PICK t \in Seq(Byte) : t = SubSeq(s, 1, k) /\ Len(t) = k /\ \A i \in 1..k : t[i] = s[i]
    <3>1. /\ SubSeq(s, 1, k) \in Seq(Byte) /\ Len(SubSeq(s, 1, k)) = k
          /\ \A i \in 1..k : SubSeq(s, 1, k)[i] = s[i]
      <4>1. k \in Nat /\ k <= Len(s)
        BY ONLY <1>5
      <4> QED
        BY ONLY <4>1, Prefix
    <3> QED
      BY <3>1, Zenon
  <2>7. \A i \in 1..n : f[i] = q[i]
    BY <1>11, <2>2, <2>3, <2>5
  <2>8. ASSUME NEW i \in 1..k
        PROVE  f[n + i] = t[i]
    <3>1. r + n + i - 1 = r + (n + i) - 1 /\ n + i \in 1..n + k
      OBVIOUS
    <3>2. data'[Ix(r + (n + i) - 1)] = s[i]
      BY <1>11, <3>1
    <3> QED
      BY <2>3, <2>5, <2>6, <3>1, <3>2
  <2>9. f = q \o t
    <3>1. /\ Len(f) = Len(q) + Len(t)
          /\ \A i \in 1..Len(q) : f[i] = q[i]
          /\ \A i \in 1..Len(t) : f[Len(q) + i] = t[i]
      BY ONLY <2>1, <2>5, <2>6, <2>7, <2>8
    <3> QED
      BY ONLY <3>1, Joined, q \in Seq(Byte), t \in Seq(Byte), f \in Seq(Byte)
  <2> QED
    BY <2>1, <2>5, <2>6, <2>9
<1>13. k \in 0..Room
  BY <1>2, <1>5, Counted, Sizes
<1>14. ASSUME k = 0 PROVE nwrite' = nwrite
  <2>1. v + k = v
    BY <1>14
  <2>2. v % Wrap = v
    BY ModSmall, Sizes
  <2> QED
    BY <1>1, <1>7, <2>1, <2>2
<1>15. k = PIPESIZE - n => Full'
  <2>1. PICK x \in Int : x = r + n
    BY Sizes
  <2>2. ((x % Wrap) + k) % Wrap = (x + k) % Wrap
    <3>1. x \in Int /\ k \in Int /\ Wrap \in Nat \ {0}
      BY Sizes
    <3> QED
      BY ONLY <3>1, ModAdd, Zenon
  <2>3. k = PIPESIZE - n => x + k = r + PIPESIZE
    BY ONLY <2>1, Sizes, PipeInv
  <2> QED
    BY <1>1, <1>2, <1>7, <2>1, <2>2, <2>3 DEF Full
<1> QED
  BY ONLY <1>2, <1>4, <1>5, <1>7, <1>11, <1>12, <1>13, <1>14, <1>15 DEF Room

(* The copying loop of piperead removes what it copies.                    *)
LEMMA ReadTakes ==
  ASSUME PipeInv, NEW k \in Nat, k <= Count, nread' = (nread + k) % Wrap, UNCHANGED <<nwrite, data>>
  PROVE  /\ nread' \in 0..Wrap - 1 /\ Count' = Count - k
         /\ Contents' = SubSeq(Contents, k + 1, Len(Contents))
<1>1. PICK r \in 0..Wrap - 1, v \in 0..Wrap - 1 : r = nread /\ v = nwrite
  BY DEF PipeInv, TypeOK
<1>2. PICK n \in 0..PIPESIZE : n = Count /\ n = (v - r) % Wrap
  BY <1>1, Counted DEF Count
<1>3. k \in 0..n /\ k \in 0..Wrap - 1
  BY <1>2, Sizes
<1>4. /\ (r + k) % Wrap \in 0..Wrap - 1
      /\ (v - ((r + k) % Wrap)) % Wrap = n - k
  <2>1. n \in Nat /\ k <= n /\ n = (v - r) % Wrap /\ k \in 0..Wrap - 1
    BY <1>2, <1>3
  <2> QED
    BY <2>1, Between
<1>5. nread' \in 0..Wrap - 1 /\ Count' = n - k
  BY <1>1, <1>4 DEF Count
<1>6. PICK q \in Seq(Byte) : q = Contents /\ Len(q) = n
  BY <1>2, Counted
<1>7. q = [i \in 1..n |-> data[Ix(r + i - 1)]]
  BY <1>1, <1>2, <1>6 DEF Contents, Ix
<1>8. ASSUME NEW i \in 1..n - k
      PROVE  Ix(nread' + i - 1) = Ix(r + (k + i) - 1) /\ k + i \in 1..n
  <2>1. PICK x \in Nat, y \in Nat : x = r + k /\ y = i - 1
    OBVIOUS
  <2>2. Ix((x % Wrap) + y) = Ix(x + y)
    BY IxFacts
  <2>3. nread' + i - 1 = (x % Wrap) + y /\ x + y = r + (k + i) - 1
    BY <1>1, <1>4, <2>1
  <2> QED
    BY ONLY <1>3, <2>2, <2>3, PipeInv
<1>9. Contents' = [i \in 1..n - k |-> q[k + i]]
  <2>1. Contents' = [i \in 1..n - k |-> data[Ix(nread' + i - 1)]]
    BY <1>5 DEF Contents, Ix
  <2> QED
    BY ONLY <1>7, <1>8, <2>1
<1>10. SubSeq(q, k + 1, n) = [i \in 1..n - k |-> q[k + i]]
  BY <1>3, <1>6
<1> QED
  BY <1>2, <1>5, <1>6, <1>9, <1>10

(* Steps that leave the ring alone.                                        *)
LEMMA RingKept ==
  ASSUME UNCHANGED ring
  PROVE  Count' = Count /\ Contents' = Contents /\ (Full' <=> Full)
BY DEF ring, Count, Contents, Full

-----------------------------------------------------------------------------
FifoStep == [Queue!Next]_(Queue!vars)

(* A step that changes no byte and no end of the pipe is a stutter of Fifo. *)
LEMMA FifoSame ==
  ASSUME Contents' = Contents, UNCHANGED <<writeopen, got, eof>>
  PROVE  FifoStep
BY DEF FifoStep, Queue!vars

(* A call starts.                                                          *)
LEMMA CallStep ==
  ASSUME PipeInv, NEW p \in Proc,
         \/ p \in Writer /\ \E s \in Writes : WriteCall(p, s)
         \/ p \in Reader /\ ReadCall(p)
  PROVE  PipeInv' /\ FifoStep
<1>1. /\ UNCHANGED <<ring, ends, lock, chan, killed>> /\ pc[p] = "user"
      /\ \/ p \in Writer /\ pc' = [pc EXCEPT ![p] = "write"] /\ UNCHANGED <<got, eof>>
            /\ \E s \in Writes : rest' = [rest EXCEPT ![p] = s]
         \/ p \in Reader /\ pc' = [pc EXCEPT ![p] = "read"] /\ UNCHANGED rest
            /\ got' = [got EXCEPT ![p] = <<>>] /\ eof' = eof \ {p}
  BY DEF WriteCall, ReadCall, Goto
<1>2. /\ Count' = Count /\ Contents' = Contents /\ (Full' <=> Full)
      /\ UNCHANGED <<nread, nwrite, data, readopen, writeopen, lock, chan, killed>>
  BY <1>1, RingKept DEF ring, ends
<1>3. TypeOK /\ Placed /\ NoWakeupMissed /\ Count <= PIPESIZE
  BY DEF PipeInv
<1>4. rest' \in [Writer -> Seq(Byte)] /\ got' \in [Reader -> Seq(Byte)]
  <2>1. rest \in [Writer -> Seq(Byte)] /\ got \in [Reader -> Seq(Byte)] /\ <<>> \in Seq(Byte)
    BY <1>3 DEF TypeOK
  <2>2. rest' \in [Writer -> Seq(Byte)]
    BY ONLY <1>1, <2>1, Setting
  <2>3. got' = got \/ got' = [got EXCEPT ![p] = <<>>]
    BY <1>1
  <2>4. got' \in [Reader -> Seq(Byte)]
    BY ONLY <2>1, <2>3
  <2> QED
    BY <2>2, <2>4
<1>5. TypeOK'
  BY <1>1, <1>2, <1>3, <1>4 DEF TypeOK
<1>6. \A a \in Reader : a # p => got'[a] = got[a]
  BY <1>1, <1>3, Zenon DEF TypeOK
<1>7. p \in Reader => got'[p] = <<>> /\ pc'[p] = "read" 
  BY <1>1, <1>3, Setting DEF TypeOK
<1>8. p \in Writer => pc'[p] = "write" 
  BY ONLY <1>1, <1>3, Setting DEF TypeOK
<1>9. pc[p] = "user" /\ \A a \in Proc : a # p => pc'[a] = pc[a]
  BY <1>1, <1>3, Zenon DEF TypeOK
<1>10. chan[p] # "nread" /\ chan[p] # "nwrite" /\ lock # p
  BY <1>3, <1>9 DEF Placed
<1>11. Placed'
  BY ONLY <1>2, <1>3, <1>6, <1>7, <1>8, <1>9, <1>10 DEF Placed, Proc
<1>12. NoWakeupMissed'
  BY <1>2, <1>3 DEF NoWakeupMissed
<1>13. FifoStep
  <2>1. CASE UNCHANGED <<got, eof>>
    BY <1>2, <2>1, FifoSame
  <2>2. CASE p \in Reader /\ got' = [got EXCEPT ![p] = <<>>] /\ eof' = eof \ {p}
    BY ONLY <1>2, <2>2 DEF FifoStep, Queue!Next, Queue!Start
  <2> QED
    BY <1>1, <2>1, <2>2
<1> QED
  BY <1>2, <1>3, <1>5, <1>11, <1>12, <1>13 DEF PipeInv

(* What a copying step leaves: a full ring stays full, and the bytes copied  *)
(* are put in the queue at once.                                           *)
LEMMA CopyPuts ==
  ASSUME PipeInv, NEW p \in Writer, pc[p] = "write", Copy(p), UNCHANGED <<nread, writeopen, got, eof>>
  PROVE  (Full => Full') /\ Count' <= PIPESIZE /\ FifoStep
<1>1. /\ Copied(p) \in 0..Room /\ Copied(p) <= Len(rest[p]) /\ Room = PIPESIZE - Count
      /\ Contents' = Contents \o SubSeq(rest[p], 1, Copied(p))
      /\ Count' = Count + Copied(p) /\ Count \in 0..PIPESIZE
      /\ Copied(p) = 0 => nwrite' = nwrite
      /\ Copied(p) = Room => Full'
  BY CopyAppends, Counted
<1>2. Full => Full'
  <2>1. Full => Room = 0
    BY <1>1, Counted, Sizes
  <2> QED
    BY <1>1, <2>1
<1>3. Count' <= PIPESIZE
  BY <1>1, Sizes
<1>4. PICK q \in Seq(Byte), t \in Seq(Byte) : q = Contents /\ Len(q) = Count /\ t = rest[p]
  BY Counted, Zenon DEF PipeInv, TypeOK
<1>5. PICK k \in 0..PIPESIZE - Len(q) : k = Copied(p)
  BY <1>1, <1>4, Zenon
<1>6. CASE k = 0
  <2>1. SubSeq(t, 1, k) = <<>>
    BY <1>6
  <2>2. q \o <<>> = q
    OBVIOUS
  <2> QED
    BY <1>1, <1>2, <1>3, <1>4, <1>5, <2>1, <2>2, FifoSame
<1>7. CASE k > 0
  <2>1. k <= Len(t)
    BY <1>1, <1>4, <1>5, Zenon
  <2>2. PICK u \in [1..k -> Byte] : u = SubSeq(t, 1, k)
    <3>1. PICK u \in Seq(Byte) : u = SubSeq(t, 1, k)
      <4>1. SubSeq(t, 1, k) \in Seq(Byte)
        BY <1>7, <2>1
      <4> QED
        BY ONLY <4>1, PipeInv
    <3>2. Len(u) = k
      BY <2>1, <3>1
    <3>3. u \in [1..k -> Byte]
      BY <3>2
    <3> QED
      BY ONLY <3>1, <3>3, Zenon
  <2>3. k \in 1..PIPESIZE - Len(Contents) /\ Contents' = Contents \o u
    BY ONLY <1>1, <1>4, <1>5, <1>7, <2>2
  <2>4. writeopen
    BY DEF PipeInv, Placed, Proc
  <2>5. Queue!Put
    BY <2>3, <2>4, Zenon DEF Queue!Put
  <2> QED
    BY <1>2, <1>3, <2>5 DEF FifoStep, Queue!Next
<1> QED
  BY <1>2, <1>3, <1>5, <1>6, <1>7

(* A write copies all it has left, and returns.                            *)
LEMMA WriteAllStep ==
  ASSUME PipeInv, NEW p \in Writer, WriteAll(p)
  PROVE  PipeInv' /\ FifoStep
<1>1. /\ pc[p] = "write" /\ chan[p] = None /\ lock = None /\ Copy(p) /\ p \in Proc
      /\ rest' = [rest EXCEPT ![p] = <<>>] /\ chan' = Woken("nread")
      /\ pc' = [pc EXCEPT ![p] = "user"]
      /\ UNCHANGED <<nread, readopen, writeopen, lock, killed, got, eof>>
  BY DEF WriteAll, Ready, Goto, ends, Proc
<1>2. TypeOK /\ Placed /\ NoWakeupMissed
  BY DEF PipeInv
<1>3. (Full => Full') /\ Count' <= PIPESIZE /\ FifoStep
  BY <1>1, CopyPuts
<1>4. nwrite' \in 0..Wrap - 1 /\ data' \in [0..PIPESIZE - 1 -> Byte]
  BY <1>1, CopyAppends
<1>5. \A a \in Proc : chan'[a] # "nread" /\ (chan'[a] = "nwrite" => chan[a] = "nwrite")
  BY ONLY <1>1, Setting DEF Woken
<1>6. pc'[p] = "user" /\ \A a \in Proc : a # p => pc'[a] = pc[a]
  BY <1>1, <1>2 DEF TypeOK
<1>7. \A a \in Proc : lock # a
  BY ONLY <1>1, Setting
<1>8. TypeOK'
  <2>1. rest' \in [Writer -> Seq(Byte)]
    <3>1. rest \in [Writer -> Seq(Byte)] /\ <<>> \in Seq(Byte)
      BY <1>2 DEF TypeOK
    <3> QED
      BY <1>1, <3>1
  <2>2. chan' \in [Proc -> {"nread", "nwrite", None}]
    BY ONLY <1>1, <1>2 DEF TypeOK, Woken
  <2> QED
    BY <1>1, <1>2, <1>4, <2>1, <2>2 DEF TypeOK
<1>9. Placed'
  <2>1. chan'[p] # "nread" /\ chan'[p] # "nwrite"
    BY <1>1, <1>5, Setting, Zenon
  <2>2. \A a \in Proc : lock' # a /\ pc[a] # "wsleep" /\ pc[a] # "rsleep"
    BY <1>1, <1>2, <1>7, Zenon DEF Placed
  <2> QED
    BY ONLY <1>1, <1>2, <1>5, <1>6, <2>1, <2>2, PipeInv DEF Placed
<1>10. NoWakeupMissed'
  BY <1>1, <1>2, <1>3, <1>5 DEF NoWakeupMissed
<1> QED
  BY ONLY <1>3, <1>8, <1>9, <1>10 DEF PipeInv

(* A write fills the pipe: it returns, or decides to sleep.                *)
LEMMA WriteSomeStep ==
  ASSUME PipeInv, NEW p \in Writer, WriteSome(p)
  PROVE  PipeInv' /\ FifoStep
<1>1. /\ pc[p] = "write" /\ chan[p] = None /\ lock = None /\ Copy(p) /\ p \in Proc
      /\ Copied(p) < Len(rest[p])
      /\ UNCHANGED <<nread, readopen, writeopen, killed, got, eof>>
  BY Zenon DEF WriteSome, Ready, ends, Proc
<1>2. TypeOK /\ Placed /\ NoWakeupMissed
  BY DEF PipeInv
<1>3. Full' /\ Count' <= PIPESIZE /\ FifoStep
  <2>1. Copied(p) = Room
    BY ONLY <1>1, PipeInv DEF Copied
  <2> QED
    BY <1>1, <2>1, CopyPuts, CopyAppends, Zenon
<1>4. nwrite' \in 0..Wrap - 1 /\ data' \in [0..PIPESIZE - 1 -> Byte]
  BY <1>1, CopyAppends
<1>5. \A a \in Proc : lock # a
  BY <1>1, Setting
<1>6. PICK t \in Seq(Byte) : t = rest[p]
  BY <1>2 DEF TypeOK
<1>7. CASE ~readopen \/ p \in killed
  <2>1. /\ pc' = [pc EXCEPT ![p] = "user"] /\ UNCHANGED <<chan, lock>>
        /\ rest' = [rest EXCEPT ![p] = <<>>]
    BY <1>7 DEF WriteSome, Goto
  <2>2. pc'[p] = "user" /\ \A a \in Proc : a # p => pc'[a] = pc[a]
    BY <1>1, <1>2, <2>1, Zenon DEF TypeOK
  <2>3. TypeOK'
    <3>1. rest' \in [Writer -> Seq(Byte)]
      <4>1. rest \in [Writer -> Seq(Byte)] /\ <<>> \in Seq(Byte)
        BY ONLY <1>2 DEF TypeOK
      <4> QED
        BY <2>1, <4>1
    <3> QED
      BY <1>1, <1>2, <1>4, <2>1, <3>1 DEF TypeOK
  <2>4. Placed'
    <3>1. chan[p] # "nread" /\ chan[p] # "nwrite"
      BY <1>1, Setting
    <3> QED
      BY ONLY <1>1, <1>2, <1>5, <2>1, <2>2, <3>1 DEF Placed
  <2>5. ASSUME NEW a \in Proc, chan[a] = "nread"
        PROVE  Writer \cap killed # {}
    <3>1. readopen
      BY <1>2, <2>5 DEF Placed
    <3> QED
      BY <1>7, <3>1, Zenon
  <2>6. NoWakeupMissed'
    BY <1>1, <1>2, <1>3, <2>1, <2>5 DEF NoWakeupMissed
  <2> QED
    BY <1>3, <2>3, <2>4, <2>6 DEF PipeInv
<1>8. CASE readopen /\ p \notin killed
  <2>1. /\ pc' = [pc EXCEPT ![p] = "wsleep"] /\ chan' = Woken("nread") /\ lock' = p
        /\ rest' = [rest EXCEPT ![p] = SubSeq(t, Copied(p) + 1, Len(t))]
    BY <1>6, <1>8, Zenon DEF WriteSome, Goto
  <2>2. pc'[p] = "wsleep" /\ \A a \in Proc : a # p => pc'[a] = pc[a]
    BY <1>1, <1>2, <2>1 DEF TypeOK
  <2>3. /\ chan'[p] = None
        /\ \A a \in Proc : chan'[a] # "nread" /\ (chan'[a] = "nwrite" => chan[a] = "nwrite")
    BY ONLY <1>1, <2>1, Setting, PipeInv DEF Woken
  <2>4. TypeOK'
    <3>1. rest' \in [Writer -> Seq(Byte)]
      <4>1. rest \in [Writer -> Seq(Byte)]
        BY <1>2 DEF TypeOK
      <4>2. Copied(p) \in Nat
        <5>1. Copied(p) \in 0..Room
          BY ONLY <1>1, CopyAppends, PipeInv, Zenon
        <5> QED
          BY ONLY <5>1
      <4>3. SubSeq(t, Copied(p) + 1, Len(t)) \in Seq(Byte)
        BY <4>2
      <4> QED
        BY <2>1, <4>1, <4>3
    <3>2. chan' \in [Proc -> {"nread", "nwrite", None}]
      BY <2>1, <1>2 DEF TypeOK, Woken
    <3> QED
      BY <1>1, <1>2, <1>4, <2>1, <3>1, <3>2 DEF TypeOK
  <2>5. Placed'
    <3>1. \A a \in Proc : a # p => pc[a] \notin {"wsleep", "rsleep"} /\ lock' # a
      BY <1>2, <1>5, <2>1 DEF Placed
    <3>2. chan'[p] # "nread" /\ chan'[p] # "nwrite"
      BY <2>3, Setting
    <3>3. lock' = p /\ p \in Writer /\ readopen' /\ writeopen' /\ Full' /\ p \notin Reader
      BY <1>1, <1>2, <1>3, <1>8, <2>1, Setting, Zenon DEF Placed
    <3> QED
      BY <1>1, <1>2, <2>2, <2>3, <3>1, <3>2, <3>3, Zenon DEF Placed
  <2>6. NoWakeupMissed'
    BY <1>1, <1>2, <1>3, <2>3 DEF NoWakeupMissed
  <2> QED
    BY <1>3, <2>4, <2>5, <2>6 DEF PipeInv
<1> QED
  BY <1>7, <1>8, Zenon

(* A read of an empty pipe returns when killed, or decides to sleep.       *)
LEMMA ReadWaitStep ==
  ASSUME PipeInv, NEW p \in Reader, ReadWait(p)
  PROVE  PipeInv' /\ FifoStep
<1>1. /\ pc[p] = "read" /\ chan[p] = None /\ lock = None /\ p \in Proc
      /\ nread = nwrite /\ writeopen
      /\ UNCHANGED <<ring, nread, nwrite, data, readopen, writeopen, chan, killed, rest, got, eof>>
      /\ \/ pc' = [pc EXCEPT ![p] = "user"] /\ UNCHANGED lock
         \/ pc' = [pc EXCEPT ![p] = "rsleep"] /\ lock' = p
  BY DEF ReadWait, Ready, MustWait, Goto, ring, ends, Proc
<1>2. TypeOK /\ Placed /\ NoWakeupMissed /\ Count <= PIPESIZE
  BY ONLY PipeInv DEF PipeInv
<1>3. Count' = Count /\ Contents' = Contents /\ (Full' <=> Full)
  BY ONLY <1>1, RingKept
<1>4. TypeOK'
  BY <1>1, <1>2, Zenon DEF TypeOK
<1>5. /\ \A a \in Proc : a # p => pc'[a] = pc[a] /\ lock' # a
      /\ \/ pc'[p] = "user" /\ lock' # p
         \/ pc'[p] = "rsleep" /\ lock' = p
  BY ONLY <1>1, <1>2, Setting, PipeInv DEF TypeOK
<1>6. Placed'
  <2>1. chan[p] # "nread" /\ chan[p] # "nwrite" /\ p \notin Writer /\ got[p] = <<>> /\ readopen
    BY <1>1, <1>2, Setting, Zenon DEF Placed
  <2>2. \A a \in Proc : pc[a] # "wsleep" /\ pc[a] # "rsleep"
    BY <1>1, <1>2, Setting, Zenon DEF Placed
  <2> QED
    BY ONLY <1>1, <1>2, <1>5, <2>1, <2>2 DEF Placed
<1>7. NoWakeupMissed'
  BY <1>1, <1>2, <1>3 DEF NoWakeupMissed
<1> QED
  BY <1>1, <1>2, <1>3, <1>4, <1>6, <1>7, FifoSame, Zenon DEF PipeInv

(* A read takes bytes, or finds the end of the stream.                     *)
LEMMA ReadSomeStep ==
  ASSUME PipeInv, NEW p \in Reader, NEW n \in 1..PIPESIZE, ReadSome(p, n)
  PROVE  PipeInv' /\ FifoStep
<1>1. /\ pc[p] = "read" /\ chan[p] = None /\ lock = None /\ p \in Proc
      /\ nread = nwrite => ~writeopen
      /\ UNCHANGED <<nwrite, data, readopen, writeopen, lock, killed, rest>>
      /\ chan' = Woken("nwrite") /\ pc' = [pc EXCEPT ![p] = "user"]
  BY DEF ReadSome, Ready, MustWait, Goto, ends, Proc
<1>2. TypeOK /\ Placed /\ NoWakeupMissed /\ Count \in 0..PIPESIZE
  BY Counted, Zenon DEF PipeInv
<1>3. PICK k \in 0..PIPESIZE :
        /\ k <= Count /\ (k = 0 => Count = 0)
        /\ got' = [got EXCEPT ![p] = SubSeq(Contents, 1, k)]
        /\ eof' = IF k = 0 THEN eof \cup {p} ELSE eof
        /\ nread' = (nread + k) % Wrap
  <2>1. PICK k \in 0..PIPESIZE : k = IF n <= Count THEN n ELSE Count
    BY <1>2, Sizes
  <2>2. k <= Count /\ (k = 0 => Count = 0)
    BY <1>2, <2>1
  <2> QED
    BY <2>1, <2>2, Zenon DEF ReadSome
<1>4. /\ nread' \in 0..Wrap - 1 /\ Count' = Count - k
      /\ Contents' = SubSeq(Contents, k + 1, Len(Contents))
  BY <1>1, <1>3, ReadTakes
<1>5. PICK q \in Seq(Byte) : q = Contents /\ Len(q) = Count
  BY Counted
<1>6. got' \in [Reader -> Seq(Byte)] /\ \A a \in Reader : a # p => got'[a] = got[a]
  <2>1. SubSeq(q, 1, k) \in Seq(Byte) /\ got \in [Reader -> Seq(Byte)]
    BY ONLY <1>2, <1>3, <1>5, PipeInv DEF TypeOK
  <2> QED
    BY <1>3, <1>5, <2>1
<1>7. \A a \in Proc : chan'[a] # "nwrite" /\ (chan'[a] = "nread" => chan[a] = "nread")
  BY <1>1, Setting, Zenon DEF Woken
<1>8. pc'[p] = "user" /\ \A a \in Proc : a # p => pc'[a] = pc[a]
  BY ONLY <1>1, <1>2, PipeInv DEF TypeOK
<1>9. TypeOK'
  <2>1. chan' \in [Proc -> {"nread", "nwrite", None}]
    BY ONLY <1>1, <1>2, PipeInv DEF TypeOK, Woken
  <2> QED
    BY <1>1, <1>2, <1>4, <1>6, <2>1 DEF TypeOK
<1>10. Placed'
  <2>1. chan'[p] # "nread" /\ chan'[p] # "nwrite"
    BY ONLY <1>1, <1>7, Setting
  <2>2. \A a \in Proc : lock' # a /\ pc[a] # "wsleep" /\ pc[a] # "rsleep"
    BY <1>1, <1>2, Setting, Zenon DEF Placed
  <2> SUFFICES ASSUME NEW a \in Proc
               PROVE  /\ lock' = a <=> pc'[a] \in {"wsleep", "rsleep"}
                      /\ pc'[a] \in {"write", "wsleep"} => a \in Writer
                      /\ pc'[a] \in {"read", "rsleep"} => a \in Reader /\ got'[a] = <<>>
                      /\ pc'[a] = "wsleep" => Full' /\ readopen'
                      /\ pc'[a] = "rsleep" => nread' = nwrite' /\ writeopen'
                      /\ chan'[a] = "nwrite" => pc'[a] = "write"
                      /\ chan'[a] = "nread" => pc'[a] = "read"
                      /\ pc'[a] # "closed" => (a \in Writer => writeopen') /\ (a \in Reader => readopen')
    BY Zenon DEF Placed
  <2>3. /\ pc[a] # "closed" => (a \in Writer => writeopen) /\ (a \in Reader => readopen)
        /\ writeopen' = writeopen /\ readopen' = readopen
    BY <1>1, <1>2, Zenon DEF Placed
  <2>4. CASE a = p
    <3>1. pc'[p] = "user" /\ lock' # p
      BY <1>8, <2>2, <2>4, Zenon
    <3> QED
      BY ONLY <1>1, <2>1, <2>4, <2>3, <3>1
  <2>5. CASE a # p
    <3>1. /\ pc[a] = "write" => a \in Writer
          /\ pc[a] = "read" => a \in Reader /\ got[a] = <<>>
          /\ chan[a] = "nread" => pc[a] = "read"
      BY <1>2, Zenon DEF Placed
    <3>2. pc'[a] = pc[a] /\ (a \in Reader => got'[a] = got[a])
      BY <1>6, <1>8, <2>5, Zenon
    <3> QED
      BY ONLY <1>7, <2>2, <2>3, <3>1, <3>2
  <2> QED
    BY <2>4, <2>5, Zenon
<1>11. NoWakeupMissed'
  BY <1>1, <1>2, <1>7 DEF NoWakeupMissed
<1>12. ASSUME k = 0 PROVE FifoStep
  <2>1. q = <<>> /\ ~writeopen
    BY <1>1, <1>2, <1>3, <1>5, <1>12, Counted
  <2>2. Contents' = <<>> /\ SubSeq(q, 1, k) = <<>>
    BY <1>4, <1>5, <1>12, <2>1
  <2>3. got' = got
    <3>1. got[p] = <<>>
      BY ONLY <1>1, <1>2 DEF Placed
    <3>2. got' = [got EXCEPT ![p] = <<>>]
      BY ONLY <1>3, <1>5, <2>2, Zenon
    <3>3. got \in [Reader -> Seq(Byte)]
      BY ONLY <1>2, Zenon DEF TypeOK
    <3> QED
      BY ONLY <3>1, <3>2, <3>3
  <2>4. Queue!Eof(p)
    BY <1>1, <1>3, <1>5, <1>12, <2>1, <2>2, <2>3 DEF Queue!Eof
  <2> QED
    BY ONLY <2>4 DEF FifoStep, Queue!Next
<1>13. ASSUME k > 0 PROVE FifoStep
  <2>1. k \in 1..Len(Contents) /\ eof' = eof
    BY ONLY <1>2, <1>3, <1>5, <1>13
  <2>2. Queue!Get(p)
    BY <1>1, <1>3, <1>4, <2>1 DEF Queue!Get
  <2> QED
    BY <2>2 DEF FifoStep, Queue!Next
<1>14. FifoStep /\ Count' <= PIPESIZE
  <2>1. k = 0 \/ k > 0
    OBVIOUS
  <2>2. Count' <= PIPESIZE
    BY <1>2, <1>4, Sizes
  <2> QED
    BY <1>12, <1>13, <2>1, <2>2
<1> QED
  BY <1>9, <1>10, <1>11, <1>14, Zenon DEF PipeInv

(* The process that holds p->lock goes to sleep: nobody changed the pipe     *)
(* since its test.                                                         *)
LEMMA SleepStep ==
  ASSUME PipeInv, NEW p \in Proc, PipeSleep(p)
  PROVE  PipeInv' /\ FifoStep
<1>1. /\ UNCHANGED <<ring, nread, nwrite, data, readopen, writeopen, killed, rest, got, eof>>
      /\ lock' = None
      /\ \/ /\ pc[p] = "wsleep" /\ pc' = [pc EXCEPT ![p] = "write"]
            /\ chan' = [chan EXCEPT ![p] = "nwrite"]
         \/ /\ pc[p] = "rsleep" /\ pc' = [pc EXCEPT ![p] = "read"]
            /\ chan' = [chan EXCEPT ![p] = "nread"]
  BY DEF PipeSleep, Goto, ring, ends
<1>2. TypeOK /\ Placed /\ NoWakeupMissed /\ Count <= PIPESIZE
  BY DEF PipeInv
<1>3. Count' = Count /\ Contents' = Contents /\ (Full' <=> Full)
  BY <1>1, RingKept
<1>4. TypeOK'
  BY ONLY <1>1, <1>2, PipeInv DEF TypeOK
<1>5. /\ \A a \in Proc : a # p => pc'[a] = pc[a] /\ chan'[a] = chan[a]
      /\ \/ pc[p] = "wsleep" /\ pc'[p] = "write" /\ chan'[p] = "nwrite"
         \/ pc[p] = "rsleep" /\ pc'[p] = "read" /\ chan'[p] = "nread"
  BY <1>1, <1>2, Zenon DEF TypeOK
<1>6. \A a \in Proc : lock' # a /\ (a # p => pc[a] # "wsleep" /\ pc[a] # "rsleep")
  BY <1>1, <1>2, Setting, Zenon DEF Placed
<1>7. Placed'
  BY ONLY <1>1, <1>2, <1>3, <1>5, <1>6 DEF Placed
<1>8. NoWakeupMissed'
  BY <1>1, <1>2, <1>3, <1>5, Zenon DEF NoWakeupMissed, Placed
<1> QED
  BY ONLY <1>1, <1>2, <1>3, <1>4, <1>7, <1>8, FifoSame DEF PipeInv

(* A process closes its end; the last one wakes the sleepers of the other.  *)
LEMMA CloseStep ==
  ASSUME PipeInv, NEW p \in Proc, pipeclose(p)
  PROVE  PipeInv' /\ FifoStep
<1>1. /\ pc[p] = "user" /\ lock = None /\ pc' = [pc EXCEPT ![p] = "closed"]
      /\ UNCHANGED <<ring, nread, nwrite, data, lock, killed, rest, got, eof>>
  BY DEF pipeclose, Goto, ring
<1>2. TypeOK /\ Placed /\ NoWakeupMissed /\ Count <= PIPESIZE
  BY DEF PipeInv
<1>3. Count' = Count /\ Contents' = Contents /\ (Full' <=> Full)
  BY <1>1, RingKept, Zenon
<1>4. /\ pc'[p] = "closed" /\ \A a \in Proc : a # p => pc'[a] = pc[a]
      /\ chan[p] # "nread" /\ chan[p] # "nwrite"
      /\ \A a \in Proc : lock' # a /\ pc[a] # "wsleep" /\ pc[a] # "rsleep"
  BY <1>1, <1>2, Setting DEF TypeOK, Placed
<1>5. readopen \in BOOLEAN /\ writeopen \in BOOLEAN
  BY <1>2, Zenon DEF TypeOK
<1>6. /\ readopen' \in BOOLEAN /\ writeopen' \in BOOLEAN
      /\ readopen' => readopen
      /\ writeopen' => writeopen
      /\ writeopen /\ ~writeopen' => p \in Writer /\ LastOf(p, Writer)
      /\ readopen /\ ~readopen' => p \in Reader /\ LastOf(p, Reader)
  BY <1>5 DEF pipeclose
<1>7. /\ \A a \in Proc : chan'[a] = chan[a] \/ chan'[a] = None
      /\ writeopen /\ ~writeopen' => chan' = Woken("nread")
      /\ readopen /\ ~readopen' => chan' = Woken("nwrite")
      /\ chan' \in [Proc -> {"nread", "nwrite", None}]
  <2>1. chan' \in {chan, Woken("nread"), Woken("nwrite")}
    BY Zenon DEF pipeclose
  <2>2. ASSUME writeopen /\ ~writeopen' PROVE chan' = Woken("nread")
    BY <2>2, Zenon DEF pipeclose
  <2>3. ASSUME readopen /\ ~readopen' PROVE chan' = Woken("nwrite")
    <3>1. p \in Reader /\ p \notin Writer
      BY <1>6, <2>3, Setting
    <3>2. writeopen' = writeopen /\ readopen' # readopen
      BY ONLY <1>5, <1>6, <2>3, <3>1, PipeInv
    <3> QED
      BY <3>2 DEF pipeclose
  <2>4. \A a \in Proc : chan'[a] = chan[a] \/ chan'[a] = None
    BY <2>1 DEF Woken
  <2>5. chan' \in [Proc -> {"nread", "nwrite", None}]
    BY ONLY <1>2, <2>1 DEF TypeOK, Woken
  <2> QED
    BY <2>2, <2>3, <2>4, <2>5
<1>8. TypeOK'
  BY <1>1, <1>2, <1>6, <1>7 DEF TypeOK
<1>9. ASSUME NEW a \in Proc, pc'[a] # "closed"
      PROVE  (a \in Writer => writeopen') /\ (a \in Reader => readopen')
  <2>1. a # p /\ pc[a] # "closed"
    BY <1>4, <1>9, Zenon
  <2>2. (a \in Writer => writeopen) /\ (a \in Reader => readopen)
    BY <1>2, <2>1 DEF Placed
  <2>3. (a \in Writer => ~LastOf(p, Writer)) /\ (a \in Reader => ~LastOf(p, Reader))
    BY <2>1 DEF LastOf
  <2> QED
    BY <1>6, <2>2, <2>3, Zenon
<1>10. \A a \in Proc : chan'[a] # None => chan'[a] = chan[a]
  BY ONLY <1>7
<1>11. Placed'
  BY ONLY <1>1, <1>2, <1>4, <1>9, <1>10, Setting, PipeInv DEF Placed
<1>12. NoWakeupMissed'
  <2> SUFFICES ASSUME NEW a \in Proc
               PROVE  /\ chan'[a] = "nwrite" => Full' /\ readopen'
                      /\ chan'[a] = "nread" => writeopen' /\ (nread' = nwrite' \/ Writer \cap killed' # {})
    BY DEF NoWakeupMissed
  <2>1. ASSUME chan'[a] = "nwrite" PROVE Full' /\ readopen'
    <3>1. Full /\ readopen
      BY <1>2, <1>10, <2>1, Setting DEF NoWakeupMissed
    <3>2. chan' # Woken("nwrite")
      BY <2>1, Setting DEF Woken
    <3> QED
      BY <1>3, <1>7, <3>1, <3>2
  <2>2. ASSUME chan'[a] = "nread" PROVE writeopen' /\ (nread = nwrite \/ Writer \cap killed # {})
    <3>1. writeopen /\ (nread = nwrite \/ Writer \cap killed # {})
      BY <1>2, <1>10, <2>2, Setting DEF NoWakeupMissed
    <3>2. chan' # Woken("nread")
      BY <2>2, Setting DEF Woken
    <3> QED
      BY <1>7, <3>1, <3>2
  <2> QED
    BY <1>1, <2>1, <2>2
<1>13. FifoStep
  <2>1. CASE writeopen' = writeopen
    BY <1>1, <1>3, <2>1, FifoSame
  <2>2. CASE writeopen' = FALSE
    BY <1>1, <1>3, <2>2 DEF FifoStep, Queue!Next, Queue!Close
  <2> QED
    BY ONLY <1>5, <1>6, <2>1, <2>2, PipeInv
<1> QED
  BY <1>2, <1>3, <1>8, <1>11, <1>12, <1>13, Zenon DEF PipeInv

(* kill makes a sleeper runnable and changes nothing of the pipe.          *)
LEMMA KillStep ==
  ASSUME PipeInv, NEW p \in Proc, kill(p)
  PROVE  PipeInv' /\ FifoStep
<1>1. /\ UNCHANGED <<ring, nread, nwrite, data, readopen, writeopen, lock, pc, rest, got, eof>>
      /\ killed' = killed \cup {p} /\ chan' = [chan EXCEPT ![p] = None]
  BY Zenon DEF kill, ring, ends
<1>2. TypeOK /\ Placed /\ NoWakeupMissed /\ Count <= PIPESIZE
  BY DEF PipeInv
<1>3. Count' = Count /\ Contents' = Contents /\ (Full' <=> Full)
  BY <1>1, RingKept, Zenon
<1>4. TypeOK'
  BY <1>1, <1>2 DEF TypeOK
<1>5. \A a \in Proc : chan'[a] # None => chan'[a] = chan[a]
  BY <1>1, <1>2, Zenon DEF TypeOK
<1>6. Placed'
  BY <1>1, <1>2, <1>3, <1>5, Setting, Zenon DEF Placed
<1>7. NoWakeupMissed'
  <2>1. Writer \cap killed # {} => Writer \cap killed' # {}
    BY <1>1
  <2> QED
    BY <1>1, <1>2, <1>3, <1>5, <2>1, Setting, Zenon DEF NoWakeupMissed
<1> QED
  BY <1>1, <1>2, <1>3, <1>4, <1>6, <1>7, FifoSame DEF PipeInv

-----------------------------------------------------------------------------
(* pipealloc makes an empty pipe.                                           *)
LEMMA PipeInit ==
  ASSUME Init
  PROVE  PipeInv /\ Queue!Init
<1>1. Count = 0
  BY ONLY ModSmall, Sizes, Init DEF Init, Count
<1>2. TypeOK
  <2>1. (CHOOSE b \in Byte : TRUE) \in Byte
    BY PipeAssumption
  <2>2. data \in [0..PIPESIZE - 1 -> Byte]
    BY <2>1, Zenon DEF Init
  <2>3. rest \in [Writer -> Seq(Byte)] /\ got \in [Reader -> Seq(Byte)]
    BY DEF Init
  <2> QED
    BY <2>2, <2>3, Sizes DEF Init, TypeOK
<1>3. Placed /\ NoWakeupMissed
  BY Setting, Zenon DEF Init, Placed, NoWakeupMissed
<1>4. Contents = <<>>
  BY <1>1 DEF Contents
<1> QED
  BY <1>1, <1>2, <1>3, <1>4, Sizes DEF PipeInv, Init, Queue!Init

(* Every step of the pipe keeps the invariant and is one of Fifo, or a      *)
(* stutter.                                                                 *)
LEMMA PipeNext ==
  ASSUME PipeInv, [Next]_vars
  PROVE  PipeInv' /\ FifoStep
<1>1. CASE UNCHANGED vars
  <2>1. UNCHANGED <<ring, nread, nwrite, data, readopen, writeopen, lock, pc, chan, killed, rest, got, eof>>
    BY ONLY <1>1 DEF vars, ring, ends
  <2>2. Count' = Count /\ Contents' = Contents /\ (Full' <=> Full)
    BY <2>1, RingKept
  <2>3. TypeOK' /\ Placed'
    BY <2>1, <2>2, Zenon DEF PipeInv, TypeOK, Placed
  <2>4. NoWakeupMissed'
    BY <2>1, <2>2, Zenon DEF PipeInv, NoWakeupMissed
  <2> QED
    BY <2>1, <2>2, <2>3, <2>4, FifoSame, Zenon DEF PipeInv
<1>2. ASSUME NEW p \in Proc, Step(p) \/ kill(p)
      PROVE  PipeInv' /\ FifoStep
  BY <1>2, WriteAllStep, WriteSomeStep, ReadWaitStep, ReadSomeStep, SleepStep, CloseStep, KillStep
  DEF Step
<1>3. ASSUME NEW p \in Writer, NEW s \in Writes, WriteCall(p, s)
      PROVE  PipeInv' /\ FifoStep
  BY <1>3, CallStep DEF Proc
<1>4. ASSUME NEW p \in Reader, ReadCall(p)
      PROVE  PipeInv' /\ FifoStep
  BY <1>4, CallStep DEF Proc
<1> QED
  BY <1>1, <1>2, <1>3, <1>4 DEF Next

(* The ring of pipe.c is never overfull, its two wrapping counters stay in   *)
(* step, and the processes at the pipe are where its loops put them.        *)
THEOREM PipeInvariance == Safe => []PipeInv
<1>1. PipeInv /\ [Next]_vars => PipeInv'
  BY PipeNext
<1> QED
  BY <1>1, PipeInit, PTL DEF Safe

(* No reader or writer sleeps through the wakeup it waits for, in every      *)
(* interleaving of any number of reads, writes, closes and kills.           *)
THEOREM PipeWakeups == Safe => []NoWakeupMissed
<1>1. PipeInv => NoWakeupMissed
  BY DEF PipeInv
<1> QED
  BY <1>1, PipeInvariance, PTL

(* pipewrite, piperead and pipeclose implement a bounded queue of PIPESIZE   *)
(* bytes: what is read is what was written, in order, once; a reader meets   *)
(* the end of the stream only when the queue is empty and nobody can write. *)
THEOREM PipeIsFifo == Safe => ImplementsFifo
<1>1. Init => Queue!Init
  BY PipeInit
<1>2. PipeInv /\ [Next]_vars => [Queue!Next]_(Queue!vars)
  BY PipeNext DEF FifoStep
<1> QED
  BY <1>1, <1>2, PipeInvariance, PTL DEF Safe, ImplementsFifo, Queue!Spec
=============================================================================
