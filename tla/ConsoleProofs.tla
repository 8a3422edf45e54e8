---------------------------- MODULE ConsoleProofs ---------------------------
(***************************************************************************)
(* ConsoleInv is an inductive invariant of Console, and Console implements  *)
(* LineInput: for any number of readers, any INPUT_BUF and any width of the *)
(* counters that is a multiple of it.  First the arithmetic of the ring.    *)
(***************************************************************************)
EXTENDS Console, SequenceTheorems, TLAPS

(* Division with remainder.                                                *)
LEMMA ModUnique ==
  ASSUME NEW b \in Nat \ {0}, NEW a \in Int, NEW k \in Int, NEW u \in 0..b - 1, a = k * b + u
  PROVE  a % b = u
OBVIOUS

(* Quotient and remainder exist.                                           *)
LEMMA ModRange ==
  ASSUME NEW b \in Nat \ {0}, NEW a \in Int
  PROVE  \E k \in Int, u \in 0..b - 1 : a = (k * b) + u /\ a % b = u
<1>1. a % b \in 0..b - 1 
  OBVIOUS
<1>2. a \div b \in Int /\ a = (a \div b) * b + (a % b)
  OBVIOUS
<1> QED
  BY <1>1, <1>2

(* The remainder of a counter that has wrapped at most once.               *)
LEMMA ModSmall ==
  ASSUME NEW b \in Nat \ {0}, NEW u \in 0..b - 1
  PROVE  u % b = u /\ (u + b) % b = u /\ (u - b) % b = u
OBVIOUS

(* A counter reduced before or after an addition: the same place.          *)
LEMMA ModAdd ==
  ASSUME NEW b \in Nat \ {0}, NEW a \in Int, NEW c \in Int
  PROVE  ((a % b) + c) % b = (a + c) % b
<1>1. PICK k \in Int, u \in 0..b - 1 : a = (k * b) + u /\ a % b = u
  BY ModRange
<1>2. PICK z \in Int : z = u + c
  OBVIOUS
<1>3. PICK m \in Int, s \in 0..b - 1 : z = (m * b) + s /\ z % b = s
  BY ModRange
<1>4. PICK y \in Int : y = a + c
  OBVIOUS
<1>5. y = (k + m) * b + s
  BY <1>1, <1>2, <1>3, <1>4
<1>6. y % b = s
  BY <1>5, ModUnique
<1> QED
  BY <1>1, <1>2, <1>3, <1>4, <1>6

(* The place of a counter in the ring does not depend on the wrap.         *)
LEMMA ModMod ==
  ASSUME NEW p \in Nat \ {0}, NEW m \in Nat \ {0}, NEW t \in Nat \ {0}, t = m * p, NEW a \in Int
  PROVE  (a % t) % p = a % p
<1>1. PICK k \in Int, u \in 0..t - 1 : a = (k * t) + u /\ a % t = u
  BY ModRange
<1>2. PICK j \in Int, s \in 0..p - 1 : u = (j * p) + s /\ u % p = s
  BY ONLY u \in Int, ModRange
<1>3. PICK n \in Int : n = k * m
  OBVIOUS
<1>4. k * t = n * p
  <2>1. k * (m * p) = (k * m) * p
    BY ONLY k \in Int
  <2> QED
    BY ONLY <1>3, <2>1, t = m * p
<1>5. a = (n + j) * p + s
  BY <1>1, <1>2, <1>4
<1>6. a % p = s
  BY <1>5, ModUnique
<1> QED
  BY <1>1, <1>2, <1>6

(* Counters less than INPUT_BUF apart have different places.                *)
LEMMA ModDiff ==
  ASSUME NEW p \in Nat \ {0}, NEW a \in Int, NEW d \in 1..p - 1
  PROVE  (a + d) % p # a % p
<1> SUFFICES ASSUME (a + d) % p = a % p PROVE FALSE
  OBVIOUS
<1>1. PICK k \in Int, u \in 0..p - 1 : a = (k * p) + u /\ a % p = u
  BY ModRange
<1>2. PICK z \in Int : z = a + d
  OBVIOUS
<1>3. PICK m \in Int, s \in 0..p - 1 : z = (m * p) + s /\ z % p = s
  BY ModRange
<1>4. d = (m - k) * p
  BY <1>1, <1>2, <1>3
<1>5. CASE m - k <= 0
  BY <1>4, <1>5
<1>6. CASE m - k >= 1
  BY <1>4, <1>6
<1> QED
  BY <1>5, <1>6

-----------------------------------------------------------------------------
(* The counters r, w and e of console.c, and their places in input.buf.    *)

LEMMA Sizes ==
  ASSUME ConsoleAssumption
  PROVE  INPUT_BUF \in Nat \ {0} /\ Wrap \in Nat \ {0} /\ INPUT_BUF < Wrap
<1>1. PICK m \in 2..Wrap : Wrap = m * INPUT_BUF
  BY DEF ConsoleAssumption
<1>2. /\ m \in Nat \ {0} /\ m >= 2 /\ INPUT_BUF \in Nat \ {0} /\ Wrap \in Nat
  BY DEF ConsoleAssumption
<1>3. m * INPUT_BUF >= 2 * INPUT_BUF
  BY <1>2
<1> QED
  BY <1>1, <1>2, <1>3

(* Places of the ring, of a counter that has advanced, and of two counters  *)
(* less than INPUT_BUF apart.                                               *)
LEMMA AtFacts ==
  ASSUME ConsoleAssumption, NEW x \in Nat, NEW y \in Nat
  PROVE  /\ At(x) \in 0..INPUT_BUF - 1
         /\ At((x % Wrap) + y) = At(x + y)
         /\ \A i, j \in 0..INPUT_BUF - 1 : At(x + i) = At(x + j) => i = j
<1>0. INPUT_BUF \in Nat \ {0} /\ Wrap \in Nat \ {0}
  BY Sizes
<1>1. PICK m \in Nat \ {0} : Wrap = m * INPUT_BUF
  BY DEF ConsoleAssumption
<1>2. \A a \in Int : (a % Wrap) % INPUT_BUF = a % INPUT_BUF
  BY <1>1, <1>0, ModMod, Zenon
<1>3. At(x) \in 0..INPUT_BUF - 1
  <2>1. PICK a \in Int : a = x
    OBVIOUS
  <2>2. a % INPUT_BUF \in 0..INPUT_BUF - 1
    BY ONLY <1>0
  <2> QED
    BY ONLY <1>2, <2>1, <2>2 DEF At
<1>4. At((x % Wrap) + y) = At(x + y)
  <2>1. x \in Int /\ y \in Int /\ Wrap \in Nat \ {0}
    BY <1>0
  <2>2. ((x % Wrap) + y) % Wrap = (x + y) % Wrap
    BY ONLY ModAdd, <2>1, Zenon
  <2> QED
    BY <2>2 DEF At
<1>5. ASSUME NEW i \in 0..INPUT_BUF - 1, NEW j \in 0..INPUT_BUF - 1, i < j
      PROVE  At(x + i) # At(x + j)
  <2>1. PICK a \in Int, d \in 1..INPUT_BUF - 1 : a = x + i /\ d = j - i
    BY <1>5, <1>0
  <2>2. (a + d) % INPUT_BUF # a % INPUT_BUF
    BY <1>0, ModDiff
  <2>3. At(x + i) = a % INPUT_BUF
    BY <1>2, <2>1 DEF At
  <2>4. PICK b \in Int : b = a + d
    OBVIOUS
  <2>5. At(x + j) = b % INPUT_BUF
    <3>1. b = x + j
      BY <2>1, <2>4
    <3> QED
      BY <1>2, <3>1 DEF At
  <2> QED
    BY <2>2, <2>3, <2>4, <2>5
<1>6. ASSUME NEW i \in 0..INPUT_BUF - 1, NEW j \in 0..INPUT_BUF - 1, At(x + i) = At(x + j)
      PROVE  i = j
  BY <1>5, <1>6, <1>0
<1> QED
  BY <1>3, <1>4, <1>6

(* The distance of two counters.                                           *)
LEMMA Window ==
  ASSUME ConsoleAssumption, NEW a \in 0..Wrap - 1
  PROVE  /\ \A k \in 0..Wrap - 1 : (a + k) % Wrap \in 0..Wrap - 1 /\ Dist(a, (a + k) % Wrap) = k
         /\ \A b \in 0..Wrap - 1 : Dist(a, b) \in 0..Wrap - 1 /\ (a + Dist(a, b)) % Wrap = b
<1>1. PICK W \in Nat \ {0} : W = Wrap
  BY Sizes
<1>2. a \in Int /\ a \in 0..W - 1
  BY <1>1
<1>3. \A x \in Int : x % W \in 0..W - 1 /\ x % W \in Int
  BY ONLY W \in Nat \ {0}
<1>4. ASSUME NEW k \in 0..W - 1 PROVE (((a + k) % W) - a) % W = k
  <2>1. PICK x \in Int : x = a + k
    BY ONLY <1>2, <1>4
  <2>2. PICK c \in Int : c = -a
    BY ONLY <1>2
  <2>3. ((x % W) + c) % W = (x + c) % W
    BY ONLY ModAdd, Zenon
  <2>4. x + c = k /\ (x % W) + c = (x % W) - a
    <3>1. x + c = k
      BY ONLY <1>2, <2>1, <2>2
    <3>2. PICK y \in Int : y = x % W
      BY ONLY <1>3, ConsoleAssumption
    <3>3. y + c = y - a
      BY ONLY <1>2, <2>2
    <3> QED
      BY ONLY <3>1, <3>2, <3>3, Zenon
  <2>5. k % W = k
    BY ONLY ModSmall, <1>4
  <2>6. ((x % W) - a) % W = k
    BY ONLY <2>3, <2>4, <2>5, Zenon
  <2> QED
    BY ONLY <2>1, <2>6, Zenon
<1>5. ASSUME NEW b \in 0..W - 1 PROVE (b - a) % W \in 0..W - 1 /\ (a + ((b - a) % W)) % W = b
  <2>1. PICK x \in Int : x = b - a
    BY ONLY <1>2, <1>5
  <2>2. ((x % W) + a) % W = (x + a) % W
    BY ONLY ModAdd, <1>2, Zenon
  <2>6. PICK y \in Int : y = x % W
    BY ONLY <1>3
  <2>7. x + a = b /\ y + a = a + y
    BY ONLY <1>2, <1>5, <2>1
  <2>8. x % W \in 0..W - 1
    BY ONLY <1>3, Zenon
  <2>3. x + a = b /\ (x % W) + a = a + (x % W) /\ x % W \in 0..W - 1
    BY ONLY <2>6, <2>7, <2>8, Zenon
  <2>4. b % W = b
    BY ONLY ModSmall, <1>5
  <2>5. (a + (x % W)) % W = b
    BY ONLY <2>2, <2>3, <2>4, Zenon
  <2> QED
    BY ONLY <2>1, <2>3, <2>5, Zenon
<1>6. ASSUME NEW k \in 0..W - 1 PROVE (a + k) % W \in 0..W - 1
  <2>1. PICK x \in Int : x = a + k
    BY ONLY <1>2, <1>6
  <2> QED
    BY ONLY <1>3, <2>1, Zenon
<1> QED
  BY ONLY <1>1, <1>4, <1>5, <1>6, Zenon DEF Dist

-----------------------------------------------------------------------------
(* k characters of input.buf from counter a on.                            *)
Cells(a, k) == [i \in 1..k |-> buf[At(a + i - 1)]]

(* n characters of complete input, m of the line being typed.              *)
Shape(n, m) ==
  /\ n \in Nat /\ m \in Nat /\ n + m <= INPUT_BUF
  /\ w = (r + n) % Wrap /\ e = (r + n + m) % Wrap

(* The distances of three counters in a row.                               *)
Apart(a, b, c, n, m) ==
  /\ b \in 0..Wrap - 1 /\ c \in 0..Wrap - 1
  /\ Dist(a, b) = n /\ Dist(b, c) = m /\ Dist(a, c) = n + m
  /\ \A i \in Nat \ {0} : At(b + i - 1) = At(a + n + i - 1)

(* Three counters in a row: the distances add up, and the cells after the   *)
(* second are cells after the first.                                        *)
LEMMA Three ==
  ASSUME ConsoleAssumption, NEW a \in 0..Wrap - 1, NEW n \in Nat, NEW m \in Nat, n + m <= INPUT_BUF
  PROVE  \A b, c : b = (a + n) % Wrap /\ c = (a + n + m) % Wrap => Apart(a, b, c, n, m)
<1> SUFFICES ASSUME NEW b, NEW c, b = (a + n) % Wrap, c = (a + n + m) % Wrap
             PROVE  Apart(a, b, c, n, m)
  OBVIOUS
<1>0. INPUT_BUF \in Nat \ {0} /\ Wrap \in Nat \ {0} /\ INPUT_BUF < Wrap
  BY Sizes
<1>1. n \in 0..Wrap - 1 /\ m \in 0..Wrap - 1 /\ n + m \in 0..Wrap - 1
  BY ONLY <1>0, n + m <= INPUT_BUF
<1>2. b \in 0..Wrap - 1 /\ Dist(a, b) = n
  BY ONLY ConsoleAssumption, <1>1, Window, b = (a + n) % Wrap
<1>3. PICK k \in 0..Wrap - 1 : k = n + m
  BY ONLY <1>1
<1>4. c = (a + k) % Wrap
  <2>1. a + n + m = a + k
    BY ONLY <1>3
  <2> QED
    BY ONLY <2>1, c = (a + n + m) % Wrap
<1>5. c \in 0..Wrap - 1 /\ Dist(a, c) = n + m
  BY ONLY ConsoleAssumption, <1>3, <1>4, Window
<1>6. c = (b + m) % Wrap
  <2>0. m \in Int
    BY ONLY m \in Nat
  <2>1. PICK x \in Int : x = a + n
    BY ONLY a \in 0..Wrap - 1
  <2>2. ((x % Wrap) + m) % Wrap = (x + m) % Wrap
    BY ONLY ModAdd, <1>0, <2>0, Zenon
  <2> QED
    BY ONLY <2>1, <2>2, c = (a + n + m) % Wrap, b = (a + n) % Wrap
<1>7. Dist(b, c) = m
  BY ONLY ConsoleAssumption, <1>1, <1>2, <1>6, Window
<1>8. ASSUME NEW i \in Nat \ {0} PROVE At(b + i - 1) = At(a + n + i - 1)
  <2>1. PICK x \in Nat, y \in Nat : x = a + n /\ y = i - 1
    BY ONLY a \in 0..Wrap - 1
  <2>2. At((x % Wrap) + y) = At(x + y)
    BY ONLY AtFacts, ConsoleAssumption
  <2>3. x % Wrap = b
    BY ONLY <2>1, b = (a + n) % Wrap
  <2>4. b + y = b + i - 1 /\ x + y = a + n + i - 1
    BY ONLY <2>1, <1>2
  <2> QED
    BY ONLY <2>2, <2>3, <2>4
<1> QED
  BY ONLY <1>2, <1>5, <1>7, <1>8 DEF Apart

(* Every state the invariant admits has a shape ...                        *)
LEMMA HasShape ==
  ASSUME ConsoleAssumption, TypeOK, Dist(r, w) + Dist(w, e) <= INPUT_BUF
  PROVE  \E n, m \in Nat : Shape(n, m)
<1>0. INPUT_BUF \in Nat \ {0} /\ Wrap \in Nat \ {0}
  BY Sizes
<1>1. r \in 0..Wrap - 1 /\ w \in 0..Wrap - 1 /\ e \in 0..Wrap - 1
  BY DEF TypeOK
<1>2. Dist(r, w) \in 0..Wrap - 1 /\ (r + Dist(r, w)) % Wrap = w
  BY ONLY <1>1, Window, ConsoleAssumption
<1>3. Dist(w, e) \in 0..Wrap - 1 /\ (w + Dist(w, e)) % Wrap = e
  BY ONLY <1>1, Window, ConsoleAssumption
<1>4. PICK n \in Nat, m \in Nat : n = Dist(r, w) /\ m = Dist(w, e)
  BY ONLY <1>0, <1>2, <1>3
<1>5. PICK x \in Int : x = r + n
  BY ONLY <1>1
<1>9. m \in Int
  BY ONLY m \in Nat
<1>6. ((x % Wrap) + m) % Wrap = (x + m) % Wrap
  BY ONLY ModAdd, <1>0, <1>9, Zenon
<1>7. e = (r + n + m) % Wrap
  BY ONLY <1>2, <1>3, <1>4, <1>5, <1>6
<1>8. n + m <= INPUT_BUF
  BY ONLY <1>4, Dist(r, w) + Dist(w, e) <= INPUT_BUF
<1> QED
  BY ONLY <1>2, <1>4, <1>7, <1>8 DEF Shape

(* ... which says what the ring holds.                                     *)
LEMMA Shaped ==
  ASSUME ConsoleAssumption, NEW n \in Nat, NEW m \in Nat
  PROVE  r \in 0..Wrap - 1 /\ Shape(n, m) =>
           /\ w \in 0..Wrap - 1 /\ e \in 0..Wrap - 1
           /\ Dist(r, w) = n /\ Dist(w, e) = m /\ Dist(r, e) = n + m
           /\ Ring(r, w) = Cells(r, n) /\ Ring(w, e) = Cells(r + n, m)
<1> SUFFICES ASSUME r \in 0..Wrap - 1, Shape(n, m)
             PROVE  /\ w \in 0..Wrap - 1 /\ e \in 0..Wrap - 1
                    /\ Dist(r, w) = n /\ Dist(w, e) = m /\ Dist(r, e) = n + m
                    /\ Ring(r, w) = Cells(r, n) /\ Ring(w, e) = Cells(r + n, m)
  OBVIOUS
<1>1. n + m <= INPUT_BUF /\ w = (r + n) % Wrap /\ e = (r + n + m) % Wrap
  BY DEF Shape
<1>2. /\ w \in 0..Wrap - 1 /\ e \in 0..Wrap - 1
      /\ Dist(r, w) = n /\ Dist(w, e) = m /\ Dist(r, e) = n + m
      /\ \A i \in Nat \ {0} : At(w + i - 1) = At(r + n + i - 1)
  <2>1. n + m <= INPUT_BUF
    BY ONLY <1>1
  <2>2. \A b, c : b = (r + n) % Wrap /\ c = (r + n + m) % Wrap => Apart(r, b, c, n, m)
    BY ONLY <2>1, r \in 0..Wrap - 1, Three, ConsoleAssumption, Zenon
  <2> QED
    BY ONLY <1>1, <2>2, Zenon DEF Apart
<1>3. Ring(r, w) = Cells(r, n)
  BY ONLY <1>2 DEF Ring, Cells, At
<1>4. Ring(w, e) = [i \in 1..m |-> buf[At(w + i - 1)]]
  BY ONLY <1>2 DEF Ring, At
<1>5. \A i \in 1..m : At(w + i - 1) = At(r + n + i - 1)
  BY ONLY <1>2
<1>6. Ring(w, e) = Cells(r + n, m)
  BY ONLY <1>4, <1>5 DEF Cells
<1> QED
  BY ONLY <1>2, <1>3, <1>6

(* The cells of the ring: what they hold, and that a character typed behind *)
(* them does not overwrite them.                                           *)
LEMMA CellSeq ==
  ASSUME ConsoleAssumption, TypeOK, NEW a \in Nat, NEW k \in Nat
  PROVE  Cells(a, k) \in Seq(Char) /\ Len(Cells(a, k)) = k
<1>1. ASSUME NEW i \in 1..k PROVE buf[At(a + i - 1)] \in Char
  <2>1. PICK x \in Nat : x = a + i - 1
    BY ONLY a \in Nat
  <2>2. At(x) \in 0..INPUT_BUF - 1
    BY ONLY AtFacts, ConsoleAssumption
  <2>3. buf \in [0..INPUT_BUF - 1 -> Char]
    BY DEF TypeOK
  <2> QED
    BY ONLY <2>1, <2>2, <2>3
<1>2. Cells(a, k) \in [1..k -> Char]
  BY ONLY <1>1 DEF Cells
<1> QED
  BY ONLY <1>2

(* A read has taken k characters: they leave the complete input from its    *)
(* front.                                                                  *)
LEMMA Reading ==
  ASSUME ConsoleAssumption, TypeOK, NEW n \in Nat, NEW m \in Nat, Shape(n, m),
         NEW k \in 0..n, r' = (r + k) % Wrap, UNCHANGED <<buf, w, e>>
  PROVE  /\ r' \in 0..Wrap - 1 /\ Shape(n - k, m)'
         /\ Ring(r, w)' = SubSeq(Ring(r, w), k + 1, n) /\ Ring(w, e)' = Ring(w, e)
<1>0. INPUT_BUF \in Nat \ {0} /\ Wrap \in Nat \ {0} /\ INPUT_BUF < Wrap
  BY Sizes
<1>1. r \in 0..Wrap - 1 /\ r \in Nat
  BY <1>0 DEF TypeOK
<1>2. n + m <= INPUT_BUF /\ w = (r + n) % Wrap /\ e = (r + n + m) % Wrap
  BY DEF Shape
<1>3. PICK x \in Nat, d \in Nat : x = r + k /\ d = n - k
  BY ONLY <1>1
<1>4. r' = x % Wrap /\ r' \in 0..Wrap - 1 /\ r' \in Nat
  BY ONLY <1>0, <1>3, r' = (r + k) % Wrap
<1>5. \A c \in Int : ((x % Wrap) + c) % Wrap = (x + c) % Wrap
  <2>1. x \in Int
    BY ONLY x \in Nat
  <2> QED
    BY ONLY ModAdd, <1>0, <2>1, Zenon
<1>6. w = (r' + d) % Wrap /\ e = (r' + d + m) % Wrap
  <2>1. x + d = r + n /\ d \in Int
    BY ONLY <1>1, <1>3
  <2>2. PICK c \in Int : c = d + m
    BY ONLY d \in Nat
  <2>3. x + c = r + n + m /\ r' + c = r' + d + m
    BY ONLY <1>1, <1>3, <1>4, <2>2
  <2>4. (r' + d) % Wrap = (x + d) % Wrap /\ (r' + c) % Wrap = (x + c) % Wrap
    BY ONLY <1>4, <1>5, <2>1
  <2> QED
    BY ONLY <1>2, <2>1, <2>3, <2>4
<1>7. Shape(d, m)'
  <2>1. d + m <= INPUT_BUF
    BY ONLY <1>0, <1>2, <1>3
  <2> QED
    BY ONLY <1>6, <2>1, UNCHANGED <<buf, w, e>> DEF Shape
<1>8. Ring(w, e)' = Ring(w, e)
  BY DEF Ring, Dist
<1>9. Ring(r, w)' = Cells(r, d)'
  BY ONLY Three, ConsoleAssumption, <1>4, <1>6, <1>7, UNCHANGED <<buf, w, e>> DEF Ring, Cells,
     Apart, Shape, At
<1>10. Ring(r, w) = Cells(r, n)
  BY ONLY Shaped, ConsoleAssumption, <1>1, Shape(n, m)
<1>11. \A i \in 1..d : At(r' + i - 1) = At(r + (k + i) - 1)
  <2> TAKE i \in 1..d
  <2>1. PICK y \in Nat : y = i - 1
    BY ONLY i \in 1..d
  <2>2. At((x % Wrap) + y) = At(x + y)
    BY ONLY AtFacts, ConsoleAssumption
  <2>3. x + y = r + (k + i) - 1 /\ r' + y = r' + i - 1
    BY ONLY <1>1, <1>3, <1>4, <2>1
  <2> QED
    BY ONLY <1>4, <2>2, <2>3
<1>12. Cells(r, d)' = [i \in 1..d |-> Cells(r, n)[k + i]]
  <2>1. \A i \in 1..d : k + i \in 1..n
    BY ONLY <1>3
  <2>2. \A i \in 1..d : Cells(r, n)[k + i] = buf[At(r + (k + i) - 1)]
    BY ONLY <2>1 DEF Cells
  <2>3. Cells(r, d)' = [i \in 1..d |-> buf[At(r' + i - 1)]]
    BY ONLY UNCHANGED <<buf, w, e>> DEF Cells, At
  <2> QED
    BY ONLY <1>11, <2>2, <2>3
<1>13. SubSeq(Cells(r, n), k + 1, n) = [i \in 1..d |-> Cells(r, n)[k + i]]
  <2>1. Cells(r, n) \in Seq(Char) /\ Len(Cells(r, n)) = n
    BY ONLY CellSeq, ConsoleAssumption, TypeOK, <1>1
  <2>2. PICK s \in Seq(Char) : s = Cells(r, n)
    BY ONLY <2>1
  <2>3. SubSeq(s, k + 1, n) = [i \in 1..d |-> s[k + i]]
    <3>1. /\ SubSeq(s, k + 1, n) \in Seq(Char) /\ Len(SubSeq(s, k + 1, n)) = d
          /\ \A i \in 1..d : SubSeq(s, k + 1, n)[i] = s[k + i]
      BY ONLY <2>1, <2>2, <1>3
    <3> QED
      BY ONLY <3>1
  <2> QED
    BY ONLY <2>2, <2>3
<1> QED
  BY ONLY <1>3, <1>4, <1>7, <1>8, <1>9, <1>10, <1>12, <1>13

(* A character typed at e goes behind everything the ring holds.           *)
Typed(n, m, c) ==
  /\ buf' \in [0..INPUT_BUF - 1 -> Char]
  /\ (e + 1) % Wrap = (r + n + m + 1) % Wrap
  /\ \A i \in 1..n + m : buf'[At(r + i - 1)] = buf[At(r + i - 1)]
  /\ buf'[At(r + (n + m + 1) - 1)] = c

(* consoleintr stores a character behind the others and leaves theirs       *)
(* alone.                                                                   *)
LEMMA Typing ==
  ASSUME ConsoleAssumption, TypeOK, NEW n \in Nat, NEW m \in Nat, Shape(n, m), n + m < INPUT_BUF,
         NEW c \in Char, buf' = [buf EXCEPT ![At(e)] = c]
  PROVE  Typed(n, m, c)
<1>0. INPUT_BUF \in Nat \ {0} /\ Wrap \in Nat \ {0} /\ INPUT_BUF < Wrap
  BY Sizes
<1>1. r \in Nat /\ e \in Nat /\ buf \in [0..INPUT_BUF - 1 -> Char]
  BY <1>0 DEF TypeOK
<1>2. PICK x \in Nat : x = r + n + m
  BY ONLY <1>1
<1>3. e = x % Wrap
  BY ONLY <1>2, Shape(n, m) DEF Shape
<1>4. At(e) = At(x) /\ At(x) \in 0..INPUT_BUF - 1
  <2>1. At((x % Wrap) + 0) = At(x + 0) /\ At(x) \in 0..INPUT_BUF - 1
    BY ONLY AtFacts, ConsoleAssumption
  <2>2. e + 0 = e /\ x + 0 = x
    BY ONLY <1>1
  <2> QED
    BY ONLY <1>3, <2>1, <2>2
<1>5. (e + 1) % Wrap = (r + n + m + 1) % Wrap
  <2>1. ((x % Wrap) + 1) % Wrap = (x + 1) % Wrap
    <3>1. x \in Int /\ 1 \in Int
      BY ONLY x \in Nat
    <3> QED
      BY ONLY ModAdd, <1>0, <3>1, Zenon
  <2> QED
    BY ONLY <1>2, <1>3, <2>1
<1>6. ASSUME NEW i \in 1..n + m PROVE buf'[At(r + i - 1)] = buf[At(r + i - 1)]
  <2>1. PICK j \in 0..INPUT_BUF - 1, k \in 0..INPUT_BUF - 1 : j = i - 1 /\ k = n + m
    BY ONLY <1>0, n + m < INPUT_BUF
  <2>2. j # k
    BY ONLY <2>1
  <2>3. At(r + j) # At(r + k)
    <3>1. \A a, d \in 0..INPUT_BUF - 1 : At(r + a) = At(r + d) => a = d
      BY ONLY AtFacts, ConsoleAssumption, <1>1, Zenon
    <3> QED
      BY ONLY <2>2, <3>1, Zenon
  <2>4. r + j = r + i - 1 /\ r + k = x
    BY ONLY <1>1, <1>2, <2>1
  <2>5. At(r + i - 1) # At(e)
    BY ONLY <1>4, <2>3, <2>4
  <2>6. At(r + i - 1) \in 0..INPUT_BUF - 1
    <3>1. PICK y \in Nat : y = r + i - 1
      BY ONLY <1>1
    <3> QED
      BY ONLY AtFacts, ConsoleAssumption, <3>1
  <2> QED
    BY ONLY <1>1, <2>5, <2>6, buf' = [buf EXCEPT ![At(e)] = c]
<1>7. buf'[At(r + (n + m + 1) - 1)] = c
  <2>1. r + (n + m + 1) - 1 = x
    BY ONLY <1>1, <1>2
  <2> QED
    BY ONLY <1>1, <1>4, <2>1, buf' = [buf EXCEPT ![At(e)] = c]
<1>8. buf' \in [0..INPUT_BUF - 1 -> Char]
  BY ONLY <1>1, <1>4, buf' = [buf EXCEPT ![At(e)] = c]
<1> QED
  BY ONLY <1>5, <1>6, <1>7, <1>8 DEF Typed

(* The cells of input.buf around the place of e, before and after.         *)
LEMMA TypedCells ==
  ASSUME ConsoleAssumption, TypeOK, NEW n \in Nat, NEW m \in Nat, Shape(n, m), n + m < INPUT_BUF,
         NEW c \in Char, buf' = [buf EXCEPT ![At(e)] = c], r' = r
  PROVE  /\ Cells(r, n)' = Cells(r, n)
         /\ Cells(r + n, m + 1)' = Append(Cells(r + n, m), c)
         /\ Cells(r, n + m + 1)' = Cells(r, n) \o Append(Cells(r + n, m), c)
<1>0. INPUT_BUF \in Nat \ {0} /\ r \in Nat
  <2>1. INPUT_BUF \in Nat \ {0} /\ Wrap \in Nat \ {0}
    BY Sizes
  <2> QED
    BY <2>1 DEF TypeOK
<1>1. /\ \A i \in 1..n + m : buf'[At(r + i - 1)] = buf[At(r + i - 1)]
      /\ buf'[At(r + (n + m + 1) - 1)] = c
  <2>1. Typed(n, m, c)
    BY Typing, Zenon
  <2> QED
    BY ONLY <2>1 DEF Typed
<1>2. PICK s \in Seq(Char) : s = Cells(r, n) /\ Len(s) = n
  BY ONLY CellSeq, ConsoleAssumption, TypeOK, <1>0
<1>3. PICK t \in Seq(Char) : t = Cells(r + n, m) /\ Len(t) = m
  <2>1. r + n \in Nat
    BY ONLY <1>0
  <2> QED
    BY ONLY CellSeq, ConsoleAssumption, TypeOK, <2>1
<1>4. \A i \in 1..n : s[i] = buf[At(r + i - 1)]
  BY ONLY <1>2 DEF Cells
<1>5. \A i \in 1..m : t[i] = buf[At(r + (n + i) - 1)]
  <2>1. \A i \in 1..m : r + n + i - 1 = r + (n + i) - 1
    BY ONLY <1>0
  <2>2. \A i \in 1..m : t[i] = buf[At(r + n + i - 1)]
    BY ONLY <1>3 DEF Cells
  <2> QED
    BY ONLY <2>1, <2>2
<1>6. \A a, k : Cells(a, k)' = [i \in 1..k |-> buf'[At(a + i - 1)]]
  BY ONLY TRUE DEF Cells, At
<1>7. Cells(r, n)' = Cells(r, n)
  <2>1. \A i \in 1..n : i \in 1..n + m
    BY ONLY n \in Nat
  <2>2. Cells(r, n)' = [i \in 1..n |-> buf'[At(r' + i - 1)]]
    BY ONLY TRUE DEF Cells, At
  <2> QED
    BY ONLY <1>1, <2>1, <2>2, r' = r, ConsoleAssumption, TypeOK DEF Cells
<1>8. Cells(r + n, m + 1)' = Append(t, c)
  <2>1. \A i \in 1..m + 1 : r + n + i - 1 = r + (n + i) - 1
    BY ONLY <1>0
  <2>2. Cells(r + n, m + 1)' = [i \in 1..m + 1 |-> buf'[At(r + n + i - 1)]]
    BY ONLY r' = r DEF Cells, At
  <2>3. \A i \in 1..m : n + i \in 1..n + m
    BY ONLY n \in Nat
  <2>4. \A i \in 1..m : buf'[At(r + n + i - 1)] = t[i]
    BY ONLY <1>1, <1>5, <2>1, <2>3, \A i \in 1..m : i \in 1..m + 1, Zenon
  <2>5. buf'[At(r + n + (m + 1) - 1)] = c
    <3>1. r + n + (m + 1) - 1 = r + (n + m + 1) - 1
      BY ONLY <1>0
    <3> QED
      BY ONLY <1>1, <3>1
  <2>6. \A i \in 1..m + 1 : i \in 1..m \/ i = m + 1
    BY ONLY m \in Nat
  <2>7. Append(t, c) = [i \in 1..m + 1 |-> IF i \in 1..m THEN t[i] ELSE c]
    BY ONLY <1>3
  <2>8. \A i \in 1..m + 1 : buf'[At(r + n + i - 1)] = IF i \in 1..m THEN t[i] ELSE c
    BY ONLY <2>4, <2>5, <2>6
  <2> QED
    BY ONLY <2>2, <2>7, <2>8
<1>9. Cells(r, n + m + 1)' = s \o Append(t, c)
  <2>1. PICK l \in Nat : l = n + m + 1
    BY ONLY n \in Nat
  <2>2. Cells(r, l)' = [i \in 1..l |-> buf'[At(r + i - 1)]]
    BY ONLY r' = r DEF Cells, At
  <2>3. ASSUME NEW i \in 1..l
        PROVE  buf'[At(r + i - 1)] = IF i <= n THEN s[i] ELSE Append(t, c)[i - n]
    <3>1. CASE i <= n
      <4>1. i \in 1..n /\ i \in 1..n + m
        BY ONLY <3>1, <2>1
      <4> QED
        BY ONLY <1>1, <1>4, <3>1, <4>1
    <3>2. CASE i > n /\ i <= n + m
      <4>1. PICK j \in 1..m : j = i - n
        BY ONLY <3>2
      <4>2. i \in 1..n + m /\ n + j = i /\ ~(i <= n)
        BY ONLY <3>2, <4>1
      <4>3. Append(t, c)[j] = t[j]
        BY ONLY <1>3
      <4> QED
        BY ONLY <1>1, <1>5, <4>1, <4>2, <4>3, ConsoleAssumption, TypeOK
    <3>3. CASE i = n + m + 1
      <4>1. i - n = m + 1 /\ ~(i <= n)
        BY ONLY <3>3
      <4>2. Append(t, c)[m + 1] = c
        BY ONLY <1>3
      <4> QED
        BY ONLY <1>1, <3>3, <4>1, <4>2, ConsoleAssumption, TypeOK
    <3> QED
      <4>1. i <= n \/ (i > n /\ i <= n + m) \/ i = n + m + 1
        BY ONLY <2>1
      <4> QED
        BY ONLY <3>1, <3>2, <3>3, <4>1, Zenon
  <2>4. PICK u \in Seq(Char) : u = Append(t, c) /\ Len(u) = m + 1
    <3>1. Append(t, c) \in Seq(Char) /\ Len(Append(t, c)) = Len(t) + 1
      BY ONLY AppendProperties
    <3> QED
      BY ONLY <1>3, <3>1
  <2>5. s \o u = [i \in 1..l |-> IF i <= n THEN s[i] ELSE u[i - n]]
    <3>1. /\ s \o u \in Seq(Char) /\ Len(s \o u) = Len(s) + Len(u)
          /\ \A i \in 1..Len(s) + Len(u) : (s \o u)[i] = IF i <= Len(s) THEN s[i] ELSE u[i - Len(s)]
      BY ONLY ConcatProperties
    <3>2. Len(s) = n /\ Len(s) + Len(u) = l
      BY ONLY <1>2, <2>1, <2>4
    <3>3. PICK v \in Seq(Char) : v = s \o u
      BY ONLY <3>1, ConsoleAssumption, TypeOK
    <3>4. Len(v) = l /\ \A i \in 1..l : v[i] = IF i <= n THEN s[i] ELSE u[i - n]
      BY ONLY <3>1, <3>2, <3>3, Zenon
    <3>5. v = [i \in 1..l |-> v[i]]
      BY ONLY <3>4
    <3>6. v = [i \in 1..l |-> IF i <= n THEN s[i] ELSE u[i - n]]
      BY ONLY <3>4, <3>5
    <3> QED
      BY ONLY <3>3, <3>6
  <2>6. Cells(r, l)' = [i \in 1..l |-> IF i <= n THEN s[i] ELSE u[i - n]]
    BY ONLY <2>2, <2>3, <2>4
  <2> QED
    BY ONLY <2>1, <2>4, <2>5, <2>6, Zenon
<1> QED
  BY ONLY <1>2, <1>3, <1>7, <1>8, <1>9

(* The shape of the next state says what the ring holds then.              *)
LEMMA ShapedNext ==
  ASSUME ConsoleAssumption, NEW n \in Nat, NEW m \in Nat, r' \in 0..Wrap - 1, Shape(n, m)'
  PROVE  /\ w' \in 0..Wrap - 1 /\ e' \in 0..Wrap - 1
         /\ Dist(r, w)' = n /\ Dist(w, e)' = m
         /\ Ring(r, w)' = Cells(r, n)' /\ Ring(w, e)' = Cells(r + n, m)'
<1>1. n + m <= INPUT_BUF /\ w' = (r' + n) % Wrap /\ e' = (r' + n + m) % Wrap
  BY DEF Shape
<1>2. /\ w' \in 0..Wrap - 1 /\ e' \in 0..Wrap - 1
      /\ Dist(r', w') = n /\ Dist(w', e') = m
      /\ \A i \in Nat \ {0} : At(w' + i - 1) = At(r' + n + i - 1)
  <2>1. n + m <= INPUT_BUF
    BY ONLY <1>1
  <2>2. \A b, c : b = (r' + n) % Wrap /\ c = (r' + n + m) % Wrap => Apart(r', b, c, n, m)
    BY ONLY <2>1, Three, ConsoleAssumption, r' \in 0..Wrap - 1, Zenon
  <2> QED
    BY ONLY <1>1, <2>2, Zenon DEF Apart
<1>3. Dist(r, w)' = n /\ Dist(w, e)' = m
  BY ONLY <1>2 DEF Dist
<1>4. Ring(r, w)' = Cells(r, n)'
  BY ONLY <1>2 DEF Ring, Cells, At, Dist
<1>5. Ring(w, e)' = [i \in 1..m |-> buf'[At(w' + i - 1)]]
  BY ONLY <1>2 DEF Ring, At, Dist
<1>6. \A i \in 1..m : At(w' + i - 1) = At(r' + n + i - 1)
  BY ONLY <1>2
<1>7. Cells(r + n, m)' = [i \in 1..m |-> buf'[At(r' + n + i - 1)]]
  BY ONLY TRUE DEF Cells, At
<1>8. Ring(w, e)' = Cells(r + n, m)'
  BY ONLY <1>5, <1>6, <1>7
<1> QED
  BY ONLY <1>2, <1>3, <1>4, <1>8

(* What the invariant says of the ring, for some n and m.                  *)
Holds(n, m) ==
  /\ Shape(n, m) /\ r \in 0..Wrap - 1 /\ r \in Nat
  /\ Dist(r, w) = n /\ Dist(w, e) = m /\ Dist(r, e) = n + m
  /\ Ring(r, w) = Cells(r, n) /\ Ring(w, e) = Cells(r + n, m)
  /\ Ring(r, w) \in Seq(Char) /\ Len(Ring(r, w)) = n
  /\ Ring(w, e) \in Seq(Char) /\ Len(Ring(w, e)) = m

(* In every state of the invariant the ring holds n complete characters and *)
(* m of the line being typed.                                               *)
LEMMA InRing ==
  ASSUME ConsoleAssumption, ConsoleInv
  PROVE  \E n, m \in Nat : Holds(n, m)
<1>1. TypeOK /\ Dist(r, w) + Dist(w, e) <= INPUT_BUF
  BY DEF ConsoleInv, Held
<1>2. PICK n \in Nat, m \in Nat : Shape(n, m)
  BY <1>1, HasShape
<1>3. r \in 0..Wrap - 1 /\ r \in Nat /\ r + n \in Nat
  <2>1. Wrap \in Nat
    BY Sizes
  <2> QED
    BY ONLY <1>1, <2>1 DEF TypeOK
<1>4. /\ Dist(r, w) = n /\ Dist(w, e) = m /\ Dist(r, e) = n + m
      /\ Ring(r, w) = Cells(r, n) /\ Ring(w, e) = Cells(r + n, m)
  BY ONLY Shaped, ConsoleAssumption, <1>2, <1>3, Zenon
<1>5. Cells(r, n) \in Seq(Char) /\ Len(Cells(r, n)) = n
  BY ONLY CellSeq, ConsoleAssumption, <1>1, <1>3
<1>6. Cells(r + n, m) \in Seq(Char) /\ Len(Cells(r + n, m)) = m
  BY ONLY CellSeq, ConsoleAssumption, <1>1, <1>3
<1>7. Holds(n, m)
  BY ONLY <1>2, <1>3, <1>4, <1>5, <1>6, Zenon DEF Holds
<1> QED
  BY ONLY <1>7, Zenon

(* consoleintr commits at a newline, an end of file, or when the ring is    *)
(* full.                                                                   *)
LEMMA Commit ==
  ASSUME ConsoleAssumption, NEW n \in Nat, NEW m \in Nat, Holds(n, m), n + m < INPUT_BUF, NEW c
  PROVE  Commits(c) <=> c \in {Newline, Eof} \/ n + m + 1 = INPUT_BUF
<1>0. INPUT_BUF \in Nat \ {0} /\ Wrap \in Nat \ {0} /\ INPUT_BUF < Wrap
  BY Sizes
<1>1. r \in 0..Wrap - 1 /\ r \in Nat /\ e = (r + n + m) % Wrap
  BY DEF Holds, Shape
<1>2. PICK x \in Int : x = r + n + m
  BY ONLY <1>1
<1>3. ((x % Wrap) + 1) % Wrap = (x + 1) % Wrap
  <2>1. 1 \in Int
    OBVIOUS
  <2> QED
    BY ONLY ModAdd, <1>0, <2>1, Zenon
<1>4. PICK k \in 0..Wrap - 1, l \in 0..Wrap - 1 : k = n + m + 1 /\ l = INPUT_BUF
  BY ONLY <1>0, n + m < INPUT_BUF
<1>5. x + 1 = r + k
  BY ONLY <1>1, <1>2, <1>4
<1>6. (e + 1) % Wrap = (r + k) % Wrap
  BY ONLY <1>1, <1>2, <1>3, <1>5
<1>7. Dist(r, (r + k) % Wrap) = k /\ Dist(r, (r + l) % Wrap) = l
  BY ONLY Window, ConsoleAssumption, <1>1
<1>8. (e + 1) % Wrap = (r + INPUT_BUF) % Wrap <=> k = l
  BY ONLY <1>4, <1>6, <1>7
<1> QED
  BY ONLY <1>4, <1>8 DEF Commits

-----------------------------------------------------------------------------
(* Each action keeps the invariant and is a step, or a stutter, of         *)
(* LineInput.                                                              *)

LEMMA KeyStep ==
  ASSUME ConsoleAssumption, ConsoleInv, NEW c \in Char, Key(c)
  PROVE  ConsoleInv' /\ Lines!Type(c)
<1>0. INPUT_BUF \in Nat \ {0} /\ Wrap \in Nat \ {0} /\ INPUT_BUF < Wrap
  BY Sizes
<1>1. PICK n \in Nat, m \in Nat : Holds(n, m)
  BY InRing
<1>2. /\ TypeOK /\ Shape(n, m) /\ r \in 0..Wrap - 1 /\ r \in Nat
      /\ n + m < INPUT_BUF /\ buf' = [buf EXCEPT ![At(e)] = c] /\ r' = r /\ e' = (e + 1) % Wrap
  BY <1>1 DEF Holds, Key, HasRoom, ConsoleInv
<1>3. buf' \in [0..INPUT_BUF - 1 -> Char] /\ e' = (r + n + m + 1) % Wrap
  <2>1. Typed(n, m, c)
    BY ONLY Typing, ConsoleAssumption, <1>2, Zenon
  <2> QED
    BY ONLY <1>2, <2>1 DEF Typed
<1>4. /\ Cells(r, n)' = Cells(r, n)
      /\ Cells(r + n, m + 1)' = Append(Cells(r + n, m), c)
      /\ Cells(r, n + m + 1)' = Cells(r, n) \o Append(Cells(r + n, m), c)
  BY ONLY TypedCells, ConsoleAssumption, <1>2, Zenon
<1>5. Commits(c) <=> c \in {Newline, Eof} \/ n + m + 1 = INPUT_BUF
  BY ONLY Commit, ConsoleAssumption, <1>1, <1>2
<1>6. /\ Ring(r, w) = Cells(r, n) /\ Ring(w, e) = Cells(r + n, m)
      /\ Len(Ring(r, w)) = n /\ Len(Ring(w, e)) = m
      /\ Ring(w, e) \in Seq(Char)
  BY <1>1 DEF Holds
<1>7. /\ lock' = None /\ lock = None /\ UNCHANGED <<pc, killed, left, target, text>>
      /\ asleep' \subseteq asleep /\ asleep \subseteq Reader
  BY Zenon DEF Key, ConsoleInv, TypeOK
<1>8. Calls'
  BY <1>7 DEF ConsoleInv, Calls
<1>9. CASE Commits(c)
  <2>1. w' = e' /\ asleep' = {}
    BY <1>9 DEF Key
  <2>2. PICK l \in Nat : l = n + m + 1
    BY ONLY n \in Nat
  <2>3. Shape(l, 0)'
    <3>1. l + 0 = l /\ r + l + 0 = r + n + m + 1 /\ r + l = r + n + m + 1 /\ l + 0 <= INPUT_BUF
      BY ONLY <1>0, <1>2, <2>2
    <3> QED
      BY ONLY <1>2, <1>3, <2>1, <3>1 DEF Shape
  <2>4. /\ w' \in 0..Wrap - 1 /\ e' \in 0..Wrap - 1
        /\ Dist(r, w)' = l /\ Dist(w, e)' = 0
        /\ Ring(r, w)' = Cells(r, l)' /\ Ring(w, e)' = Cells(r + l, 0)'
    BY ONLY ShapedNext, ConsoleAssumption, <1>2, <2>3
  <2>5. Ring(w, e)' = <<>>
    BY ONLY <2>4 DEF Cells
  <2>6. Held'
    <3>1. l <= INPUT_BUF /\ l + 0 = l
      BY ONLY <1>0, <1>2, <2>2
    <3> QED
      BY ONLY <2>4, <3>1 DEF Held
  <2>7. TypeOK'
    BY <1>2, <1>3, <1>7, <2>1, <2>4, Zenon DEF TypeOK
  <2>8. NoWakeupMissed'
    BY <1>7, <2>1 DEF NoWakeupMissed
  <2>9. Lines!Type(c)
    <3>1. Ring(r, w)' = Ring(r, w) \o Append(Ring(w, e), c)
      BY ONLY <1>4, <1>6, <2>2, <2>4
    <3>2. Len(Ring(r, w)) + Len(Ring(w, e)) < INPUT_BUF
      BY ONLY <1>2, <1>6, Zenon
    <3>3. c \in {Newline, Eof} \/ Len(Ring(r, w)) + Len(Ring(w, e)) + 1 = INPUT_BUF
      BY ONLY <1>5, <1>6, <1>9
    <3> QED
      BY ONLY <1>7, <2>5, <3>1, <3>2, <3>3, Zenon DEF Lines!Type
  <2> QED
    BY ONLY <1>8, <2>6, <2>7, <2>8, <2>9 DEF ConsoleInv
<1>10. CASE ~Commits(c)
  <2>1. w' = w /\ asleep' = asleep
    BY <1>10 DEF Key
  <2>2. PICK l \in Nat : l = m + 1
    BY ONLY m \in Nat
  <2>3. Shape(n, l)'
    <3>1. r + n + l = r + n + m + 1 /\ n + l <= INPUT_BUF
      BY ONLY <1>0, <1>2, <2>2
    <3>2. w = (r + n) % Wrap
      BY ONLY <1>2 DEF Shape
    <3> QED
      BY ONLY <1>2, <1>3, <2>1, <3>1, <3>2 DEF Shape
  <2>4. /\ w' \in 0..Wrap - 1 /\ e' \in 0..Wrap - 1
        /\ Dist(r, w)' = n /\ Dist(w, e)' = l
        /\ Ring(r, w)' = Cells(r, n)' /\ Ring(w, e)' = Cells(r + n, l)'
    BY ONLY ShapedNext, ConsoleAssumption, <1>2, <2>3
  <2>5. Ring(w, e)' = Append(Ring(w, e), c) /\ Ring(r, w)' = Ring(r, w)
    BY ONLY <1>4, <1>6, <2>2, <2>4, Zenon
  <2>6. Held'
    <3>1. n + l <= INPUT_BUF
      BY ONLY <1>0, <1>2, <2>2
    <3>2. \A i \in 1..m : Ring(w, e)[i] \notin {Newline, Eof}
      BY <1>1 DEF ConsoleInv, Held, Holds
    <3>3. c \notin {Newline, Eof}
      BY ONLY <1>5, <1>10
    <3>4. PICK t \in Seq(Char) : t = Ring(w, e) /\ Len(t) = m
      BY ONLY <1>6
    <3>5. \A i \in 1..l : Append(t, c)[i] \notin {Newline, Eof}
      BY ONLY <2>2, <3>2, <3>3, <3>4
    <3> QED
      BY ONLY <2>4, <2>5, <3>1, <3>4, <3>5 DEF Held
  <2>7. TypeOK'
    BY <1>2, <1>3, <1>7, <2>1, <2>4 DEF TypeOK
  <2>8. NoWakeupMissed'
    BY <1>2, <1>7, <2>1 DEF NoWakeupMissed, ConsoleInv
  <2>9. Lines!Type(c)
    <3>2. Len(Ring(r, w)) + Len(Ring(w, e)) < INPUT_BUF
      BY ONLY <1>2, <1>6
    <3>3. ~(c \in {Newline, Eof} \/ Len(Ring(r, w)) + Len(Ring(w, e)) + 1 = INPUT_BUF)
      BY ONLY <1>5, <1>6, <1>10
    <3> QED
      BY ONLY <1>7, <2>5, <3>2, <3>3 DEF Lines!Type
  <2> QED
    BY ONLY <1>8, <2>6, <2>7, <2>8, <2>9 DEF ConsoleInv
<1> QED
  BY ONLY <1>9, <1>10

(* Characters taken back from the line: it is cut to its first l.          *)
LEMMA EraseStep ==
  ASSUME ConsoleAssumption, ConsoleInv, NEW n \in Nat, NEW m \in Nat, Holds(n, m),
         NEW l \in 0..m, e' = (r + n + l) % Wrap, lock = None,
         UNCHANGED <<buf, r, w, lock, pc, asleep, killed, left, target, text>>
  PROVE  /\ ConsoleInv'
         /\ Ring(r, w)' = Ring(r, w) /\ Ring(w, e)' = SubSeq(Ring(w, e), 1, l)
<1>0. INPUT_BUF \in Nat \ {0} /\ Wrap \in Nat \ {0} /\ INPUT_BUF < Wrap
  BY Sizes, Zenon
<1>1. /\ r \in 0..Wrap - 1 /\ r \in Nat /\ r' = r /\ w' = w /\ buf' = buf /\ n + m <= INPUT_BUF
      /\ Ring(r, w) = Cells(r, n) /\ Ring(w, e) = Cells(r + n, m) /\ w = (r + n) % Wrap
      /\ Ring(w, e) \in Seq(Char) /\ Len(Ring(w, e)) = m
  BY DEF Holds, Shape
<1>2. l \in Nat /\ n + l <= INPUT_BUF /\ 1..l \subseteq 1..m
  BY ONLY <1>0, <1>1
<1>3. Shape(n, l)'
  BY ONLY <1>1, <1>2, e' = (r + n + l) % Wrap, Zenon DEF Shape
<1>4. /\ w' \in 0..Wrap - 1 /\ e' \in 0..Wrap - 1
      /\ Dist(r, w)' = n /\ Dist(w, e)' = l
      /\ Ring(r, w)' = Cells(r, n)' /\ Ring(w, e)' = Cells(r + n, l)'
  BY ONLY ShapedNext, ConsoleAssumption, <1>1, <1>2, <1>3, Zenon
<1>5. Cells(r, n)' = Cells(r, n) /\ Cells(r + n, l)' = Cells(r + n, l)
  BY ONLY <1>1, Zenon DEF Cells, At
<1>6. Cells(r + n, l) = SubSeq(Ring(w, e), 1, l)
  <2>1. PICK t \in Seq(Char) : t = Ring(w, e) /\ Len(t) = m
    BY ONLY <1>1
  <2>2. SubSeq(t, 1, l) = [i \in 1..l |-> t[i]]
    BY ONLY <1>2, <2>1
  <2>3. \A i \in 1..l : t[i] = buf[At(r + n + i - 1)]
    BY ONLY <1>1, <1>2, <2>1, Zenon DEF Cells
  <2> QED
    BY ONLY <2>1, <2>2, <2>3 DEF Cells
<1>7. Held'
  <2>1. \A i \in 1..m : Ring(w, e)[i] \notin {Newline, Eof}
    BY Zenon DEF ConsoleInv, Held, Holds
  <2>2. \A i \in 1..l : Cells(r + n, l)[i] = Ring(w, e)[i]
    BY ONLY <1>1, <1>2, Zenon DEF Cells
  <2>3. \A i \in 1..l : Cells(r + n, l)[i] \notin {Newline, Eof}
    BY ONLY <1>2, <2>1, <2>2, Zenon
  <2> QED
    BY ONLY <1>2, <1>4, <1>5, <2>3 DEF Held
<1>8. TypeOK'
  BY <1>4 DEF ConsoleInv, TypeOK
<1>9. Calls' /\ NoWakeupMissed'
  BY Zenon DEF ConsoleInv, Calls, NoWakeupMissed
<1> QED
  BY ONLY <1>1, <1>4, <1>5, <1>6, <1>7, <1>8, <1>9 DEF ConsoleInv

(* Backspace erases one character of the line and none of a complete one.   *)
LEMMA BackspaceStep ==
  ASSUME ConsoleAssumption, ConsoleInv, Backspace
  PROVE  ConsoleInv' /\ Lines!Erase
<1>0. INPUT_BUF \in Nat \ {0} /\ Wrap \in Nat \ {0} /\ INPUT_BUF < Wrap
  BY Sizes
<1>1. PICK n \in Nat, m \in Nat : Holds(n, m)
  BY InRing, Zenon
<1>2. /\ r \in Nat /\ e = (r + n + m) % Wrap /\ w = (r + n) % Wrap
      /\ Ring(w, e) \in Seq(Char) /\ Len(Ring(w, e)) = m
  BY <1>1 DEF Holds, Shape
<1>3. /\ lock = None /\ e # w /\ e' = (e - 1) % Wrap
      /\ UNCHANGED <<buf, r, w, lock, pc, asleep, killed, left, target, text>>
  BY DEF Backspace
<1>4. m # 0
  <2>1. r + n + 0 = r + n
    BY ONLY <1>2
  <2> QED
    BY ONLY <1>2, <1>3, <2>1
<1>5. PICK l \in 0..m : l = m - 1
  BY ONLY <1>4
<1>6. e' = (r + n + l) % Wrap
  <2>1. PICK x \in Int, y \in Int : x = r + n + m /\ y = -1
    BY ONLY <1>2
  <2>2. ((x % Wrap) + y) % Wrap = (x + y) % Wrap
    BY ONLY ModAdd, <1>0, Zenon
  <2>3. x % Wrap \in Int
    BY ONLY <1>0
  <2>4. PICK z \in Int : z = x % Wrap
    BY ONLY <2>3
  <2>5. z + y = z - 1 /\ x + y = r + n + l
    BY ONLY <1>2, <1>5, <2>1
  <2> QED
    BY ONLY <1>2, <1>3, <2>1, <2>2, <2>4, <2>5
<1>7. /\ ConsoleInv'
      /\ Ring(r, w)' = Ring(r, w) /\ Ring(w, e)' = SubSeq(Ring(w, e), 1, l)
  BY ONLY EraseStep, ConsoleAssumption, ConsoleInv, <1>1, <1>3, <1>6, Zenon
<1>8. Lines!Erase
  <2>1. Ring(w, e)' = SubSeq(Ring(w, e), 1, Len(Ring(w, e)) - 1)
    BY ONLY <1>2, <1>5, <1>7
  <2>2. Ring(w, e) # <<>>
    BY ONLY <1>2, <1>4
  <2> QED
    BY ONLY <1>3, <1>7, <2>1, <2>2, Zenon DEF Lines!Erase
<1> QED
  BY ONLY <1>7, <1>8

(* C('U') erases the line and nothing of a complete one.                    *)
LEMMA KillLineStep ==
  ASSUME ConsoleAssumption, ConsoleInv, KillLine
  PROVE  ConsoleInv' /\ Lines!Erase
<1>1. PICK n \in Nat, m \in Nat : Holds(n, m)
  BY InRing
<1>2. /\ r \in Nat /\ e = (r + n + m) % Wrap /\ w = (r + n) % Wrap /\ w \in 0..Wrap - 1
      /\ Ring(w, e) \in Seq(Char) /\ Len(Ring(w, e)) = m /\ Dist(w, e) = m
  BY <1>1, Zenon DEF Holds, Shape, ConsoleInv, TypeOK
<1>3. /\ lock = None /\ e # w
      /\ UNCHANGED <<buf, r, w, lock, pc, asleep, killed, left, target, text>>
  BY DEF KillLine
<1>4. m # 0
  <2>1. r + n + 0 = r + n
    BY ONLY <1>2
  <2> QED
    BY ONLY <1>2, <1>3, <2>1
<1>5. PICK k \in 0..m : (k > 0 => Ring(w, e)[k] = Newline) /\ e' = (w + k) % Wrap
  BY <1>2, Zenon DEF KillLine
<1>6. k = 0
  <2>1. \A i \in 1..m : Ring(w, e)[i] \notin {Newline, Eof}
    BY <1>2 DEF ConsoleInv, Held
  <2> QED
    BY ONLY <1>5, <2>1
<1>7. e' = (r + n + 0) % Wrap
  <2>0. Wrap \in Nat \ {0}
    BY Sizes
  <2>1. (w + 0) % Wrap = w
    <3>1. w % Wrap = w
      BY ONLY <1>2, <2>0, ModSmall
    <3>2. w + 0 = w
      BY ONLY <1>2
    <3> QED
      BY ONLY <3>1, <3>2
  <2>2. r + n + 0 = r + n
    BY ONLY <1>2
  <2> QED
    BY ONLY <1>2, <1>5, <1>6, <2>1, <2>2
<1>8. /\ ConsoleInv'
      /\ Ring(r, w)' = Ring(r, w) /\ Ring(w, e)' = SubSeq(Ring(w, e), 1, 0)
  <2>1. 0 \in 0..m
    BY ONLY m \in Nat
  <2> QED
    BY ONLY EraseStep, ConsoleAssumption, ConsoleInv, <1>1, <1>3, <1>7, <2>1, Zenon
<1>9. Lines!Erase
  <2>1. Ring(w, e)' = <<>>
    BY ONLY <1>2, <1>8
  <2>2. Ring(w, e) # <<>>
    BY ONLY <1>2, <1>4
  <2> QED
    BY ONLY <1>3, <1>8, <2>1, <2>2 DEF Lines!Erase
<1> QED
  BY ONLY <1>8, <1>9, Zenon

(* The first k characters of the complete input have been read.            *)
LEMMA Consumed ==
  ASSUME ConsoleAssumption, ConsoleInv, NEW n \in Nat, NEW m \in Nat, Holds(n, m),
         NEW k \in 0..n, r' = (r + k) % Wrap, UNCHANGED <<buf, w, e>>
  PROVE  /\ Held' /\ r' \in 0..Wrap - 1
         /\ Ring(r, w)' = SubSeq(Ring(r, w), k + 1, n) /\ Ring(w, e)' = Ring(w, e)
<1>1. TypeOK /\ Shape(n, m) /\ Ring(w, e) = Ring(w, e)
  BY DEF ConsoleInv, Holds
<1>2. /\ r' \in 0..Wrap - 1 /\ Shape(n - k, m)'
      /\ Ring(r, w)' = SubSeq(Ring(r, w), k + 1, n) /\ Ring(w, e)' = Ring(w, e)
  BY ONLY Reading, ConsoleAssumption, <1>1, r' = (r + k) % Wrap, UNCHANGED <<buf, w, e>>, Zenon
<1>3. PICK l \in Nat : l = n - k
  BY ONLY n \in Nat
<1>4. Dist(r, w)' = l /\ Dist(w, e)' = m /\ l + m <= INPUT_BUF
  <2>1. Shape(l, m)'
    BY ONLY <1>2, <1>3
  <2>2. Dist(r, w)' = l /\ Dist(w, e)' = m
    BY ONLY ShapedNext, ConsoleAssumption, <1>2, <2>1
  <2> QED
    BY ONLY <2>1, <2>2 DEF Shape
<1>5. \A i \in 1..m : Ring(w, e)[i] \notin {Newline, Eof}
  BY Zenon DEF ConsoleInv, Held, Holds
<1>6. Held'
  BY ONLY <1>2, <1>4, <1>5, Zenon DEF Held
<1> QED
  BY ONLY <1>2, <1>6

(* What Copy does to the reader's text.                                    *)
LEMMA Copied ==
  ASSUME ConsoleInv, NEW n \in Nat, NEW m \in Nat, Holds(n, m), NEW k \in 0..n, NEW p \in Reader, Copy(p, k)
  PROVE  /\ text' \in [Reader -> Seq(Char)]
         /\ Len(text'[p]) = Len(text[p]) + k
         /\ \A q \in Reader : q # p => text'[q] = text[q]
         /\ k = 0 => text' = text
<1>1. text \in [Reader -> Seq(Char)] /\ text[p] \in Seq(Char)
  BY DEF ConsoleInv, TypeOK
<1>2. PICK s \in Seq(Char) : s = Ring(r, w) /\ Len(s) = n
  BY DEF Holds
<1>3. PICK u \in Seq(Char) : u = SubSeq(s, 1, k) /\ Len(u) = k
  <2>1. SubSeq(s, 1, k) \in Seq(Char) /\ Len(SubSeq(s, 1, k)) = k
    BY ONLY <1>2
  <2> QED
    BY ONLY <2>1
<1>4. text' = [text EXCEPT ![p] = text[p] \o u]
  BY <1>2, <1>3, Zenon DEF Copy
<1>5. PICK v \in Seq(Char) : v = text[p] \o u /\ Len(v) = Len(text[p]) + k
  <2>1. text[p] \o u \in Seq(Char) /\ Len(text[p] \o u) = Len(text[p]) + Len(u)
    BY ONLY <1>1, ConcatProperties, Zenon
  <2> QED
    BY ONLY <1>3, <2>1
<1>6. k = 0 => v = text[p]
  <2>1. k = 0 => u = <<>>
    BY ONLY <1>3
  <2>2. text[p] \o <<>> = text[p]
    BY ONLY <1>1, ConcatEmptySeq
  <2> QED
    BY ONLY <1>5, <2>1, <2>2, Zenon
<1>7. text' = [text EXCEPT ![p] = v]
  BY ONLY <1>4, <1>5
<1>8. k = 0 => text' = text
  BY ONLY <1>1, <1>6, <1>7, Zenon
<1> QED
  BY ONLY <1>1, <1>5, <1>7, <1>8

(* A call that returns leaves the other readers alone.                     *)
LEMMA Returned ==
  ASSUME ConsoleInv, NEW p \in Reader, pc[p] = "read", p \notin asleep, Return(p),
         text' \in [Reader -> Seq(Char)], \A q \in Reader : q # p => text'[q] = text[q],
         r' \in 0..Wrap - 1, lock = None, None \notin Reader,
         UNCHANGED <<buf, w, e, lock, asleep, killed>>
  PROVE  TypeOK' /\ Calls'
<1>1. TypeOK'
  BY DEF ConsoleInv, TypeOK, Return
<1>2. /\ pc \in [Reader -> {"user", "read", "sleep"}] /\ left \in [Reader -> Nat]
      /\ target \in [Reader -> Nat] /\ asleep \subseteq Reader
  BY Zenon DEF ConsoleInv, TypeOK
<1>3. pc'[p] = "user" /\ \A q \in Reader : q # p => pc'[q] = pc[q] /\ left'[q] = left[q] /\ target'[q] = target[q]
  BY <1>2 DEF Return
<1>4. \A q \in Reader : pc'[q] # "user" => left'[q] > 0 /\ Len(text'[q]) + left'[q] = target'[q]
  BY <1>3, Zenon DEF ConsoleInv, Calls
<1>5. \A q \in Reader : pc'[q] = "sleep" <=> lock' = q
  BY <1>3, Zenon DEF ConsoleInv, Calls
<1>6. \A q \in asleep' : pc'[q] = "read"
  BY <1>2, <1>3, Zenon DEF ConsoleInv, Calls
<1> QED
  BY ONLY <1>1, <1>4, <1>5, <1>6 DEF Calls

(* No reader sleeps while there is complete input.                         *)
LEMMA NobodySleeps ==
  ASSUME ConsoleAssumption, ConsoleInv, NEW n \in Nat, NEW m \in Nat, Holds(n, m), n > 0
  PROVE  lock = None /\ asleep = {}
<1>0. Wrap \in Nat \ {0}
  BY Sizes
<1>1. r # w
  <2>1. r \in Nat /\ Dist(r, w) = n
    BY DEF Holds
  <2>2. r = w => Dist(r, w) = 0
    <3>1. r - r = 0 /\ 0 % Wrap = 0
      BY ONLY <1>0, <2>1
    <3> QED
      BY ONLY <3>1 DEF Dist
  <2> QED
    BY ONLY <2>1, <2>2, n > 0
<1> QED
  BY <1>1 DEF ConsoleInv, NoWakeupMissed

(* A reader's step of LineInput: it takes k characters.                    *)
LEMMA Takes ==
  ASSUME NEW n \in Nat, NEW m \in Nat, Holds(n, m), NEW k \in 1..n, NEW p \in Reader, Copy(p, k),
         \A j \in 1..k : Ring(r, w)[j] # Eof /\ (Ring(r, w)[j] = Newline => j = k),
         Ring(r, w)' = SubSeq(Ring(r, w), k + 1, n), Ring(w, e)' = Ring(w, e)
  PROVE  Lines!Next
<1>1. Len(Ring(r, w)) = n
  BY DEF Holds
<1>2. Lines!Take(p)
  BY <1>1, Zenon DEF Lines!Take, Copy
<1> QED
  BY ONLY <1>2 DEF Lines!Next

(* consoleread ends at a newline or a C('D'), or leaves the C('D') for the  *)
(* next read.                                                               *)
LEMMA ReadStopStep ==
  ASSUME ConsoleAssumption, ConsoleInv, NEW p \in Reader, ReadStop(p)
  PROVE  ConsoleInv' /\ [Lines!Next]_(Lines!vars)
<1>1. PICK n \in Nat, m \in Nat : Holds(n, m)
  BY InRing, Zenon
<1>2. /\ Dist(r, w) = n /\ r \in 0..Wrap - 1 /\ r \in Nat
      /\ Ring(r, w) \in Seq(Char) /\ Len(Ring(r, w)) = n
  BY <1>1 DEF Holds
<1>3. /\ pc[p] = "read" /\ p \notin asleep /\ lock = None /\ Return(p)
      /\ UNCHANGED <<buf, w, e, lock, asleep, killed>>
  BY Zenon DEF ReadStop
<1>4. left[p] \in Nat /\ target[p] \in Nat /\ text[p] \in Seq(Char) /\ None \notin Reader
  BY DEF ConsoleInv, TypeOK, ConsoleAssumption
<1>5. PICK i \in Stops(left[p]) : (\A j \in Stops(left[p]) : i <= j) /\ StopAt(p, i)
  BY Zenon DEF ReadStop
<1>6. i \in 1..n /\ Ring(r, w)[i] \in {Newline, Eof}
  <2>1. Available(left[p]) \in 0..n
    BY ONLY <1>2, <1>4 DEF Available
  <2> QED
    BY ONLY <2>1 DEF Stops
<1>7. \A j \in 1..i - 1 : Ring(r, w)[j] \notin {Newline, Eof}
  <2>1. Available(left[p]) \in 0..n
    BY ONLY <1>2, <1>4, ConsoleAssumption, ConsoleInv DEF Available
  <2>2. PICK a \in 0..n : a = Available(left[p])
    BY ONLY <2>1
  <2>3. i \in 1..a
    BY ONLY <2>2 DEF Stops
  <2>4. \A j \in 1..i - 1 : j \in 1..a /\ ~(i <= j)
    BY ONLY <2>3
  <2>5. \A j \in 1..i - 1 : j \notin Stops(left[p])
    BY ONLY <1>5, <2>4
  <2> QED
    BY ONLY <2>2, <2>4, <2>5 DEF Stops
<1>8. asleep = {}
  BY ONLY NobodySleeps, ConsoleAssumption, ConsoleInv, <1>1, <1>6
<1>9. NoWakeupMissed'
  BY <1>3, <1>8, Zenon DEF NoWakeupMissed
<1>10. \A k \in 0..n : r' = (r + k) % Wrap =>
          /\ Held' /\ r' \in 0..Wrap - 1
          /\ Ring(r, w)' = SubSeq(Ring(r, w), k + 1, n) /\ Ring(w, e)' = Ring(w, e)
  <2>1. UNCHANGED <<buf, w, e>>
    BY ONLY <1>3, Zenon
  <2> QED
    BY ONLY Consumed, ConsoleAssumption, ConsoleInv, <1>1, <2>1, Zenon
<1>11. \A k \in 0..n : Copy(p, k) =>
          /\ text' \in [Reader -> Seq(Char)]
          /\ \A q \in Reader : q # p => text'[q] = text[q]
          /\ k = 0 => text' = text
  BY ONLY Copied, ConsoleInv, <1>1, Zenon
<1>12. \A k, l \in 0..n : Copy(p, k) /\ r' = (r + l) % Wrap => ConsoleInv'
  <2> SUFFICES ASSUME NEW k \in 0..n, NEW l \in 0..n, Copy(p, k), r' = (r + l) % Wrap PROVE ConsoleInv'
    OBVIOUS
  <2>1. TypeOK' /\ Calls'
    BY ONLY Returned, ConsoleInv, <1>3, <1>4, <1>10, <1>11, Copy(p, k), r' = (r + l) %
       Wrap, Zenon
  <2> QED
    BY ONLY <1>9, <1>10, <2>1, r' = (r + l) % Wrap DEF ConsoleInv
<1>13. i \in 0..n /\ i - 1 \in 0..n
  BY ONLY <1>6
<1>14. CASE Ring(r, w)[i] # Eof
  <2>1. Copy(p, i) /\ r' = (r + i) % Wrap
    BY ONLY <1>5, <1>14 DEF StopAt
  <2>2. \A j \in 1..i : Ring(r, w)[j] # Eof /\ (Ring(r, w)[j] = Newline => j = i)
    BY ONLY <1>6, <1>7, <1>14
  <2>3. Lines!Next
    BY ONLY Takes, <1>1, <1>6, <1>10, <1>13, <2>1, <2>2, Zenon
  <2> QED
    BY ONLY <1>12, <1>13, <2>1, <2>3, Zenon
<1>15. CASE Ring(r, w)[i] = Eof /\ KeepEof(p, i)
  <2>1. Copy(p, i - 1) /\ r' = (r + (i - 1)) % Wrap
    BY ONLY <1>5, <1>15, Zenon DEF StopAt
  <2>2. ConsoleInv'
    BY ONLY <1>12, <1>13, <2>1
  <2>3. CASE i > 1
    <3>1. PICK k \in 1..n : k = i - 1
      BY ONLY <1>6, <2>3
    <3>2. \A j \in 1..k : Ring(r, w)[j] # Eof /\ (Ring(r, w)[j] = Newline => j = k)
      BY ONLY <1>7, <3>1
    <3>3. Copy(p, k) /\ r' = (r + k) % Wrap /\ k \in 0..n
      BY ONLY <1>13, <2>1, <3>1, Zenon
    <3>4. Lines!Next
      BY ONLY Takes, <1>1, <1>10, <3>2, <3>3, Zenon
    <3> QED
      BY ONLY <2>2, <3>4
  <2>4. CASE i = 1
    <3>1. Copy(p, 0) /\ r' = (r + 0) % Wrap /\ 0 \in 0..n
      BY ONLY <1>13, <2>1, <2>4
    <3>2. Ring(r, w)' = SubSeq(Ring(r, w), 0 + 1, n) /\ Ring(w, e)' = Ring(w, e) /\ text' = text
      BY ONLY <1>10, <1>11, <3>1
    <3>3. SubSeq(Ring(r, w), 0 + 1, n) = Ring(r, w)
      BY ONLY <1>2
    <3> QED
      BY ONLY <2>2, <3>2, <3>3 DEF Lines!vars
  <2> QED
    BY ONLY <1>6, <2>3, <2>4
<1>16. CASE Ring(r, w)[i] = Eof /\ ~KeepEof(p, i)
  <2>1. Copy(p, i - 1) /\ r' = (r + i) % Wrap
    BY ONLY <1>5, <1>16 DEF StopAt
  <2>2. i = 1 /\ ~(left[p] < target[p])
    BY ONLY <1>6, <1>16 DEF KeepEof
  <2>3. text[p] = <<>>
    <3>1. Len(text[p]) + left[p] = target[p]
      BY <1>3, Zenon DEF ConsoleInv, Calls
    <3>2. Len(text[p]) = 0
      BY ONLY <1>4, <2>2, <3>1
    <3> QED
      BY ONLY <1>4, <3>2
  <2>4. Copy(p, 0) /\ 0 \in 0..n
    BY ONLY <1>13, <2>1, <2>2
  <2>5. Ring(r, w)' = SubSeq(Ring(r, w), 1 + 1, n) /\ Ring(w, e)' = Ring(w, e) /\ text' = text
    BY ONLY <1>10, <1>11, <1>13, <2>1, <2>2, <2>4
  <2>6. PICK s \in Seq(Char) : s = Ring(r, w) /\ Len(s) = n
    BY ONLY <1>2
  <2>7. s # <<>> /\ Head(s) = s[1] /\ Tail(s) = SubSeq(s, 1 + 1, n)
    <3>1. s # <<>> /\ Head(s) = s[1]
      BY ONLY <1>6, <2>6
    <3>2. Tail(s) = SubSeq(s, 2, n)
      BY ONLY <1>6, <2>6
    <3> QED
      BY ONLY <3>1, <3>2
  <2>8. Lines!End(p)
    BY ONLY <1>16, <2>2, <2>3, <2>5, <2>6, <2>7 DEF Lines!End
  <2>9. Lines!Next
    BY ONLY <2>8 DEF Lines!Next
  <2>10. ConsoleInv'
    BY ONLY <1>12, <1>13, <2>1, Zenon
  <2> QED
    BY ONLY <2>9, <2>10, Zenon
<1> QED
  BY ONLY <1>14, <1>15, <1>16, Zenon

(* consoleread ends when it has copied as many characters as it was asked   *)
(* for.                                                                     *)
LEMMA ReadFullStep ==
  ASSUME ConsoleAssumption, ConsoleInv, NEW p \in Reader, ReadFull(p)
  PROVE  ConsoleInv' /\ Lines!Next
<1>1. PICK n \in Nat, m \in Nat : Holds(n, m)
  BY InRing
<1>2. Dist(r, w) = n
  BY <1>1, Zenon DEF Holds
<1>3. /\ pc[p] = "read" /\ p \notin asleep /\ lock = None /\ Return(p)
      /\ Stops(left[p]) = {} /\ Dist(r, w) >= left[p]
      /\ Copy(p, left[p]) /\ r' = (r + left[p]) % Wrap
      /\ UNCHANGED <<buf, w, e, lock, asleep, killed>>
  BY Zenon DEF ReadFull
<1>4. left[p] \in Nat /\ None \notin Reader /\ left[p] > 0
  BY <1>3, Zenon DEF ConsoleInv, TypeOK, ConsoleAssumption, Calls
<1>5. PICK k \in 1..n : k = left[p] /\ n > 0
  BY ONLY <1>2, <1>3, <1>4, ConsoleAssumption, ConsoleInv
<1>6. \A j \in 1..k : Ring(r, w)[j] \notin {Newline, Eof}
  <2>1. Available(k) = k
    BY ONLY <1>2 DEF Available
  <2> QED
    BY ONLY <1>3, <1>5, <2>1 DEF Stops
<1>7. k \in 0..n /\ Copy(p, k) /\ r' = (r + k) % Wrap /\ UNCHANGED <<buf, w, e>>
  BY ONLY <1>3, <1>5
<1>8. /\ Held' /\ r' \in 0..Wrap - 1
      /\ Ring(r, w)' = SubSeq(Ring(r, w), k + 1, n) /\ Ring(w, e)' = Ring(w, e)
  BY ONLY Consumed, ConsoleAssumption, ConsoleInv, <1>1, <1>7
<1>9. /\ text' \in [Reader -> Seq(Char)]
      /\ \A q \in Reader : q # p => text'[q] = text[q]
  BY ONLY Copied, ConsoleInv, <1>1, <1>7
<1>10. TypeOK' /\ Calls'
  BY ONLY Returned, ConsoleInv, <1>3, <1>4, <1>8, <1>9, Zenon
<1>11. asleep = {}
  BY ONLY NobodySleeps, ConsoleAssumption, ConsoleInv, <1>1, <1>5
<1>12. NoWakeupMissed'
  BY ONLY <1>3, <1>11 DEF NoWakeupMissed
<1>13. \A j \in 1..k : Ring(r, w)[j] # Eof /\ (Ring(r, w)[j] = Newline => j = k)
  BY ONLY <1>6
<1>14. Lines!Next
  BY ONLY Takes, <1>1, <1>7, <1>8, <1>13, Zenon
<1> QED
  BY ONLY <1>8, <1>10, <1>12, <1>14 DEF ConsoleInv

(* A reader that goes on waiting holds input.lock until it sleeps.         *)
LEMMA Waits ==
  ASSUME ConsoleInv, NEW p \in Reader, NEW k \in Nat, k < left[p], pc[p] = "read", p \notin asleep,
         pc' = [pc EXCEPT ![p] = "sleep"], left' = [left EXCEPT ![p] = @ - k], lock' = p,
         text' \in [Reader -> Seq(Char)], Len(text'[p]) = Len(text[p]) + k,
         \A q \in Reader : q # p => text'[q] = text[q],
         r' \in 0..Wrap - 1, lock = None, None \notin Reader,
         UNCHANGED <<buf, w, e, asleep, killed, target>>
  PROVE  TypeOK' /\ Calls'
<1>1. /\ pc \in [Reader -> {"user", "read", "sleep"}] /\ left \in [Reader -> Nat]
      /\ target \in [Reader -> Nat] /\ asleep \subseteq Reader /\ text[p] \in Seq(Char)
  BY DEF ConsoleInv, TypeOK
<1>2. PICK d \in Nat : d = left[p] - k /\ d > 0
  BY ONLY <1>1, k < left[p]
<1>3. left' = [left EXCEPT ![p] = d]
  BY ONLY <1>2, left' = [left EXCEPT ![p] = @ - k], Zenon
<1>4. TypeOK'
  <2>1. pc' \in [Reader -> {"user", "read", "sleep"}] /\ left' \in [Reader -> Nat]
    BY ONLY <1>1, <1>3, pc' = [pc EXCEPT ![p] = "sleep"]
  <2> QED
    BY <2>1, Zenon DEF ConsoleInv, TypeOK
<1>5. /\ pc'[p] = "sleep" /\ left'[p] = d
      /\ \A q \in Reader : q # p => pc'[q] = pc[q] /\ left'[q] = left[q]
  BY ONLY <1>1, <1>3, pc' = [pc EXCEPT ![p] = "sleep"]
<1>6. Len(text'[p]) + left'[p] = target'[p]
  <2>1. Len(text[p]) + left[p] = target[p] /\ target' = target
    BY Zenon DEF ConsoleInv, Calls
  <2>2. Len(text[p]) \in Nat /\ left[p] \in Nat
    BY ONLY <1>1
  <2> QED
    BY ONLY <1>2, <1>5, <2>1, <2>2, Len(text'[p]) = Len(text[p]) + k
<1>7. \A q \in Reader : pc'[q] # "user" => left'[q] > 0 /\ Len(text'[q]) + left'[q] = target'[q]
  <2>1. \A q \in Reader : pc[q] # "user" => left[q] > 0 /\ Len(text[q]) + left[q] = target[q]
    BY Zenon DEF ConsoleInv, Calls
  <2> QED
    BY ONLY <1>2, <1>5, <1>6, <2>1, \A q \in Reader : q # p => text'[q] = text[q],
       UNCHANGED <<buf, w, e, asleep, killed, target>>, ConsoleInv
<1>8. \A q \in Reader : pc'[q] = "sleep" <=> lock' = q
  BY <1>5 DEF ConsoleInv, Calls
<1>9. \A q \in asleep' : pc'[q] = "read"
  BY <1>1, <1>5 DEF ConsoleInv, Calls
<1> QED
  BY ONLY <1>4, <1>7, <1>8, <1>9, Zenon DEF Calls

(* consoleread copies what is complete and sleeps, or returns when killed.  *)
LEMMA ReadWaitStep ==
  ASSUME ConsoleAssumption, ConsoleInv, NEW p \in Reader, ReadWait(p)
  PROVE  ConsoleInv' /\ [Lines!Next]_(Lines!vars)
<1>1. PICK n \in Nat, m \in Nat : Holds(n, m)
  BY InRing
<1>2. /\ Dist(r, w) = n /\ w = (r + n) % Wrap
      /\ Ring(r, w) \in Seq(Char) /\ Len(Ring(r, w)) = n
  BY <1>1 DEF Holds, Shape
<1>3. /\ pc[p] = "read" /\ p \notin asleep /\ lock = None
      /\ Stops(left[p]) = {} /\ n < left[p]
      /\ Copy(p, n) /\ r' = w /\ w' = w /\ r' = (r + n) % Wrap
      /\ UNCHANGED <<buf, w, e, asleep, killed>>
  BY <1>2, Zenon DEF ReadWait
<1>4. left[p] \in Nat /\ None \notin Reader
  BY ONLY ConsoleAssumption, ConsoleInv DEF ConsoleInv, TypeOK, ConsoleAssumption
<1>5. \A j \in 1..n : Ring(r, w)[j] \notin {Newline, Eof}
  <2>1. Available(left[p]) = n
    BY ONLY <1>2, <1>3, <1>4, ConsoleAssumption, ConsoleInv DEF Available
  <2> QED
    BY ONLY <1>3, <2>1 DEF Stops
<1>6. n \in 0..n /\ UNCHANGED <<buf, w, e>>
  BY ONLY <1>3, ConsoleAssumption, ConsoleInv, ReadWait(p)
<1>7. /\ Held' /\ r' \in 0..Wrap - 1
      /\ Ring(r, w)' = SubSeq(Ring(r, w), n + 1, n) /\ Ring(w, e)' = Ring(w, e)
  BY ONLY Consumed, ConsoleAssumption, ConsoleInv, <1>1, <1>3, <1>6, Zenon
<1>8. /\ text' \in [Reader -> Seq(Char)] /\ Len(text'[p]) = Len(text[p]) + n
      /\ \A q \in Reader : q # p => text'[q] = text[q]
      /\ n = 0 => text' = text
  BY ONLY Copied, ConsoleInv, <1>1, <1>3, <1>6, Zenon
<1>9. TypeOK' /\ Calls'
  <2>1. CASE p \in killed
    <3>1. Return(p) /\ UNCHANGED lock
      BY <2>1 DEF ReadWait
    <3> QED
      BY ONLY Returned, ConsoleInv, <1>3, <1>4, <1>7, <1>8, <3>1, Zenon
  <2>2. CASE p \notin killed
    <3>1. /\ pc' = [pc EXCEPT ![p] = "sleep"] /\ left' = [left EXCEPT ![p] = @ - n]
          /\ lock' = p /\ UNCHANGED target
      BY <1>2, <2>2, Zenon DEF ReadWait
    <3> QED
      BY ONLY Waits, ConsoleInv, <1>3, <1>4, <1>7, <1>8, <3>1, Zenon
  <2> QED
    BY ONLY <2>1, <2>2
<1>10. NoWakeupMissed'
  BY ONLY <1>3, Zenon DEF NoWakeupMissed
<1>11. ConsoleInv'
  BY ONLY <1>7, <1>9, <1>10 DEF ConsoleInv
<1>12. CASE n = 0
  <2>1. SubSeq(Ring(r, w), n + 1, n) = Ring(r, w)
    BY ONLY <1>2, <1>12
  <2> QED
    BY ONLY <1>7, <1>8, <1>11, <1>12, <2>1, Zenon DEF Lines!vars
<1>13. CASE n > 0
  <2>1. n \in 1..n /\ \A j \in 1..n : Ring(r, w)[j] # Eof /\ (Ring(r, w)[j] = Newline => j = n)
    BY ONLY <1>5, <1>13
  <2>2. Lines!Next
    BY ONLY Takes, <1>1, <1>3, <1>7, <2>1, Zenon
  <2> QED
    BY ONLY <1>11, <2>2, Zenon
<1> QED
  BY ONLY <1>12, <1>13

(* The steps that do not touch the ring.                                   *)
LEMMA RingKept ==
  ASSUME ConsoleInv, UNCHANGED input
  PROVE  /\ Held' /\ Ring(r, w)' = Ring(r, w) /\ Ring(w, e)' = Ring(w, e)
         /\ (lock' # None \/ asleep' # {} => lock # None \/ asleep # {}) => NoWakeupMissed'
<1>1. r' = r /\ w' = w /\ e' = e /\ buf' = buf
  BY Zenon DEF input
<1>2. Ring(r, w)' = Ring(r, w) /\ Ring(w, e)' = Ring(w, e) /\ Dist(r, w)' = Dist(r, w) /\ Dist(w, e)' = Dist(w, e)
  BY ONLY <1>1 DEF Ring, Dist
<1>3. Held'
  BY <1>2, Zenon DEF ConsoleInv, Held
<1>4. (lock' # None \/ asleep' # {} => lock # None \/ asleep # {}) => NoWakeupMissed'
  BY <1>1 DEF ConsoleInv, NoWakeupMissed
<1> QED
  BY ONLY <1>2, <1>3, <1>4

(* A call of consoleread starts.                                            *)
LEMMA ReadCallStep ==
  ASSUME ConsoleAssumption, ConsoleInv, NEW p \in Reader, NEW n \in 1..MaxRead, ReadCall(p, n)
  PROVE  ConsoleInv' /\ Lines!Next
<1>1. /\ pc[p] = "user" /\ left' = [left EXCEPT ![p] = n] /\ target' = [target EXCEPT ![p] = n]
      /\ text' = [text EXCEPT ![p] = <<>>] /\ pc' = [pc EXCEPT ![p] = "read"]
      /\ UNCHANGED <<input, lock, asleep, killed>>
  BY Zenon DEF ReadCall
<1>2. /\ Held' /\ Ring(r, w)' = Ring(r, w) /\ Ring(w, e)' = Ring(w, e) /\ NoWakeupMissed'
  BY ONLY RingKept, ConsoleInv, <1>1
<1>3. n \in Nat /\ n > 0
  BY ONLY TRUE DEF ConsoleAssumption
<1>4. /\ pc \in [Reader -> {"user", "read", "sleep"}] /\ left \in [Reader -> Nat]
      /\ target \in [Reader -> Nat] /\ text \in [Reader -> Seq(Char)]
  BY DEF ConsoleInv, TypeOK
<1>5. TypeOK'
  <2>1. text' \in [Reader -> Seq(Char)]
    <3>1. <<>> \in Seq(Char)
      OBVIOUS
    <3> QED
      BY ONLY <1>1, <1>4, <3>1
  <2> QED
    BY <1>1, <1>3, <2>1, Zenon DEF ConsoleInv, TypeOK, input
<1>6. /\ pc'[p] = "read" /\ left'[p] = n /\ target'[p] = n /\ text'[p] = <<>>
      /\ \A q \in Reader : q # p => /\ pc'[q] = pc[q] /\ left'[q] = left[q]
                                    /\ target'[q] = target[q] /\ text'[q] = text[q]
  BY ONLY <1>1, <1>4, Zenon
<1>7. Calls'
  <2>1. /\ \A q \in Reader : pc[q] # "user" => left[q] > 0 /\ Len(text[q]) + left[q] = target[q]
        /\ \A q \in Reader : pc[q] = "sleep" <=> lock = q
        /\ \A q \in asleep : pc[q] = "read"
        /\ asleep \subseteq Reader
    BY Zenon DEF ConsoleInv, Calls, TypeOK
  <2>2. Len(<<>>) + n = n
    BY ONLY <1>3
  <2>3. \A q \in Reader : pc'[q] # "user" => left'[q] > 0 /\ Len(text'[q]) + left'[q] = target'[q]
    BY ONLY <1>3, <1>6, <2>1, <2>2
  <2>4. \A q \in Reader : pc'[q] = "sleep" <=> lock' = q
    BY ONLY <1>1, <1>6, <2>1
  <2>5. \A q \in asleep' : pc'[q] = "read"
    BY ONLY <1>1, <1>6, <2>1
  <2> QED
    BY ONLY <2>3, <2>4, <2>5, Zenon DEF Calls
<1>8. Lines!Next
  BY ONLY <1>1, <1>2 DEF Lines!Next, Lines!Start
<1> QED
  BY ONLY <1>2, <1>5, <1>7, <1>8 DEF ConsoleInv

(* sleep: input.lock is given up, with r = w still.                        *)
LEMMA ReadSleepStep ==
  ASSUME ConsoleAssumption, ConsoleInv, NEW p \in Reader, ReadSleep(p)
  PROVE  ConsoleInv' /\ UNCHANGED Lines!vars
<1>1. /\ pc[p] = "sleep" /\ pc' = [pc EXCEPT ![p] = "read"] /\ asleep' = asleep \cup {p}
      /\ lock' = None /\ UNCHANGED <<input, killed, left, target, text>>
  BY DEF ReadSleep
<1>2. lock = p /\ None \notin Reader /\ p # None
  BY <1>1, Zenon DEF ConsoleInv, Calls, ConsoleAssumption
<1>3. /\ Held' /\ Ring(r, w)' = Ring(r, w) /\ Ring(w, e)' = Ring(w, e) /\ NoWakeupMissed'
  BY ONLY RingKept, ConsoleInv, <1>1, <1>2
<1>4. TypeOK'
  BY <1>1, Zenon DEF ConsoleInv, TypeOK, input
<1>5. Calls'
  BY ONLY <1>1, <1>2, ConsoleAssumption, ConsoleInv DEF ConsoleInv, Calls, TypeOK
<1> QED
  BY ONLY <1>1, <1>3, <1>4, <1>5, Zenon DEF ConsoleInv, Lines!vars

(* A kill wakes a sleeping reader and touches no input.                     *)
LEMMA KillStep ==
  ASSUME ConsoleAssumption, ConsoleInv, NEW p \in Reader, kill(p)
  PROVE  ConsoleInv' /\ UNCHANGED Lines!vars
<1>1. /\ killed' = killed \cup {p} /\ asleep' = asleep \ {p}
      /\ UNCHANGED <<input, lock, pc, left, target, text>>
  BY DEF kill
<1>2. /\ Held' /\ Ring(r, w)' = Ring(r, w) /\ Ring(w, e)' = Ring(w, e) /\ NoWakeupMissed'
  BY ONLY RingKept, ConsoleInv, <1>1
<1>3. TypeOK' /\ Calls'
  BY <1>1 DEF ConsoleInv, TypeOK, Calls, input
<1> QED
  BY ONLY <1>1, <1>2, <1>3 DEF ConsoleInv, Lines!vars

(* A killed reader leaves at the end of its call; no input changes.         *)
LEMMA ExitStep ==
  ASSUME ConsoleAssumption, ConsoleInv, NEW p \in Reader, Exit(p)
  PROVE  ConsoleInv' /\ UNCHANGED Lines!vars
<1>1. killed' = killed \ {p} /\ UNCHANGED <<input, lock, pc, asleep, left, target, text>>
  BY DEF Exit
<1>2. /\ Held' /\ Ring(r, w)' = Ring(r, w) /\ Ring(w, e)' = Ring(w, e) /\ NoWakeupMissed'
  BY ONLY RingKept, ConsoleInv, <1>1, Zenon
<1>3. TypeOK' /\ Calls'
  BY <1>1 DEF ConsoleInv, TypeOK, Calls, input
<1> QED
  BY ONLY <1>1, <1>2, <1>3 DEF ConsoleInv, Lines!vars

(* A step that changes nothing keeps the invariant.                         *)
LEMMA ConsoleStutter ==
  ASSUME ConsoleInv, UNCHANGED vars
  PROVE  ConsoleInv' /\ UNCHANGED Lines!vars
<1>1. UNCHANGED <<input, lock, pc, asleep, killed, left, target, text>>
  BY Zenon DEF vars
<1>2. /\ Held' /\ Ring(r, w)' = Ring(r, w) /\ Ring(w, e)' = Ring(w, e) /\ NoWakeupMissed'
  BY ONLY RingKept, ConsoleInv, <1>1
<1>3. TypeOK' /\ Calls'
  BY <1>1 DEF ConsoleInv, TypeOK, Calls, input
<1> QED
  BY ONLY <1>1, <1>2, <1>3 DEF ConsoleInv, Lines!vars

(* The empty ring of the first state.                                      *)
LEMMA ConsoleInit ==
  ASSUME ConsoleAssumption
  PROVE  Init => ConsoleInv /\ Lines!Init
<1> SUFFICES ASSUME Init PROVE ConsoleInv /\ Lines!Init
  OBVIOUS
<1>0. INPUT_BUF \in Nat \ {0} /\ Wrap \in Nat \ {0}
  BY Sizes
<1>1. r = 0 /\ w = 0 /\ e = 0 /\ lock = None /\ asleep = {} /\ \A p \in Reader : pc[p] = "user"
  BY DEF Init
<1>2. Dist(0, 0) = 0
  BY ONLY <1>0 DEF Dist
<1>3. Ring(r, w) = <<>> /\ Ring(w, e) = <<>> /\ Held
  <2>1. Dist(r, w) = 0 /\ Dist(w, e) = 0
    BY ONLY <1>1, <1>2
  <2> QED
    BY ONLY <1>0, <2>1 DEF Ring, Held
<1>4. TypeOK
  <2>1. Newline \in Char
    BY DEF Char
  <2>2. 0 \in 0..Wrap - 1
    BY ONLY <1>0
  <2>3. text \in [Reader -> Seq(Char)]
    BY DEF Init
  <2> QED
    BY <2>1, <2>2, <2>3 DEF Init, TypeOK
<1>5. Calls
  <2>1. None \notin Reader
    BY DEF ConsoleAssumption
  <2> QED
    BY ONLY <1>1, <2>1 DEF Calls
<1>6. NoWakeupMissed
  BY ONLY <1>1 DEF NoWakeupMissed
<1>7. Lines!Init
  BY <1>3 DEF Init, Lines!Init
<1> QED
  BY ONLY <1>3, <1>4, <1>5, <1>6, <1>7 DEF ConsoleInv

(* Every step of Console.                                                  *)
LEMMA ConsoleStep ==
  ASSUME ConsoleAssumption
  PROVE  ConsoleInv /\ [Next]_vars => ConsoleInv' /\ [Lines!Next]_(Lines!vars)
<1> SUFFICES ASSUME ConsoleInv, [Next]_vars PROVE ConsoleInv' /\ [Lines!Next]_(Lines!vars)
  OBVIOUS
<1>1. ASSUME NEW c \in Char, Key(c) PROVE ConsoleInv' /\ [Lines!Next]_(Lines!vars)
  <2>1. ConsoleInv' /\ Lines!Type(c)
    BY ONLY <1>1, KeyStep, ConsoleAssumption, ConsoleInv
  <2> QED
    BY ONLY <2>1 DEF Lines!Next, Char
<1>2. ASSUME Backspace \/ KillLine PROVE ConsoleInv' /\ [Lines!Next]_(Lines!vars)
  <2>1. ConsoleInv' /\ Lines!Erase
    BY ONLY <1>2, BackspaceStep, KillLineStep, ConsoleAssumption, ConsoleInv
  <2> QED
    BY ONLY <2>1 DEF Lines!Next
<1>3. ASSUME NEW p \in Reader, Run(p) PROVE ConsoleInv' /\ [Lines!Next]_(Lines!vars)
  BY ONLY <1>3, ReadStopStep, ReadFullStep, ReadWaitStep, ReadSleepStep, ExitStep,
     ConsoleAssumption, ConsoleInv DEF Run
<1>4. ASSUME NEW p \in Reader, kill(p) PROVE ConsoleInv' /\ [Lines!Next]_(Lines!vars)
  BY ONLY <1>4, KillStep, ConsoleAssumption, ConsoleInv
<1>5. ASSUME NEW p \in Reader, NEW n \in 1..MaxRead, ReadCall(p, n)
      PROVE  ConsoleInv' /\ [Lines!Next]_(Lines!vars)
  BY ONLY <1>5, ReadCallStep, ConsoleAssumption, ConsoleInv
<1>6. ASSUME UNCHANGED vars PROVE ConsoleInv' /\ [Lines!Next]_(Lines!vars)
  BY ONLY <1>6, ConsoleStutter, ConsoleInv
<1> QED
  BY ONLY <1>1, <1>2, <1>3, <1>4, <1>5, <1>6, [Next]_vars, Zenon DEF Next

(* consoleintr and consoleread: input.buf holds the complete input and      *)
(* behind it a line without newline or end of file, never more than         *)
(* INPUT_BUF characters; a read in progress has copied what it was asked    *)
(* for less what is left; and no reader sleeps, or is about to, while there *)
(* is complete input.                                                      *)
THEOREM ConsoleInvariance ==
  ASSUME ConsoleAssumption
  PROVE  Spec => []ConsoleInv
<1>1. Init => ConsoleInv
  BY ConsoleInit, Zenon
<1>2. ConsoleInv /\ [Next]_vars => ConsoleInv'
  BY ConsoleStep
<1> QED
  BY <1>1, <1>2, PTL DEF Spec

(* The console is a line input: what consoleintr and consoleread do to the  *)
(* ring, whatever the counters' wrap, whoever reads, sleeps or is killed,   *)
(* is one of typing a character, erasing of the uncommitted line, reading a *)
(* run of committed characters up to a newline, and consuming one C('D').  *)
THEOREM LineInputRefinement ==
  ASSUME ConsoleAssumption
  PROVE  Spec => ImplementsLineInput
<1>1. Init => ConsoleInv /\ Lines!Init
  BY ConsoleInit
<1>2. ConsoleInv /\ [Next]_vars => ConsoleInv' /\ [Lines!Next]_(Lines!vars)
  BY ConsoleStep
<1> QED
  BY <1>1, <1>2, PTL DEF Spec, ImplementsLineInput, Lines!Spec
=============================================================================
