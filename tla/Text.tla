-------------------------------- MODULE Text --------------------------------
(***************************************************************************)
(* The loops of string.c, ulib.c and the two printint (console.c, printf.c) *)
(* against what their callers take them to do, on every short input.  A     *)
(* character is a number, 0 is NUL; memory is a function of addresses.      *)
(***************************************************************************)
EXTENDS Integers, Sequences, SequencesExt

CONSTANTS
  Chars,     \* characters other than NUL
  MaxLen,    \* length of a string
  Bits       \* width of an int (32)

VARIABLES
  s, t,      \* two strings, without their NUL
  xx         \* an int, as a word
vars == <<s, t, xx>>

WORD == 2 ^ Bits
Str(x) == [i \in 0..Len(x) |-> IF i = Len(x) THEN 0 ELSE x[i + 1]]   \* as it lies in memory

RECURSIVE Up(_, _, _, _), Down(_, _, _, _), Cmp(_, _, _, _), Copy(_, _, _, _), Zero(_, _, _),
          SafeCopy(_, _, _, _), Digits(_, _), Parse(_, _, _)

-----------------------------------------------------------------------------
(* memmove: from the front, or from the back when dst lies in the source.  *)
Up(m, d, q, n) == IF n = 0 THEN m ELSE Up([m EXCEPT ![d] = m[q]], d + 1, q + 1, n - 1)
Down(m, d, q, n) == IF n = 0 THEN m ELSE Down([m EXCEPT ![d - 1] = m[q - 1]], d - 1, q - 1, n - 1)

M_memmove_Touching(m, d, q, n) ==
  IF q < d /\ q + n > d + 1 THEN Down(m, d + n, q + n, n) ELSE Up(m, d, q, n)
memmove(m, d, q, n) ==
  IF q < d /\ q + n > d THEN Down(m, d + n, q + n, n) ELSE Up(m, d, q, n)

umemmove(m, d, q, n) == Up(m, d, q, n)       \* the one of ulib.c

(* strncmp and strcmp (n = -1 never gets to 0) at p[i] and q[i].           *)
Cmp(p, q, i, n) ==
  IF n # 0 /\ p[i] # 0 /\ p[i] = q[i] THEN Cmp(p, q, i + 1, n - 1)
  ELSE IF n = 0 THEN 0 ELSE p[i] - q[i]
strncmp(p, q, n) == Cmp(p, q, 0, n)
strcmp(p, q) == Cmp(p, q, 0, -1)

(* strncpy: n counts down through both loops.                              *)
Zero(m, i, n) == IF n > 0 THEN Zero([m EXCEPT ![i] = 0], i + 1, n - 1) ELSE m
Copy(m, q, i, n) ==
  IF n <= 0 THEN m
  ELSE LET w == [m EXCEPT ![i] = q[i]]
       IN IF q[i] # 0 THEN Copy(w, q, i + 1, n - 1) ELSE Zero(w, i + 1, n - 1)
strncpy(m, q, n) == Copy(m, q, 0, n)

SafeCopy(m, q, i, n) ==
  IF n - 1 <= 0 THEN [m EXCEPT ![i] = 0]
  ELSE IF q[i] # 0 THEN SafeCopy([m EXCEPT ![i] = q[i]], q, i + 1, n - 1)
  ELSE [m EXCEPT ![i] = 0, ![i + 1] = 0]     \* s has moved past the NUL
safestrcpy(m, q, n) == IF n <= 0 THEN m ELSE SafeCopy(m, q, 0, n)

-----------------------------------------------------------------------------
(* printint on a word of Bits bits: the digits of buf, last one first, and *)
(* whether the minus sign is printed.                                      *)
Digits(x, base) == <<x % base>> \o (IF x \div base # 0 THEN Digits(x \div base, base) ELSE <<>>)
Signed(x) == IF x >= WORD \div 2 THEN x - WORD ELSE x
Magnitude(x, sgn) == IF sgn /\ Signed(x) < 0 THEN (-x) % WORD ELSE x
printint(x, base, sgn) ==
  [neg |-> sgn /\ Signed(x) < 0, digits |-> Reverse(Digits(Magnitude(x, sgn), base))]

(* atoi of ulib.c on digits.                                               *)
Parse(d, i, n) == IF i > Len(d) THEN n ELSE Parse(d, i + 1, (n * 10 + d[i]) % WORD)
atoi(d) == Parse(d, 1, 0)

-----------------------------------------------------------------------------
Init == s = <<>> /\ t = <<>> /\ xx = 0
Next ==
  \/ xx = 0 /\ Len(s) < MaxLen /\ (\E c \in Chars : s' = Append(s, c)) /\ UNCHANGED <<t, xx>>
  \/ xx = 0 /\ Len(t) < MaxLen /\ (\E c \in Chars : t' = Append(t, c)) /\ UNCHANGED <<s, xx>>
  \/ s = <<>> /\ t = <<>> /\ xx < WORD - 1 /\ xx' = xx + 1 /\ UNCHANGED <<s, t>>
  \/ s' = <<>> /\ t' = <<>> /\ xx' = 0

Spec == Init /\ [][Next]_vars

-----------------------------------------------------------------------------
(* memmove of the kernel moves the bytes as they were, however source and   *)
(* destination overlap, and touches no other; the one of user programs does *)
(* when the destination does not lie inside the source.                     *)
MovesBytes ==
  \A d, q \in 0..Len(s) : \A n \in 0..(Len(s) + 1 - (IF d > q THEN d ELSE q)) :
    LET moved == [i \in 0..Len(s) |-> IF i >= d /\ i < d + n THEN Str(s)[q + i - d] ELSE Str(s)[i]]
    IN /\ memmove(Str(s), d, q, n) = moved
       /\ ~(q < d /\ d < q + n) => umemmove(Str(s), d, q, n) = moved

(* The first place where two strings, with their NULs, differ decides.     *)
Before(x, y) ==
  \E i \in DOMAIN Str(x) \cap DOMAIN Str(y) :
    Str(x)[i] < Str(y)[i] /\ \A j \in 0..(i - 1) : Str(x)[j] = Str(y)[j]
Cut(x, n) == SubSeq(x, 1, IF n < Len(x) THEN n ELSE Len(x))

(* strcmp orders strings as dictionaries do, and strncmp their first n      *)
(* characters; namecmp, and so every path lookup, rests on it.              *)
OrdersStrings ==
  /\ (strcmp(Str(s), Str(t)) < 0 <=> Before(s, t)) /\ (strcmp(Str(s), Str(t)) = 0 <=> s = t)
  /\ \A n \in 0..(MaxLen + 1) :
       /\ strncmp(Str(s), Str(t), n) < 0 <=> Before(Cut(s, n), Cut(t, n))
       /\ strncmp(Str(s), Str(t), n) = 0 <=> Cut(s, n) = Cut(t, n)

(* A field of n bytes after strncpy holds the string cut to n and NULs up   *)
(* to n, and nothing beyond it has changed; safestrcpy leaves the string    *)
(* cut to n - 1, always with a NUL, and writes nothing beyond n either.     *)
CopiesBounded ==
  \A n \in 1..(MaxLen + 1) :
    LET m == [i \in 0..(MaxLen + 1) |-> -1]
        a == strncpy(m, Str(s), n)
        b == safestrcpy(m, Str(s), n)
        k == Len(Cut(s, n - 1))
    IN /\ \A i \in 0..(n - 1) : a[i] = IF i < Len(s) THEN s[i + 1] ELSE 0
       /\ \A i \in 0..(k - 1) : b[i] = s[i + 1]
       /\ b[k] = 0
       /\ \A i \in n..(MaxLen + 1) : a[i] = -1 /\ b[i] = -1

RECURSIVE Value(_, _)
Value(d, base) == IF d = <<>> THEN 0 ELSE Value(Front(d), base) * base + Last(d)

(* What printint prints for a word is the number itself, the most negative  *)
(* one included, without a leading zero.  atoi reads back the ones printed  *)
(* in decimal without a sign, and only those: it stops at a minus sign.     *)
PrintsNumber ==
  \A base \in {10, 16}, sgn \in BOOLEAN :
    LET r == printint(xx, base, sgn)
        v == Value(r.digits, base)
    IN /\ (IF r.neg THEN -v ELSE v) = IF sgn THEN Signed(xx) ELSE xx
       /\ r.digits[1] = 0 => Len(r.digits) = 1
       /\ base = 10 /\ ~r.neg => atoi(r.digits) = xx
=============================================================================
