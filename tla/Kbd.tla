-------------------------------- MODULE Kbd ---------------------------------
(***************************************************************************)
(* The scan-code decoder of kbd.c.  A key sends its code when pressed and   *)
(* its code + 0x80 when released, each after 0xE0 for an extended key;      *)
(* kbdgetc takes one byte at a time and keeps its state in shift.           *)
(***************************************************************************)
EXTENDS Integers, Sequences, FiniteSets

CONSTANT MaxDown   \* keys that are down at the same time

VARIABLES
  shift,     \* the static variable shift: a set of flags
  down,      \* the keys that are down
  caps,      \* Caps Lock has been pressed an odd number of times
  wire,      \* bytes the keyboard has sent and kbdgetc has not read
  key, char  \* the key of the last byte read; what kbdgetc returned

vars == <<shift, down, caps, wire, key, char>>

E0 == 224
None == 0

(* The keys of the model: extended or not, code.                           *)
Key == {<<FALSE, 42>>, <<FALSE, 54>>,      \* Shift, left and right
        <<FALSE, 29>>, <<TRUE, 29>>,       \* Ctrl
        <<FALSE, 56>>, <<TRUE, 56>>,       \* Alt
        <<FALSE, 58>>,                     \* Caps Lock
        <<FALSE, 30>>, <<TRUE, 72>>, <<FALSE, 72>>}   \* A, Up, keypad 8

shiftcode == [d \in 0..255 |->
  CASE d \in {29, 157} -> {"CTL"} [] d \in {42, 54} -> {"SHIFT"}
    [] d \in {56, 184} -> {"ALT"} [] OTHER -> {}]
togglecode == [d \in 0..255 |-> IF d = 58 THEN {"CAPSLOCK"} ELSE {}]

(* normalmap, shiftmap and ctlmap, for the keys of the model.              *)
charcode(fl, d) ==
  CASE d = 30 -> IF "CTL" \in fl THEN "^A" ELSE IF "SHIFT" \in fl THEN "A" ELSE "a"
    [] d = 72 -> IF "CTL" \in fl THEN "NO" ELSE "8"
    [] d = 200 -> "KEY_UP"
    [] OTHER -> "NO"

Toggle(S, T) == (S \ T) \cup (T \ S)
SwapCase(c) == CASE c = "a" -> "A" [] c = "A" -> "a" [] OTHER -> c

Released(data) == IF "E0ESC" \in shift THEN data ELSE data % 128

M_Pressed_EscKept(data) ==
  LET d == IF "E0ESC" \in shift THEN data + 128 ELSE data
      sh == Toggle(shift \cup shiftcode[d], togglecode[d])
      c == charcode(sh, d)
  IN /\ shift' = sh
     /\ char' = IF "CAPSLOCK" \in sh THEN SwapCase(c) ELSE c
Pressed(data) ==
  LET d == IF "E0ESC" \in shift THEN data + 128 ELSE data
      sh == Toggle((shift \ {"E0ESC"}) \cup shiftcode[d], togglecode[d])
      c == charcode(sh, d)
  IN /\ shift' = sh
     /\ char' = IF "CAPSLOCK" \in sh THEN SwapCase(c) ELSE c

kbdgetc ==
  /\ wire # <<>>
  /\ LET data == Head(wire)
     IN \/ data = E0 /\ shift' = shift \cup {"E0ESC"} /\ char' = "NO"
        \/ /\ data # E0 /\ data >= 128
           /\ shift' = shift \ (shiftcode[Released(data)] \cup {"E0ESC"})
           /\ char' = "NO"
        \/ data < 128 /\ Pressed(data)
  /\ wire' = Tail(wire)
  /\ UNCHANGED <<down, caps, key>>

Bytes(k, c) == IF k[1] THEN <<E0, c>> ELSE <<c>>

(* The user presses a key (again, when it repeats) or releases it.         *)
Press(k) ==
  /\ wire = <<>> /\ Cardinality(down \cup {k}) <= MaxDown
  /\ wire' = Bytes(k, k[2])
  /\ down' = down \cup {k}
  /\ caps' = IF k[2] = 58 THEN ~caps ELSE caps
  /\ key' = k
  /\ UNCHANGED <<shift, char>>

Release(k) ==
  /\ wire = <<>> /\ k \in down
  /\ wire' = Bytes(k, k[2] + 128)
  /\ down' = down \ {k}
  /\ key' = <<k[1], None>>
  /\ UNCHANGED <<shift, caps, char>>

Init ==
  /\ shift = {} /\ down = {} /\ caps = FALSE
  /\ wire = <<>> /\ key = <<FALSE, None>> /\ char = "NO"

Next == kbdgetc \/ \E k \in Key : Press(k) \/ Release(k)

Spec == Init /\ [][Next]_vars

-----------------------------------------------------------------------------
Flags(k) == shiftcode[IF k[1] THEN k[2] + 128 ELSE k[2]]
Held(f) == \E k \in down : f \in Flags(k)

(* Once the keys of a modifier are up kbdgetc does not go on applying it,  *)
(* whichever of the two keys was released first, and a modifier is applied  *)
(* from the press of its key; Caps Lock follows the presses, and no escape  *)
(* is left over.  (The converse of the first does not hold: shift has one   *)
(* flag for the two keys, and releasing either of them clears it.)          *)
NoStuckModifier ==
  wire = <<>> =>
    /\ \A f \in {"SHIFT", "CTL", "ALT"} : f \in shift => Held(f)
    /\ key \in down => Flags(key) \subseteq shift
    /\ ("CAPSLOCK" \in shift) = caps
    /\ "E0ESC" \notin shift

(* A key press decodes to that key: the extended Up is not the keypad's 8  *)
(* (which Ctrl turns into nothing), and A is upper case when Shift and Caps *)
(* Lock disagree, a control character with Ctrl.                            *)
DecodesKey ==
  wire = <<>> =>
    /\ key = <<TRUE, 72>> => char = "KEY_UP"
    /\ key = <<FALSE, 72>> => char = IF "CTL" \in shift THEN "NO" ELSE "8"
    /\ key = <<FALSE, 30>> =>
         char = CASE "CTL" \in shift -> "^A"
                  [] ("SHIFT" \in shift) # caps -> "A"
                  [] OTHER -> "a"
=============================================================================
