-------------------------------- MODULE Cga ---------------------------------
(***************************************************************************)
(* The text screen of console.c: cgaputc with its cursor and its scrolling, *)
(* for a screen of any size (80 columns; 24 rows are used, a 25th exists).  *)
(***************************************************************************)
EXTENDS Integers, Sequences

CONSTANTS
  COLS, ROWS,
  Char, Blank     \* characters; a blank cell (' ', or 0 after a scroll)

VARIABLES
  pos, crt,       \* the cursor and the cells
  shown           \* what was printed in the rows that are on the screen

vars == <<pos, crt, shown>>

Cell == 0..COLS * (ROWS + 1) - 1

Init ==
  /\ pos = 0
  /\ crt = [i \in Cell |-> Blank]
  /\ shown = <<<<>>>>

(* The part of cgaputc that depends on the character.                      *)
Newline(p) == p + (COLS - (p % COLS))

(* Scroll up when the cursor has left the last row used.                   *)
M_Scroll_OneLate(p) == p \div COLS > ROWS
Scroll(p) == p \div COLS >= ROWS

Settle(p, cells) ==
  LET q == IF Scroll(p) THEN p - COLS ELSE p
      up == [i \in Cell |-> IF i < COLS * (ROWS - 1) THEN cells[i + COLS] ELSE cells[i]]
      new == IF Scroll(p)
             THEN [i \in Cell |-> IF i >= q /\ i < COLS * ROWS THEN Blank ELSE up[i]]
             ELSE cells
  IN /\ pos' = q
     /\ crt' = [new EXCEPT ![q] = Blank]

(* The rows printed so far, of which the screen has the last ones.         *)
Keep(rows) == IF Len(rows) > ROWS THEN SubSeq(rows, Len(rows) - ROWS + 1, Len(rows)) ELSE rows
LastRow == shown[Len(shown)]

PutChar(c) ==
  /\ Settle(pos + 1, [crt EXCEPT ![pos] = c])
  /\ LET row == Append(LastRow, c)
         rows == [shown EXCEPT ![Len(shown)] = row]
     IN shown' = Keep(IF Len(row) = COLS THEN Append(rows, <<>>) ELSE rows)

PutNewline ==
  /\ Settle(Newline(pos), crt)
  /\ shown' = Keep(Append(shown, <<>>))

(* consputc(BACKSPACE): back by one cell, but not beyond the first.  The    *)
(* row printed loses its last character; from the start of a row the cursor *)
(* goes to the last column of the one before, however long that was.        *)
Shorter(row) == [i \in 1..(COLS - 1) |-> IF i <= Len(row) THEN row[i] ELSE Blank]
Erased ==
  LET n == Len(shown)
  IN IF LastRow # <<>> THEN [shown EXCEPT ![n] = SubSeq(@, 1, Len(@) - 1)]
     ELSE IF n > 1 THEN Append(SubSeq(shown, 1, n - 2), Shorter(shown[n - 1]))
     ELSE shown

PutBackspace ==
  /\ Settle(IF pos > 0 THEN pos - 1 ELSE pos, crt)
  /\ shown' = Erased

Next == PutNewline \/ PutBackspace \/ \E c \in Char : PutChar(c)

Spec == Init /\ [][Next]_vars

-----------------------------------------------------------------------------
(* The cursor stays on the rows in use, so that the count that cgaputc     *)
(* gives to memset is not negative.                                        *)
CursorOnScreen == pos \in 0..COLS * ROWS - 1

(* The screen shows the last rows printed, up to the cursor, and nothing   *)
(* to the right of it or below.                                            *)
ScreenShows ==
  /\ pos = COLS * (Len(shown) - 1) + Len(LastRow)
  /\ \A i \in Cell :
       crt[i] = LET row == (i \div COLS) + 1 IN
                IF row <= Len(shown) /\ i % COLS < Len(shown[row])
                THEN shown[row][(i % COLS) + 1] ELSE Blank
=============================================================================
