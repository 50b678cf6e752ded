------------------------------ MODULE Terminal ------------------------------
(***************************************************************************)
(* What the display bee promises: a screen of ROWS times COLS cells and a  *)
(* cursor.  A character goes to the cell at the cursor; behind the last    *)
(* cell the text moves up by a row first.                                  *)
(*                                                                         *)
(* The promise is off, and the terminal lost, once the cursor has gone     *)
(* before the first cell or an interrupt has printed while a call held the *)
(* cursor.  Clearing the screen or putting the cursor somewhere brings it  *)
(* back.  Display implements the terminal.                                 *)
(***************************************************************************)
EXTENDS Integers, Sequences

CONSTANTS ROWS, COLS,
          Blank   \* the glyph of an empty cell: a character and its color

VARIABLES screen, \* the glyph in each cell
          cursor, \* the cell the next character goes to, CELLS behind the last one
          typed,  \* the characters of a call, and their colors
          lost,   \* the promise is off
          answer  \* the cell number a caller has been told

vars == <<screen, cursor, typed, lost, answer>>

CELLS == ROWS * COLS
Cell  == 0 .. (CELLS - 1)

\* The screen and the cursor once there is room for a character.
Full == cursor = CELLS
Room == IF Full THEN [c \in Cell |-> IF c + COLS \in Cell THEN screen[c + COLS] ELSE Blank]
                ELSE screen
Here == IF Full THEN CELLS - COLS ELSE cursor

-----------------------------------------------------------------------------

Init == /\ screen = [c \in Cell |-> Blank]
        /\ cursor \in Cell
        /\ typed = <<>>
        /\ lost = FALSE
        /\ answer = CELLS

Glyph(ch, color) ==
    /\ ch \notin {"nl", "bs"}
    /\ screen' = [Room EXCEPT ![Here] = [ch |-> ch, color |-> color]]
    /\ cursor' = Here + 1

\* To the first cell of the next row.
NewLine(ch) ==
    /\ ch = "nl"
    /\ screen' = Room
    /\ cursor' = ((Here \div COLS) + 1) * COLS

\* Back over the last character.
Rubout(ch, color) ==
    /\ ch = "bs"
    /\ Here > 0
    /\ screen' = [Room EXCEPT ![Here - 1] = [ch |-> " ", color |-> color]]
    /\ cursor' = Here - 1

Type ==
    /\ ~lost
    /\ Len(typed') = Len(typed) + 1 /\ typed = SubSeq(typed', 1, Len(typed))
    /\ \E k \in {typed'[Len(typed')]} :
          Glyph(k.ch, k.color) \/ NewLine(k.ch) \/ Rubout(k.ch, k.color)
    /\ UNCHANGED <<lost, answer>>

\* A call begins or ends.
Begin == typed' = <<>> /\ answer' = CELLS /\ UNCHANGED <<screen, cursor, lost>>
End   == typed' = <<>> /\ UNCHANGED <<screen, cursor, lost, answer>>

\* By columns and rows from where it is.
Move == ~lost /\ cursor' \in Cell /\ UNCHANGED <<screen, typed, lost, answer>>

\* A caller asks where the cursor is.
Ask == ~lost /\ answer' = cursor /\ typed' = <<>> /\ UNCHANGED <<screen, cursor, lost>>

Clear == /\ screen' = [c \in Cell |-> Blank]
         /\ cursor' = 0
         /\ typed' = <<>>
         /\ lost' = FALSE
         /\ answer' = CELLS

\* The cursor is put somewhere.
Put == /\ cursor' \in Cell
       /\ typed' = <<>>
       /\ lost' = FALSE
       /\ answer' = CELLS
       /\ UNCHANGED screen

\* From now on anything may be on the screen and in the cursor.
Lose == lost' = TRUE

Next == Type \/ Begin \/ End \/ Move \/ Ask \/ Clear \/ Put \/ Lose

Spec == Init /\ [][Next]_vars
=============================================================================
