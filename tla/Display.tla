------------------------------- MODULE Display -------------------------------
(***************************************************************************)
(* The display bee (bees/display/display.c): print, clear, cursor and putc *)
(* on the text screen of the VGA, whose cursor is reached through an index *)
(* and a data port, one byte at a time.  A tick handler may put a          *)
(* character on the screen between any two accesses of a command.          *)
(*                                                                         *)
(* Cells of the screen are counted, two bytes each: what the code calls an *)
(* offset is twice the number of a cell.  The loops over the cells, which  *)
(* clear or move them, are one step: a tick in one of them leaves the      *)
(* terminal lost, whatever it does to the cells.                           *)
(***************************************************************************)
EXTENDS Integers, Sequences, FiniteSets

CONSTANTS
    ROWS, COLS,    \* MAX_ROWS and MAX_COLS
    BYTE,          \* values of a register of the VGA, 256
    DEFAULT_COLOR,
    Hex,           \* the hexadecimal digits: character -> value
    Text(_, _),    \* what the util bee, or the caller's own text, makes of an
                   \* argument: the directive and the argument -> characters
    Characters,    \* what putc is called with,
    TickCharacters, \* and by tick handlers
    Formats,       \* calls of print: the string and the other arguments
    Moves,         \* what cursor is called with: columns and rows
    PRINTS, TICKS  \* bounds on the calls of print and on the ticks that print

Directives == {"c", "s", "d", "i", "u", "x", "b", "p"}

\* A string goes up to its first zero, here "end".
ASSUME DisplayAssumption ==
    /\ ROWS \in Nat \ {0} /\ COLS \in Nat \ {0, 1}
    /\ BYTE \in Nat /\ ROWS * COLS < BYTE * BYTE
    /\ DEFAULT_COLOR \in 0 .. 255
    /\ \A d \in DOMAIN Hex : Hex[d] \in 0 .. 15
    /\ "end" \notin DOMAIN Hex /\ "$" \notin DOMAIN Hex
    /\ Characters \cup TickCharacters \subseteq STRING
    /\ \A f \in Formats :
          /\ f.str \in Seq(STRING) /\ \A k \in 1 .. Len(f.str) : f.str[k] # "end"
          /\ Len(f.args) \in Nat
          /\ \A d \in Directives, a \in 1 .. Len(f.args) : Text(d, f.args[a]) \in Seq(STRING)
    /\ Moves \subseteq Int \X Int
    /\ PRINTS \in Nat /\ TICKS \in Nat

VARIABLES
    vidmem,      \* the cells of the screen
    reg, select, \* the two cursor registers, and the one the data port reaches
    cmd, pc,     \* the command that runs and the access it is at, or "idle"
    offset,      \* local variable of printChar and cursor
    call, index, argsIndex, color, \* arguments and local variables of print
    chars,       \* the characters the command has still to pass to printChar
    typed,       \* those that have been typed since it was called, ticks' included
    xy,          \* what cursor has told its caller
    lost,        \* since the cursor was last put somewhere a tick has printed
                 \* into an access to it or it has gone before the first cell
    prints, ticks \* calls of print, and ticks that have printed

port  == <<reg, select>>
walk  == <<call, index, argsIndex, color>>
count == <<prints, ticks>>
vars  == <<vidmem, port, cmd, pc, offset, walk, chars, typed, xy, lost, count>>

CELLS == ROWS * COLS
Cell  == 0 .. (CELLS - 1)

Shown(ch, c) == [ch |-> ch, color |-> c]
Blank == Shown(" ", DEFAULT_COLOR)
Key(ch, c, t) == [ch |-> ch, color |-> c, tick |-> t]

\* The remainder of C has the sign of a.
Rem(a, b) == IF a < 0 THEN 0 - ((0 - a) % b) ELSE a % b

-----------------------------------------------------------------------------
(* The effect of printChar on a screen m when the cursor is at o.           *)

setChar(m, o, g) == IF o \in Cell THEN [m EXCEPT ![o] = g] ELSE m

shiftUp(m) == [c \in Cell |-> IF c + COLS \in Cell THEN m[c + COLS] ELSE Blank]

\* The test for a full screen; a mutant that is off by one.
Full_late(o) == o > CELLS
Full(o) == o >= CELLS

\* The place of the cursor after that; a mutant that takes it up by one cell.
Base_one(o) == IF Full(o) THEN o - 1 ELSE o
Base(o) == IF Full(o) THEN o - COLS ELSE o

Screen(m, o, g) ==
    LET n == IF Full(o) THEN shiftUp(m) ELSE m
    IN CASE g.ch = "nl" -> n
         [] g.ch = "bs" -> setChar(n, Base(o) - 1, Shown(" ", g.color))
         [] OTHER       -> setChar(n, Base(o), g)

Onward(o, ch) ==
    CASE ch = "nl" -> (Base(o) \div COLS + 1) * COLS
      [] ch = "bs" -> Base(o) - 1
      [] OTHER     -> Base(o) + 1

-----------------------------------------------------------------------------
(* The accesses to the cursor registers.                                    *)

Position == reg["high"] * BYTE + reg["low"]

\* The two bytes of a position; a mutant that does not cut the upper one.
High_uncut(o) == o \div BYTE
High(o) == (o \div BYTE) % BYTE
Low(o)  == o % BYTE

\* outb to the index port.
Select(here, r, next) ==
    /\ pc = here
    /\ select' = r
    /\ pc' = next
    /\ UNCHANGED <<vidmem, reg, cmd, offset, walk, chars, typed, xy, lost, count>>

\* inb from the data port.
Read(here, o, next) ==
    /\ pc = here
    /\ offset' = o
    /\ pc' = next
    /\ UNCHANGED <<vidmem, port, cmd, walk, chars, typed, xy, lost, count>>

\* outb to the data port.
Write(here, b, next) ==
    /\ pc = here
    /\ reg' = [reg EXCEPT ![select] = b]
    /\ pc' = next
    /\ UNCHANGED <<vidmem, select, cmd, offset, walk, chars, typed, xy, lost, count>>

get_cursor ==
    \/ Select("get", "high", "get high") \/ Read("get high", reg[select] * BYTE, "get more")
    \/ Select("get more", "low", "get low") \/ Read("get low", offset + reg[select], "got")

set_cursor ==
    \/ Select("set", "high", "set high") \/ Write("set high", High(offset), "set more")
    \/ Select("set more", "low", "set low") \/ Write("set low", Low(offset), "next")

-----------------------------------------------------------------------------
(* Characters.                                                              *)

\* printChar, between get_cursor and set_cursor.
printChar ==
    /\ pc = "got" /\ chars # <<>>
    /\ \E g \in {Shown(Head(chars), color)} :
          /\ vidmem' = Screen(vidmem, offset, g)
          /\ offset' = Onward(offset, g.ch)
          /\ typed' = Append(typed, Key(g.ch, g.color, FALSE))
    /\ chars' = Tail(chars)
    /\ lost' = (lost \/ offset' < 0)
    /\ pc' = "set"
    /\ UNCHANGED <<port, cmd, walk, xy, count>>

\* set_cursor has returned: on with the text or the string.
Continue ==
    /\ pc = "next" /\ (chars # <<>> \/ cmd = "print")
    /\ pc' = IF chars # <<>> THEN "get" ELSE "walk"
    /\ offset' = 0
    /\ UNCHANGED <<vidmem, port, cmd, walk, chars, typed, xy, lost, count>>

Called(c) ==
    /\ pc = "idle"
    /\ cmd' = c
    /\ typed' = <<>>
    /\ xy' = <<0, ROWS>>

\* The local variables are gone.
Return ==
    /\ pc' = "idle" /\ cmd' = "none" /\ typed' = <<>> /\ offset' = 0
    /\ call' = <<>> /\ index' = 1 /\ argsIndex' = 1 /\ color' = DEFAULT_COLOR

Done ==
    /\ pc = "next" /\ chars = <<>> /\ cmd # "print"
    /\ Return
    /\ UNCHANGED <<vidmem, port, chars, xy, lost, count>>

putc(ch) ==
    /\ Called("putc")
    /\ chars' = <<ch>>
    /\ pc' = "get"
    /\ UNCHANGED <<vidmem, port, offset, walk, lost, count>>

clear ==
    /\ Called("clear")
    /\ vidmem' = [c \in Cell |-> Blank]
    /\ offset' = 0
    /\ lost' = FALSE
    /\ pc' = "set"
    /\ UNCHANGED <<port, walk, chars, count>>

-----------------------------------------------------------------------------
(* cursor.                                                                  *)

\* The cell that a column and a row say.
Place(x, y) == Rem(y, ROWS) * COLS + Rem(x, COLS)

Aim(o, off) == offset' = o /\ lost' = (off \/ o < 0) /\ pc' = "set"

cursor_set(x, y) ==
    /\ Called("cursor")
    /\ Aim(Place(x, y), FALSE)
    /\ UNCHANGED <<vidmem, port, walk, chars, count>>

\* The modes that begin with get_cursor, of which one adds the arguments.
cursor_get(m) ==
    /\ Called("cursor")
    /\ call' = m
    /\ pc' = "get"
    /\ UNCHANGED <<vidmem, port, offset, index, argsIndex, color, chars, lost, count>>

cursor_add ==
    /\ pc = "got" /\ cmd = "cursor" /\ call # <<>>
    /\ Aim(Place((offset % COLS) + call[1], (offset \div COLS) + call[2]), lost)
    /\ UNCHANGED <<vidmem, port, cmd, walk, chars, typed, xy, count>>

cursor_tell ==
    /\ pc = "got" /\ cmd = "cursor" /\ call = <<>>
    /\ xy' = <<offset % COLS, offset \div COLS>>
    /\ Return
    /\ UNCHANGED <<vidmem, port, chars, lost, count>>

-----------------------------------------------------------------------------
(* print.                                                                   *)

print(f) ==
    /\ prints < PRINTS
    /\ Called("print")
    /\ prints' = prints + 1
    /\ call' = f
    /\ pc' = "walk"
    /\ UNCHANGED <<vidmem, port, offset, index, argsIndex, color, chars, lost, ticks>>

\* The character k places on, and what a string ends with.
Ch(k) == IF index + k <= Len(call.str) THEN call.str[index + k] ELSE "end"

\* The places before `end` where the string s has a directive, and that every call
\* has an argument for each of them.
DirectivesIn(s, end) == {k \in 1 .. (Len(s) - 1) : k < end /\ s[k] = "%" /\ s[k + 1] \in Directives}
ArgumentsSuffice ==
    \A f \in Formats : Cardinality(DirectivesIn(f.str, Len(f.str))) <= Len(f.args)

\* How many hexadecimal digits follow %#, up to two.
Digits == IF Ch(2) \notin DOMAIN Hex THEN 0 ELSE IF Ch(3) \notin DOMAIN Hex THEN 1 ELSE 2

\* The color that %# sets and how far it goes: over the digits and not over the
\* $, which is printed next.  A mutant that stays where it is without a digit.
Colors_stuck ==
    CASE Ch(2) = "$" -> <<DEFAULT_COLOR, 2>>
      [] Digits = 2 -> <<(16 * Hex[Ch(3)]) + Hex[Ch(2)], 4>>
      [] Digits = 1 -> <<(16 * (DEFAULT_COLOR \div 16)) + Hex[Ch(2)], 3>>
      [] OTHER -> <<color, 0>>
Colors ==
    CASE Ch(2) = "$" -> <<DEFAULT_COLOR, 2>>
      [] Digits = 2 -> <<(16 * Hex[Ch(3)]) + Hex[Ch(2)], 4>>
      [] Digits = 1 -> <<(16 * (DEFAULT_COLOR \div 16)) + Hex[Ch(2)], 3>>
      [] OTHER -> <<color, 2>>

\* One turn of the loop: the characters to print, how far it goes in the string
\* and in the arguments, and the color from then on.
Turn(s, i, a, c) ==
    /\ chars' = s
    /\ index' = index + i
    /\ argsIndex' = argsIndex + a
    /\ color' = c

\* The % before a letter that is no directive, which is printed next; a mutant
\* that skips the letter.
Unknown_skipped == Turn(<<"%">>, 2, 0, color)
Unknown == Turn(<<"%">>, 1, 0, color)

print_turn ==
    /\ pc = "walk" /\ Ch(0) # "end"
    /\ \/ Ch(0) # "%" /\ Turn(<<Ch(0)>>, 1, 0, color)
       \/ /\ Ch(0) = "%" /\ Ch(1) \in Directives
          /\ Turn(Text(Ch(1), call.args[argsIndex]), 2, 1, color)
       \/ Ch(0) = "%" /\ Ch(1) = "#" /\ Turn(<<>>, Colors[2], 0, Colors[1])
       \/ Ch(0) = "%" /\ Ch(1) = "%" /\ Turn(<<"%">>, 2, 0, color)
       \/ Ch(0) = "%" /\ Ch(1) \notin Directives \cup {"#", "%"} /\ Unknown
    /\ pc' = IF chars' = <<>> THEN "walk" ELSE "get"
    /\ UNCHANGED <<vidmem, port, cmd, offset, call, typed, xy, lost, count>>

print_returns ==
    /\ pc = "walk" /\ Ch(0) = "end"
    /\ Return
    /\ UNCHANGED <<vidmem, port, chars, xy, lost, count>>

-----------------------------------------------------------------------------

\* The places of a command where it holds nothing that a tick could make stale.
Between == {"idle", "walk", "get", "next"}

\* A tick handler calls putc, from its first access to its last with interrupts
\* disabled.
Tick(ch) ==
    /\ ticks < TICKS
    /\ ticks' = ticks + 1
    /\ \E o \in {Onward(Position, ch)} :
          /\ vidmem' = Screen(vidmem, Position, Shown(ch, DEFAULT_COLOR))
          /\ reg' = [high |-> High(o), low |-> Low(o)]
          /\ lost' = (lost \/ pc \notin Between \/ o < 0)
    /\ typed' = Append(typed, Key(ch, DEFAULT_COLOR, TRUE))
    /\ select' = "low"
    /\ UNCHANGED <<cmd, pc, offset, walk, chars, xy, prints>>

\* The cursor is where the firmware has left it.
Init ==
    /\ vidmem = [c \in Cell |-> Blank]
    /\ \E o \in Cell : reg = [high |-> High(o), low |-> Low(o)]
    /\ select = "low"
    /\ cmd = "none" /\ pc = "idle" /\ offset = 0
    /\ call = <<>> /\ index = 1 /\ argsIndex = 1 /\ color = DEFAULT_COLOR
    /\ chars = <<>> /\ typed = <<>> /\ xy = <<0, ROWS>>
    /\ lost = FALSE
    /\ prints = 0 /\ ticks = 0

Command == \/ get_cursor \/ set_cursor \/ printChar \/ Continue \/ Done
           \/ cursor_add \/ cursor_tell
           \/ print_turn \/ print_returns

Next == \/ \E ch \in Characters : putc(ch)
        \/ \E ch \in TickCharacters : Tick(ch)
        \/ clear
        \/ \E m \in Moves : cursor_set(m[1], m[2]) \/ cursor_get(m)
        \/ cursor_get(<<>>)
        \/ \E f \in Formats : print(f)
        \/ Command

Spec == Init /\ [][Next]_vars

\* A command that has been called is executed.
FairSpec == Spec /\ WF_vars(Command)

-----------------------------------------------------------------------------
(* What the string of a call of print says: the longest directive at each  *)
(* place, a lone % and any other character standing for themselves.        *)

Spellings ==
    {<<"%", "%">>, <<"%", "#">>, <<"%", "#", "$">>}
        \cup {<<"%", d>> : d \in Directives}
        \cup {<<"%", "#", a>> : a \in DOMAIN Hex}
        \cup {<<"%", "#", a, b>> : a, b \in DOMAIN Hex}

SpelledAt(str, k) ==
    {t \in Spellings : k + Len(t) - 1 <= Len(str) /\ t = SubSeq(str, k, k + Len(t) - 1)}

Longest(str, k) ==
    IF SpelledAt(str, k) = {} THEN <<str[k]>>
    ELSE CHOOSE t \in SpelledAt(str, k) : \A u \in SpelledAt(str, k) : Len(u) <= Len(t)

\* The color that a directive leaves.
Colored(t, c) ==
    CASE Len(t) <= 2 -> c
      [] Len(t) = 3 /\ t[3] = "$" -> DEFAULT_COLOR
      [] Len(t) = 3 /\ t[3] # "$" -> (DEFAULT_COLOR - (DEFAULT_COLOR % 16)) + Hex[t[3]]
      [] Len(t) = 4 -> Hex[t[3]] + (16 * Hex[t[4]])

\* Whether it takes an argument, and what it says with the first of those that are left.
Takes(t) == IF Len(t) = 2 /\ t[2] \in Directives THEN 1 ELSE 0
Said(t, args, a) ==
    CASE Len(t) = 1 -> t
      [] Takes(t) = 1 -> IF a > Len(args) THEN <<>> ELSE Text(t[2], args[a])
      [] Len(t) = 2 /\ t[2] = "%" -> <<"%">>
      [] Len(t) > 1 /\ t[2] = "#" -> <<>>

Keyed(text, c) == [n \in 1 .. Len(text) |-> Key(text[n], c, FALSE)]

\* What the string says from a place, an argument and a color on.
Meaning(f) ==
    LET From[w \in (Nat \ {0}) \X (Nat \ {0}) \X (0 .. 255)] ==
            IF w[1] > Len(f.str) THEN <<>>
            ELSE LET t   == Longest(f.str, w[1])
                     now == Colored(t, w[3])
                 IN Keyed(Said(t, f.args, w[2]), now)
                        \o From[<<w[1] + Len(t), w[2] + Takes(t), now>>]
    IN From[<<1, 1, DEFAULT_COLOR>>]

\* A string with %#$ somewhere.
Resets(str) == \E k \in 1 .. (Len(str) - 2) : str[k] = "%" /\ str[k + 1] = "#" /\ str[k + 2] = "$"

\* The characters that have been typed, without those of ticks.
Own(s) ==
    LET own[k \in 0 .. Len(s)] ==
            IF k = 0 THEN <<>> ELSE IF s[k].tick THEN own[k - 1] ELSE Append(own[k - 1], s[k])
    IN own[Len(s)]

-----------------------------------------------------------------------------

\* The registers hold a byte each, the variables of print stay within the string
\* and its arguments, a color is a byte: no step reads behind the end of either.
TypeOK ==
    /\ DOMAIN vidmem = Cell /\ \A c \in Cell : vidmem[c].color \in 0 .. 255
    /\ reg \in [{"high", "low"} -> 0 .. (BYTE - 1)] /\ select \in {"high", "low"}
    /\ cmd \in {"none", "print", "clear", "cursor", "putc"}
    /\ pc \in Between \cup {"get high", "get more", "get low", "got"}
                     \cup {"set", "set high", "set more", "set low"}
    /\ offset \in (1 - ROWS * COLS) .. (BYTE * BYTE)
    /\ cmd = "print" => /\ index \in 1 .. (Len(call.str) + 1)
                        /\ argsIndex \in 1 .. (Len(call.args) + 1)
    /\ color \in 0 .. 255
    /\ lost \in BOOLEAN
    /\ prints \in 0 .. PRINTS /\ ticks \in 0 .. TICKS

\* print has put on the screen what its string says, each character in the color
\* it is under, whatever ticks have printed meanwhile.  Strings with %#$ are left
\* out: doc says that it switches to the default color, and the code, which does,
\* prints the $ as well.
FormatHonoured ==
    cmd = "print" /\ pc = "walk" /\ Ch(0) = "end" /\ ~Resets(call.str)
        => Own(typed) = Meaning(call)

\* The cells and the two registers, accessed byte by byte, are a terminal with
\* one cursor, as long as no tick prints into an access and the cursor stays on
\* the right side of the first cell; a tick between two characters does no harm.
\* While a command sets the registers the cursor is where they will say.
Tty == INSTANCE Terminal WITH
    screen <- vidmem,
    cursor <- IF pc \in {"set", "set high", "set more", "set low"} THEN offset ELSE Position,
    answer <- (xy[2] * COLS) + xy[1]
ImplementsTerminal == Tty!Spec

\* A cursor far behind the screen comes back by itself, however it got there:
\* each character but a new line takes it up by more than it puts it on.  It may
\* be sent before the first cell again, only not for ever.
Far == Position > CELLS
Typing == []<><<printChar /\ Head(chars) # "nl">>_vars /\ <>[](offset >= 0)
CursorRecovers == Typing => (Far ~> ~Far)

\* print reaches the end of every string, and so do the other commands.
CallsEnd == pc # "idle" ~> pc = "idle"
=============================================================================
