---------------------------- MODULE DisplayProofs ----------------------------
(***************************************************************************)
(* Proofs about Display for a screen of any size that the cursor registers *)
(* can say, any strings, characters and moves, and any number of ticks.    *)
(***************************************************************************)
EXTENDS Display, WellFoundedInduction, SequenceTheorems, FiniteSetTheorems, TLAPS

\* A text of any characters.
IsText(s) == \E S : s \in Seq(S)

\* The cells the cursor can be at, the one behind the last included.
Places == 0 .. CELLS

\* While a command sets the registers, and while it gets them.
Setting == {"set", "set high", "set more", "set low"}
Getting == {"get high", "get more", "get low", "got"}

\* As long as the terminal is not lost, the index register is the one the command
\* has selected, and its variable holds what it has read or is to write.
InStep ==
    ~lost =>
        /\ IF pc \in Setting THEN offset \in Places ELSE Position \in Places
        /\ pc \in {"set high", "get high"} => select = "high"
        /\ pc \in {"set low", "get low"} => select = "low"
        /\ pc \in {"set more", "set low"} => reg["high"] = High(offset)
        /\ pc \in {"get more", "get low"} => offset = reg["high"] * BYTE
        /\ pc = "got" => offset = Position

\* The inductive invariant.
IInv == /\ IsText(typed)
        /\ lost \in BOOLEAN
        /\ DOMAIN reg = {"high", "low"}
        /\ select \in {"high", "low"}
        /\ call \in Int \X Int \/ call = <<>> \/ cmd # "cursor"
        /\ pc = "idle" => call = <<>>
        /\ InStep

\* The cursor of the terminal.
Cursor == IF pc \in Setting THEN offset ELSE Position

-----------------------------------------------------------------------------
(* Induction over the numbers, and functions that are defined by recursion.  *)

\* A set of numbers has a smallest one.
LEMMA Smallest ==
    ASSUME NEW S, S \subseteq Nat, S # {}
    PROVE  \E x \in S : \A y \in S : x <= y
  <1>. DEFINE R == OpToRel(<, Nat)
  <1>1. IsWellFoundedOn(R, Nat)
    BY NatLessThanWellFounded
  <1>2. \A x, y \in Nat : x < y => <<x, y>> \in R
    BY DEF OpToRel
  <1>. HIDE DEF R
  <1>3. PICK x \in S : \A y \in S : ~(<<y, x>> \in R)
    BY <1>1, WFMin, Zenon
  <1>4. \A y \in S : ~(y < x)
    BY <1>2, <1>3, Zenon
  <1>5. \A y \in S : x <= y
    BY <1>4
  <1>. QED  BY <1>5

\* Induction: a set with 0 and the successors of its members has all numbers.
LEMMA Induction ==
    ASSUME NEW S, 0 \in S, \A n \in Nat : n \in S => n + 1 \in S
    PROVE  \A n \in Nat : n \in S
  <1>. SUFFICES ASSUME Nat \ S # {} PROVE FALSE
    OBVIOUS
  <1>1. PICK n \in Nat \ S : \A m \in Nat \ S : n <= m
    BY Smallest
  <1>2. n - 1 \in Nat /\ n - 1 \notin Nat \ S /\ (n - 1) + 1 = n
    BY <1>1
  <1>. QED  BY <1>1, <1>2

\* The same up to a number.
LEMMA InductionTo ==
    ASSUME NEW n \in Nat, NEW S, 0 \in S, \A k \in 0 .. (n - 1) : k \in S => k + 1 \in S
    PROVE  \A k \in 0 .. n : k \in S
  <1>. DEFINE T == {k \in Nat : k <= n => k \in S}
  <1>1. 0 \in T /\ \A k \in Nat : k \in T => k + 1 \in T
    OBVIOUS
  <1>2. \A k \in Nat : k \in T
    <2>. HIDE DEF T
    <2>. QED  BY <1>1, Induction
  <1>. QED  BY <1>2

\* What it takes to define a function by its values at arguments of a smaller rank, and
\* that g is the function so defined.
Descends(S, V, rank, before, Stop, base, step) ==
    /\ rank \in [S -> Nat] /\ before \in [S -> S]
    /\ base \in [S -> V] /\ step \in [S -> [V -> V]]
    /\ \A x \in S \ Stop : rank[before[x]] < rank[x]
Solves(g, S, V, before, Stop, base, step) ==
    /\ g \in [S -> V]
    /\ \A x \in S : g[x] = IF x \in Stop THEN base[x] ELSE step[x][g[before[x]]]

\* There is such a function.
LEMMA Recursion ==
    ASSUME NEW S, NEW V, NEW rank, NEW before, NEW Stop, NEW base, NEW step,
           Descends(S, V, rank, before, Stop, base, step)
    PROVE  \E g : Solves(g, S, V, before, Stop, base, step)
  <1>. /\ rank \in [S -> Nat] /\ before \in [S -> S]
       /\ base \in [S -> V] /\ step \in [S -> [V -> V]]
       /\ \A x \in S \ Stop : rank[before[x]] < rank[x]
    BY DEF Descends
  <1>. DEFINE Below(n) == {x \in S : rank[x] < n}
              Follows(g, x) == g[x] = IF x \in Stop THEN base[x] ELSE step[x][g[before[x]]]
              Good(n, g) == g \in [Below(n) -> V] /\ \A x \in Below(n) : Follows(g, x)
              Defined == {n \in Nat : \E g : Good(n, g)}
  <1>1. \A n \in Nat : \A x \in Below(n) : x \notin Stop => before[x] \in Below(n)
    OBVIOUS
  <1>2. 0 \in Defined
    <2>1. Below(0) = {}
      OBVIOUS
    <2>2. Good(0, [x \in {} |-> 0])
      BY <2>1
    <2>. QED  BY <2>2
  <1>3. ASSUME NEW n \in Nat, n \in Defined PROVE n + 1 \in Defined
    <2>1. PICK g : Good(n, g)
      BY <1>3
    <2>. DEFINE h == [x \in Below(n + 1) |-> IF x \in Stop THEN base[x] ELSE step[x][g[before[x]]]]
    <2>2. \A x \in Below(n + 1) : x \in Stop \/ before[x] \in Below(n)
      OBVIOUS
    <2>3. h \in [Below(n + 1) -> V]
      <3>1. \A x \in Below(n + 1) : x \notin Stop => g[before[x]] \in V
        BY <2>1, <2>2
      <3>. QED  BY <3>1
    <2>4. \A x \in Below(n) : h[x] = g[x]
      <3>1. \A x \in Below(n) : x \in Below(n + 1)
        OBVIOUS
      <3>. QED  BY <2>1, <3>1
    <2>5. \A x \in Below(n + 1) : Follows(h, x)
      BY <2>2, <2>4
    <2>6. Good(n + 1, h)
      <3>. HIDE DEF h, Below, Follows
      <3>. QED  BY <2>3, <2>5
    <2>. HIDE DEF Good
    <2>. QED  BY <2>6
  <1>4. \A n \in Nat : \E g : Good(n, g)
    <2>. HIDE DEF Defined
    <2>1. \A n \in Nat : n \in Defined
      BY <1>2, <1>3, Induction
    <2>. QED  BY <2>1 DEF Defined
  <1>5. ASSUME NEW n \in Nat, NEW m \in Nat, NEW g, NEW h, Good(n, g), Good(m, h)
        PROVE  \A x \in Below(n) \cap Below(m) : g[x] = h[x]
    <2>. DEFINE D == {x \in Below(n) \cap Below(m) : g[x] # h[x]}
                N == {rank[x] : x \in D}
    <2>. SUFFICES ASSUME D # {} PROVE FALSE
      OBVIOUS
    <2>1. N \subseteq Nat /\ N # {}
      OBVIOUS
    <2>2. PICK k \in N : \A j \in N : k <= j
      <3>. HIDE DEF N
      <3>. QED  BY <2>1, Smallest
    <2>3. PICK x \in D : rank[x] = k
      OBVIOUS
    <2>4. x \notin Stop /\ g[before[x]] # h[before[x]]
      <3>1. x \in Below(n) /\ x \in Below(m) /\ g[x] # h[x]
        BY <2>3
      <3>2. Follows(g, x) /\ Follows(h, x)
        BY <1>5, <3>1
      <3>. HIDE DEF Below, D
      <3>. QED  BY <3>1, <3>2
    <2>5. before[x] \in D
      BY <1>1, <2>3, <2>4
    <2>6. rank[before[x]] < rank[x] /\ rank[before[x]] \in N
      BY <2>3, <2>4, <2>5
    <2>7. rank[x] \in Nat /\ rank[before[x]] \in Nat
      BY <2>3
    <2>8. k <= rank[before[x]]
      <3>. HIDE DEF N, D
      <3>. QED  BY <2>2, <2>6
    <2>. HIDE DEF N, D
    <2>. QED  BY <2>3, <2>6, <2>7, <2>8
  <1>. DEFINE part(x) == CHOOSE g : Good(rank[x] + 1, g)
              g == [x \in S |-> part(x)[x]]
  <1>6. \A x \in S : Good(rank[x] + 1, part(x))
    <2>. HIDE DEF Good
    <2>. QED  BY <1>4
  <1>. HIDE DEF part
  <1>7. ASSUME NEW x \in S PROVE g[x] \in V /\ Follows(g, x)
    <2>1. x \in Below(rank[x] + 1)
      OBVIOUS
    <2>2. part(x)[x] \in V /\ Follows(part(x), x)
      BY <1>6, <2>1
    <2>3. CASE x \in Stop
      BY <2>2, <2>3
    <2>4. CASE x \notin Stop
      <3>. DEFINE y == before[x]
      <3>1. y \in Below(rank[x] + 1) /\ y \in Below(rank[y] + 1) /\ y \in S
        BY <1>1, <2>1, <2>4
      <3>2. Good(rank[x] + 1, part(x)) /\ Good(rank[y] + 1, part(y))
        BY <1>6, <3>1
      <3>3. rank[x] + 1 \in Nat /\ rank[y] + 1 \in Nat
        BY <3>1
      <3>4. part(x)[y] = part(y)[y]
        <4>. HIDE DEF Good, Below, y
        <4>. QED  BY <1>5, <3>1, <3>2, <3>3
      <3>. QED  BY <2>2, <2>4, <3>1, <3>4
    <2>. QED  BY <2>3, <2>4
  <1>8. g \in [S -> V] /\ \A x \in S : Follows(g, x)
    BY <1>7
  <1>. HIDE DEF g
  <1>. QED  BY <1>8 DEF Solves

-----------------------------------------------------------------------------
(* Arithmetic.                                                              *)

\* Quotient and remainder.
LEMMA Division ==
    ASSUME NEW n \in Nat, NEW d \in Nat \ {0}
    PROVE  /\ n \div d \in Nat /\ n % d \in 0 .. (d - 1)
           /\ (n \div d) * d + (n % d) = n
  OBVIOUS

\* A quotient is less when the number is.
LEMMA Smaller ==
    ASSUME NEW n \in Nat, NEW d \in Nat \ {0}, NEW q \in Nat, n < q * d
    PROVE  (n \div d) + 1 <= q
  <1>1. (n \div d) * d <= n /\ n \div d \in Nat
    BY Division
  <1>2. CASE q <= n \div d
    <2>1. q * d <= (n \div d) * d
      BY <1>1, <1>2
    <2>. QED  BY <1>1, <2>1
  <1>. QED  BY <1>1, <1>2

\* The sizes of the screen and of a register.
LEMMA Sizes ==
    /\ ROWS \in Nat \ {0} /\ COLS \in Nat \ {0, 1} /\ BYTE \in Nat \ {0}
    /\ CELLS \in Nat \ {0} /\ CELLS < BYTE * BYTE /\ COLS <= CELLS
  <1>1. ROWS \in Nat \ {0} /\ COLS \in Nat \ {0, 1} /\ BYTE \in Nat /\ ROWS * COLS < BYTE * BYTE
    BY DisplayAssumption
  <1>2. ROWS * COLS \in Nat \ {0} /\ COLS <= ROWS * COLS
    BY <1>1
  <1>3. BYTE # 0
    BY <1>1, <1>2
  <1>. QED  BY <1>1, <1>2, <1>3 DEF CELLS

\* The two bytes of a position say it.
LEMMA TwoBytes ==
    ASSUME NEW o \in Places
    PROVE  High(o) * BYTE + Low(o) = o
  <1>1. o \in Nat /\ BYTE \in Nat \ {0} /\ o < BYTE * BYTE
    BY Sizes DEF Places
  <1>2. o \div BYTE \in Nat /\ o \div BYTE < BYTE
    <2>1. BYTE \in Nat
      BY <1>1
    <2>2. (o \div BYTE) + 1 <= BYTE
      BY <1>1, <2>1, Smaller, Zenon
    <2>3. o \div BYTE \in Nat
      BY <1>1, Division
    <2>. QED  BY <2>1, <2>2, <2>3
  <1>3. (o \div BYTE) % BYTE = o \div BYTE
    BY <1>1, <1>2
  <1>. QED  BY <1>1, <1>3, Division DEF High, Low

\* Where a character puts the cursor.
LEMMA OnwardPlace ==
    ASSUME NEW o \in Places, NEW ch
    PROVE  /\ Base(o) \in Cell
           /\ Base(o) = IF o = CELLS THEN CELLS - COLS ELSE o
           /\ Onward(o, ch) \in Places \/ Onward(o, ch) < 0
  <1>1. /\ o \in Nat /\ o <= CELLS /\ ROWS \in Nat \ {0} /\ COLS \in Nat \ {0}
        /\ CELLS \in Nat /\ COLS <= CELLS /\ CELLS = ROWS * COLS
    BY Sizes DEF Places, CELLS
  <1>. HIDE DEF CELLS
  <1>2. Base(o) \in Nat /\ Base(o) < CELLS /\ Base(o) = IF o = CELLS THEN CELLS - COLS ELSE o
    BY <1>1 DEF Base, Full
  <1>3. (Base(o) \div COLS) + 1 \in Nat /\ (Base(o) \div COLS) + 1 <= ROWS
    <2>1. ROWS \in Nat /\ Base(o) < ROWS * COLS
      BY <1>1, <1>2
    <2>2. (Base(o) \div COLS) + 1 <= ROWS
      BY <1>1, <1>2, <2>1, Smaller, Zenon
    <2>3. Base(o) \div COLS \in Nat
      BY <1>1, <1>2, Division
    <2>. QED  BY <2>2, <2>3
  <1>4. (Base(o) \div COLS + 1) * COLS \in Nat /\ (Base(o) \div COLS + 1) * COLS <= ROWS * COLS
    BY <1>1, <1>3
  <1>. QED  BY <1>1, <1>2, <1>4 DEF Onward, Places, Cell

\* Where a column and a row lead.
LEMMA PlaceInScreen ==
    ASSUME NEW x \in Int, NEW y \in Int
    PROVE  Place(x, y) \in Cell \/ Place(x, y) < 0
  <1>1. ROWS \in Nat \ {0} /\ COLS \in Nat \ {0, 1} /\ CELLS = ROWS * COLS
    BY Sizes DEF CELLS
  <1>2. \A a \in Int, b \in Nat \ {0} : Rem(a, b) \in Int /\ Rem(a, b) <= b - 1
    BY DEF Rem
  <1>3. Rem(x, COLS) \in Int /\ Rem(x, COLS) <= COLS - 1 /\ Rem(y, ROWS) \in Int /\ Rem(y, ROWS) <= ROWS - 1
    BY <1>1, <1>2
  <1>4. Rem(y, ROWS) * COLS \in Int /\ Rem(y, ROWS) * COLS <= (ROWS - 1) * COLS
    BY <1>1, <1>3
  <1>5. (ROWS - 1) * COLS = ROWS * COLS - COLS /\ ROWS * COLS \in Nat
    BY <1>1
  <1>. QED  BY <1>1, <1>3, <1>4, <1>5 DEF Place, Cell

\* A text that has been added to.
LEMMA Added ==
    ASSUME NEW s, NEW e, IsText(s)
    PROVE  /\ IsText(Append(s, e))
           /\ Len(Append(s, e)) = Len(s) + 1
           /\ s = SubSeq(Append(s, e), 1, Len(s))
           /\ Append(s, e)[Len(Append(s, e))] = e
  <1>1. PICK S : s \in Seq(S)
    BY DEF IsText
  <1>2. s \in Seq(S \cup {e}) /\ e \in S \cup {e}
    BY <1>1
  <1>3. Append(s, e) \in Seq(S \cup {e})
    BY <1>2
  <1>4. /\ Len(Append(s, e)) = Len(s) + 1 /\ Append(s, e)[Len(s) + 1] = e
        /\ s = SubSeq(Append(s, e), 1, Len(s))
    BY <1>2
  <1>. QED  BY <1>3, <1>4 DEF IsText

-----------------------------------------------------------------------------
(* Steps of the terminal.                                                   *)

\* The terminal's cursor is the position or where the command will put it.
LEMMA TtyCursor ==
    /\ (IF pc \in {"set", "set high", "set more", "set low"} THEN offset ELSE Position) = Cursor
    /\ (IF pc \in {"set", "set high", "set more", "set low"} THEN offset ELSE Position)' = Cursor'
  BY DEF Cursor, Setting

\* A character that is typed at the cursor.
LEMMA Types ==
    ASSUME IInv, ~lost, UNCHANGED <<lost, xy>>, NEW ch, NEW c, NEW t,
           typed' = Append(typed, Key(ch, c, t)),
           vidmem' = Screen(vidmem, Cursor, Shown(ch, c)),
           Cursor' = Onward(Cursor, ch), Cursor' >= 0, Cursor \in Places
    PROVE  Tty!Type
  <1>. DEFINE o == Cursor
              k == Key(ch, c, t)
  <1>1. /\ Base(o) \in Cell /\ Base(o) = IF o = CELLS THEN CELLS - COLS ELSE o
        /\ Full(o) <=> o = CELLS
        /\ CELLS \in Nat
    BY OnwardPlace, Sizes DEF Full, Places
  <1>2. /\ Len(typed') = Len(typed) + 1 /\ typed = SubSeq(typed', 1, Len(typed))
        /\ typed'[Len(typed')] = k
    BY Added DEF IInv
  <1>3. k.ch = ch /\ k.color = c
    BY DEF Key
  <1>4. Tty!CELLS = CELLS /\ Tty!Cell = Cell
    BY DEF Tty!CELLS, Tty!Cell, CELLS, Cell
  <1>5. Tty!Full <=> o = CELLS
    BY <1>4, TtyCursor DEF Tty!Full
  <1>6. Tty!Here = Base(o)
    BY <1>1, <1>4, <1>5, TtyCursor DEF Tty!Here
  <1>7. Tty!Room = IF Full(o) THEN shiftUp(vidmem) ELSE vidmem
    BY <1>1, <1>4, <1>5 DEF Tty!Room, shiftUp
  <1>8. CASE ch = "nl"
    <2>1. vidmem' = Tty!Room
      BY <1>7, <1>8 DEF Screen, Shown
    <2>2. Cursor' = ((Base(o) \div COLS) + 1) * COLS
      BY <1>8 DEF Onward
    <2>3. Tty!NewLine(k.ch)
      BY <1>3, <1>6, <1>8, <2>1, <2>2, TtyCursor DEF Tty!NewLine
    <2>. QED  BY <1>2, <2>3 DEF Tty!Type
  <1>9. CASE ch = "bs"
    <2>1. Cursor' = Base(o) - 1 /\ Base(o) > 0 /\ Base(o) - 1 \in Cell
      BY <1>1, <1>9 DEF Onward, Cell
    <2>2. vidmem' = [Tty!Room EXCEPT ![Base(o) - 1] = Shown(" ", c)]
      BY <1>7, <1>9, <2>1 DEF Screen, Shown, setChar
    <2>3. Tty!Rubout(k.ch, k.color)
      BY <1>3, <1>6, <1>9, <2>1, <2>2, TtyCursor DEF Tty!Rubout, Shown
    <2>. QED  BY <1>2, <2>3 DEF Tty!Type
  <1>10. CASE ch \notin {"nl", "bs"}
    <2>1. Cursor' = Base(o) + 1
      BY <1>10 DEF Onward
    <2>2. vidmem' = [Tty!Room EXCEPT ![Base(o)] = Shown(ch, c)]
      BY <1>1, <1>7, <1>10 DEF Screen, Shown, setChar
    <2>3. Tty!Glyph(k.ch, k.color)
      BY <1>3, <1>6, <1>10, <2>1, <2>2, TtyCursor DEF Tty!Glyph, Shown
    <2>. QED  BY <1>2, <2>3 DEF Tty!Type
  <1>. QED  BY <1>8, <1>9, <1>10

\* Any step after which the terminal is lost.
LEMMA Loses == ASSUME lost' = TRUE PROVE Tty!Next
  BY DEF Tty!Next, Tty!Lose

\* A step that changes nothing of the terminal.
LEMMA Stutters ==
    ASSUME UNCHANGED <<vidmem, typed, lost, xy>>, Cursor' = Cursor
    PROVE  UNCHANGED Tty!vars
  BY TtyCursor DEF Tty!vars

\* A position in the two registers.
LEMMA Says ==
    ASSUME NEW r, NEW o \in Places, r["high"] = High(o), r["low"] = Low(o)
    PROVE  r["high"] * BYTE + r["low"] = o
  BY TwoBytes

-----------------------------------------------------------------------------
(* What each step keeps, and what it is for the terminal.                   *)

\* A step is one of the terminal and keeps the invariant.
Right == IInv' /\ (Tty!Next \/ UNCHANGED Tty!vars)

\* get_cursor changes nothing, and ends with the position.
LEMMA GetCursor == ASSUME IInv, get_cursor PROVE Right
  <1>1. UNCHANGED <<vidmem, typed, lost, xy, reg, call, cmd>>
    BY DEF get_cursor, Select, Read, port, walk
  <1>2. Position' = Position /\ pc \notin Setting /\ pc' \notin Setting
    BY <1>1 DEF Position, get_cursor, Select, Read, Setting
  <1>3. UNCHANGED Tty!vars
    BY <1>1, <1>2, Stutters DEF Cursor
  <1>4. InStep'
    <2>. SUFFICES ASSUME ~lost PROVE InStep'
      BY <1>1 DEF InStep
    <2>1. Position \in Places
      BY <1>2 DEF IInv, InStep
    <2>2. CASE Select("get", "high", "get high")
      BY <1>1, <1>2, <2>1, <2>2 DEF InStep, Select, Setting
    <2>3. CASE Read("get high", reg[select] * BYTE, "get more")
      BY <1>1, <1>2, <2>1, <2>3 DEF IInv, InStep, Read, Setting
    <2>4. CASE Select("get more", "low", "get low")
      BY <1>1, <1>2, <2>1, <2>4 DEF IInv, InStep, Select, Setting
    <2>5. CASE Read("get low", offset + reg[select], "got")
      BY <1>1, <1>2, <2>1, <2>5 DEF IInv, InStep, Read, Setting, Position
    <2>. QED  BY <2>2, <2>3, <2>4, <2>5 DEF get_cursor
  <1>5. select' \in {"high", "low"} /\ pc' # "idle"
    BY DEF IInv, get_cursor, Select, Read, port
  <1>. QED  BY <1>1, <1>3, <1>4, <1>5 DEF IInv, Right

\* set_cursor makes the position what it was going to be.
LEMMA SetCursor == ASSUME IInv, set_cursor PROVE Right
  <1>1. UNCHANGED <<vidmem, typed, lost, xy, call, cmd, offset>>
    BY DEF set_cursor, Select, Write, port, walk
  <1>2. /\ pc \in Setting /\ pc' # "idle"
        /\ DOMAIN reg' = {"high", "low"} /\ select' \in {"high", "low"}
    BY DEF set_cursor, Select, Write, Setting, IInv
  <1>3. CASE lost
    BY <1>1, <1>2, <1>3, Loses DEF IInv, InStep, Right
  <1>4. CASE ~lost
    <2>1. offset \in Places
      BY <1>2, <1>4 DEF IInv, InStep
    <2>2. CASE Select("set", "high", "set high")
      <3>1. InStep' /\ Cursor' = Cursor
        BY <1>1, <2>1, <2>2 DEF InStep, Select, Setting, Cursor
      <3>. QED  BY <1>1, <1>2, <3>1, Stutters DEF IInv, Right
    <2>3. CASE Write("set high", High(offset), "set more")
      <3>1. InStep' /\ Cursor' = Cursor
        BY <1>1, <1>4, <2>1, <2>3 DEF IInv, InStep, Write, Setting, Cursor
      <3>. QED  BY <1>1, <1>2, <3>1, Stutters DEF IInv, Right
    <2>4. CASE Select("set more", "low", "set low")
      <3>1. InStep' /\ Cursor' = Cursor
        BY <1>1, <1>4, <2>1, <2>4 DEF IInv, InStep, Select, Setting, Cursor
      <3>. QED  BY <1>1, <1>2, <3>1, Stutters DEF IInv, Right
    <2>5. CASE Write("set low", Low(offset), "next")
      <3>1. reg'["high"] = High(offset) /\ reg'["low"] = Low(offset)
        BY <1>4, <2>5 DEF IInv, InStep, Write
      <3>2. Position' = offset
        BY <2>1, <3>1, Says DEF Position
      <3>3. InStep' /\ Cursor' = Cursor
        BY <1>1, <2>1, <2>5, <3>2 DEF InStep, Write, Setting, Cursor
      <3>. QED  BY <1>1, <1>2, <3>3, Stutters DEF IInv, Right
    <2>. QED  BY <2>2, <2>3, <2>4, <2>5 DEF set_cursor
  <1>. QED  BY <1>3, <1>4

\* printChar types a character at the cursor it has got.
LEMMA PrintChar == ASSUME IInv, printChar PROVE Right
  <1>1. /\ pc = "got" /\ pc' = "set" /\ UNCHANGED <<reg, select, call, cmd, xy>>
        /\ lost' = (lost \/ offset' < 0)
        /\ lost' \in BOOLEAN
    BY DEF printChar, port, walk
  <1>2. PICK ch, c : /\ vidmem' = Screen(vidmem, offset, Shown(ch, c))
                     /\ offset' = Onward(offset, ch)
                     /\ typed' = Append(typed, Key(ch, c, FALSE))
    <2>. DEFINE g == Shown(Head(chars), color)
    <2>1. /\ vidmem' = Screen(vidmem, offset, g) /\ offset' = Onward(offset, g.ch)
          /\ typed' = Append(typed, Key(g.ch, g.color, FALSE))
      BY DEF printChar
    <2>2. g.ch = Head(chars) /\ g.color = color
      BY DEF Shown
    <2>. QED  BY <2>1, <2>2
  <1>3. IsText(typed')
    BY <1>2, Added DEF IInv
  <1>4. CASE lost'
    BY <1>1, <1>3, <1>4, Loses DEF IInv, InStep, Right
  <1>5. CASE ~lost'
    <2>1. ~lost /\ ~(offset' < 0)
      BY <1>1, <1>5
    <2>2. offset = Position /\ offset \in Places
      BY <1>1, <2>1 DEF IInv, InStep, Setting
    <2>3. Cursor = offset /\ Cursor' = offset'
      BY <1>1, <2>2 DEF Cursor, Setting
    <2>4. offset' \in Places
      BY <1>2, <2>1, <2>2, OnwardPlace
    <2>5. InStep'
      BY <1>1, <2>4 DEF InStep, Setting
    <2>6. offset' >= 0
      BY <2>4, Sizes DEF Places
    <2>7. UNCHANGED <<lost, xy>>
      <3>1. lost' = FALSE /\ lost = FALSE
        BY <1>1, <1>5, <2>1, Zenon DEF IInv
      <3>. QED  BY <1>1, <3>1
    <2>8. Tty!Type
      BY <1>2, <2>1, <2>2, <2>3, <2>6, <2>7, Types
    <2>. QED  BY <1>1, <1>3, <2>5, <2>8 DEF IInv, Right, Tty!Next
  <1>. QED  BY <1>4, <1>5

\* So does a tick, at the position the registers say, unless a command holds it.
LEMMA TickTypes == ASSUME IInv, NEW ch, Tick(ch) PROVE Right
  <1>. DEFINE o == Onward(Position, ch)
  <1>1. /\ vidmem' = Screen(vidmem, Position, Shown(ch, DEFAULT_COLOR))
        /\ reg' = [high |-> High(o), low |-> Low(o)] /\ select' = "low"
        /\ lost' = (lost \/ pc \notin Between \/ o < 0)
        /\ typed' = Append(typed, Key(ch, DEFAULT_COLOR, TRUE))
        /\ lost' \in BOOLEAN
        /\ UNCHANGED <<cmd, pc, offset, call, xy>>
    BY DEF Tick, walk
  <1>2. IsText(typed')
    BY <1>1, Added DEF IInv
  <1>3. CASE lost'
    BY <1>1, <1>2, <1>3, Loses DEF IInv, InStep, Right
  <1>4. CASE ~lost'
    <2>1. ~lost /\ pc \in Between /\ ~(o < 0)
      BY <1>1, <1>4
    <2>2. Position \in Places /\ Cursor = Position /\ pc \notin Setting /\ pc \notin Getting
      BY <2>1 DEF IInv, InStep, Setting, Between, Cursor, Getting
    <2>3. o \in Places
      BY <2>1, <2>2, OnwardPlace
    <2>4. Position' = o /\ Cursor' = o
      <3>. HIDE DEF o
      <3>1. reg'["high"] = High(o) /\ reg'["low"] = Low(o)
        BY <1>1
      <3>. QED  BY <1>1, <2>2, <2>3, <3>1, Says DEF Position, Cursor
    <2>5. InStep'
      BY <1>1, <2>2, <2>3, <2>4 DEF InStep, Setting, Getting
    <2>6. o >= 0
      BY <2>3, Sizes DEF Places
    <2>7. UNCHANGED <<lost, xy>>
      <3>1. lost' = FALSE /\ lost = FALSE
        BY <1>1, <1>4, <2>1, Zenon DEF IInv
      <3>. QED  BY <1>1, <3>1
    <2>8. Tty!Type
      BY <1>1, <2>1, <2>2, <2>4, <2>6, <2>7, Types
    <2>. QED  BY <1>1, <1>2, <2>5, <2>8 DEF IInv, Right, Tty!Next
  <1>. QED  BY <1>3, <1>4

\* The text of no characters, and the cell that no caller has been told yet.
LEMMA Nothing == IsText(<<>>) /\ Tty!CELLS = CELLS /\ Tty!Cell = Cell
  <1>1. <<>> \in Seq({})
    OBVIOUS
  <1>. QED  BY <1>1 DEF IsText, Tty!CELLS, Tty!Cell, CELLS, Cell

\* A command is called, which leaves the screen and the cursor alone for now.
LEMMA Begins ==
    ASSUME IInv, NEW c, Called(c), UNCHANGED <<vidmem, reg, select, offset, lost>>,
           pc' \in {"get", "walk"},
           call' \in Int \X Int \/ call' = <<>> \/ c # "cursor"
    PROVE  Right
  <1>1. pc = "idle" /\ typed' = <<>> /\ xy' = <<0, ROWS>> /\ cmd' = c
    BY DEF Called
  <1>2. (xy[2] * COLS + xy[1])' = CELLS
    BY <1>1, Sizes DEF CELLS
  <1>3. Cursor' = Cursor /\ Position' = Position /\ Cursor = Position
    BY <1>1 DEF Cursor, Position, Setting
  <1>4. Tty!Begin
    BY <1>1, <1>2, <1>3, Nothing, TtyCursor DEF Tty!Begin
  <1>5. InStep'
    BY <1>1, <1>3 DEF IInv, InStep, Setting
  <1>. QED  BY <1>1, <1>4, <1>5, Nothing DEF IInv, Right, Tty!Next

\* A command returns.
LEMMA Ends ==
    ASSUME IInv, Return, UNCHANGED <<vidmem, reg, select, lost>>, pc \notin Setting
    PROVE  /\ IInv'
           /\ typed' = <<>> /\ Cursor' = Cursor
  <1>1. Cursor' = Cursor /\ Position' = Position /\ Cursor = Position /\ pc' = "idle" /\ typed' = <<>>
        /\ call' = <<>>
    BY DEF Return, Cursor, Position, Setting
  <1>2. InStep'
    BY <1>1 DEF IInv, InStep, Setting
  <1>. QED  BY <1>1, <1>2, Nothing DEF IInv

\* The calls that change nothing on the screen yet.
LEMMA OtherCalls ==
    ASSUME IInv,
           \/ \E ch \in Characters : putc(ch)
           \/ \E m \in Moves : cursor_get(m)
           \/ cursor_get(<<>>)
           \/ \E f \in Formats : print(f)
    PROVE  Right
  <1>1. ASSUME NEW ch \in Characters, putc(ch) PROVE Right
    <2>1. call' = <<>>
      BY <1>1 DEF putc, Called, walk, IInv
    <2>. QED  BY <1>1, <2>1, Begins DEF putc, port
  <1>2. ASSUME NEW m \in Moves \cup {<<>>}, cursor_get(m) PROVE Right
    <2>1. m \in Int \X Int \/ m = <<>>
      BY DisplayAssumption
    <2>. QED  BY <1>2, <2>1, Begins DEF cursor_get, port
  <1>3. ASSUME NEW f \in Formats, print(f) PROVE Right
    BY <1>3, Begins DEF print, port
  <1>. QED  BY <1>1, <1>2, <1>3

\* clear empties the screen and is on the way to the first cell.
LEMMA ClearScreen == ASSUME IInv, clear PROVE Right
  <1>1. /\ pc' = "set" /\ typed' = <<>> /\ xy' = <<0, ROWS>> /\ cmd' = "clear" /\ offset' = 0
        /\ lost' = FALSE /\ vidmem' = [c \in Cell |-> Blank] /\ UNCHANGED <<reg, select, call>>
    BY DEF clear, Called, port, walk
  <1>2. (xy[2] * COLS + xy[1])' = CELLS /\ 0 \in Places
    BY <1>1, Sizes DEF CELLS, Places
  <1>3. Cursor' = 0
    BY <1>1 DEF Cursor, Setting
  <1>4. Tty!Clear
    BY <1>1, <1>2, <1>3, Nothing, TtyCursor DEF Tty!Clear, Blank, Shown
  <1>5. InStep'
    BY <1>1, <1>2 DEF InStep, Setting
  <1>. QED  BY <1>1, <1>4, <1>5, Nothing DEF IInv, Right, Tty!Next

\* The cursor is sent to a place.
LEMMA CursorSet == ASSUME IInv, NEW m \in Moves, cursor_set(m[1], m[2]) PROVE Right
  <1>1. /\ pc = "idle" /\ pc' = "set" /\ typed' = <<>> /\ xy' = <<0, ROWS>> /\ cmd' = "cursor"
        /\ offset' = Place(m[1], m[2]) /\ lost' = (FALSE \/ Place(m[1], m[2]) < 0)
        /\ UNCHANGED <<vidmem, reg, select, call>>
    BY DEF cursor_set, Called, Aim, port, walk
  <1>2. m[1] \in Int /\ m[2] \in Int
    BY DisplayAssumption
  <1>3. call' = <<>> /\ lost' \in BOOLEAN
    BY <1>1 DEF IInv
  <1>4. CASE lost'
    BY <1>1, <1>3, <1>4, Loses, Nothing DEF IInv, InStep, Right
  <1>5. CASE ~lost'
    <2>1. offset' \in Cell /\ offset' \in Places
      <3>1. offset' \in Cell
        BY <1>1, <1>2, <1>5, PlaceInScreen
      <3>. QED  BY <3>1, Sizes DEF Cell, Places
    <2>2. (xy[2] * COLS + xy[1])' = CELLS
      BY <1>1, Sizes DEF CELLS
    <2>3. Cursor' \in Cell
      BY <1>1, <2>1 DEF Cursor, Setting
    <2>4. lost' = FALSE
      BY <1>3, <1>5
    <2>5. Tty!Put
      BY <1>1, <2>2, <2>3, <2>4, Nothing, TtyCursor DEF Tty!Put
    <2>6. InStep'
      BY <1>1, <2>1 DEF InStep, Setting
    <2>. QED  BY <1>1, <1>3, <2>5, <2>6, Nothing DEF IInv, Right, Tty!Next
  <1>. QED  BY <1>4, <1>5

\* The cursor is moved from where it is.
LEMMA CursorAdd == ASSUME IInv, cursor_add PROVE Right
  <1>1. /\ pc = "got" /\ pc' = "set" /\ cmd = "cursor" /\ call # <<>>
        /\ offset' = Place((offset % COLS) + call[1], (offset \div COLS) + call[2])
        /\ lost' = (lost \/ offset' < 0)
        /\ lost' \in BOOLEAN
        /\ UNCHANGED <<vidmem, reg, select, call, cmd, typed, xy>>
    BY DEF cursor_add, Aim, port, walk
  <1>2. call \in Int \X Int
    BY <1>1 DEF IInv
  <1>3. CASE lost'
    BY <1>1, <1>3, Loses DEF IInv, InStep, Right
  <1>4. CASE ~lost'
    <2>1. lost' = FALSE /\ lost = FALSE /\ ~(offset' < 0)
      BY <1>1, <1>4, Zenon DEF IInv
    <2>2. offset \in Nat /\ COLS \in Nat \ {0}
      BY <1>1, <2>1, Sizes DEF IInv, InStep, Setting, Places
    <2>3. (offset % COLS) + call[1] \in Int /\ (offset \div COLS) + call[2] \in Int
      BY <1>2, <2>2, Division
    <2>4. offset' \in Cell
      BY <1>1, <2>1, <2>3, PlaceInScreen, Zenon
    <2>5. offset' \in Places /\ Cursor' \in Cell
      BY <1>1, <2>4, Sizes DEF Cell, Places, Cursor, Setting
    <2>6. Tty!Move
      BY <1>1, <2>1, <2>5, Nothing, TtyCursor DEF Tty!Move
    <2>7. InStep'
      BY <1>1, <2>5 DEF InStep, Setting
    <2>. QED  BY <1>1, <2>6, <2>7 DEF IInv, Right, Tty!Next
  <1>. QED  BY <1>3, <1>4

\* What cursor tells its caller is where the terminal's cursor is.
LEMMA CursorTell == ASSUME IInv, cursor_tell PROVE Right
  <1>1. /\ pc = "got" /\ xy' = <<offset % COLS, offset \div COLS>>
        /\ Return /\ UNCHANGED <<vidmem, reg, select, lost>>
    BY DEF cursor_tell, port
  <1>2. IInv' /\ typed' = <<>> /\ Cursor' = Cursor
    BY <1>1, Ends DEF Setting
  <1>3. CASE lost
    BY <1>1, <1>2, <1>3, Loses DEF IInv, Right
  <1>4. CASE ~lost
    <2>1. offset = Position /\ offset \in Nat /\ COLS \in Nat \ {0} /\ Cursor = offset
      BY <1>1, <1>4, Sizes DEF IInv, InStep, Setting, Places, Cursor
    <2>2. (xy[2] * COLS + xy[1])' = offset
      BY <1>1, <2>1, Division
    <2>3. Tty!Ask
      BY <1>1, <1>2, <1>4, <2>1, <2>2, TtyCursor DEF Tty!Ask
    <2>. QED  BY <1>2, <2>3 DEF Right, Tty!Next
  <1>. QED  BY <1>3, <1>4

\* The other commands return.
LEMMA Returns == ASSUME IInv, Done \/ print_returns PROVE Right
  <1>1. /\ pc \notin Setting /\ Return /\ UNCHANGED <<vidmem, reg, select, xy, lost>>
    BY DEF Done, print_returns, port, Setting
  <1>2. IInv' /\ typed' = <<>> /\ Cursor' = Cursor
    BY <1>1, Ends
  <1>3. Tty!End
    BY <1>1, <1>2, TtyCursor DEF Tty!End
  <1>. QED  BY <1>2, <1>3 DEF Right, Tty!Next

\* Steps inside print.
LEMMA Walks == ASSUME IInv, Continue \/ print_turn PROVE Right
  <1>1. /\ UNCHANGED <<vidmem, reg, select, cmd, call, typed, xy, lost>>
        /\ pc \in {"next", "walk"} /\ pc' \in {"get", "walk"}
    BY DEF Continue, print_turn, port, walk
  <1>2. Cursor' = Cursor /\ Position' = Position /\ Cursor = Position
    BY <1>1 DEF Cursor, Position, Setting
  <1>3. InStep'
    BY <1>1, <1>2 DEF IInv, InStep, Setting
  <1>. QED  BY <1>1, <1>2, <1>3, Stutters DEF IInv, Right

-----------------------------------------------------------------------------

\* The invariant holds at the start, at which the cursor is in some cell.
LEMMA Initially == Init => IInv /\ Tty!Init
  <1>. SUFFICES ASSUME Init PROVE IInv /\ Tty!Init
    OBVIOUS
  <1>1. PICK o \in Cell : reg = [high |-> High(o), low |-> Low(o)]
    BY DEF Init
  <1>2. o \in Places
    BY Sizes DEF Cell, Places
  <1>3. reg["high"] = High(o) /\ reg["low"] = Low(o) /\ DOMAIN reg = {"high", "low"}
    BY <1>1
  <1>4. Position = o /\ Cursor = o
    BY <1>2, <1>3, Says DEF Init, Position, Cursor, Setting
  <1>5. IInv
    BY <1>2, <1>3, <1>4, Nothing DEF Init, IInv, InStep, Setting
  <1>6. (xy[2] * COLS + xy[1]) = CELLS
    BY Sizes DEF Init, CELLS
  <1>7. Tty!Init
    BY <1>4, <1>6, Nothing, TtyCursor DEF Init, Tty!Init, Blank, Shown
  <1>. QED  BY <1>5, <1>7

\* Every step keeps it and is a step of the terminal or none.
LEMMA StepRefines ==
    ASSUME IInv, [Next]_vars
    PROVE  IInv' /\ [Tty!Next]_(Tty!vars)
  <1>1. CASE Next
    <2>1. Right
      <3>1. ASSUME NEW ch \in TickCharacters, Tick(ch) PROVE Right
        BY <3>1, TickTypes
      <3>2. ASSUME NEW m \in Moves, cursor_set(m[1], m[2]) PROVE Right
        BY <3>2, CursorSet
      <3>3. CASE Command
        BY <3>3, GetCursor, SetCursor, PrintChar, Walks, Returns, CursorAdd, CursorTell DEF Command
      <3>. QED  BY <1>1, <3>1, <3>2, <3>3, ClearScreen, OtherCalls DEF Next
    <2>. QED  BY <2>1 DEF Right
  <1>2. CASE UNCHANGED vars
    <2>1. UNCHANGED <<vidmem, reg, select, cmd, pc, offset, call, typed, xy, lost>>
      BY <1>2 DEF vars, port, walk
    <2>2. InStep' /\ Cursor' = Cursor
      BY <2>1 DEF IInv, InStep, Position, Cursor
    <2>. QED  BY <2>1, <2>2, Stutters DEF IInv
  <1>. QED  BY <1>1, <1>2

\* On a screen of any size, whatever commands are called and whenever ticks print,
\* the cells and the cursor registers are a terminal with one cursor.
THEOREM DisplayImplementsTerminal == Spec => ImplementsTerminal
  <1>1. Init => IInv /\ Tty!Init
    BY Initially
  <1>2. IInv /\ [Next]_vars => IInv' /\ [Tty!Next]_(Tty!vars)
    BY StepRefines
  <1>. QED  BY <1>1, <1>2, PTL DEF Spec, ImplementsTerminal, Tty!Spec

-----------------------------------------------------------------------------
(* Types.                                                                   *)

\* Each cell has a color, and each register holds a byte.
Painted(m) == DOMAIN m = Cell /\ \A c \in Cell : m[c].color \in 0 .. 255
Registers  == reg \in [{"high", "low"} -> 0 .. (BYTE - 1)] /\ select \in {"high", "low"}

\* The numbers that offset can be, while get_cursor puts it together and later.
Offsets ==
    /\ offset \in (1 - CELLS) .. (BYTE * BYTE)
    /\ pc \in {"get more", "get low"} => offset \in 0 .. ((BYTE - 1) * BYTE)
    /\ pc = "got" => offset \in 0 .. (BYTE * BYTE - 1)

\* print has not left its string, and has taken no more arguments than it has come
\* past directives.
InString ==
    /\ pc = "idle" => cmd = "none"
    /\ pc = "walk" => cmd = "print"
    /\ color \in 0 .. 255
    /\ IF cmd = "print"
       THEN /\ call \in Formats
            /\ index \in 1 .. (Len(call.str) + 1)
            /\ argsIndex \in Nat \ {0}
            /\ argsIndex <= Cardinality(DirectivesIn(call.str, index)) + 1
       ELSE index = 1 /\ argsIndex = 1

\* The commands and what is counted.
Counted ==
    /\ cmd \in {"none", "print", "clear", "cursor", "putc"}
    /\ pc \in Between \cup {"get high", "get more", "get low", "got"}
                     \cup {"set", "set high", "set more", "set low"}
    /\ prints \in 0 .. PRINTS /\ ticks \in 0 .. TICKS

\* The invariant.
Typed == IInv /\ Painted(vidmem) /\ Registers /\ Offsets /\ InString /\ Counted

\* What the steps leave alone.
LEMMA Leaves ==
    ASSUME [Next]_vars
    PROVE  /\ \/ UNCHANGED vidmem \/ clear \/ printChar
              \/ \E ch \in TickCharacters : Tick(ch)
           /\ \/ UNCHANGED port \/ get_cursor \/ set_cursor \/ \E ch \in TickCharacters : Tick(ch)
           /\ \/ UNCHANGED <<pc, offset>> \/ get_cursor \/ set_cursor
              \/ (pc' \notin {"get more", "get low", "got"} /\ (UNCHANGED offset \/ offset' = 0))
              \/ printChar \/ cursor_add \/ \E m \in Moves : cursor_set(m[1], m[2])
  BY DEF Next, Command, vars, port, walk, count, putc, Tick, clear, cursor_set, cursor_get, print,
         get_cursor, set_cursor, Select, Read, Write, printChar, Continue, Done, cursor_add,
         cursor_tell, print_turn, print_returns, Called, Return, Aim

\* A character leaves a color in each cell.
LEMMA ScreenPainted ==
    ASSUME NEW m, Painted(m), NEW o, NEW ch, NEW c \in 0 .. 255
    PROVE  Painted(Screen(m, o, Shown(ch, c)))
  <1>1. DEFAULT_COLOR \in 0 .. 255
    BY DisplayAssumption
  <1>. DEFINE n == IF Full(o) THEN shiftUp(m) ELSE m
  <1>2. Painted(shiftUp(m))
    BY <1>1 DEF Painted, shiftUp, Blank, Shown
  <1>3. Painted(n)
    BY <1>2
  <1>4. \A x, g : g.color \in 0 .. 255 => Painted(setChar(n, x, g))
    <2>. HIDE DEF n
    <2>. QED  BY <1>3 DEF Painted, setChar
  <1>5. \A y : Shown(y, c).color = c /\ Shown(y, c).ch = y
    BY DEF Shown
  <1>6. Screen(m, o, Shown(ch, c)) \in {n, setChar(n, Base(o) - 1, Shown(" ", c)),
                                        setChar(n, Base(o), Shown(ch, c))}
    BY <1>5 DEF Screen
  <1>. HIDE DEF n
  <1>. QED  BY <1>3, <1>4, <1>5, <1>6

\* The cells keep a color each.
LEMMA PaintedKept == ASSUME Typed, [Next]_vars PROVE Painted(vidmem')
  <1>1. Painted(vidmem) /\ color \in 0 .. 255 /\ DEFAULT_COLOR \in 0 .. 255
    BY DisplayAssumption DEF Typed, InString
  <1>2. CASE clear
    BY <1>1, <1>2 DEF clear, Painted, Blank, Shown
  <1>3. CASE printChar
    BY <1>1, <1>3, ScreenPainted DEF printChar
  <1>4. ASSUME NEW ch \in TickCharacters, Tick(ch) PROVE Painted(vidmem')
    BY <1>1, <1>4, ScreenPainted DEF Tick
  <1>. QED  BY <1>1, <1>2, <1>3, <1>4, Leaves

\* High and low byte of any number are bytes.
LEMMA Bytes ==
    ASSUME NEW o \in Int
    PROVE  High(o) \in 0 .. (BYTE - 1) /\ Low(o) \in 0 .. (BYTE - 1)
  <1>1. BYTE \in Nat \ {0}
    BY Sizes
  <1>2. o \div BYTE \in Int
    BY <1>1
  <1>3. \A a \in Int : a % BYTE \in 0 .. (BYTE - 1)
    BY <1>1
  <1>. QED  BY <1>2, <1>3 DEF High, Low

\* Both registers say a position, and it leads to a number.
LEMMA Positioned ==
    ASSUME Registers
    PROVE  /\ Position \in 0 .. (BYTE * BYTE - 1)
           /\ \A r \in {"high", "low"} : reg[r] \in 0 .. (BYTE - 1)
  <1>1. BYTE \in Nat \ {0}
    BY Sizes
  <1>2. \A r \in {"high", "low"} : reg[r] \in 0 .. (BYTE - 1)
    BY DEF Registers
  <1>. DEFINE h == reg["high"]
              l == reg["low"]
  <1>3. h \in 0 .. (BYTE - 1) /\ l \in 0 .. (BYTE - 1)
    BY <1>2
  <1>. HIDE DEF h, l
  <1>4. h * BYTE \in Nat /\ h * BYTE <= (BYTE - 1) * BYTE
    BY <1>1, <1>3
  <1>5. (BYTE - 1) * BYTE = BYTE * BYTE - BYTE /\ BYTE * BYTE \in Nat
    BY <1>1
  <1>. DEFINE hb == h * BYTE
              bb == BYTE * BYTE
  <1>6. hb \in Nat /\ hb <= bb - BYTE /\ bb \in Nat
    BY <1>4, <1>5
  <1>. HIDE DEF hb, bb
  <1>7. hb + l \in 0 .. (bb - 1)
    <2>1. l \in Int /\ 0 <= l /\ l <= BYTE - 1
      BY <1>1, <1>3
    <2>2. hb + l \in Int /\ 0 <= hb + l /\ hb + l <= bb - 1
      BY <1>1, <1>6, <2>1
    <2>. QED  BY <1>6, <2>2
  <1>. QED  BY <1>2, <1>7 DEF Position, h, l, hb, bb

\* Where a character puts the cursor, wherever that has got to.
LEMMA OnwardBound ==
    ASSUME NEW o \in 0 .. (BYTE * BYTE - 1), NEW ch
    PROVE  Onward(o, ch) \in (1 - CELLS) .. (BYTE * BYTE)
  <1>1. /\ COLS \in Nat \ {0, 1} /\ CELLS \in Nat /\ COLS <= CELLS /\ BYTE \in Nat
        /\ CELLS < BYTE * BYTE /\ ROWS \in Nat
    BY Sizes
  <1>. DEFINE b == Base(o)
              q == (b \div COLS) * COLS
              top == BYTE * BYTE
  <1>2. o \in Nat /\ o < top /\ top \in Nat
    BY <1>1
  <1>. HIDE DEF top
  <1>3. /\ b \in Nat /\ b <= o
        /\ b < CELLS \/ b + COLS = o
    <2>. HIDE DEF CELLS
    <2>. QED  BY <1>1, <1>2 DEF Base, Full
  <1>. HIDE DEF b
  <1>4. q \in Nat /\ q <= b
    BY <1>1, <1>3, Division
  <1>5. b \div COLS \in Nat /\ (b \div COLS + 1) * COLS = q + COLS
    <2>1. b \div COLS \in Nat
      BY <1>1, <1>3, Division
    <2>. DEFINE d == b \div COLS
    <2>2. (d + 1) * COLS = d * COLS + COLS
      <3>. HIDE DEF d
      <3>. QED  BY <1>1, <2>1 DEF d
    <2>. QED  BY <2>1, <2>2
  <1>6. b < CELLS => q + COLS <= CELLS
    <2>. SUFFICES ASSUME b < CELLS PROVE q + COLS <= CELLS
      OBVIOUS
    <2>1. CELLS = ROWS * COLS
      BY DEF CELLS
    <2>2. (b \div COLS) + 1 <= ROWS
      BY <1>1, <1>3, <2>1, Smaller
    <2>3. (b \div COLS + 1) * COLS <= ROWS * COLS
      BY <1>1, <1>5, <2>2
    <2>. QED  BY <1>5, <2>1, <2>3
  <1>7. Onward(o, ch) \in {q + COLS, b - 1, b + 1}
    BY <1>5 DEF Onward, b
  <1>. HIDE DEF q, CELLS
  <1>8. q + COLS <= top /\ b + 1 <= top /\ 1 - CELLS <= b - 1
    BY <1>1, <1>2, <1>3, <1>4, <1>6 DEF top
  <1>. QED  BY <1>1, <1>2, <1>3, <1>4, <1>7, <1>8 DEF top

\* The registers keep a byte each.
LEMMA RegistersKept == ASSUME Typed, [Next]_vars PROVE Registers'
  <1>1. Registers /\ offset \in Int /\ Position \in 0 .. (BYTE * BYTE - 1)
    <2>1. Registers /\ Offsets
      BY DEF Typed
    <2>2. Position \in 0 .. (BYTE * BYTE - 1)
      BY <2>1, Positioned
    <2>3. \A a, b : \A n \in a .. b : n \in Int
      OBVIOUS
    <2>4. offset \in Int
      BY <2>1, <2>3 DEF Offsets
    <2>. QED  BY <2>1, <2>2, <2>4
  <1>2. CASE UNCHANGED port
    BY <1>1, <1>2 DEF port, Registers
  <1>3. CASE get_cursor
    BY <1>1, <1>3 DEF get_cursor, Select, Read, port, Registers
  <1>4. CASE set_cursor
    BY <1>1, <1>4, Bytes DEF set_cursor, Select, Write, Registers
  <1>5. ASSUME NEW ch \in TickCharacters, Tick(ch) PROVE Registers'
    <2>1. Onward(Position, ch) \in (1 - CELLS) .. (BYTE * BYTE)
      BY <1>1, OnwardBound
    <2>2. Onward(Position, ch) \in Int
      BY <2>1, Sizes
    <2>. QED  BY <1>5, <2>2, Bytes DEF Tick, Registers
  <1>. QED  BY <1>2, <1>3, <1>4, <1>5, Leaves

\* The place that cursor is sent to is less than a screen away from the first cell.
LEMMA PlaceBound ==
    ASSUME NEW x \in Int, NEW y \in Int
    PROVE  Place(x, y) \in (1 - CELLS) .. (CELLS - 1)
  <1>1. ROWS \in Nat \ {0} /\ COLS \in Nat \ {0} /\ CELLS = ROWS * COLS /\ CELLS \in Nat
    BY Sizes DEF CELLS
  <1>2. \A a \in Int, b \in Nat \ {0} : Rem(a, b) \in (1 - b) .. (b - 1)
    BY DEF Rem
  <1>. DEFINE r == Rem(y, ROWS)
              c == Rem(x, COLS)
  <1>3. r \in (1 - ROWS) .. (ROWS - 1) /\ c \in (1 - COLS) .. (COLS - 1)
    BY <1>1, <1>2
  <1>. HIDE DEF r, c, CELLS
  <1>4. r * COLS \in Int /\ (1 - ROWS) * COLS <= r * COLS /\ r * COLS <= (ROWS - 1) * COLS
    BY <1>1, <1>3
  <1>5. (1 - ROWS) * COLS = COLS - CELLS /\ (ROWS - 1) * COLS = CELLS - COLS
    BY <1>1
  <1>. DEFINE rc == r * COLS
  <1>6. rc \in Int /\ COLS - CELLS <= rc /\ rc <= CELLS - COLS
    BY <1>4, <1>5
  <1>. HIDE DEF rc
  <1>7. rc + c \in (1 - CELLS) .. (CELLS - 1)
    BY <1>1, <1>3, <1>6
  <1>. QED  BY <1>7 DEF Place, r, c, rc

\* The offset stays less than a screen in front of the first cell, and within what
\* two registers say.
LEMMA OffsetsKept == ASSUME Typed, [Next]_vars PROVE Offsets'
  <1>. DEFINE top == BYTE * BYTE
              most == (BYTE - 1) * BYTE
  <1>1. Registers /\ Offsets
    BY DEF Typed
  <1>2. BYTE \in Nat \ {0} /\ CELLS \in Nat /\ CELLS < top /\ CELLS # 0
    BY Sizes
  <1>3. most \in Nat /\ most = top - BYTE /\ top \in Nat
    BY <1>2
  <1>4. CASE get_cursor
    <2>1. \A r \in {"high", "low"} : reg[r] \in 0 .. (BYTE - 1)
      BY <1>1, Positioned
    <2>2. select \in {"high", "low"}
      BY <1>1 DEF Registers
    <2>. DEFINE v == reg[select]
    <2>3. v \in 0 .. (BYTE - 1)
      BY <2>1, <2>2
    <2>. HIDE DEF v
    <2>4. v * BYTE \in Nat /\ v * BYTE <= most
      BY <1>2, <2>3
    <2>5. CASE Select("get", "high", "get high")
      BY <1>1, <2>5 DEF Select, Offsets
    <2>6. CASE Read("get high", v * BYTE, "get more")
      <3>1. pc' = "get more" /\ offset' = v * BYTE
        BY <2>6 DEF Read
      <3>. DEFINE w == v * BYTE
      <3>. HIDE DEF w, most, top
      <3>2. w \in (1 - CELLS) .. top /\ w \in 0 .. most
        BY <1>2, <1>3, <2>4 DEF w
      <3>. QED  BY <3>1, <3>2 DEF Offsets, w, most, top
    <2>7. CASE Select("get more", "low", "get low")
      BY <1>1, <2>7 DEF Select, Offsets
    <2>8. CASE Read("get low", offset + v, "got")
      <3>1. pc = "get low" /\ pc' = "got" /\ offset' = offset + v
        BY <2>8 DEF Read
      <3>2. offset \in 0 .. most
        BY <1>1, <3>1 DEF Offsets
      <3>. HIDE DEF most, top
      <3>3. offset + v \in (1 - CELLS) .. top /\ offset + v \in 0 .. (top - 1)
        BY <1>2, <1>3, <2>3, <3>2
      <3>. QED  BY <3>1, <3>3 DEF Offsets, most, top
    <2>. QED  BY <1>4, <2>5, <2>6, <2>7, <2>8 DEF get_cursor, v
  <1>5. CASE set_cursor
    BY <1>1, <1>5 DEF set_cursor, Select, Write, Offsets
  <1>6. CASE pc' \notin {"get more", "get low", "got"} /\ (UNCHANGED offset \/ offset' = 0)
    <2>. HIDE DEF top
    <2>1. 0 \in (1 - CELLS) .. top
      BY <1>2, <1>3
    <2>. QED  BY <1>1, <1>6, <2>1 DEF Offsets, top
  <1>7. CASE printChar
    <2>1. pc = "got" /\ pc' = "set" /\ \E ch : offset' = Onward(offset, ch)
      BY <1>7 DEF printChar
    <2>2. offset \in 0 .. (BYTE * BYTE - 1)
      BY <1>1, <2>1 DEF Offsets
    <2>3. offset' \in (1 - CELLS) .. (BYTE * BYTE)
      BY <2>1, <2>2, OnwardBound
    <2>. QED  BY <2>1, <2>3 DEF Offsets
  <1>8. ASSUME NEW x \in Int, NEW y \in Int, offset' = Place(x, y), pc' = "set" PROVE Offsets'
    <2>1. offset' \in (1 - CELLS) .. (CELLS - 1)
      BY <1>8, PlaceBound
    <2>. HIDE DEF top
    <2>2. offset' \in (1 - CELLS) .. top
      BY <1>2, <1>3, <2>1
    <2>. QED  BY <1>8, <2>2 DEF Offsets, top
  <1>9. CASE cursor_add
    <2>1. /\ pc = "got" /\ cmd = "cursor" /\ call # <<>> /\ pc' = "set"
          /\ offset' = Place((offset % COLS) + call[1], (offset \div COLS) + call[2])
      BY <1>9 DEF cursor_add, Aim
    <2>2. call \in Int \X Int
      BY <2>1 DEF Typed, IInv
    <2>3. offset \in 0 .. (top - 1)
      BY <1>1, <2>1 DEF Offsets
    <2>. HIDE DEF top
    <2>4. offset \in Nat /\ COLS \in Nat \ {0}
      BY <1>3, <2>3, Sizes
    <2>5. (offset % COLS) + call[1] \in Int /\ (offset \div COLS) + call[2] \in Int
      BY <2>2, <2>4, Division
    <2>. QED  BY <1>8, <2>1, <2>5
  <1>10. ASSUME NEW m \in Moves, cursor_set(m[1], m[2]) PROVE Offsets'
    <2>1. m[1] \in Int /\ m[2] \in Int
      BY DisplayAssumption
    <2>. QED  BY <1>8, <1>10, <2>1 DEF cursor_set, Aim
  <1>11. CASE UNCHANGED <<pc, offset>>
    BY <1>1, <1>11 DEF Offsets
  <1>. QED  BY <1>4, <1>5, <1>6, <1>7, <1>9, <1>10, <1>11, Leaves

\* Directives that are further on are more, and all of them are in the string.
LEMMA DirectivesCounted ==
    ASSUME NEW s, Len(s) \in Nat, NEW a \in Nat, NEW b \in Nat, a <= b
    PROVE  /\ Cardinality(DirectivesIn(s, a)) \in Nat
           /\ Cardinality(DirectivesIn(s, a)) <= Cardinality(DirectivesIn(s, b))
           /\ Cardinality(DirectivesIn(s, a)) <= Cardinality(DirectivesIn(s, Len(s)))
           /\ a \in DirectivesIn(s, b) =>
                 Cardinality(DirectivesIn(s, a)) + 1 <= Cardinality(DirectivesIn(s, b))
  <1>. DEFINE D(e) == DirectivesIn(s, e)
  <1>1. \A e : IsFiniteSet(D(e)) /\ Cardinality(D(e)) \in Nat
    <2>. SUFFICES ASSUME NEW e PROVE IsFiniteSet(D(e)) /\ Cardinality(D(e)) \in Nat
      OBVIOUS
    <2>1. D(e) \subseteq 1 .. (Len(s) - 1)
      BY DEF DirectivesIn
    <2>2. IsFiniteSet(1 .. (Len(s) - 1))
      BY FS_Interval
    <2>3. IsFiniteSet(D(e))
      BY <2>1, <2>2, FS_Subset
    <2>. QED  BY <2>3, FS_CardinalityType
  <1>2. D(a) \subseteq D(b)
    BY DEF DirectivesIn
  <1>3. D(a) \subseteq D(Len(s))
    BY DEF DirectivesIn
  <1>4. Cardinality(D(a)) <= Cardinality(D(b)) /\ Cardinality(D(a)) <= Cardinality(D(Len(s)))
    BY <1>1, <1>2, <1>3, FS_Subset
  <1>5. ASSUME a \in D(b) PROVE Cardinality(D(a)) + 1 <= Cardinality(D(b))
    <2>1. a \notin D(a)
      BY DEF DirectivesIn
    <2>2. D(a) \cup {a} \subseteq D(b)
      BY <1>2, <1>5
    <2>3. Cardinality(D(a) \cup {a}) = Cardinality(D(a)) + 1
      BY <1>1, <2>1, FS_AddElement
    <2>4. Cardinality(D(a) \cup {a}) <= Cardinality(D(b))
      BY <1>1, <2>2, FS_Subset
    <2>. QED  BY <2>3, <2>4
  <1>. HIDE DEF D
  <1>. QED  BY <1>1, <1>4, <1>5 DEF D

\* What the steps do to the variables of print.
LEMMA WalkLeaves ==
    ASSUME [Next]_vars
    PROVE  \/ print_turn
           \/ \E f \in Formats : print(f)
           \/ Return
           \/ /\ pc = "idle" /\ cmd' \in {"clear", "cursor", "putc"} /\ pc' \in {"get", "set"}
              /\ UNCHANGED <<index, argsIndex, color>>
           \/ /\ UNCHANGED <<cmd, walk>>
              /\ \/ pc' = pc
                 \/ pc' \notin {"idle", "walk"}
                 \/ pc' = "walk" /\ cmd = "print"
  <1>. DEFINE Calls == /\ pc = "idle" /\ cmd' \in {"clear", "cursor", "putc"} /\ pc' \in {"get", "set"}
                       /\ UNCHANGED <<index, argsIndex, color>>
              Goes  == /\ UNCHANGED <<cmd, walk>>
                       /\ \/ pc' = pc
                          \/ pc' \notin {"idle", "walk"}
                          \/ pc' = "walk" /\ cmd = "print"
  <1>1. CASE \E ch \in Characters : putc(ch)
    BY <1>1 DEF putc, Called, walk
  <1>2. CASE \E ch \in TickCharacters : Tick(ch)
    BY <1>2 DEF Tick
  <1>3. CASE clear
    BY <1>3 DEF clear, Called, walk
  <1>4. CASE \E m \in Moves : cursor_set(m[1], m[2]) \/ cursor_get(m)
    BY <1>4 DEF cursor_set, cursor_get, Called, Aim, walk
  <1>5. CASE cursor_get(<<>>)
    BY <1>5 DEF cursor_get, Called
  <1>6. CASE get_cursor \/ set_cursor
    <2>1. /\ UNCHANGED <<cmd, walk>>
          /\ pc' \in {"get high", "get more", "get low", "got", "set high", "set more", "set low", "next"}
      BY <1>6 DEF get_cursor, set_cursor, Select, Read, Write
    <2>. QED  BY <2>1
  <1>7. CASE printChar \/ Continue \/ cursor_add
    BY <1>7 DEF printChar, Continue, cursor_add, Aim
  <1>8. CASE Done \/ cursor_tell \/ print_returns
    BY <1>8 DEF Done, cursor_tell, print_returns
  <1>9. CASE UNCHANGED vars
    BY <1>9 DEF vars
  <1>. HIDE DEF Calls, Goes
  <1>. QED  BY <1>1, <1>2, <1>3, <1>4, <1>5, <1>6, <1>7, <1>8, <1>9 DEF Next, Command, Calls, Goes

\* What %# says is a color, and it goes no further than the string.
LEMMA ColorsBound ==
    ASSUME Typed, pc = "walk", Ch(0) = "%", Ch(1) = "#"
    PROVE  /\ Colors[1] \in 0 .. 255
           /\ Colors[2] \in {2, 3, 4}
           /\ index + Colors[2] <= Len(call.str) + 1
  <1>1. /\ DEFAULT_COLOR \in 0 .. 255 /\ color \in 0 .. 255
        /\ call \in Formats /\ index \in Nat /\ Len(call.str) \in Nat
    BY DisplayAssumption DEF Typed, InString
  <1>2. \A d \in DOMAIN Hex : Hex[d] \in 0 .. 15 /\ d # "end"
    BY DisplayAssumption
  <1>3. \A k \in Nat : Ch(k) # "end" => index + k <= Len(call.str)
    BY DEF Ch
  <1>. DEFINE len == Len(call.str)
  <1>. HIDE DEF len
  <1>4. index + 1 <= len
    BY <1>3 DEF len
  <1>5. CASE Ch(2) = "$"
    <2>1. Digits = 0
      BY <1>5, DisplayAssumption DEF Digits
    <2>2. Colors = <<DEFAULT_COLOR, 2>>
      BY <1>5, <2>1 DEF Colors
    <2>. QED  BY <1>1, <1>4, <2>2 DEF len
  <1>6. CASE Ch(2) # "$" /\ Digits = 2
    <2>1. Colors = <<(16 * Hex[Ch(3)]) + Hex[Ch(2)], 4>>
      BY <1>6 DEF Colors
    <2>2. Ch(2) \in DOMAIN Hex /\ Ch(3) \in DOMAIN Hex
      BY <1>6 DEF Digits
    <2>3. Hex[Ch(2)] \in 0 .. 15 /\ Hex[Ch(3)] \in 0 .. 15 /\ index + 3 <= len
      BY <1>2, <1>3, <2>2 DEF len
    <2>. DEFINE p == Hex[Ch(2)]
                q == Hex[Ch(3)]
    <2>. HIDE DEF p, q
    <2>4. p \in 0 .. 15 /\ q \in 0 .. 15
      BY <2>3 DEF p, q
    <2>5. (16 * q) + p \in 0 .. 255
      BY <2>4
    <2>6. Colors[1] = (16 * q) + p /\ Colors[2] = 4
      BY <2>1 DEF p, q
    <2>. QED  BY <1>1, <2>3, <2>5, <2>6 DEF len
  <1>7. CASE Ch(2) # "$" /\ Digits = 1
    <2>1. Colors = <<(16 * (DEFAULT_COLOR \div 16)) + Hex[Ch(2)], 3>>
      BY <1>7 DEF Colors
    <2>2. Ch(2) \in DOMAIN Hex
      BY <1>7 DEF Digits
    <2>3. Hex[Ch(2)] \in 0 .. 15 /\ index + 2 <= len
      BY <1>2, <1>3, <2>2 DEF len
    <2>. DEFINE p == Hex[Ch(2)]
                q == DEFAULT_COLOR \div 16
    <2>4. q \in 0 .. 15
      BY <1>1
    <2>. HIDE DEF p, q
    <2>5. (16 * q) + p \in 0 .. 255
      BY <2>3, <2>4 DEF p
    <2>6. Colors[1] = (16 * q) + p /\ Colors[2] = 3
      BY <2>1 DEF p, q
    <2>. QED  BY <1>1, <2>3, <2>5, <2>6 DEF len
  <1>8. CASE Ch(2) # "$" /\ Digits \notin {1, 2}
    <2>1. Colors = <<color, 2>>
      BY <1>8 DEF Colors
    <2>. QED  BY <1>1, <1>4, <2>1 DEF len
  <1>. QED  BY <1>5, <1>6, <1>7, <1>8

\* A turn of the loop stays in the string, and takes an argument at a directive only.
LEMMA TurnKeeps == ASSUME Typed, print_turn PROVE InString'
  <1>1. /\ pc = "walk" /\ pc' \in {"walk", "get"} /\ UNCHANGED <<cmd, call>> /\ Ch(0) # "end"
        /\ cmd = "print"
    BY DEF print_turn, Typed, InString
  <1>2. /\ color \in 0 .. 255 /\ call \in Formats /\ index \in 1 .. (Len(call.str) + 1)
        /\ argsIndex \in Nat \ {0} /\ argsIndex <= Cardinality(DirectivesIn(call.str, index)) + 1
    BY <1>1 DEF Typed, InString
  <1>. DEFINE len == Len(call.str)
              D(e) == Cardinality(DirectivesIn(call.str, e))
  <1>3. len \in Nat
    BY <1>2, DisplayAssumption
  <1>4. \A k \in Nat : Ch(k) # "end" => index + k <= len /\ Ch(k) = call.str[index + k]
    BY DEF Ch
  <1>5. index \in Nat \ {0} /\ index <= len
    <2>1. index + 0 <= len
      BY <1>1, <1>4
    <2>. QED  BY <1>2, <1>3, <2>1
  <1>6. \A b \in Nat : index <= b =>
            /\ D(index) \in Nat /\ D(b) \in Nat /\ D(index) <= D(b)
            /\ index \in DirectivesIn(call.str, b) => D(index) + 1 <= D(b)
    BY <1>3, <1>5, DirectivesCounted
  <1>7. ASSUME index' \in (index + 1) .. (len + 1), color' \in 0 .. 255,
               \/ argsIndex' = argsIndex
               \/ argsIndex' = argsIndex + 1 /\ index \in DirectivesIn(call.str, index')
        PROVE  InString'
    <2>. DEFINE before == D(index)
                after  == D(index')
    <2>1. index' \in Nat /\ index <= index' /\ index' \in 1 .. (len + 1)
      BY <1>3, <1>5, <1>7
    <2>2. /\ before \in Nat /\ after \in Nat /\ before <= after
          /\ index \in DirectivesIn(call.str, index') => before + 1 <= after
      BY <1>6, <2>1
    <2>3. argsIndex \in Nat \ {0} /\ argsIndex <= before + 1
      BY <1>2
    <2>. HIDE DEF before, after
    <2>4. argsIndex' \in Nat \ {0} /\ argsIndex' <= after + 1
      BY <1>7, <2>2, <2>3
    <2>5. argsIndex' <= Cardinality(DirectivesIn(call.str, index')) + 1
      BY <2>4 DEF after
    <2>. QED  BY <1>1, <1>2, <1>7, <2>1, <2>4, <2>5 DEF InString
  <1>8. index + 1 \in (index + 1) .. (len + 1)
    BY <1>3, <1>5
  <1>9. Ch(1) # "end" => index + 2 \in (index + 1) .. (len + 1)
    BY <1>3, <1>4, <1>5
  <1>10. argsIndex + 0 = argsIndex
    BY <1>2
  <1>11. CASE Ch(0) # "%" /\ Turn(<<Ch(0)>>, 1, 0, color)
    <2>1. index' = index + 1 /\ argsIndex' = argsIndex /\ color' = color
      BY <1>10, <1>11 DEF Turn
    <2>. QED  BY <1>2, <1>7, <1>8, <2>1
  <1>12. CASE /\ Ch(0) = "%" /\ Ch(1) \in Directives
              /\ Turn(Text(Ch(1), call.args[argsIndex]), 2, 1, color)
    <2>1. Ch(1) # "end"
      BY <1>12 DEF Directives
    <2>2. index + 1 <= len /\ Ch(1) = call.str[index + 1] /\ Ch(0) = call.str[index]
      <3>1. Ch(0) = call.str[index + 0] /\ index + 0 = index
        BY <1>1, <1>4, <1>5
      <3>. QED  BY <1>4, <2>1, <3>1
    <2>3. index \in 1 .. (len - 1) /\ index < index + 2
      BY <1>3, <1>5, <2>2
    <2>4. index \in DirectivesIn(call.str, index + 2)
      BY <1>12, <2>2, <2>3 DEF DirectivesIn
    <2>5. index' = index + 2 /\ argsIndex' = argsIndex + 1 /\ color' = color
      BY <1>12 DEF Turn
    <2>. QED  BY <1>2, <1>7, <1>9, <2>1, <2>4, <2>5
  <1>13. CASE Ch(0) = "%" /\ Ch(1) = "#" /\ Turn(<<>>, Colors[2], 0, Colors[1])
    <2>1. /\ Colors[1] \in 0 .. 255 /\ Colors[2] \in {2, 3, 4}
          /\ index + Colors[2] <= len + 1
      BY <1>1, <1>13, ColorsBound
    <2>2. index' = index + Colors[2] /\ argsIndex' = argsIndex /\ color' = Colors[1]
      BY <1>10, <1>13 DEF Turn
    <2>3. index + Colors[2] \in (index + 1) .. (len + 1)
      BY <1>3, <1>5, <2>1
    <2>. QED  BY <1>7, <2>1, <2>2, <2>3
  <1>14. CASE Ch(0) = "%" /\ Ch(1) = "%" /\ Turn(<<"%">>, 2, 0, color)
    <2>1. Ch(1) # "end"
      BY <1>14
    <2>2. index' = index + 2 /\ argsIndex' = argsIndex /\ color' = color
      BY <1>10, <1>14 DEF Turn
    <2>. QED  BY <1>2, <1>7, <1>9, <2>1, <2>2
  <1>15. CASE Ch(0) = "%" /\ Ch(1) \notin Directives \cup {"#", "%"} /\ Unknown
    <2>1. index' = index + 1 /\ argsIndex' = argsIndex /\ color' = color
      BY <1>10, <1>15 DEF Unknown, Turn
    <2>. QED  BY <1>2, <1>7, <1>8, <2>1
  <1>. QED  BY <1>11, <1>12, <1>13, <1>14, <1>15 DEF print_turn

\* print stays in its string.
LEMMA InStringKept == ASSUME Typed, [Next]_vars PROVE InString'
  <1>1. InString /\ DEFAULT_COLOR \in 0 .. 255
    BY DisplayAssumption DEF Typed
  <1>2. ASSUME NEW f \in Formats, print(f) PROVE InString'
    <2>1. /\ pc = "idle" /\ cmd' = "print" /\ call' = f /\ pc' = "walk"
          /\ UNCHANGED <<index, argsIndex, color>>
      BY <1>2 DEF print, Called
    <2>2. index = 1 /\ argsIndex = 1 /\ color \in 0 .. 255
      BY <1>1, <2>1 DEF InString
    <2>3. Len(f.str) \in Nat
      BY DisplayAssumption
    <2>4. Cardinality(DirectivesIn(f.str, 1)) \in Nat
      BY <2>3, DirectivesCounted
    <2>5. 1 \in 1 .. (Len(f.str) + 1) /\ 1 \in Nat \ {0} /\ 1 <= Cardinality(DirectivesIn(f.str, 1)) + 1
      BY <2>3, <2>4
    <2>. QED  BY <2>1, <2>2, <2>5 DEF InString
  <1>3. CASE Return
    BY <1>1, <1>3 DEF InString, Return
  <1>4. CASE /\ pc = "idle" /\ cmd' \in {"clear", "cursor", "putc"} /\ pc' \in {"get", "set"}
             /\ UNCHANGED <<index, argsIndex, color>>
    BY <1>1, <1>4 DEF InString
  <1>5. CASE /\ UNCHANGED <<cmd, walk>>
             /\ \/ pc' = pc
                \/ pc' \notin {"idle", "walk"}
                \/ pc' = "walk" /\ cmd = "print"
    BY <1>1, <1>5 DEF InString, walk
  <1>. QED  BY <1>2, <1>3, <1>4, <1>5, WalkLeaves, TurnKeeps

\* No step makes a command of another kind, or more calls and ticks than the bounds.
LEMMA CountedKept == ASSUME Typed, [Next]_vars PROVE Counted'
  <1>1. Counted /\ PRINTS \in Nat /\ TICKS \in Nat
    BY DisplayAssumption DEF Typed
  <1>2. \/ UNCHANGED cmd
        \/ cmd' \in {"none", "print", "clear", "cursor", "putc"}
    BY DEF Next, Command, vars, port, walk, count, putc, Tick, clear, cursor_set, cursor_get, print,
           get_cursor, set_cursor, Select, Read, Write, printChar, Continue, Done, cursor_add,
           cursor_tell, print_turn, print_returns, Called, Return, Aim
  <1>3. \/ UNCHANGED pc
        \/ pc' \in {"idle", "walk", "get", "next", "get high", "get more", "get low", "got",
                    "set", "set high", "set more", "set low"}
    BY DEF Next, Command, vars, port, walk, count, putc, Tick, clear, cursor_set, cursor_get, print,
           get_cursor, set_cursor, Select, Read, Write, printChar, Continue, Done, cursor_add,
           cursor_tell, print_turn, print_returns, Called, Return, Aim
  <1>4. /\ UNCHANGED prints \/ (prints < PRINTS /\ prints' = prints + 1)
        /\ UNCHANGED ticks \/ (ticks < TICKS /\ ticks' = ticks + 1)
    BY DEF Next, Command, vars, port, walk, count, putc, Tick, clear, cursor_set, cursor_get, print,
           get_cursor, set_cursor, Select, Read, Write, printChar, Continue, Done, cursor_add,
           cursor_tell, print_turn, print_returns, Called, Return, Aim
  <1>5. cmd' \in {"none", "print", "clear", "cursor", "putc"}
    BY <1>1, <1>2 DEF Counted
  <1>6. pc' \in Between \cup {"get high", "get more", "get low", "got"}
                        \cup {"set", "set high", "set more", "set low"}
    BY <1>1, <1>3 DEF Counted, Between
  <1>7. prints' \in 0 .. PRINTS /\ ticks' \in 0 .. TICKS
    <2>1. prints \in 0 .. PRINTS /\ ticks \in 0 .. TICKS
      BY <1>1 DEF Counted
    <2>. QED  BY <1>1, <1>4, <2>1
  <1>. QED  BY <1>5, <1>6, <1>7 DEF Counted

\* The invariant at the start.
LEMMA TypedInitially == Init => Typed
  <1>. SUFFICES ASSUME Init PROVE Typed
    OBVIOUS
  <1>1. DEFAULT_COLOR \in 0 .. 255 /\ PRINTS \in Nat /\ TICKS \in Nat
    BY DisplayAssumption
  <1>2. Painted(vidmem)
    BY <1>1 DEF Init, Painted, Blank, Shown
  <1>3. Registers
    <2>1. PICK o \in Cell : reg = [high |-> High(o), low |-> Low(o)]
      BY DEF Init
    <2>2. o \in Int
      BY <2>1, Sizes DEF Cell
    <2>. QED  BY <2>1, <2>2, Bytes DEF Init, Registers
  <1>4. Offsets
    <2>1. CELLS \in Nat \ {0} /\ BYTE * BYTE \in Nat
      BY Sizes
    <2>. QED  BY <2>1 DEF Init, Offsets
  <1>5. InString /\ Counted
    BY <1>1 DEF Init, InString, Counted, Between
  <1>. QED  BY <1>2, <1>3, <1>4, <1>5, Initially DEF Typed

\* Each step keeps it.
LEMMA TypedInductive == Typed /\ [Next]_vars => Typed'
  <1>. SUFFICES ASSUME Typed, [Next]_vars PROVE Typed'
    OBVIOUS
  <1>1. IInv'
    BY StepRefines DEF Typed
  <1>2. Painted(vidmem)' /\ Registers' /\ Offsets' /\ InString' /\ Counted'
    BY PaintedKept, RegistersKept, OffsetsKept, InStringKept, CountedKept DEF Painted
  <1>. QED  BY <1>1, <1>2 DEF Typed

\* What the variables hold follows, if the calls have an argument for each directive.
LEMMA TypesFollow == ASSUME ArgumentsSuffice, Typed PROVE TypeOK
  <1>1. cmd = "print" => argsIndex \in 1 .. (Len(call.args) + 1)
    <2>. SUFFICES ASSUME cmd = "print" PROVE argsIndex \in 1 .. (Len(call.args) + 1)
      OBVIOUS
    <2>1. /\ call \in Formats /\ index \in 1 .. (Len(call.str) + 1) /\ argsIndex \in Nat \ {0}
          /\ argsIndex <= Cardinality(DirectivesIn(call.str, index)) + 1
      BY DEF Typed, InString
    <2>2. Len(call.str) \in Nat /\ Len(call.args) \in Nat
      BY <2>1, DisplayAssumption
    <2>3. Cardinality(DirectivesIn(call.str, Len(call.str))) <= Len(call.args)
      BY <2>1 DEF ArgumentsSuffice
    <2>4. index \in Nat
      BY <2>1, <2>2
    <2>. DEFINE taken == Cardinality(DirectivesIn(call.str, index))
                all == Cardinality(DirectivesIn(call.str, Len(call.str)))
    <2>5. taken \in Nat /\ taken <= all
      <3>1. index <= index
        BY <2>4
      <3>. QED  BY <2>2, <2>4, <3>1, DirectivesCounted
    <2>6. all \in Nat
      <3>1. Len(call.str) <= Len(call.str)
        BY <2>2
      <3>. QED  BY <2>2, <3>1, DirectivesCounted
    <2>7. argsIndex <= taken + 1 /\ all <= Len(call.args)
      BY <2>1, <2>3
    <2>. HIDE DEF taken, all
    <2>. QED  BY <2>1, <2>2, <2>5, <2>6, <2>7
  <1>2. (1 - CELLS) .. (BYTE * BYTE) = (1 - ROWS * COLS) .. (BYTE * BYTE)
    BY DEF CELLS
  <1>. QED  BY <1>1, <1>2 DEF Typed, IInv, TypeOK, Painted, Registers, Offsets, InString, Counted

\* The variables keep their types, for strings of any length: print reads no
\* character behind the end of its string and no argument it has not been given,
\* whatever stands behind a %, each register and each color keeps to a byte, and
\* what get_cursor has read is a position.
THEOREM DisplayStaysTyped == ASSUME ArgumentsSuffice PROVE Spec => []TypeOK
  <1>1. Typed => TypeOK
    BY TypesFollow
  <1>. QED  BY <1>1, TypedInitially, TypedInductive, PTL DEF Spec

-----------------------------------------------------------------------------
(* Reading a string.                                                        *)

\* A string, and what it has at a place, as Ch has it.
IsString(str) == str \in Seq(STRING) /\ \A k \in 1 .. Len(str) : str[k] # "end"
At(str, k) == IF k <= Len(str) THEN str[k] ELSE "end"

\* A place in it.
Within(str, k) == k \in 1 .. Len(str)

\* A spelling is a % and what stands behind it.
Spells(t) ==
    /\ t[1] = "%"
    /\ \/ Len(t) = 2 /\ t = <<"%", t[2]>> /\ t[2] \in Directives \cup {"%", "#"}
       \/ Len(t) = 3 /\ t = <<"%", "#", t[3]>> /\ t[3] \in DOMAIN Hex \cup {"$"}
       \/ Len(t) = 4 /\ t = <<"%", "#", t[3], t[4]>> /\ t[3] \in DOMAIN Hex /\ t[4] \in DOMAIN Hex

\* Each is spelled like that, and all that are.
LEMMA SpellingsAre ==
    /\ \A t \in Spellings : Spells(t)
    /\ \A d \in Directives \cup {"%", "#"} : <<"%", d>> \in Spellings
    /\ \A a \in DOMAIN Hex \cup {"$"} : <<"%", "#", a>> \in Spellings
    /\ \A a, b \in DOMAIN Hex : <<"%", "#", a, b>> \in Spellings
  <1>1. \A t \in Spellings : Spells(t)
    <2>. SUFFICES ASSUME NEW t \in Spellings PROVE Spells(t)
      OBVIOUS
    <2>1. CASE t = <<"%", "%">> \/ t = <<"%", "#">> \/ t = <<"%", "#", "$">>
      BY <2>1 DEF Spells
    <2>2. CASE t \in {<<"%", d>> : d \in Directives}
      BY <2>2 DEF Spells
    <2>3. CASE t \in {<<"%", "#", a>> : a \in DOMAIN Hex}
      BY <2>3 DEF Spells
    <2>4. CASE t \in {<<"%", "#", a, b>> : a, b \in DOMAIN Hex}
      BY <2>4 DEF Spells
    <2>. QED  BY <2>1, <2>2, <2>3, <2>4 DEF Spellings
  <1>2. \A d \in Directives \cup {"%", "#"} : <<"%", d>> \in Spellings
    BY DEF Spellings
  <1>3. \A a \in DOMAIN Hex \cup {"$"} : <<"%", "#", a>> \in Spellings
    BY DEF Spellings
  <1>4. \A a, b \in DOMAIN Hex : <<"%", "#", a, b>> \in Spellings
    BY DEF Spellings
  <1>. QED  BY <1>1, <1>2, <1>3, <1>4

\* It is at a place of a string if its characters are.
LEMMA SpelledThere ==
    ASSUME NEW str, IsString(str), NEW k \in 1 .. Len(str), NEW t \in Spellings
    PROVE  t \in SpelledAt(str, k) <=> \A i \in 1 .. Len(t) : At(str, k + i - 1) = t[i]
  <1>. DEFINE W == STRING \cup DOMAIN Hex \cup Directives \cup {"%", "#", "$"}
              n == Len(t)
              u == SubSeq(str, k, k + n - 1)
  <1>1. /\ t \in Seq(W) /\ n \in {2, 3, 4}
        /\ \A i \in 1 .. n : t[i] # "end"
    <2>1. "end" \notin DOMAIN Hex /\ "end" \notin Directives
      BY DisplayAssumption DEF Directives
    <2>2. Spells(t)
      BY SpellingsAre
    <2>3. "%" \in W /\ "#" \in W /\ "$" \in W /\ Directives \subseteq W /\ DOMAIN Hex \subseteq W
      OBVIOUS
    <2>. HIDE DEF W
    <2>4. CASE Len(t) = 2 /\ t = <<"%", t[2]>> /\ t[2] \in Directives \cup {"%", "#"}
      <3>1. t[2] \in W /\ t[2] # "end"
        BY <2>1, <2>3, <2>4
      <3>. DEFINE x == t[2]
      <3>2. t = <<"%", x>>
        BY <2>4
      <3>. HIDE DEF x
      <3>3. /\ <<"%", x>> \in Seq(W) /\ Len(<<"%", x>>) = 2
            /\ \A i \in 1 .. 2 : <<"%", x>>[i] # "end"
        BY <2>3, <3>1 DEF x
      <3>. QED  BY <3>2, <3>3
    <2>5. CASE Len(t) = 3 /\ t = <<"%", "#", t[3]>> /\ t[3] \in DOMAIN Hex \cup {"$"}
      <3>1. t[3] \in W /\ t[3] # "end"
        BY <2>1, <2>3, <2>5
      <3>. DEFINE x == t[3]
      <3>2. t = <<"%", "#", x>>
        BY <2>5
      <3>. HIDE DEF x
      <3>3. /\ <<"%", "#", x>> \in Seq(W) /\ Len(<<"%", "#", x>>) = 3
            /\ \A i \in 1 .. 3 : <<"%", "#", x>>[i] # "end"
        BY <2>3, <3>1 DEF x
      <3>. QED  BY <3>2, <3>3
    <2>6. CASE Len(t) = 4 /\ t = <<"%", "#", t[3], t[4]>> /\ t[3] \in DOMAIN Hex /\ t[4] \in DOMAIN Hex
      <3>1. t[3] \in W /\ t[3] # "end" /\ t[4] \in W /\ t[4] # "end"
        BY <2>1, <2>3, <2>6
      <3>. DEFINE x == t[3]
                  y == t[4]
      <3>2. t = <<"%", "#", x, y>>
        BY <2>6
      <3>. HIDE DEF x, y
      <3>3. /\ <<"%", "#", x, y>> \in Seq(W) /\ Len(<<"%", "#", x, y>>) = 4
            /\ \A i \in 1 .. 4 : <<"%", "#", x, y>>[i] # "end"
        BY <2>3, <3>1 DEF x, y
      <3>. QED  BY <3>2, <3>3
    <2>. QED  BY <2>2, <2>4, <2>5, <2>6 DEF Spells
  <1>2. str \in Seq(W) /\ Len(str) \in Nat /\ k \in Nat
    BY DEF IsString
  <1>. HIDE DEF W, n
  <1>3. ASSUME k + n - 1 <= Len(str)
        PROVE  /\ u \in Seq(W) /\ Len(u) = n
               /\ \A i \in 1 .. n : u[i] = At(str, k + i - 1)
    <2>1. k + n - 1 \in Int
      BY <1>1, <1>2
    <2>2. \A i \in k .. (k + n - 1) : i \in 1 .. Len(str)
      BY <1>1, <1>2, <1>3
    <2>3. /\ u \in Seq(W)
          /\ Len(u) = IF k <= k + n - 1 THEN (k + n - 1) - k + 1 ELSE 0
          /\ \A i \in 1 .. ((k + n - 1) - k + 1) : u[i] = str[k + i - 1]
      <3>. HIDE DEF u
      <3>. QED  BY <1>2, <2>1, <2>2, SubSeqProperties DEF u
    <2>4. Len(u) = n /\ (k + n - 1) - k + 1 = n
      BY <1>1, <1>2, <2>3
    <2>5. \A i \in 1 .. n : k + i - 1 <= Len(str)
      BY <1>1, <1>2, <1>3
    <2>. QED  BY <2>3, <2>4, <2>5 DEF At
  <1>4. ASSUME \A i \in 1 .. n : At(str, k + i - 1) = t[i] PROVE k + n - 1 <= Len(str)
    <2>1. n \in 1 .. n
      BY <1>1
    <2>. QED  BY <1>1, <1>4, <2>1 DEF At
  <1>5. t \in SpelledAt(str, k) <=> k + n - 1 <= Len(str) /\ t = u
    BY DEF SpelledAt, n
  <1>. HIDE DEF u
  <1>6. ASSUME k + n - 1 <= Len(str)
        PROVE  t = u <=> \A i \in 1 .. n : t[i] = u[i]
    <2>1. u \in Seq(W) /\ Len(u) = n
      BY <1>3, <1>6
    <2>. QED  BY <1>1, <2>1, SeqEqual DEF n
  <1>. QED  BY <1>3, <1>4, <1>5, <1>6 DEF n

\* The longest at a place is the only one of its length.
LEMMA LongestOne ==
    ASSUME NEW str, NEW k, NEW t \in SpelledAt(str, k),
           \A u \in SpelledAt(str, k) : Len(u) <= Len(t)
    PROVE  Longest(str, k) = t
  <1>. DEFINE u == Longest(str, k)
              Max(v) == \A w \in SpelledAt(str, k) : Len(w) <= Len(v)
  <1>1. u = CHOOSE v \in SpelledAt(str, k) : Max(v)
    BY DEF Longest
  <1>2. u \in SpelledAt(str, k) /\ Max(u)
    <2>. HIDE DEF Max, u
    <2>1. Max(t)
      BY DEF Max
    <2>. QED  BY <1>1, <2>1
  <1>. HIDE DEF u
  <1>3. Len(u) <= Len(t) /\ Len(t) <= Len(u)
    BY <1>2
  <1>4. \A v \in SpelledAt(str, k) : Len(v) \in {2, 3, 4} /\ v = SubSeq(str, k, k + Len(v) - 1)
    BY SpellingsAre DEF SpelledAt, Spells
  <1>5. Len(u) = Len(t)
    BY <1>2, <1>3, <1>4
  <1>. QED  BY <1>2, <1>4, <1>5 DEF u

\* What is read at a place: what stands there and behind it tells the longest spelling.
LEMMA Reading ==
    ASSUME NEW str, IsString(str), NEW k, Within(str, k)
    PROVE  /\ At(str, k) # "%" => Longest(str, k) = <<At(str, k)>>
           /\ At(str, k) = "%" =>
                 /\ At(str, k + 1) \in Directives \cup {"%"} =>
                       Longest(str, k) = <<"%", At(str, k + 1)>>
                 /\ At(str, k + 1) \notin Directives \cup {"%", "#"} => Longest(str, k) = <<"%">>
                 /\ At(str, k + 1) = "#" =>
                       IF At(str, k + 2) = "$" THEN Longest(str, k) = <<"%", "#", "$">>
                       ELSE IF At(str, k + 2) \notin DOMAIN Hex THEN Longest(str, k) = <<"%", "#">>
                       ELSE IF At(str, k + 3) \notin DOMAIN Hex
                       THEN Longest(str, k) = <<"%", "#", At(str, k + 2)>>
                       ELSE Longest(str, k) = <<"%", "#", At(str, k + 2), At(str, k + 3)>>
  <1>. DEFINE c0 == At(str, k)
              c1 == At(str, k + 1)
              c2 == At(str, k + 2)
              c3 == At(str, k + 3)
              L == Longest(str, k)
              S == SpelledAt(str, k)
  <1>. k \in 1 .. Len(str)
    BY DEF Within
  <1>1. k \in Nat /\ k + 1 - 1 = k /\ k + 2 - 1 = k + 1 /\ k + 3 - 1 = k + 2 /\ k + 4 - 1 = k + 3
    BY DEF IsString
  <1>2. c0 = str[k]
    BY DEF At, IsString
  <1>3. S \subseteq Spellings /\ "$" \notin DOMAIN Hex
    BY DisplayAssumption DEF SpelledAt
  <1>4. \A t \in Spellings : t \in S <=> \A i \in 1 .. Len(t) : At(str, k + i - 1) = t[i]
    BY SpelledThere
  <1>5. ASSUME NEW a, <<"%", a>> \in Spellings
        PROVE  <<"%", a>> \in S <=> c0 = "%" /\ c1 = a
    <2>1. Len(<<"%", a>>) = 2 /\ <<"%", a>>[1] = "%" /\ <<"%", a>>[2] = a
      OBVIOUS
    <2>. DEFINE t == <<"%", a>>
    <2>. HIDE DEF t
    <2>2. t \in S <=> At(str, k + 1 - 1) = t[1] /\ At(str, k + 2 - 1) = t[2]
      <3>1. Len(t) = 2
        BY <2>1 DEF t
      <3>2. \A i : i \in 1 .. 2 <=> i = 1 \/ i = 2
        OBVIOUS
      <3>. QED  BY <1>4, <1>5, <3>1, <3>2 DEF t
    <2>. QED  BY <1>1, <2>1, <2>2 DEF t
  <1>6. ASSUME NEW a, <<"%", "#", a>> \in Spellings
        PROVE  <<"%", "#", a>> \in S <=> c0 = "%" /\ c1 = "#" /\ c2 = a
    <2>. DEFINE t == <<"%", "#", a>>
    <2>1. Len(t) = 3 /\ t[1] = "%" /\ t[2] = "#" /\ t[3] = a
      OBVIOUS
    <2>. HIDE DEF t
    <2>2. t \in S <=> /\ At(str, k + 1 - 1) = t[1] /\ At(str, k + 2 - 1) = t[2]
                      /\ At(str, k + 3 - 1) = t[3]
      <3>1. \A i : i \in 1 .. 3 <=> i = 1 \/ i = 2 \/ i = 3
        OBVIOUS
      <3>. QED  BY <1>4, <1>6, <2>1, <3>1 DEF t
    <2>. QED  BY <1>1, <2>1, <2>2 DEF t
  <1>7. ASSUME NEW a, NEW b, <<"%", "#", a, b>> \in Spellings
        PROVE  <<"%", "#", a, b>> \in S <=> c0 = "%" /\ c1 = "#" /\ c2 = a /\ c3 = b
    <2>. DEFINE t == <<"%", "#", a, b>>
    <2>1. Len(t) = 4 /\ t[1] = "%" /\ t[2] = "#" /\ t[3] = a /\ t[4] = b
      OBVIOUS
    <2>. HIDE DEF t
    <2>2. t \in S <=> /\ At(str, k + 1 - 1) = t[1] /\ At(str, k + 2 - 1) = t[2]
                      /\ At(str, k + 3 - 1) = t[3] /\ At(str, k + 4 - 1) = t[4]
      <3>1. \A i : i \in 1 .. 4 <=> i = 1 \/ i = 2 \/ i = 3 \/ i = 4
        OBVIOUS
      <3>. QED  BY <1>4, <1>7, <2>1, <3>1 DEF t
    <2>. QED  BY <1>1, <2>1, <2>2 DEF t
  <1>. HIDE DEF c0, c1, c2, c3, S, L
  \* A spelling that is there is one of these.
  <1>8. \A u \in S :
               /\ c0 = "%"
               /\ \/ Len(u) = 2 /\ c1 \in Directives \cup {"%", "#"}
                  \/ Len(u) = 3 /\ c1 = "#" /\ c2 \in DOMAIN Hex \cup {"$"}
                  \/ Len(u) = 4 /\ c1 = "#" /\ c2 \in DOMAIN Hex /\ c3 \in DOMAIN Hex
    <2>. TAKE u \in S
    <2>1. u \in Spellings /\ Spells(u)
      BY <1>3, SpellingsAre
    <2>2. CASE Len(u) = 2 /\ u = <<"%", u[2]>> /\ u[2] \in Directives \cup {"%", "#"}
      <3>. DEFINE a == u[2]
      <3>. HIDE DEF a
      <3>1. u = <<"%", a>>
        BY <2>2 DEF a
      <3>2. c0 = "%" /\ c1 = a
        BY <1>5, <2>1, <3>1
      <3>. QED  BY <2>2, <3>2 DEF a
    <2>3. CASE Len(u) = 3 /\ u = <<"%", "#", u[3]>> /\ u[3] \in DOMAIN Hex \cup {"$"}
      <3>. DEFINE a == u[3]
      <3>. HIDE DEF a
      <3>1. u = <<"%", "#", a>>
        BY <2>3 DEF a
      <3>2. c0 = "%" /\ c1 = "#" /\ c2 = a
        BY <1>6, <2>1, <3>1
      <3>. QED  BY <2>3, <3>2 DEF a
    <2>4. CASE Len(u) = 4 /\ u = <<"%", "#", u[3], u[4]>> /\ u[3] \in DOMAIN Hex /\ u[4] \in DOMAIN Hex
      <3>. DEFINE a == u[3]
                  b == u[4]
      <3>. HIDE DEF a, b
      <3>1. u = <<"%", "#", a, b>>
        BY <2>4 DEF a, b
      <3>2. c0 = "%" /\ c1 = "#" /\ c2 = a /\ c3 = b
        BY <1>7, <2>1, <3>1
      <3>. QED  BY <2>4, <3>2 DEF a, b
    <2>. QED  BY <2>1, <2>2, <2>3, <2>4 DEF Spells
  <1>9. ASSUME NEW t \in S, \A u \in S : Len(u) <= Len(t) PROVE L = t
    BY <1>9, LongestOne DEF L, S
  <1>10. S = {} => L = <<c0>>
    BY <1>2 DEF L, S, Longest
  <1>11. CASE c0 # "%" \/ c1 \notin Directives \cup {"%", "#"}
    <2>1. S = {}
      BY <1>8, <1>11
    <2>2. L = <<c0>>
      BY <1>10, <2>1
    <2>3. (c1 # "#" /\ c1 \notin Directives \cup {"%"}) \/ c0 # "%"
      BY <1>11
    <2>. QED  BY <2>2, <2>3 DEF c0, c1, L
  <1>12. CASE c0 = "%" /\ c1 \in Directives \cup {"%"}
    <2>1. c1 # "#"
      BY <1>12 DEF Directives
    <2>2. <<"%", c1>> \in S
      BY <1>5, <1>12, SpellingsAre
    <2>3. \A u \in S : Len(u) <= 2
      <3>. TAKE u \in S
      <3>. DEFINE n == Len(u)
      <3>1. /\ c0 = "%"
           /\ \/ n = 2 /\ c1 \in Directives \cup {"%", "#"}
              \/ n = 3 /\ c1 = "#" /\ c2 \in DOMAIN Hex \cup {"$"}
              \/ n = 4 /\ c1 = "#" /\ c2 \in DOMAIN Hex /\ c3 \in DOMAIN Hex
        BY <1>8
      <3>. HIDE DEF n
      <3>2. n <= 2
        BY <2>1, <3>1
      <3>. QED  BY <3>2 DEF n
    <2>4. Len(<<"%", c1>>) = 2
      OBVIOUS
    <2>5. L = <<"%", c1>>
      BY <1>9, <2>2, <2>3, <2>4
    <2>. QED  BY <1>12, <2>1, <2>5 DEF c0, c1, L
  <1>13. CASE c0 = "%" /\ c1 = "#"
    <2>1. "#" \notin Directives \cup {"%"}
      BY DEF Directives
    <2>2. CASE c2 = "$"
      <3>1. <<"%", "#", "$">> \in S
        BY <1>6, <1>13, <2>2, SpellingsAre
      <3>2. \A u \in S : Len(u) <= 3
        <4>. TAKE u \in S
        <4>. DEFINE n == Len(u)
        <4>1. /\ c0 = "%"
             /\ \/ n = 2 /\ c1 \in Directives \cup {"%", "#"}
                \/ n = 3 /\ c1 = "#" /\ c2 \in DOMAIN Hex \cup {"$"}
                \/ n = 4 /\ c1 = "#" /\ c2 \in DOMAIN Hex /\ c3 \in DOMAIN Hex
          BY <1>8
        <4>. HIDE DEF n
        <4>2. n <= 3
          BY <1>3, <2>2, <4>1
        <4>. QED  BY <4>2 DEF n
      <3>3. Len(<<"%", "#", "$">>) = 3
        OBVIOUS
      <3>4. L = <<"%", "#", "$">>
        BY <1>9, <3>1, <3>2, <3>3
      <3>. QED  BY <1>13, <2>1, <2>2, <3>4 DEF c0, c1, c2, L
    <2>3. CASE c2 # "$" /\ c2 \notin DOMAIN Hex
      <3>1. <<"%", "#">> \in S
        BY <1>5, <1>13, SpellingsAre
      <3>2. \A u \in S : Len(u) <= 2
        <4>. TAKE u \in S
        <4>. DEFINE n == Len(u)
        <4>1. /\ c0 = "%"
             /\ \/ n = 2 /\ c1 \in Directives \cup {"%", "#"}
                \/ n = 3 /\ c1 = "#" /\ c2 \in DOMAIN Hex \cup {"$"}
                \/ n = 4 /\ c1 = "#" /\ c2 \in DOMAIN Hex /\ c3 \in DOMAIN Hex
          BY <1>8
        <4>. HIDE DEF n
        <4>2. n <= 2
          BY <2>3, <4>1
        <4>. QED  BY <4>2 DEF n
      <3>3. Len(<<"%", "#">>) = 2
        OBVIOUS
      <3>4. L = <<"%", "#">>
        BY <1>9, <3>1, <3>2, <3>3
      <3>. QED  BY <1>13, <2>1, <2>3, <3>4 DEF c0, c1, c2, L
    <2>4. CASE c2 # "$" /\ c2 \in DOMAIN Hex /\ c3 \notin DOMAIN Hex
      <3>1. <<"%", "#", c2>> \in S
        BY <1>6, <1>13, <2>4, SpellingsAre
      <3>2. \A u \in S : Len(u) <= 3
        <4>. TAKE u \in S
        <4>. DEFINE n == Len(u)
        <4>1. \/ n = 2 \/ n = 3
              \/ n = 4 /\ c3 \in DOMAIN Hex
          BY <1>8
        <4>. HIDE DEF n
        <4>2. n <= 3
          BY <2>4, <4>1
        <4>. QED  BY <4>2 DEF n
      <3>3. Len(<<"%", "#", c2>>) = 3
        OBVIOUS
      <3>4. L = <<"%", "#", c2>>
        BY <1>9, <3>1, <3>2, <3>3
      <3>. QED  BY <1>13, <2>1, <2>4, <3>4 DEF c0, c1, c2, c3, L
    <2>5. CASE c2 # "$" /\ c2 \in DOMAIN Hex /\ c3 \in DOMAIN Hex
      <3>1. <<"%", "#", c2, c3>> \in S
        BY <1>7, <1>13, <2>5, SpellingsAre
      <3>2. \A u \in S : Len(u) <= 4
        <4>. TAKE u \in S
        <4>. DEFINE n == Len(u)
        <4>1. /\ c0 = "%"
             /\ \/ n = 2 /\ c1 \in Directives \cup {"%", "#"}
                \/ n = 3 /\ c1 = "#" /\ c2 \in DOMAIN Hex \cup {"$"}
                \/ n = 4 /\ c1 = "#" /\ c2 \in DOMAIN Hex /\ c3 \in DOMAIN Hex
          BY <1>8
        <4>. HIDE DEF n
        <4>2. n <= 4
          BY <4>1
        <4>. QED  BY <4>2 DEF n
      <3>3. Len(<<"%", "#", c2, c3>>) = 4
        OBVIOUS
      <3>4. L = <<"%", "#", c2, c3>>
        BY <1>9, <3>1, <3>2, <3>3
      <3>. QED  BY <1>13, <2>1, <2>5, <3>4 DEF c0, c1, c2, c3, L
    <2>. QED  BY <2>2, <2>3, <2>4, <2>5
  <1>. QED  BY <1>11, <1>12, <1>13

-----------------------------------------------------------------------------
(* What the spellings say.                                                  *)

\* Characters, what is typed of them, and where a call of print can be.
Chr  == STRING \cup {"%", "$"}
Keys == [ch : Chr, color : 0 .. 255, tick : BOOLEAN]
Ways == (Nat \ {0}) \X (Nat \ {0}) \X (0 .. 255)

\* What the spellings are worth, one by one: how long they are, how many arguments they
\* take, the color they leave and what they say.
Worth(t, args, a, c, length, takes, now, text) ==
    /\ Len(t) = length /\ Takes(t) = takes
    /\ Colored(t, c) = now /\ Said(t, args, a) = text

\* For each of them.
LEMMA Worths ==
    ASSUME NEW args, NEW a, NEW c, NEW t
    PROVE  /\ \A x : t = <<x>> => Worth(t, args, a, c, 1, 0, c, <<x>>)
           /\ \A d \in Directives :
                 t = <<"%", d>> =>
                    Worth(t, args, a, c, 2, 1, c, IF a > Len(args) THEN <<>> ELSE Text(d, args[a]))
           /\ t = <<"%", "%">> => Worth(t, args, a, c, 2, 0, c, <<"%">>)
           /\ t = <<"%", "#">> => Worth(t, args, a, c, 2, 0, c, <<>>)
           /\ t = <<"%", "#", "$">> => Worth(t, args, a, c, 3, 0, DEFAULT_COLOR, <<>>)
           /\ \A x \in DOMAIN Hex :
                 t = <<"%", "#", x>> =>
                    Worth(t, args, a, c, 3, 0, (DEFAULT_COLOR - (DEFAULT_COLOR % 16)) + Hex[x], <<>>)
           /\ \A x, y \in DOMAIN Hex :
                 t = <<"%", "#", x, y>> =>
                    Worth(t, args, a, c, 4, 0, Hex[x] + (16 * Hex[y]), <<>>)
  <1>1. "%" \notin Directives /\ "#" \notin Directives /\ "$" \notin DOMAIN Hex
    BY DisplayAssumption DEF Directives
  <1>. DEFINE n == Len(t)
  <1>0. n = 1 \/ n = 2 \/ n = 3 \/ n = 4 => (n <= 2 <=> n = 1 \/ n = 2) /\ (n > 1 <=> n # 1)
    <2>. HIDE DEF n
    <2>. QED  OBVIOUS
  <1>2. ASSUME NEW x, t = <<x>> PROVE Worth(t, args, a, c, 1, 0, c, <<x>>)
    <2>1. n = 1
      BY <1>2
    <2>2. Takes(t) = 0
      BY <2>1 DEF Takes
    <2>3. Colored(t, c) = c
      BY <1>0, <2>1 DEF Colored
    <2>4. Said(t, args, a) = t
      BY <1>0, <2>1, <2>2 DEF Said
    <2>. QED  BY <1>2, <2>1, <2>2, <2>3, <2>4 DEF Worth
  <1>3. ASSUME NEW d \in Directives \cup {"%", "#"}, t = <<"%", d>>
        PROVE  /\ Len(t) = 2 /\ Colored(t, c) = c
               /\ Takes(t) = IF d \in Directives THEN 1 ELSE 0
               /\ d \in Directives =>
                     Said(t, args, a) = IF a > Len(args) THEN <<>> ELSE Text(d, args[a])
               /\ d = "%" => Said(t, args, a) = <<"%">>
               /\ d = "#" => Said(t, args, a) = <<>>
    <2>1. n = 2 /\ t[2] = d
      BY <1>3
    <2>2. Takes(t) = IF d \in Directives THEN 1 ELSE 0
      BY <2>1 DEF Takes
    <2>3. Colored(t, c) = c
      BY <1>0, <2>1 DEF Colored
    <2>4. ASSUME d \in Directives
          PROVE  Said(t, args, a) = IF a > Len(args) THEN <<>> ELSE Text(d, args[a])
      <3>1. Takes(t) = 1 /\ Len(t) # 1 /\ t[2] # "%" /\ t[2] # "#"
        BY <1>1, <2>1, <2>2, <2>4
      <3>. QED  BY <2>1, <3>1 DEF Said
    <2>5. ASSUME d = "%" PROVE Said(t, args, a) = <<"%">>
      <3>1. Takes(t) = 0 /\ Len(t) = 2 /\ t[2] = "%"
        BY <1>1, <2>1, <2>2, <2>5
      <3>. QED  BY <3>1 DEF Said
    <2>6. ASSUME d = "#" PROVE Said(t, args, a) = <<>>
      <3>1. Takes(t) = 0 /\ Len(t) = 2 /\ t[2] = "#" /\ Len(t) > 1
        BY <1>0, <1>1, <2>1, <2>2, <2>6
      <3>. QED  BY <3>1 DEF Said
    <2>. QED  BY <2>1, <2>2, <2>3, <2>4, <2>5, <2>6
  <1>4. ASSUME NEW x \in DOMAIN Hex \cup {"$"}, t = <<"%", "#", x>>
        PROVE  /\ Len(t) = 3 /\ Takes(t) = 0
               /\ x = "$" => Colored(t, c) = DEFAULT_COLOR
               /\ x # "$" => Colored(t, c) = (DEFAULT_COLOR - (DEFAULT_COLOR % 16)) + Hex[x]
               /\ Said(t, args, a) = <<>>
    <2>1. n = 3 /\ t[2] = "#" /\ t[3] = x
      BY <1>4
    <2>2. Takes(t) = 0
      BY <2>1 DEF Takes
    <2>3. Said(t, args, a) = <<>>
      BY <1>0, <2>1, <2>2 DEF Said
    <2>4. Colored(t, c) = IF x = "$" THEN DEFAULT_COLOR
                          ELSE (DEFAULT_COLOR - (DEFAULT_COLOR % 16)) + Hex[x]
      BY <1>0, <2>1 DEF Colored
    <2>. QED  BY <2>1, <2>2, <2>3, <2>4
  <1>5. ASSUME NEW x \in DOMAIN Hex, NEW y \in DOMAIN Hex, t = <<"%", "#", x, y>>
        PROVE  Worth(t, args, a, c, 4, 0, Hex[x] + (16 * Hex[y]), <<>>)
    <2>1. n = 4 /\ t[2] = "#" /\ t[3] = x /\ t[4] = y
      BY <1>5
    <2>2. Takes(t) = 0
      BY <2>1 DEF Takes
    <2>4. Said(t, args, a) = <<>>
      BY <1>0, <2>1, <2>2 DEF Said
    <2>5. Colored(t, c) = Hex[x] + (16 * Hex[y])
      BY <1>0, <2>1 DEF Colored
    <2>. QED  BY <2>1, <2>2, <2>4, <2>5 DEF Worth
  <1>6. \A d \in Directives :
            t = <<"%", d>> =>
               Worth(t, args, a, c, 2, 1, c, IF a > Len(args) THEN <<>> ELSE Text(d, args[a]))
    BY <1>3 DEF Worth
  <1>7. t = <<"%", "%">> => Worth(t, args, a, c, 2, 0, c, <<"%">>)
    BY <1>1, <1>3 DEF Worth
  <1>8. t = <<"%", "#">> => Worth(t, args, a, c, 2, 0, c, <<>>)
    BY <1>1, <1>3 DEF Worth
  <1>9. t = <<"%", "#", "$">> => Worth(t, args, a, c, 3, 0, DEFAULT_COLOR, <<>>)
    BY <1>4 DEF Worth
  <1>10. \A x \in DOMAIN Hex :
            t = <<"%", "#", x>> =>
               Worth(t, args, a, c, 3, 0, (DEFAULT_COLOR - (DEFAULT_COLOR % 16)) + Hex[x], <<>>)
    BY <1>1, <1>4 DEF Worth
  <1>. QED  BY <1>2, <1>5, <1>6, <1>7, <1>8, <1>9, <1>10

\* A place in the string, an argument and a color.
Stands(f, i, a, c) == Within(f.str, i) /\ a \in Nat \ {0} /\ c \in 0 .. 255

\* The same of what is read at a place of a string.
LEMMA Pieces ==
    ASSUME NEW f \in Formats, NEW k, NEW a, NEW c, Stands(f, k, a, c)
    PROVE  /\ Len(Longest(f.str, k)) \in {1, 2, 3, 4}
           /\ Takes(Longest(f.str, k)) \in {0, 1}
           /\ Colored(Longest(f.str, k), c) \in 0 .. 255
           /\ Said(Longest(f.str, k), f.args, a) \in Seq(Chr)
  <1>. DEFINE t == Longest(f.str, k)
              Fine(u) == /\ Len(u) \in {1, 2, 3, 4} /\ Takes(u) \in {0, 1}
                         /\ Colored(u, c) \in 0 .. 255 /\ Said(u, f.args, a) \in Seq(Chr)
  <1>. k \in 1 .. Len(f.str) /\ a \in Nat \ {0} /\ c \in 0 .. 255 /\ Within(f.str, k)
    BY DEF Within, Stands
  <1>1. /\ IsString(f.str) /\ Len(f.args) \in Nat
        /\ \A d \in Directives, b \in 1 .. Len(f.args) : Text(d, f.args[b]) \in Seq(STRING)
        /\ \A d \in DOMAIN Hex : Hex[d] \in 0 .. 15
        /\ DEFAULT_COLOR \in 0 .. 255
    BY DisplayAssumption DEF IsString
  <1>2. /\ "%" \in Chr /\ "$" \in Chr /\ f.str[k] \in Chr
        /\ \A s \in Seq(STRING) : s \in Seq(Chr)
    BY <1>1 DEF Chr, IsString
  <1>. HIDE DEF t
  <1>0. ASSUME NEW n \in {1, 2, 3, 4}, NEW u \in {0, 1}, NEW now \in 0 .. 255, NEW s \in Seq(Chr),
               Worth(t, f.args, a, c, n, u, now, s)
        PROVE  Fine(t)
    BY <1>0 DEF Worth
  <1>. HIDE DEF Fine
  <1>3. ASSUME NEW x \in Chr, t = <<x>> PROVE Fine(t)
    <2>1. <<x>> \in Seq(Chr)
      OBVIOUS
    <2>2. Worth(t, f.args, a, c, 1, 0, c, <<x>>)
      BY <1>3, Worths
    <2>. QED  BY <1>0, <2>1, <2>2
  <1>4. ASSUME NEW d \in Directives, t = <<"%", d>> PROVE Fine(t)
    <2>. DEFINE s == IF a > Len(f.args) THEN <<>> ELSE Text(d, f.args[a])
    <2>1. s \in Seq(Chr)
      <3>1. <<>> \in Seq(Chr)
        OBVIOUS
      <3>2. ~(a > Len(f.args)) => a \in 1 .. Len(f.args)
        BY <1>1
      <3>. QED  BY <1>1, <1>2, <3>1, <3>2
    <2>2. Worth(t, f.args, a, c, 2, 1, c, s)
      BY <1>4, Worths
    <2>. HIDE DEF s
    <2>. QED  BY <1>0, <2>1, <2>2
  <1>5. ASSUME t \in {<<"%", "%">>, <<"%", "#">>, <<"%", "#", "$">>} PROVE Fine(t)
    <2>1. <<"%">> \in Seq(Chr) /\ <<>> \in Seq(Chr)
      BY <1>2
    <2>2. CASE t = <<"%", "%">>
      BY <1>0, <2>1, <2>2, Worths
    <2>3. CASE t = <<"%", "#">>
      BY <1>0, <2>1, <2>3, Worths
    <2>4. CASE t = <<"%", "#", "$">>
      BY <1>0, <1>1, <2>1, <2>4, Worths
    <2>. QED  BY <1>5, <2>2, <2>3, <2>4
  <1>6. ASSUME NEW x \in DOMAIN Hex, t = <<"%", "#", x>> PROVE Fine(t)
    <2>. DEFINE now == (DEFAULT_COLOR - (DEFAULT_COLOR % 16)) + Hex[x]
    <2>1. now \in 0 .. 255
      <3>. DEFINE h == Hex[x]
                  q == DEFAULT_COLOR \div 16
      <3>1. h \in 0 .. 15 /\ q \in 0 .. 15 /\ DEFAULT_COLOR - (DEFAULT_COLOR % 16) = 16 * q
        BY <1>1
      <3>. HIDE DEF h, q
      <3>2. (16 * q) + h \in 0 .. 255
        BY <3>1
      <3>. QED  BY <3>1, <3>2 DEF h
    <2>2. <<>> \in Seq(Chr)
      OBVIOUS
    <2>3. Worth(t, f.args, a, c, 3, 0, now, <<>>)
      BY <1>6, Worths
    <2>. HIDE DEF now
    <2>. QED  BY <1>0, <2>1, <2>2, <2>3
  <1>7. ASSUME NEW x \in DOMAIN Hex, NEW y \in DOMAIN Hex, t = <<"%", "#", x, y>> PROVE Fine(t)
    <2>. DEFINE now == Hex[x] + (16 * Hex[y])
    <2>1. now \in 0 .. 255
      <3>. DEFINE h == Hex[x]
                  i == Hex[y]
      <3>1. h \in 0 .. 15 /\ i \in 0 .. 15
        BY <1>1
      <3>. HIDE DEF h, i
      <3>2. h + (16 * i) \in 0 .. 255
        BY <3>1
      <3>. QED  BY <3>2 DEF h, i
    <2>2. <<>> \in Seq(Chr)
      OBVIOUS
    <2>3. Worth(t, f.args, a, c, 4, 0, now, <<>>)
      BY <1>7, Worths
    <2>. HIDE DEF now
    <2>. QED  BY <1>0, <2>1, <2>2, <2>3
  <1>8. \/ \E x \in Chr : t = <<x>>
        \/ \E d \in Directives : t = <<"%", d>>
        \/ t \in {<<"%", "%">>, <<"%", "#">>, <<"%", "#", "$">>}
        \/ \E x \in DOMAIN Hex : t = <<"%", "#", x>>
        \/ \E x, y \in DOMAIN Hex : t = <<"%", "#", x, y>>
    <2>1. At(f.str, k) = f.str[k]
      BY DEF At
    <2>2. CASE At(f.str, k) # "%"
      BY <1>1, <1>2, <2>1, <2>2, Reading DEF t
    <2>3. CASE At(f.str, k) = "%" /\ At(f.str, k + 1) \in Directives \cup {"%"}
      BY <1>1, <2>3, Reading DEF t
    <2>4. CASE At(f.str, k) = "%" /\ At(f.str, k + 1) \notin Directives \cup {"%", "#"}
      BY <1>1, <1>2, <2>4, Reading DEF t
    <2>5. CASE At(f.str, k) = "%" /\ At(f.str, k + 1) = "#"
      BY <1>1, <2>5, Reading DEF t
    <2>. QED  BY <2>2, <2>3, <2>4, <2>5
  <1>9. Fine(t)
    BY <1>3, <1>4, <1>5, <1>6, <1>7, <1>8
  <1>. QED  BY <1>9 DEF t, Fine

\* From[w]: what the string says from w on; Onto is where the spelling at w leads.
Spelling(f, w) == Longest(f.str, w[1])
Piece(f, w) == Keyed(Said(Spelling(f, w), f.args, w[2]), Colored(Spelling(f, w), w[3]))
Onto(f, w) == <<w[1] + Len(Spelling(f, w)), w[2] + Takes(Spelling(f, w)), Colored(Spelling(f, w), w[3])>>
Past(f, w) == w[1] > Len(f.str)
Tells(From, f) ==
    /\ From \in [Ways -> Seq(Keys)]
    /\ \A w \in Ways : From[w] = IF Past(f, w) THEN <<>> ELSE Piece(f, w) \o From[Onto(f, w)]

\* A text in a color.
LEMMA KeyedText ==
    ASSUME NEW s \in Seq(Chr), NEW c \in 0 .. 255
    PROVE  /\ Keyed(s, c) \in Seq(Keys) /\ Len(Keyed(s, c)) = Len(s)
           /\ \A n \in 1 .. Len(s) : Keyed(s, c)[n] = Key(s[n], c, FALSE)
  <1>1. \A n \in 1 .. Len(s) : Key(s[n], c, FALSE) \in Keys
    BY DEF Key, Keys
  <1>2. Keyed(s, c) \in [1 .. Len(s) -> Keys]
    BY <1>1 DEF Keyed
  <1>3. Len(s) \in Nat
    OBVIOUS
  <1>4. Keyed(s, c) \in Seq(Keys)
    BY <1>2, <1>3
  <1>5. Len(Keyed(s, c)) = Len(s)
    BY <1>2, <1>3, <1>4
  <1>6. \A n \in 1 .. Len(s) : Keyed(s, c)[n] = Key(s[n], c, FALSE)
    BY DEF Keyed
  <1>. QED  BY <1>4, <1>5, <1>6

\* Each spelling is a piece of text and leads on.
LEMMA Leads ==
    ASSUME NEW f \in Formats, NEW w \in Ways, ~Past(f, w)
    PROVE  /\ Piece(f, w) \in Seq(Keys) /\ Onto(f, w) \in Ways
           /\ Onto(f, w)[1] = w[1] + Len(Spelling(f, w)) /\ Onto(f, w)[1] > w[1]
  <1>1. Len(f.str) \in Nat
    BY DisplayAssumption
  <1>2. w[1] \in Nat \ {0} /\ w[2] \in Nat \ {0} /\ w[3] \in 0 .. 255
    BY DEF Ways
  <1>3. Within(f.str, w[1])
    BY <1>1, <1>2 DEF Past, Within
  <1>. DEFINE t == Spelling(f, w)
  <1>4. /\ Len(t) \in {1, 2, 3, 4} /\ Takes(t) \in {0, 1} /\ Colored(t, w[3]) \in 0 .. 255
        /\ Said(t, f.args, w[2]) \in Seq(Chr)
    <2>1. Stands(f, w[1], w[2], w[3])
      BY <1>2, <1>3 DEF Stands
    <2>. QED  BY <2>1, Pieces DEF Spelling
  <1>. DEFINE n == Len(t)
              u == Takes(t)
              now == Colored(t, w[3])
  <1>5. Piece(f, w) \in Seq(Keys)
    BY <1>4, KeyedText DEF Piece
  <1>6. Onto(f, w) = <<w[1] + n, w[2] + u, now>>
    BY DEF Onto
  <1>7. n \in {1, 2, 3, 4} /\ u \in {0, 1} /\ now \in 0 .. 255
    BY <1>4
  <1>. HIDE DEF t, n, u, now
  <1>8. w[1] + n \in Nat \ {0} /\ w[2] + u \in Nat \ {0} /\ w[1] + n > w[1]
    BY <1>2, <1>7
  <1>9. Onto(f, w) \in Ways
    BY <1>6, <1>7, <1>8 DEF Ways
  <1>10. Onto(f, w)[1] = w[1] + n
    BY <1>6
  <1>. QED  BY <1>5, <1>8, <1>9, <1>10 DEF n, t

\* What Meaning computes.
LEMMA MeaningDefined ==
    ASSUME NEW f \in Formats
    PROVE  \E From : Tells(From, f) /\ Meaning(f) = From[<<1, 1, DEFAULT_COLOR>>]
  <1>. DEFINE len == Len(f.str)
              V == Seq(Keys)
              Stop == {w \in Ways : Past(f, w)}
              rank == [w \in Ways |-> IF w \in Stop THEN 0 ELSE len + 1 - w[1]]
              before == [w \in Ways |-> IF w \in Stop THEN w ELSE Onto(f, w)]
              base == [w \in Ways |-> <<>>]
              step == [w \in Ways |-> [v \in V |-> IF w \in Stop THEN v ELSE Piece(f, w) \o v]]
              Is(g) == g = [w \in Ways |-> IF Past(f, w) THEN <<>> ELSE Piece(f, w) \o g[Onto(f, w)]]
  <1>1. len \in Nat
    BY DisplayAssumption
  <1>2. \A w \in Ways : w[1] \in Nat \ {0} /\ (w \notin Stop => w[1] <= len)
    BY <1>1 DEF Ways, Past
  <1>3. \A w \in Ways \ Stop : /\ Piece(f, w) \in V /\ Onto(f, w) \in Ways
                               /\ Onto(f, w)[1] > w[1]
    BY Leads
  <1>4. <<>> \in V /\ \A p \in V, v \in V : p \o v \in V
    OBVIOUS
  <1>. HIDE DEF V, Stop, len
  <1>5. rank \in [Ways -> Nat]
    BY <1>1, <1>2
  <1>6. before \in [Ways -> Ways] /\ base \in [Ways -> V]
    BY <1>3, <1>4
  <1>7. step \in [Ways -> [V -> V]]
    BY <1>3, <1>4
  <1>8. ASSUME NEW w \in Ways \ Stop PROVE rank[before[w]] < rank[w]
    <2>1. before[w] = Onto(f, w) /\ Onto(f, w) \in Ways /\ Onto(f, w)[1] > w[1]
      BY <1>3
    <2>. DEFINE x == Onto(f, w)
    <2>2. rank[w] = len + 1 - w[1] /\ rank[x] = IF x \in Stop THEN 0 ELSE len + 1 - x[1]
      BY <2>1
    <2>3. w[1] \in Nat /\ w[1] <= len /\ x[1] \in Nat
      BY <1>2, <2>1
    <2>. HIDE DEF x, rank
    <2>4. rank[x] < rank[w]
      BY <1>1, <2>1, <2>2, <2>3 DEF x
    <2>. QED  BY <2>1, <2>4 DEF x
  <1>9. Descends(Ways, V, rank, before, Stop, base, step)
    <2>. HIDE DEF rank, before, base, step
    <2>. QED  BY <1>5, <1>6, <1>7, <1>8 DEF Descends
  <1>10. PICK r : Solves(r, Ways, V, before, Stop, base, step)
    <2>. HIDE DEF rank, before, base, step
    <2>. QED  BY <1>9, Recursion
  <1>11. Tells(r, f)
    <2>1. /\ r \in [Ways -> V]
          /\ \A w \in Ways : r[w] = IF w \in Stop THEN base[w] ELSE step[w][r[before[w]]]
      BY <1>10 DEF Solves
    <2>2. ASSUME NEW w \in Ways PROVE r[w] = IF Past(f, w) THEN <<>> ELSE Piece(f, w) \o r[Onto(f, w)]
      <3>1. CASE w \in Stop
        <4>1. Past(f, w) /\ base[w] = <<>>
          BY <3>1 DEF Stop
        <4>. HIDE DEF base, step, before
        <4>. QED  BY <2>1, <3>1, <4>1
      <3>2. CASE w \notin Stop
        <4>1. ~Past(f, w) /\ before[w] = Onto(f, w) /\ Onto(f, w) \in Ways
          BY <1>3, <3>2 DEF Stop
        <4>2. r[Onto(f, w)] \in V
          BY <2>1, <4>1
        <4>3. step[w][r[Onto(f, w)]] = Piece(f, w) \o r[Onto(f, w)]
          BY <3>2, <4>2
        <4>4. r[w] = step[w][r[Onto(f, w)]]
          <5>. HIDE DEF base, step, before
          <5>. QED  BY <2>1, <3>2, <4>1
        <4>. QED  BY <4>1, <4>3, <4>4
      <3>. QED  BY <3>1, <3>2
    <2>. QED  BY <2>1, <2>2 DEF Tells, V
  <1>12. Is(r)
    <2>1. r = [w \in Ways |-> r[w]]
      BY <1>11 DEF Tells
    <2>. QED  BY <1>11, <2>1 DEF Tells
  <1>. DEFINE q == CHOOSE h : Is(h)
  <1>13. Is(q)
    <2>. HIDE DEF Is
    <2>. QED  BY <1>12
  <1>14. Meaning(f) = q[<<1, 1, DEFAULT_COLOR>>]
    BY DEF Meaning, Ways, Past, Piece, Onto, Spelling
  <1>. HIDE DEF q
  <1>15. \A w \in Ways : q[w] = IF Past(f, w) THEN <<>> ELSE Piece(f, w) \o q[Onto(f, w)]
    BY <1>13
  <1>16. \A w \in Ways : q[w] = r[w]
    <2>. DEFINE D == {w \in Ways : q[w] # r[w]}
                N == {rank[w] : w \in D}
    <2>. SUFFICES ASSUME D # {} PROVE FALSE
      OBVIOUS
    <2>1. N \subseteq Nat /\ N # {}
      <3>. HIDE DEF rank
      <3>. QED  BY <1>5
    <2>2. PICK k \in N : \A j \in N : k <= j
      <3>. HIDE DEF N
      <3>. QED  BY <2>1, Smallest
    <2>3. PICK w \in D : rank[w] = k
      <3>. HIDE DEF rank, D
      <3>. QED  OBVIOUS
    <2>4. w \in Ways /\ q[w] # r[w]
      BY <2>3
    <2>5. ~Past(f, w) /\ q[Onto(f, w)] # r[Onto(f, w)]
      BY <1>11, <1>15, <2>4 DEF Tells
    <2>6. w \notin Stop
      BY <2>5 DEF Stop
    <2>7. before[w] = Onto(f, w) /\ Onto(f, w) \in D
      BY <1>3, <2>4, <2>5, <2>6
    <2>8. rank[Onto(f, w)] < rank[w]
      <3>. HIDE DEF rank, before
      <3>. QED  BY <1>8, <2>4, <2>6, <2>7
    <2>9. rank[Onto(f, w)] \in N
      <3>. HIDE DEF rank, D
      <3>. QED  BY <2>7
    <2>10. rank[Onto(f, w)] \in Nat /\ rank[w] \in Nat
      <3>. HIDE DEF rank
      <3>. QED  BY <1>5, <2>4, <2>7
    <2>11. k <= rank[Onto(f, w)]
      <3>. HIDE DEF N, rank
      <3>. QED  BY <2>2, <2>9
    <2>. HIDE DEF rank, N, D
    <2>. QED  BY <2>3, <2>8, <2>10, <2>11
  <1>17. <<1, 1, DEFAULT_COLOR>> \in Ways
    <2>1. DEFAULT_COLOR \in 0 .. 255 /\ 1 \in Nat \ {0}
      BY DisplayAssumption
    <2>. QED  BY ONLY <2>1 DEF Ways
  <1>. QED  BY <1>11, <1>14, <1>16, <1>17

-----------------------------------------------------------------------------
(* A turn of the loop.                                                      *)

\* What a call's string says from each place on.
FromOf(f) == CHOOSE From : Tells(From, f) /\ Meaning(f) = From[<<1, 1, DEFAULT_COLOR>>]

\* There is such a function, and it is what the string means.
LEMMA FromIs ==
    ASSUME NEW f \in Formats
    PROVE  Tells(FromOf(f), f) /\ Meaning(f) = FromOf(f)[<<1, 1, DEFAULT_COLOR>>]
  BY MeaningDefined DEF FromOf

\* One text and then another.
Joined(u, v) == u \o v

\* One spelling further.
LEMMA Further ==
    ASSUME NEW f \in Formats, NEW i, NEW a, NEW c, Stands(f, i, a, c), NEW n, NEW u, NEW now, NEW s,
           Worth(Longest(f.str, i), f.args, a, c, n, u, now, s)
    PROVE  FromOf(f)[<<i, a, c>>] = Joined(Keyed(s, now), FromOf(f)[<<i + n, a + u, now>>])
  <1>. DEFINE w == <<i, a, c>>
  <1>1. Len(f.str) \in Nat
    BY DisplayAssumption
  <1>2. i \in Nat \ {0} /\ i <= Len(f.str) /\ a \in Nat \ {0} /\ c \in 0 .. 255
    BY <1>1 DEF Stands, Within
  <1>3. w \in Ways /\ w[1] = i /\ w[2] = a /\ w[3] = c
    BY <1>2 DEF Ways
  <1>. HIDE DEF w
  <1>4. ~Past(f, w)
    BY <1>1, <1>2, <1>3 DEF Past
  <1>5. FromOf(f)[w] = Piece(f, w) \o FromOf(f)[Onto(f, w)]
    BY <1>3, <1>4, FromIs DEF Tells
  <1>6. Piece(f, w) = Keyed(s, now)
    BY <1>3 DEF Piece, Spelling, Worth
  <1>7. Onto(f, w) = <<i + n, a + u, now>>
    BY <1>3 DEF Onto, Spelling, Worth
  <1>. QED  BY <1>5, <1>6, <1>7 DEF w, Joined

\* What print knows of its string at a turn of the loop.
LEMMA Walking ==
    ASSUME Typed, pc = "walk", Ch(0) # "end"
    PROVE  /\ cmd = "print" /\ call \in Formats /\ IsString(call.str)
           /\ Len(call.str) \in Nat /\ Len(call.args) \in Nat
           /\ index \in Nat \ {0} /\ index \in 1 .. Len(call.str)
           /\ argsIndex \in Nat \ {0} /\ color \in 0 .. 255
           /\ \A k \in Nat : Ch(k) = At(call.str, index + k)
           /\ Ch(0) = At(call.str, index) /\ Ch(0) = call.str[index]
           /\ Within(call.str, index) /\ Stands(call, index, argsIndex, color)
  <1>1. /\ cmd = "print" /\ call \in Formats /\ index \in 1 .. (Len(call.str) + 1)
        /\ argsIndex \in Nat \ {0} /\ color \in 0 .. 255
    BY DEF Typed, InString
  <1>2. IsString(call.str) /\ Len(call.str) \in Nat /\ Len(call.args) \in Nat
    BY <1>1, DisplayAssumption DEF IsString
  <1>3. index \in Nat \ {0} /\ index + 0 = index
    BY <1>1, <1>2
  <1>4. index + 0 <= Len(call.str)
    BY DEF Ch
  <1>5. \A k \in Nat : Ch(k) = At(call.str, index + k)
    BY DEF Ch, At
  <1>6. Ch(0) = At(call.str, index) /\ Ch(0) = call.str[index]
    BY <1>3, <1>4 DEF Ch, At
  <1>7. index \in 1 .. Len(call.str)
    BY <1>1, <1>2, <1>3, <1>4
  <1>8. Within(call.str, index) /\ Stands(call, index, argsIndex, color)
    BY <1>1, <1>7 DEF Stands, Within
  <1>. QED  BY <1>1, <1>2, <1>3, <1>5, <1>6, <1>7, <1>8

\* A directive that the loop meets has an argument.
LEMMA ArgumentThere ==
    ASSUME ArgumentsSuffice, Typed, pc = "walk", Ch(0) = "%", Ch(1) \in Directives
    PROVE  ~(argsIndex > Len(call.args))
  <1>. DEFINE len == Len(call.str)
              D(e) == Cardinality(DirectivesIn(call.str, e))
              n == Len(call.args)
              before == D(index)
              all == D(len)
  <1>1. /\ cmd = "print" /\ call \in Formats /\ len \in Nat /\ n \in Nat
        /\ index \in Nat /\ index \in 1 .. len /\ argsIndex \in Nat
        /\ Ch(0) = call.str[index] /\ Ch(1) = At(call.str, index + 1)
    BY Walking
  <1>2. argsIndex <= before + 1
    BY <1>1 DEF Typed, InString
  <1>3. index + 1 <= len /\ Ch(1) = call.str[index + 1]
    BY <1>1 DEF At, Directives
  <1>4. index \in 1 .. (len - 1) /\ index < len /\ index <= len
    BY <1>1, <1>3
  <1>5. index \in DirectivesIn(call.str, len)
    BY <1>1, <1>3, <1>4 DEF DirectivesIn
  <1>6. before \in Nat /\ before + 1 <= all
    BY <1>1, <1>4, <1>5, DirectivesCounted
  <1>7. all <= n
    BY <1>1 DEF ArgumentsSuffice
  <1>8. all \in Nat
    <2>1. len <= len
      BY <1>1
    <2>. QED  BY <1>1, <2>1, DirectivesCounted
  <1>. HIDE DEF before, all, n
  <1>9. argsIndex <= n
    BY <1>1, <1>2, <1>6, <1>7, <1>8
  <1>10. ~(argsIndex > n)
    BY <1>1, <1>9
  <1>. QED  BY <1>10 DEF n

\* What the string says from where print is.
Rest == FromOf(call)[<<index, argsIndex, color>>]

\* Nothing is said in any color.
LEMMA NothingKeyed ==
    /\ \A c : Keyed(<<>>, c) = <<>>
    /\ \A f \in Formats, w \in Ways : FromOf(f)[w] \in Seq(Keys)
    /\ \A f \in Formats, w \in Ways : Joined(<<>>, FromOf(f)[w]) = FromOf(f)[w]
  <1>1. \A c : Keyed(<<>>, c) = <<>>
    BY DEF Keyed
  <1>2. \A f \in Formats, w \in Ways : FromOf(f)[w] \in Seq(Keys)
    BY FromIs DEF Tells
  <1>3. \A u \in Seq(Keys) : <<>> \o u = u
    OBVIOUS
  <1>. QED  BY <1>1, <1>2, <1>3 DEF Joined

\* A place further on.
LEMMA WayThere ==
    ASSUME NEW i \in Nat \ {0}, NEW n \in Nat, NEW a \in Nat \ {0}, NEW c \in 0 .. 255
    PROVE  <<i + n, a, c>> \in Ways
  <1>1. i + n \in Nat \ {0}
    OBVIOUS
  <1>. QED  BY <1>1 DEF Ways

\* A string in which print meets %#$ is one that resets the color.
LEMMA ResetMet ==
    ASSUME Typed, pc = "walk", Ch(0) = "%", Ch(1) = "#", Ch(2) = "$"
    PROVE  Resets(call.str)
  <1>1. /\ Len(call.str) \in Nat /\ index \in Nat \ {0} /\ index \in 1 .. Len(call.str)
        /\ Ch(0) = call.str[index]
    BY Walking
  <1>2. index + 2 <= Len(call.str) /\ call.str[index + 1] = "#" /\ call.str[index + 2] = "$"
    <2>1. index + 1 <= Len(call.str) /\ call.str[index + 1] = "#"
      BY DEF Ch
    <2>2. index + 2 <= Len(call.str) /\ call.str[index + 2] = "$"
      BY DEF Ch
    <2>. QED  BY <2>1, <2>2
  <1>. DEFINE n == Len(call.str)
  <1>. HIDE DEF n
  <1>3. n \in Nat /\ index + 2 <= n
    BY <1>1, <1>2 DEF n
  <1>4. index \in 1 .. (n - 2)
    BY <1>1, <1>3
  <1>. QED  BY <1>1, <1>2, <1>4 DEF Resets, n

\* The turn of the loop that has met %#.
LEMMA ColorsMean ==
    ASSUME Typed, pc = "walk", Ch(0) = "%", Ch(1) = "#", ~Resets(call.str)
    PROVE  Rest = FromOf(call)[<<index + Colors[2], argsIndex, Colors[1]>>]
  <1>1. /\ call \in Formats /\ IsString(call.str) /\ Len(call.str) \in Nat
        /\ index \in Nat \ {0} /\ index \in 1 .. Len(call.str)
        /\ Within(call.str, index) /\ Stands(call, index, argsIndex, color)
        /\ argsIndex \in Nat \ {0} /\ color \in 0 .. 255
        /\ \A k \in Nat : Ch(k) = At(call.str, index + k)
        /\ Ch(0) = At(call.str, index)
    BY Walking
  <1>. DEFINE t == Longest(call.str, index)
              W(n, now, s) == Worth(t, call.args, argsIndex, color, n, 0, now, s)
  <1>2. argsIndex + 0 = argsIndex
    BY <1>1
  <1>3. ASSUME NEW n, NEW now, NEW s, W(n, now, s)
        PROVE  Rest = Joined(Keyed(s, now), FromOf(call)[<<index + n, argsIndex, now>>])
    <2>1. ASSUME NEW u, Worth(t, call.args, argsIndex, color, n, u, now, s)
          PROVE  Rest = Joined(Keyed(s, now), FromOf(call)[<<index + n, argsIndex + u, now>>])
      <3>1. call \in Formats /\ Stands(call, index, argsIndex, color)
        BY <1>1
      <3>. QED  BY <2>1, <3>1, Further DEF Rest
    <2>2. Rest = Joined(Keyed(s, now), FromOf(call)[<<index + n, argsIndex + 0, now>>])
      BY <1>3, <2>1
    <2>. QED  BY <1>2, <2>2, Zenon
  <1>4. Ch(1) = At(call.str, index + 1) /\ Ch(2) = At(call.str, index + 2) /\ Ch(3) = At(call.str, index + 3)
    BY <1>1
  <1>5. /\ Colors[1] \in 0 .. 255 /\ Colors[2] \in {2, 3, 4}
    BY ColorsBound
  <1>6. <<index + Colors[2], argsIndex, Colors[1]>> \in Ways
    <2>1. Colors[2] \in Nat
      BY <1>5
    <2>. QED  BY <1>1, <1>5, <2>1, WayThere
  <1>7. ASSUME W(Colors[2], Colors[1], <<>>)
        PROVE  Rest = FromOf(call)[<<index + Colors[2], argsIndex, Colors[1]>>]
    <2>1. Rest = Joined(<<>>, FromOf(call)[<<index + Colors[2], argsIndex, Colors[1]>>])
      BY <1>3, <1>7, NothingKeyed
    <2>. QED  BY <1>1, <1>6, <2>1, NothingKeyed
  <1>8. IF Ch(2) = "$" THEN t = <<"%", "#", "$">>
        ELSE IF Ch(2) \notin DOMAIN Hex THEN t = <<"%", "#">>
        ELSE IF Ch(3) \notin DOMAIN Hex THEN t = <<"%", "#", Ch(2)>>
        ELSE t = <<"%", "#", Ch(2), Ch(3)>>
    <2>1. IsString(call.str) /\ Within(call.str, index)
          /\ At(call.str, index) = "%" /\ At(call.str, index + 1) = "#"
      BY <1>1, <1>4
    <2>. QED  BY <1>4, <2>1, Reading
  <1>9. CASE Ch(2) = "$"
    BY <1>9, ResetMet
  <1>10. CASE Ch(2) # "$" /\ Ch(2) \notin DOMAIN Hex
    <2>1. Digits = 0
      BY <1>10 DEF Digits
    <2>2. Colors = <<color, 2>>
      BY <1>10, <2>1 DEF Colors
    <2>3. W(2, color, <<>>)
      BY <1>8, <1>10, Worths
    <2>. QED  BY <1>7, <2>2, <2>3
  <1>11. CASE Ch(2) # "$" /\ Ch(2) \in DOMAIN Hex /\ Ch(3) \notin DOMAIN Hex
    <2>1. Digits = 1
      BY <1>11 DEF Digits
    <2>2. Colors = <<(16 * (DEFAULT_COLOR \div 16)) + Hex[Ch(2)], 3>>
      BY <1>11, <2>1 DEF Colors
    <2>3. W(3, (DEFAULT_COLOR - (DEFAULT_COLOR % 16)) + Hex[Ch(2)], <<>>)
      BY <1>8, <1>11, Worths
    <2>4. 16 * (DEFAULT_COLOR \div 16) = DEFAULT_COLOR - (DEFAULT_COLOR % 16)
      <3>1. DEFAULT_COLOR \in Nat
        BY DisplayAssumption
      <3>. QED  BY <3>1
    <2>. QED  BY <1>7, <2>2, <2>3, <2>4
  <1>12. CASE Ch(2) # "$" /\ Ch(2) \in DOMAIN Hex /\ Ch(3) \in DOMAIN Hex
    <2>1. Digits = 2
      BY <1>12 DEF Digits
    <2>2. Colors = <<(16 * Hex[Ch(3)]) + Hex[Ch(2)], 4>>
      BY <1>12, <2>1 DEF Colors
    <2>3. W(4, Hex[Ch(2)] + (16 * Hex[Ch(3)]), <<>>)
      BY <1>8, <1>12, Worths
    <2>. DEFINE p == Hex[Ch(2)]
                q == Hex[Ch(3)]
    <2>4. p \in Nat /\ q \in Nat
      BY <1>12, DisplayAssumption
    <2>. HIDE DEF p, q
    <2>5. (16 * q) + p = p + (16 * q)
      BY <2>4
    <2>. QED  BY <1>7, <2>2, <2>3, <2>5 DEF p, q
  <1>. QED  BY <1>9, <1>10, <1>11, <1>12

\* A turn of the loop prints what the string says next.
LEMMA TurnMeans ==
    ASSUME ArgumentsSuffice, Typed, print_turn
    PROVE  /\ ~Resets(call.str) => Rest = Joined(Keyed(chars', color'), Rest')
           /\ chars' \in Seq(Chr)
  <1>1. pc = "walk" /\ Ch(0) # "end" /\ call' = call
    BY DEF print_turn
  <1>2. /\ call \in Formats /\ IsString(call.str) /\ Len(call.str) \in Nat /\ Len(call.args) \in Nat
        /\ index \in Nat \ {0} /\ index \in 1 .. Len(call.str)
        /\ Within(call.str, index) /\ Stands(call, index, argsIndex, color)
        /\ argsIndex \in Nat \ {0} /\ color \in 0 .. 255
        /\ \A k \in Nat : Ch(k) = At(call.str, index + k)
        /\ Ch(0) = At(call.str, index) /\ Ch(0) = call.str[index]
    BY <1>1, Walking
  <1>. DEFINE t == Longest(call.str, index)
              W(n, a, s) == Worth(t, call.args, argsIndex, color, n, a, color, s)
  <1>3. argsIndex + 0 = argsIndex
    BY <1>2
  <1>4. ASSUME NEW n, NEW a, NEW s, W(n, a, s), Turn(s, n, a, color)
        PROVE  Rest = Joined(Keyed(chars', color'), Rest') /\ chars' = s
    <2>1. Rest = Joined(Keyed(s, color), FromOf(call)[<<index + n, argsIndex + a, color>>])
      <3>1. call \in Formats /\ Stands(call, index, argsIndex, color)
        BY <1>2
      <3>. QED  BY <1>4, <3>1, Further DEF Rest
    <2>2. chars' = s /\ index' = index + n /\ argsIndex' = argsIndex + a /\ color' = color
      BY <1>4 DEF Turn
    <2>. QED  BY <1>1, <2>1, <2>2 DEF Rest
  <1>5. Ch(1) = At(call.str, index + 1)
    BY <1>2
  <1>6. /\ "%" \in Chr /\ call.str[index] \in Chr
        /\ \A s \in Seq(STRING) : s \in Seq(Chr)
        /\ \A x \in Chr : <<x>> \in Seq(Chr)
        /\ <<>> \in Seq(Chr)
    <2>1. call.str \in Seq(STRING) /\ index \in 1 .. Len(call.str)
      BY <1>2 DEF IsString
    <2>2. call.str[index] \in STRING
      BY <2>1, ElementOfSeq
    <2>. QED  BY <2>2 DEF Chr
  <1>7. CASE Ch(0) # "%" /\ Turn(<<Ch(0)>>, 1, 0, color)
    <2>1. t = <<Ch(0)>>
      BY <1>2, <1>7, Reading
    <2>2. W(1, 0, <<Ch(0)>>)
      BY <2>1, Worths
    <2>3. <<Ch(0)>> \in Seq(Chr)
      BY <1>2, <1>6
    <2>. QED  BY <1>4, <1>7, <2>2, <2>3
  <1>8. CASE /\ Ch(0) = "%" /\ Ch(1) \in Directives
             /\ Turn(Text(Ch(1), call.args[argsIndex]), 2, 1, color)
    <2>1. t = <<"%", Ch(1)>>
      BY <1>2, <1>5, <1>8, Reading
    <2>2. ~(argsIndex > Len(call.args))
      BY <1>1, <1>8, ArgumentThere
    <2>3. W(2, 1, Text(Ch(1), call.args[argsIndex]))
      BY <1>8, <2>1, <2>2, Worths
    <2>4. argsIndex \in 1 .. Len(call.args)
      <3>. DEFINE n == Len(call.args)
      <3>1. n \in Nat /\ argsIndex \in Nat \ {0} /\ ~(argsIndex > n)
        BY <1>2, <2>2
      <3>. HIDE DEF n
      <3>2. argsIndex \in 1 .. n
        BY <3>1
      <3>. QED  BY <3>2 DEF n
    <2>5. Text(Ch(1), call.args[argsIndex]) \in Seq(STRING)
      BY <1>2, <1>8, <2>4, DisplayAssumption
    <2>6. Text(Ch(1), call.args[argsIndex]) \in Seq(Chr)
      BY <1>6, <2>5
    <2>. QED  BY <1>4, <1>8, <2>3, <2>6
  <1>9. CASE Ch(0) = "%" /\ Ch(1) = "#" /\ Turn(<<>>, Colors[2], 0, Colors[1])
    <2>1. ~Resets(call.str) => Rest = FromOf(call)[<<index + Colors[2], argsIndex, Colors[1]>>]
      BY <1>1, <1>9, ColorsMean
    <2>2. chars' = <<>> /\ index' = index + Colors[2] /\ argsIndex' = argsIndex /\ color' = Colors[1]
      BY <1>3, <1>9 DEF Turn
    <2>3. ~Resets(call.str) => Rest = Rest'
      BY <1>1, <2>1, <2>2 DEF Rest
    <2>4. Colors[1] \in 0 .. 255 /\ Colors[2] \in {2, 3, 4}
      BY <1>1, <1>9, ColorsBound
    <2>5. <<index + Colors[2], argsIndex, Colors[1]>> \in Ways
      <3>1. Colors[2] \in Nat
        BY <2>4
      <3>. QED  BY <1>2, <2>4, <3>1, WayThere
    <2>6. ~Resets(call.str) => Rest = Joined(Keyed(chars', color'), Rest')
      BY <1>2, <2>1, <2>2, <2>3, <2>5, NothingKeyed
    <2>. QED  BY <1>6, <2>2, <2>6
  <1>10. CASE Ch(0) = "%" /\ Ch(1) = "%" /\ Turn(<<"%">>, 2, 0, color)
    <2>1. t = <<"%", "%">>
      BY <1>2, <1>5, <1>10, Reading
    <2>2. W(2, 0, <<"%">>)
      BY <2>1, Worths
    <2>3. <<"%">> \in Seq(Chr)
      BY <1>6
    <2>. QED  BY <1>4, <1>10, <2>2, <2>3
  <1>11. CASE Ch(0) = "%" /\ Ch(1) \notin Directives \cup {"#", "%"} /\ Unknown
    <2>1. t = <<"%">>
      BY <1>2, <1>5, <1>11, Reading
    <2>2. W(1, 0, <<"%">>)
      BY <2>1, Worths
    <2>3. Turn(<<"%">>, 1, 0, color)
      BY <1>11 DEF Unknown
    <2>4. <<"%">> \in Seq(Chr)
      BY <1>6
    <2>. QED  BY <1>4, <2>2, <2>3, <2>4
  <1>. QED  BY <1>7, <1>8, <1>9, <1>10, <1>11 DEF print_turn

-----------------------------------------------------------------------------
(* What has been typed.                                                     *)

\* What Own computes.
LEMMA OwnDefined ==
    ASSUME NEW K, NEW s \in Seq(K)
    PROVE  \E o : /\ o \in [0 .. Len(s) -> Seq(K)] /\ o[0] = <<>>
                  /\ \A k \in 1 .. Len(s) :
                        o[k] = IF s[k].tick THEN o[k - 1] ELSE Append(o[k - 1], s[k])
                  /\ Own(s) = o[Len(s)]
  <1>. DEFINE N == 0 .. Len(s)
              rank == [k \in N |-> k]
              before == [k \in N |-> IF k = 0 THEN 0 ELSE k - 1]
              base == [k \in N |-> <<>>]
              On(k, v) == IF s[k].tick THEN v ELSE Append(v, s[k])
              step == [k \in N |-> [v \in Seq(K) |-> IF k = 0 THEN v ELSE On(k, v)]]
              Is(o) == o = [k \in N |-> IF k = 0 THEN <<>> ELSE On(k, o[k - 1])]
  <1>1. Len(s) \in Nat /\ \A k \in 1 .. Len(s) : s[k] \in K
    OBVIOUS
  <1>2. \A k \in 1 .. Len(s), v \in Seq(K) : On(k, v) \in Seq(K)
    <2>. TAKE k \in 1 .. Len(s), v \in Seq(K)
    <2>1. Append(v, s[k]) \in Seq(K)
      BY <1>1, AppendProperties
    <2>. QED  BY <2>1
  <1>. HIDE DEF On
  <1>3. Descends(N, Seq(K), rank, before, {0}, base, step)
    <2>1. step \in [N -> [Seq(K) -> Seq(K)]]
      BY <1>1, <1>2
    <2>2. /\ rank \in [N -> Nat] /\ before \in [N -> N] /\ base \in [N -> Seq(K)]
          /\ \A x \in N \ {0} : rank[before[x]] < rank[x]
      BY <1>1
    <2>. QED  BY <2>1, <2>2 DEF Descends
  <1>4. PICK r : Solves(r, N, Seq(K), before, {0}, base, step)
    <2>. HIDE DEF N, rank, before, base, step
    <2>. QED  BY <1>3, Recursion
  <1>5. r \in [N -> Seq(K)] /\ r[0] = <<>> /\ \A k \in 1 .. Len(s) : r[k] = On(k, r[k - 1])
    <2>1. /\ r \in [N -> Seq(K)]
          /\ \A k \in N : r[k] = IF k \in {0} THEN base[k] ELSE step[k][r[before[k]]]
      BY <1>4 DEF Solves
    <2>2. 0 \in N /\ base[0] = <<>>
      BY <1>1
    <2>3. ASSUME NEW k \in 1 .. Len(s) PROVE r[k] = On(k, r[k - 1])
      <3>1. k \in N /\ k # 0 /\ before[k] = k - 1 /\ k - 1 \in N
        BY <1>1
      <3>2. r[k] = step[k][r[k - 1]] /\ r[k - 1] \in Seq(K)
        BY <2>1, <3>1
      <3>3. step[k][r[k - 1]] = On(k, r[k - 1])
        BY <3>1, <3>2
      <3>. QED  BY <3>2, <3>3
    <2>4. r[0] = <<>>
      <3>. HIDE DEF N, base
      <3>. QED  BY <2>1, <2>2
    <2>. QED  BY <2>1, <2>3, <2>4
  <1>6. Is(r)
    <2>1. \A k \in N : k # 0 => k \in 1 .. Len(s)
      BY <1>1
    <2>2. \A k \in N : r[k] = IF k = 0 THEN <<>> ELSE On(k, r[k - 1])
      BY <1>5, <2>1
    <2>3. r = [k \in N |-> r[k]]
      BY <1>5
    <2>. HIDE DEF N
    <2>. QED  BY <2>2, <2>3
  <1>. DEFINE q == CHOOSE h : Is(h)
  <1>7. Is(q) /\ Own(s) = q[Len(s)]
    <2>1. Is(q)
      <3>. HIDE DEF Is
      <3>. QED  BY <1>6
    <2>2. Own(s) = q[Len(s)]
      BY DEF Own, On
    <2>. QED  BY <2>1, <2>2
  <1>. HIDE DEF q
  <1>8. q[0] = <<>> /\ \A k \in 1 .. Len(s) : q[k] = On(k, q[k - 1])
    <2>1. q = [k \in N |-> IF k = 0 THEN <<>> ELSE On(k, q[k - 1])]
      BY <1>7
    <2>2. q[0] = <<>>
      BY <1>1, <2>1
    <2>3. ASSUME NEW k \in 1 .. Len(s) PROVE q[k] = On(k, q[k - 1])
      <3>1. k \in N /\ k # 0
        BY <1>1
      <3>. HIDE DEF N
      <3>. QED  BY <2>1, <3>1
    <2>. QED  BY <2>2, <2>3
  <1>9. \A k \in 0 .. Len(s) : q[k] = r[k]
    <2>. DEFINE S == {x \in 0 .. Len(s) : q[x] = r[x]}
    <2>1. 0 \in S
      BY <1>1, <1>5, <1>8
    <2>2. ASSUME NEW k \in 0 .. (Len(s) - 1), k \in S PROVE k + 1 \in S
      <3>1. k + 1 \in 1 .. Len(s) /\ (k + 1) - 1 = k /\ k + 1 \in 0 .. Len(s)
        BY <1>1
      <3>2. q[k + 1] = On(k + 1, q[k]) /\ r[k + 1] = On(k + 1, r[k])
        BY <1>5, <1>8, <3>1
      <3>3. q[k] = r[k]
        BY <2>2
      <3>. QED  BY <3>1, <3>2, <3>3
    <2>. HIDE DEF S
    <2>3. \A k \in 0 .. Len(s) : k \in S
      BY <1>1, <2>1, <2>2, InductionTo
    <2>. QED  BY <2>3 DEF S
  <1>10. Own(s) = r[Len(s)]
    BY <1>1, <1>7, <1>9
  <1>. QED  BY <1>5, <1>10 DEF On

\* One more character.
LEMMA OwnAppend ==
    ASSUME NEW K, NEW s \in Seq(K), NEW g \in K
    PROVE  /\ Own(s) \in Seq(K)
           /\ Own(Append(s, g)) = IF g.tick THEN Own(s) ELSE Append(Own(s), g)
  <1>. DEFINE t == Append(s, g)
  <1>1. /\ t \in Seq(K) /\ Len(t) = Len(s) + 1 /\ t[Len(s) + 1] = g
        /\ \A k \in 1 .. Len(s) : t[k] = s[k]
    BY AppendProperties
  <1>2. Len(s) \in Nat
    OBVIOUS
  <1>. HIDE DEF t
  <1>3. PICK r : /\ r \in [0 .. Len(s) -> Seq(K)] /\ r[0] = <<>>
                 /\ \A k \in 1 .. Len(s) :
                       r[k] = IF s[k].tick THEN r[k - 1] ELSE Append(r[k - 1], s[k])
                 /\ Own(s) = r[Len(s)]
    BY OwnDefined
  <1>4. PICK q : /\ q \in [0 .. Len(t) -> Seq(K)] /\ q[0] = <<>>
                 /\ \A k \in 1 .. Len(t) :
                       q[k] = IF t[k].tick THEN q[k - 1] ELSE Append(q[k - 1], t[k])
                 /\ Own(t) = q[Len(t)]
    BY <1>1, OwnDefined
  <1>. DEFINE S == {k \in 0 .. Len(s) : q[k] = r[k]}
  <1>5. 0 \in S
    BY <1>2, <1>3, <1>4
  <1>6. ASSUME NEW k \in 0 .. (Len(s) - 1), k \in S PROVE k + 1 \in S
    <2>1. k + 1 \in 1 .. Len(s) /\ k + 1 \in 1 .. Len(t) /\ (k + 1) - 1 = k /\ k + 1 \in 0 .. Len(s)
      BY <1>1, <1>2
    <2>2. /\ q[k + 1] = IF t[k + 1].tick THEN q[k] ELSE Append(q[k], t[k + 1])
          /\ r[k + 1] = IF s[k + 1].tick THEN r[k] ELSE Append(r[k], s[k + 1])
      BY <1>3, <1>4, <2>1
    <2>3. q[k] = r[k] /\ t[k + 1] = s[k + 1]
      BY <1>1, <1>6, <2>1
    <2>. QED  BY <2>1, <2>2, <2>3
  <1>7. q[Len(s)] = r[Len(s)]
    <2>. HIDE DEF S
    <2>1. \A k \in 0 .. Len(s) : k \in S
      BY <1>2, <1>5, <1>6, InductionTo
    <2>. QED  BY <1>2, <2>1 DEF S
  <1>8. q[Len(t)] = IF g.tick THEN q[Len(s)] ELSE Append(q[Len(s)], g)
    <2>1. Len(t) \in 1 .. Len(t) /\ Len(t) - 1 = Len(s) /\ t[Len(t)] = g
      BY <1>1, <1>2
    <2>. QED  BY <1>4, <2>1
  <1>9. Own(s) \in Seq(K)
    BY <1>2, <1>3
  <1>. QED  BY <1>3, <1>4, <1>7, <1>8, <1>9 DEF t

\* Nothing.
LEMMA OwnNothing == Own(<<>>) = <<>>
  <1>1. <<>> \in Seq({}) /\ Len(<<>>) = 0
    OBVIOUS
  <1>. QED  BY <1>1, OwnDefined

\* What each step does to what is typed and to what is still to be typed.
LEMMA TypedLeaves ==
    ASSUME [Next]_vars
    PROVE  \/ \E ch \in Characters : putc(ch)
           \/ \E ch \in TickCharacters : Tick(ch)
           \/ \E f \in Formats : print(f)
           \/ printChar \/ print_turn
           \/ Return /\ UNCHANGED chars /\ (chars = <<>> \/ pc = "walk" \/ cmd = "cursor")
           \/ /\ pc = "idle" /\ cmd' \in {"clear", "cursor"} /\ pc' \in {"get", "set"}
              /\ typed' = <<>> /\ UNCHANGED <<chars, index, argsIndex, color>>
           \/ /\ UNCHANGED <<typed, chars, cmd, walk>>
              /\ pc' = "walk" => pc = "walk" \/ chars = <<>>
  <1>. DEFINE Over == Return /\ UNCHANGED chars /\ (chars = <<>> \/ pc = "walk" \/ cmd = "cursor")
              Calls == /\ pc = "idle" /\ cmd' \in {"clear", "cursor"} /\ pc' \in {"get", "set"}
                       /\ typed' = <<>> /\ UNCHANGED <<chars, index, argsIndex, color>>
              Goes  == /\ UNCHANGED <<typed, chars, cmd, walk>>
                       /\ pc' = "walk" => pc = "walk" \/ chars = <<>>
  <1>1. CASE clear
    BY <1>1 DEF clear, Called, walk
  <1>2. CASE \E m \in Moves : cursor_set(m[1], m[2]) \/ cursor_get(m)
    BY <1>2 DEF cursor_set, cursor_get, Called, Aim, walk
  <1>3. CASE cursor_get(<<>>)
    BY <1>3 DEF cursor_get, Called
  <1>4. CASE get_cursor \/ set_cursor
    <2>1. /\ UNCHANGED <<typed, chars, cmd, walk>>
          /\ pc' \in {"get high", "get more", "get low", "got", "set high", "set more", "set low", "next"}
      BY <1>4 DEF get_cursor, set_cursor, Select, Read, Write
    <2>. QED  BY <2>1
  <1>5. CASE Continue \/ cursor_add
    BY <1>5 DEF Continue, cursor_add, Aim
  <1>6. CASE Done \/ cursor_tell \/ print_returns
    <2>1. Over
      BY <1>6 DEF Done, cursor_tell, print_returns
    <2>. QED  BY <2>1
  <1>7. CASE UNCHANGED vars
    BY <1>7 DEF vars
  <1>. HIDE DEF Calls, Goes, Over
  <1>. QED  BY <1>1, <1>2, <1>3, <1>4, <1>5, <1>6, <1>7 DEF Next, Command, Calls, Goes, Over

\* Texts, one after another.
LEMMA JoinedTexts ==
    /\ \A u, v \in Seq(Keys) : Joined(u, v) \in Seq(Keys)
    /\ \A u \in Seq(Keys) : Joined(u, <<>>) = u /\ Joined(<<>>, u) = u
    /\ \A u, v, w \in Seq(Keys) : Joined(u, Joined(v, w)) = Joined(Joined(u, v), w)
  <1>1. \A u, v, w \in Seq(Keys) : u \o (v \o w) = (u \o v) \o w
    OBVIOUS
  <1>2. \A u, v \in Seq(Keys) : u \o v \in Seq(Keys)
    OBVIOUS
  <1>3. \A u \in Seq(Keys) : u \o <<>> = u /\ <<>> \o u = u
    OBVIOUS
  <1>. QED  BY <1>1, <1>2, <1>3 DEF Joined

\* The first character of a text joins those before it.
LEMMA KeyedOn ==
    ASSUME NEW u \in Seq(Keys), NEW s \in Seq(Chr), s # <<>>, NEW c \in 0 .. 255
    PROVE  Joined(u, Keyed(s, c)) = Joined(Append(u, Key(Head(s), c, FALSE)), Keyed(Tail(s), c))
  <1>. DEFINE g == Key(Head(s), c, FALSE)
              r == Keyed(Tail(s), c)
              n == Len(s)
  <1>1. n \in Nat \ {0} /\ Head(s) = s[1] /\ Head(s) \in Chr
        /\ Tail(s) \in Seq(Chr) /\ Len(Tail(s)) = n - 1
        /\ \A k \in 1 .. (n - 1) : Tail(s)[k] = s[k + 1]
    BY HeadTailProperties, EmptySeq
  <1>2. /\ Keyed(s, c) \in Seq(Keys) /\ Len(Keyed(s, c)) = n
        /\ \A k \in 1 .. n : Keyed(s, c)[k] = Key(s[k], c, FALSE)
    BY KeyedText
  <1>3. /\ r \in Seq(Keys) /\ Len(r) = n - 1
        /\ \A k \in 1 .. (n - 1) : r[k] = Key(Tail(s)[k], c, FALSE)
    BY <1>1, KeyedText
  <1>4. g \in Keys
    BY <1>1 DEF Key, Keys
  <1>. HIDE DEF g, r, n
  <1>5. Keyed(s, c) = <<g>> \o r
    <2>1. <<g>> \o r \in Seq(Keys) /\ Len(<<g>> \o r) = n
          /\ \A k \in 1 .. n : (<<g>> \o r)[k] = IF k = 1 THEN g ELSE r[k - 1]
      BY <1>1, <1>3, <1>4
    <2>2. \A k \in 1 .. n : Keyed(s, c)[k] = (<<g>> \o r)[k]
      <3>. SUFFICES ASSUME NEW k \in 1 .. n PROVE Keyed(s, c)[k] = (<<g>> \o r)[k]
        OBVIOUS
      <3>1. CASE k = 1
        BY <1>1, <1>2, <2>1, <3>1 DEF g
      <3>2. CASE k # 1
        <4>1. k - 1 \in 1 .. (n - 1) /\ (k - 1) + 1 = k
          BY <1>1, <3>2
        <4>2. r[k - 1] = Key(s[k], c, FALSE)
          BY <1>1, <1>3, <4>1
        <4>. QED  BY <1>2, <2>1, <3>2, <4>2
      <3>. QED  BY <3>1, <3>2
    <2>. DEFINE x == Keyed(s, c)
                y == <<g>> \o r
    <2>3. x \in Seq(Keys) /\ y \in Seq(Keys) /\ Len(x) = Len(y)
          /\ \A k \in 1 .. Len(x) : x[k] = y[k]
      BY <1>2, <2>1, <2>2
    <2>. HIDE DEF x, y
    <2>4. x = y
      BY <2>3, SeqEqual
    <2>. QED  BY <2>4 DEF x, y
  <1>6. Append(u, g) = u \o <<g>>
    BY <1>4
  <1>7. u \o (<<g>> \o r) = (u \o <<g>>) \o r
    BY <1>3, <1>4
  <1>. QED  BY <1>5, <1>6, <1>7 DEF Joined, g, r

-----------------------------------------------------------------------------
(* What is typed and what is still to be said.                              *)

\* What print has typed, what it is about to type and what the rest of its string
\* says are together what the string says.
OnTheWay == Joined(Joined(Own(typed), Keyed(chars, color)), Rest)
Silent   == cmd \in {"none", "clear", "cursor"} \/ pc = "walk"
Meant ==
    /\ typed \in Seq(Keys) /\ chars \in Seq(Chr)
    /\ Silent => chars = <<>>
    /\ cmd # "print" => color = DEFAULT_COLOR
    /\ cmd = "print" /\ ~Resets(call.str) => OnTheWay = Meaning(call)

\* Where print is in its string, by the types.
LEMMA RestThere ==
    ASSUME Typed, cmd = "print"
    PROVE  /\ call \in Formats /\ <<index, argsIndex, color>> \in Ways
           /\ Rest \in Seq(Keys) /\ color \in 0 .. 255
  <1>1. /\ call \in Formats /\ index \in 1 .. (Len(call.str) + 1)
        /\ argsIndex \in Nat \ {0} /\ color \in 0 .. 255
    BY DEF Typed, InString
  <1>2. index \in Nat \ {0}
    BY <1>1, DisplayAssumption
  <1>3. <<index, argsIndex, color>> \in Ways
    BY <1>1, <1>2 DEF Ways
  <1>. QED  BY <1>1, <1>3, NothingKeyed DEF Rest

\* A character typed, and a tick's.
LEMMA OwnKeys ==
    ASSUME NEW s \in Seq(Keys), NEW h \in Chr, NEW c \in 0 .. 255
    PROVE  /\ Own(s) \in Seq(Keys)
           /\ Append(s, Key(h, c, FALSE)) \in Seq(Keys) /\ Append(s, Key(h, c, TRUE)) \in Seq(Keys)
           /\ Own(Append(s, Key(h, c, FALSE))) = Append(Own(s), Key(h, c, FALSE))
           /\ Own(Append(s, Key(h, c, TRUE))) = Own(s)
  <1>1. \A t \in BOOLEAN : Key(h, c, t) \in Keys /\ Key(h, c, t).tick = t
    BY DEF Key, Keys
  <1>2. \A t \in BOOLEAN : Append(s, Key(h, c, t)) \in Seq(Keys)
    BY <1>1
  <1>3. \A t \in BOOLEAN : Own(Append(s, Key(h, c, t))) = IF t THEN Own(s) ELSE Append(Own(s), Key(h, c, t))
    BY <1>1, OwnAppend
  <1>4. Own(s) \in Seq(Keys)
    BY <1>1, OwnAppend
  <1>. QED  BY <1>2, <1>3, <1>4

\* The colors and the characters of the callers.
LEMMA Callers ==
    /\ DEFAULT_COLOR \in 0 .. 255 /\ <<>> \in Seq(Keys) /\ <<>> \in Seq(Chr)
    /\ \A ch \in Characters \cup TickCharacters : ch \in Chr /\ <<ch>> \in Seq(Chr)
  <1>1. \A ch \in Characters \cup TickCharacters : ch \in STRING
    BY DisplayAssumption
  <1>2. \A ch \in STRING : ch \in Chr /\ <<ch>> \in Seq(Chr)
    BY DEF Chr
  <1>3. DEFAULT_COLOR \in 0 .. 255
    BY DisplayAssumption
  <1>4. <<>> \in Seq(Keys) /\ <<>> \in Seq(Chr)
    OBVIOUS
  <1>. QED  BY <1>1, <1>2, <1>3, <1>4

\* At the start nothing is typed.
LEMMA MeantInitially == Init => Meant
  <1>. SUFFICES ASSUME Init PROVE Meant
    OBVIOUS
  <1>. QED  BY Callers DEF Init, Meant, Silent

\* printChar types what it was about to type.
LEMMA PrintCharMeans ==
    ASSUME Typed, Meant, printChar
    PROVE  Meant'
  <1>1. /\ pc = "got" /\ chars # <<>> /\ pc' = "set" /\ UNCHANGED <<cmd, call, index, argsIndex, color>>
        /\ typed' = Append(typed, Key(Head(chars), color, FALSE)) /\ chars' = Tail(chars)
    <2>1. PICK g \in {Shown(Head(chars), color)} : typed' = Append(typed, Key(g.ch, g.color, FALSE))
      BY DEF printChar
    <2>2. g.ch = Head(chars) /\ g.color = color
      BY <2>1 DEF Shown
    <2>3. typed' = Append(typed, Key(Head(chars), color, FALSE))
      BY <2>1, <2>2
    <2>4. /\ pc = "got" /\ chars # <<>> /\ pc' = "set" /\ chars' = Tail(chars)
          /\ UNCHANGED <<cmd, call, index, argsIndex, color>>
      BY DEF printChar, walk
    <2>. QED  BY <2>3, <2>4
  <1>2. typed \in Seq(Keys) /\ chars \in Seq(Chr) /\ color \in 0 .. 255 /\ ~Silent
    BY <1>1 DEF Meant, Typed, InString
  <1>3. Head(chars) \in Chr /\ Tail(chars) \in Seq(Chr)
    BY <1>1, <1>2
  <1>. DEFINE g == Key(Head(chars), color, FALSE)
  <1>4. Own(typed) \in Seq(Keys) /\ typed' \in Seq(Keys) /\ Own(typed') = Append(Own(typed), g)
    BY <1>1, <1>2, <1>3, OwnKeys
  <1>5. Joined(Own(typed), Keyed(chars, color)) = Joined(Append(Own(typed), g), Keyed(Tail(chars), color))
    BY <1>1, <1>2, <1>4, KeyedOn
  <1>6. OnTheWay' = OnTheWay
    BY <1>1, <1>4, <1>5 DEF OnTheWay, Rest
  <1>7. ~Silent'
    BY <1>1, <1>2 DEF Silent
  <1>. QED  BY <1>1, <1>3, <1>4, <1>6, <1>7 DEF Meant

\* A turn of the loop is about to type what its string says next.
LEMMA PrintTurnMeans ==
    ASSUME ArgumentsSuffice, Typed, Meant, print_turn, Typed'
    PROVE  Meant'
  <1>1. /\ pc = "walk" /\ UNCHANGED <<cmd, call, typed>> /\ cmd = "print"
        /\ pc' = (IF chars' = <<>> THEN "walk" ELSE "get")
    BY DEF print_turn, Typed, InString
  <1>2. /\ ~Resets(call.str) => Rest = Joined(Keyed(chars', color'), Rest')
        /\ chars' \in Seq(Chr)
    BY TurnMeans
  <1>3. /\ typed \in Seq(Keys) /\ chars = <<>> /\ cmd' = "print"
        /\ ~Resets(call.str) => OnTheWay = Meaning(call)
    BY <1>1 DEF Meant, Silent
  <1>4. Own(typed) \in Seq(Keys)
    <2>1. <<>> \in Seq(Keys) /\ DEFAULT_COLOR \in 0 .. 255 /\ "%" \in Chr
      BY Callers DEF Chr
    <2>. QED  BY <1>3, <2>1, OwnKeys
  <1>5. Rest' \in Seq(Keys) /\ color' \in 0 .. 255
    <2>1. call' \in Formats /\ <<index', argsIndex', color'>> \in Ways /\ color' \in 0 .. 255
      <3>1. /\ call' \in Formats /\ index' \in 1 .. (Len(call'.str) + 1)
            /\ argsIndex' \in Nat \ {0} /\ color' \in 0 .. 255
        BY <1>3 DEF Typed, InString
      <3>2. index' \in Nat \ {0}
        BY <3>1, DisplayAssumption
      <3>. QED  BY <3>1, <3>2 DEF Ways
    <2>. QED  BY <2>1, NothingKeyed DEF Rest
  <1>6. Keyed(chars', color') \in Seq(Keys)
    BY <1>2, <1>5, KeyedText
  <1>7. OnTheWay = Joined(Own(typed), Rest)
    BY <1>3, <1>4, JoinedTexts, NothingKeyed DEF OnTheWay
  <1>8. OnTheWay' = Joined(Joined(Own(typed), Keyed(chars', color')), Rest')
    BY <1>1 DEF OnTheWay
  <1>9. ~Resets(call.str) => OnTheWay' = OnTheWay
    BY <1>2, <1>4, <1>5, <1>6, <1>7, <1>8, JoinedTexts
  <1>10. Silent' => chars' = <<>>
    BY <1>1, <1>3 DEF Silent
  <1>. QED  BY <1>1, <1>2, <1>3, <1>9, <1>10 DEF Meant

\* A call of print has all of its string to type.
LEMMA PrintMeans ==
    ASSUME Typed, Meant, NEW f \in Formats, print(f)
    PROVE  Meant'
  <1>1. /\ pc = "idle" /\ cmd' = "print" /\ typed' = <<>> /\ call' = f /\ pc' = "walk"
        /\ UNCHANGED <<index, argsIndex, color, chars>>
    BY DEF print, Called
  <1>2. cmd = "none" /\ index = 1 /\ argsIndex = 1
    BY <1>1 DEF Typed, InString
  <1>3. chars = <<>> /\ color = DEFAULT_COLOR
    BY <1>2 DEF Meant, Silent
  <1>4. Rest' = Meaning(f)
    BY <1>1, <1>2, <1>3, FromIs DEF Rest
  <1>5. <<1, 1, DEFAULT_COLOR>> \in Ways
    BY Callers DEF Ways
  <1>6. Rest' \in Seq(Keys)
    BY <1>1, <1>2, <1>3, <1>5, NothingKeyed DEF Rest
  <1>7. OnTheWay' = Joined(Joined(<<>>, <<>>), Rest')
    BY <1>1, <1>3, OwnNothing, NothingKeyed DEF OnTheWay
  <1>8. OnTheWay' = Meaning(call')
    BY <1>1, <1>4, <1>6, <1>7, Callers, JoinedTexts
  <1>. QED  BY <1>1, <1>3, <1>8, Callers DEF Meant

\* A tick's character is left out.
LEMMA TickMeans ==
    ASSUME Typed, Meant, NEW ch \in TickCharacters, Tick(ch)
    PROVE  Meant'
  <1>1. /\ typed' = Append(typed, Key(ch, DEFAULT_COLOR, TRUE))
        /\ UNCHANGED <<cmd, pc, call, index, argsIndex, color, chars>>
    BY DEF Tick, walk
  <1>2. typed \in Seq(Keys) /\ ch \in Chr /\ DEFAULT_COLOR \in 0 .. 255
    BY Callers DEF Meant
  <1>3. typed' \in Seq(Keys) /\ Own(typed') = Own(typed)
    BY <1>1, <1>2, OwnKeys
  <1>4. OnTheWay' = OnTheWay /\ Silent' = Silent
    BY <1>1, <1>3 DEF OnTheWay, Rest, Silent
  <1>. QED  BY <1>1, <1>3, <1>4 DEF Meant

\* Each step keeps it.
LEMMA MeantInductive ==
    ASSUME ArgumentsSuffice, Typed, Meant, [Next]_vars
    PROVE  Meant'
  <1>1. CASE \E ch \in Characters : putc(ch)
    <2>1. PICK ch \in Characters : putc(ch)
      BY <1>1
    <2>2. /\ pc = "idle" /\ cmd' = "putc" /\ typed' = <<>> /\ chars' = <<ch>> /\ pc' = "get"
          /\ UNCHANGED color
      BY <2>1 DEF putc, Called, walk
    <2>3. cmd = "none" /\ color = DEFAULT_COLOR
      BY <2>2 DEF Typed, InString, Meant
    <2>4. ~Silent' /\ chars' \in Seq(Chr) /\ typed' \in Seq(Keys)
      BY <2>2, Callers DEF Silent
    <2>. QED  BY <2>2, <2>3, <2>4 DEF Meant
  <1>2. CASE \E ch \in TickCharacters : Tick(ch)
    BY <1>2, TickMeans
  <1>3. CASE \E f \in Formats : print(f)
    BY <1>3, PrintMeans
  <1>4. CASE printChar
    BY <1>4, PrintCharMeans
  <1>5. CASE print_turn
    <2>1. Typed'
      BY TypedInductive
    <2>. QED  BY <1>5, <2>1, PrintTurnMeans
  <1>6. CASE Return /\ UNCHANGED chars /\ (chars = <<>> \/ pc = "walk" \/ cmd = "cursor")
    <2>1. chars = <<>> /\ chars' = <<>>
      BY <1>6 DEF Meant, Silent
    <2>2. cmd' = "none" /\ typed' = <<>> /\ color' = DEFAULT_COLOR
      BY <1>6 DEF Return
    <2>. QED  BY <2>1, <2>2, Callers DEF Meant
  <1>7. CASE /\ pc = "idle" /\ cmd' \in {"clear", "cursor"} /\ pc' \in {"get", "set"}
             /\ typed' = <<>> /\ UNCHANGED <<chars, index, argsIndex, color>>
    <2>1. cmd = "none"
      BY <1>7 DEF Typed, InString
    <2>2. chars = <<>> /\ color = DEFAULT_COLOR /\ cmd' # "print"
      BY <1>7, <2>1 DEF Meant, Silent
    <2>. QED  BY <1>7, <2>2, Callers DEF Meant
  <1>8. CASE /\ UNCHANGED <<typed, chars, cmd, walk>>
             /\ pc' = "walk" => pc = "walk" \/ chars = <<>>
    <2>1. UNCHANGED <<typed, chars, cmd, call, index, argsIndex, color>>
      BY <1>8 DEF walk
    <2>2. OnTheWay' = OnTheWay
      BY <2>1 DEF OnTheWay, Rest
    <2>3. Silent' => chars' = <<>>
      BY <1>8, <2>1 DEF Silent, Meant
    <2>. QED  BY <2>1, <2>2, <2>3 DEF Meant
  <1>. QED  BY <1>1, <1>2, <1>3, <1>4, <1>5, <1>6, <1>7, <1>8, TypedLeaves

\* At the end of the string nothing is left to say.
LEMMA MeantAtEnd == ASSUME Typed, Meant PROVE FormatHonoured
  <1>. SUFFICES ASSUME cmd = "print", pc = "walk", Ch(0) = "end", ~Resets(call.str)
                PROVE  Own(typed) = Meaning(call)
    BY DEF FormatHonoured
  <1>1. /\ call \in Formats /\ <<index, argsIndex, color>> \in Ways
        /\ Rest \in Seq(Keys) /\ index \in 1 .. (Len(call.str) + 1)
    BY RestThere DEF Typed, InString
  <1>2. Len(call.str) \in Nat /\ \A k \in 1 .. Len(call.str) : call.str[k] # "end"
    BY <1>1, DisplayAssumption
  <1>3. index > Len(call.str)
    <2>. DEFINE len == Len(call.str)
    <2>1. len \in Nat /\ index \in 1 .. (len + 1) /\ index + 0 = index
      BY <1>1, <1>2
    <2>2. index <= len => index \in 1 .. len
      BY <2>1
    <2>3. index + 0 <= len => call.str[index] = "end"
      BY <2>1 DEF Ch
    <2>4. ~(index <= len)
      BY <1>2, <2>1, <2>2, <2>3
    <2>. HIDE DEF len
    <2>5. index > len
      BY <2>1, <2>4
    <2>. QED  BY <2>5 DEF len
  <1>4. Rest = <<>>
    <2>. DEFINE w == <<index, argsIndex, color>>
    <2>1. w \in Ways /\ w[1] = index
      BY <1>1
    <2>. HIDE DEF w
    <2>2. Past(call, w)
      BY <1>3, <2>1 DEF Past
    <2>3. FromOf(call)[w] = <<>>
      BY <1>1, <2>1, <2>2, FromIs DEF Tells
    <2>. QED  BY <2>3 DEF Rest, w
  <1>5. typed \in Seq(Keys) /\ chars = <<>> /\ OnTheWay = Meaning(call)
    BY DEF Meant, Silent
  <1>6. Own(typed) \in Seq(Keys)
    <2>1. DEFAULT_COLOR \in 0 .. 255 /\ "%" \in Chr
      BY Callers DEF Chr
    <2>. QED  BY <1>5, <2>1, OwnKeys
  <1>7. OnTheWay = Own(typed)
    BY <1>4, <1>5, <1>6, JoinedTexts, NothingKeyed DEF OnTheWay
  <1>. QED  BY <1>5, <1>7

\* Whatever string print is called with, and however often ticks type into it, what it
\* has typed when it comes to the end is what the string says: each directive the longest
\* that can be read, each argument once and in order, each character in the color it is
\* under.
THEOREM FormatStaysHonoured == ASSUME ArgumentsSuffice PROVE Spec => []FormatHonoured
  <1>1. Init => Typed /\ Meant
    BY TypedInitially, MeantInitially
  <1>2. Typed /\ Meant /\ [Next]_vars => (Typed /\ Meant)'
    BY TypedInductive, MeantInductive
  <1>3. Typed /\ Meant => FormatHonoured
    BY MeantAtEnd
  <1>. QED  BY <1>1, <1>2, <1>3, PTL DEF Spec

-----------------------------------------------------------------------------
(* Commands come to an end.                                                 *)

\* What print has still to read of its string, and the accesses a command has to make
\* before it types its next character or returns.
ToRead == IF cmd = "print" THEN Len(call.str) + 1 - index ELSE 0
Before(p) ==
    CASE p = "set" -> 9 [] p = "set high" -> 8 [] p = "set more" -> 7 [] p = "set low" -> 6
      [] p = "next" -> 5
      [] p = "get" -> 4 [] p = "get high" -> 3 [] p = "get more" -> 2 [] p = "get low" -> 1
      [] p \in {"got", "walk", "idle"} -> 0

\* cursor may put the cursor somewhere when it has got it; a character takes 15 steps at
\* the most.
Accesses == Before(pc) + (IF cmd = "cursor" /\ pc \in {"get"} \cup Getting THEN 10 ELSE 0)
ToType   == (15 * Len(chars)) + Accesses

\* Each step of a command is its last, goes on in the string, or leaves less to type.
CommandGoesOn ==
    /\ ToRead \in Nat /\ ToType \in Nat
    /\ \/ pc' = "idle"
       \/ ToRead' \in Nat /\ ToRead' < ToRead
       \/ ToRead' = ToRead /\ ToType' \in Nat /\ ToType' < ToType

\* A tick takes nothing off that and adds nothing.
TickLeaves == UNCHANGED <<ToRead, ToType>> /\ \E ch \in TickCharacters : Tick(ch)

\* The accesses before the next character.
LEMMA Befores ==
    ASSUME NEW p
    PROVE  /\ (p = "set" => Before(p) = 9) /\ (p = "set high" => Before(p) = 8)
           /\ (p = "set more" => Before(p) = 7) /\ (p = "set low" => Before(p) = 6)
           /\ (p = "next" => Before(p) = 5) /\ (p = "get" => Before(p) = 4)
           /\ (p = "get high" => Before(p) = 3) /\ (p = "get more" => Before(p) = 2)
           /\ (p = "get low" => Before(p) = 1) /\ (p = "got" => Before(p) = 0)
           /\ (p = "walk" => Before(p) = 0) /\ (p = "idle" => Before(p) = 0)
  BY DEF Before

\* The accesses one after the other.
Follows(p, q) ==
    \/ p = "get" /\ q = "get high"
    \/ p = "get high" /\ q = "get more"
    \/ p = "get more" /\ q = "get low"
    \/ p = "get low" /\ q = "got"
    \/ p = "set" /\ q = "set high"
    \/ p = "set high" /\ q = "set more"
    \/ p = "set more" /\ q = "set low"
    \/ p = "set low" /\ q = "next"

\* Each is one less to make.
LEMMA InTurn ==
    ASSUME NEW p, NEW q, Follows(p, q)
    PROVE  Before(p) \in 1 .. 9 /\ Before(q) = Before(p) - 1
  <1>1. \E n \in {1, 2, 3, 4, 6, 7, 8, 9} : Before(p) = n /\ Before(q) = n - 1
    <2>. DEFINE Fall(n, m) == Before(p) = n /\ Before(q) = m
    <2>1. \/ Fall(4, 3) \/ Fall(3, 2) \/ Fall(2, 1) \/ Fall(1, 0)
          \/ Fall(9, 8) \/ Fall(8, 7) \/ Fall(7, 6) \/ Fall(6, 5)
      BY Befores, Zenon DEF Follows
    <2>. QED  BY <2>1
  <1>. QED  BY <1>1

\* The measures are numbers, ToType the sum of both its parts.
Measured == /\ ToRead \in Nat /\ Len(chars) \in Nat /\ Accesses \in 0 .. 14
            /\ ToType \in Nat /\ ToType = (15 * Len(chars)) + Accesses

\* That follows from the invariants.
LEMMA MeasuresAre == Typed /\ Meant => Measured
  <1>. SUFFICES ASSUME Typed, Meant PROVE Measured
    OBVIOUS
  <1>1. ToRead \in Nat
    <2>1. CASE cmd = "print"
      <3>. DEFINE len == Len(call.str)
      <3>1. index \in 1 .. (len + 1) /\ len \in Nat
        BY <2>1, DisplayAssumption DEF Typed, InString
      <3>. HIDE DEF len
      <3>2. len + 1 - index \in Nat
        BY <3>1
      <3>. QED  BY <2>1, <3>2 DEF ToRead, len
    <2>. QED  BY <2>1 DEF ToRead
  <1>2. Len(chars) \in Nat
    BY DEF Meant
  <1>3. Before(pc) \in 0 .. 9 /\ (pc \in {"get"} \cup Getting => Before(pc) \in 0 .. 4)
    <2>1. pc \in Between \cup Getting \cup Setting
      BY DEF Typed, Counted, Getting, Setting
    <2>2. pc \in {"get"} \cup Getting => Before(pc) \in {0, 1, 2, 3, 4}
      BY Befores, Zenon DEF Getting
    <2>3. Before(pc) \in {0, 1, 2, 3, 4, 5, 6, 7, 8, 9}
      BY <2>1, Befores, Zenon DEF Between, Getting, Setting
    <2>. QED  BY <2>2, <2>3
  <1>4. Accesses \in 0 .. 14
    BY <1>3 DEF Accesses
  <1>. DEFINE n == Len(chars)
  <1>. HIDE DEF n
  <1>5. n \in Nat /\ ToType = (15 * n) + Accesses
    BY <1>2 DEF n, ToType
  <1>6. ToType \in Nat
    BY <1>4, <1>5
  <1>. QED  BY <1>1, <1>2, <1>4, <1>5, <1>6 DEF Measured, n

\* The accesses are made one after the other.
LEMMA AccessGoesOn ==
    ASSUME Typed, get_cursor \/ set_cursor
    PROVE  UNCHANGED <<cmd, walk, chars>> /\ Accesses' < Accesses
  <1>1. UNCHANGED <<cmd, walk, chars>>
    BY DEF get_cursor, set_cursor, Select, Read, Write
  <1>2. Follows(pc, pc')
    BY DEF get_cursor, set_cursor, Select, Read, Write, Follows
  <1>. DEFINE extra == IF cmd = "cursor" THEN 10 ELSE 0
  <1>3. extra \in 0 .. 10 /\ extra' = extra
    BY <1>1
  <1>4. CASE pc \in {"get", "get high", "get more", "get low"}
    <2>1. /\ Before(pc') < Before(pc) /\ Before(pc') \in Int /\ Before(pc) \in Int
          /\ pc \in {"get"} \cup Getting
          /\ pc' \in {"get"} \cup Getting
      <3>1. /\ Before(pc) \in 1 .. 9 /\ Before(pc') = Before(pc) - 1
        BY <1>2, <1>4, InTurn
      <3>2. /\ pc \in {"get"} \cup Getting
            /\ pc' \in {"get"} \cup Getting
        BY <1>2, <1>4 DEF Getting, Follows
      <3>. QED  BY <3>1, <3>2
    <2>2. Accesses = Before(pc) + extra /\ Accesses' = Before(pc') + extra
      BY <1>1, <2>1 DEF Accesses
    <2>. HIDE DEF extra
    <2>3. Accesses' < Accesses
      BY <1>3, <2>1, <2>2
    <2>. QED  BY <1>1, <2>3
  <1>5. CASE pc \in {"set", "set high", "set more", "set low"}
    <2>1. /\ Before(pc') < Before(pc) /\ Before(pc') \in Int /\ Before(pc) \in Int
          /\ pc \notin {"get"} \cup Getting
          /\ pc' \notin {"get"} \cup Getting
      <3>1. /\ Before(pc) \in 1 .. 9 /\ Before(pc') = Before(pc) - 1
        BY <1>2, <1>5, InTurn
      <3>2. /\ pc \notin {"get"} \cup Getting
            /\ pc' \notin {"get"} \cup Getting
        BY <1>2, <1>5 DEF Getting, Follows
      <3>. QED  BY <3>1, <3>2
    <2>2. Accesses = Before(pc) + 0 /\ Accesses' = Before(pc') + 0
      BY <2>1 DEF Accesses
    <2>3. Accesses' < Accesses
      BY <2>1, <2>2
    <2>. QED  BY <1>1, <2>3
  <1>. QED  BY <1>2, <1>4, <1>5 DEF Follows

\* A turn of the loop reads on.
LEMMA TurnReads == ASSUME Typed, print_turn PROVE index' > index
  <1>1. pc = "walk" /\ Ch(0) # "end"
    BY DEF print_turn
  <1>2. index \in Nat \ {0}
    BY <1>1, Walking
  <1>3. Ch(0) = "%" /\ Ch(1) = "#" => Colors[2] \in {2, 3, 4}
    BY <1>1, ColorsBound
  <1>4. index' = index + 1 \/ index' = index + 2 \/ \E k \in {2, 3, 4} : index' = index + k
    BY <1>3 DEF print_turn, Turn, Unknown
  <1>. QED  BY <1>2, <1>4

\* Nothing but a tick runs while a command does, and the command goes on.
LEMMA CommandStep ==
    ASSUME ArgumentsSuffice, Typed, Meant, [Next]_vars, pc # "idle"
    PROVE  CommandGoesOn \/ TickLeaves \/ UNCHANGED vars
  <1>. DEFINE n == Len(chars)
  <1>1. Typed' /\ Meant'
    BY TypedInductive, MeantInductive
  <1>2. /\ ToRead \in Nat /\ n \in Nat /\ Accesses \in 0 .. 14
        /\ ToType \in Nat /\ ToType = (15 * n) + Accesses
    BY MeasuresAre DEF Measured
  <1>3. /\ ToRead' \in Nat /\ n' \in Nat /\ Accesses' \in 0 .. 14
        /\ ToType' \in Nat /\ ToType' = (15 * n') + Accesses'
    <2>1. (Typed /\ Meant => Measured)'
      BY MeasuresAre, PTL
    <2>. QED  BY <1>1, <2>1 DEF Measured
  <1>. HIDE DEF n
  <1>4. ASSUME UNCHANGED <<cmd, call, index>>, (n' = n /\ Accesses' < Accesses) \/ n' = n - 1
        PROVE  CommandGoesOn
    <2>1. ToRead' = ToRead
      BY <1>4 DEF ToRead
    <2>. DEFINE a == Accesses
                b == Accesses'
                m == n'
                x == ToType
                y == ToType'
    <2>2. /\ n \in Nat /\ m \in Nat /\ a \in 0 .. 14 /\ b \in 0 .. 14
          /\ x = (15 * n) + a /\ y = (15 * m) + b
          /\ (m = n /\ b < a) \/ m = n - 1
      BY <1>2, <1>3, <1>4
    <2>. HIDE DEF a, b, m, x, y
    <2>3. y < x
      BY <2>2
    <2>. QED  BY <1>2, <1>3, <2>1, <2>3 DEF CommandGoesOn, x, y
  <1>5. CASE get_cursor \/ set_cursor
    <2>1. UNCHANGED <<cmd, walk, chars>> /\ Accesses' < Accesses
      BY <1>5, AccessGoesOn
    <2>. QED  BY <1>4, <2>1 DEF walk, n
  <1>6. CASE printChar
    <2>1. chars' = Tail(chars) /\ chars # <<>> /\ UNCHANGED <<cmd, call, index>>
      BY <1>6 DEF printChar, walk
    <2>2. chars \in Seq(Chr)
      BY DEF Meant
    <2>3. n' = n - 1
      BY <2>1, <2>2, HeadTailProperties DEF n
    <2>. QED  BY <1>4, <2>1, <2>3
  <1>7. CASE Continue
    <2>1. /\ pc = "next" /\ UNCHANGED <<cmd, call, index, chars>>
          /\ (chars # <<>> /\ pc' = "get") \/ (chars = <<>> /\ pc' = "walk")
      BY <1>7 DEF Continue, walk
    <2>2. chars # <<>> => cmd # "cursor"
      BY DEF Meant, Silent
    <2>3. Accesses = 5 /\ (pc' = "get" => Accesses' = 4) /\ (pc' = "walk" => Accesses' = 0)
      <3>1. /\ Before(pc) = 5
            /\ pc' = "get" => Before(pc') = 4
            /\ pc' = "walk" => Before(pc') = 0
        BY <2>1, Befores, Zenon
      <3>2. pc \notin {"get"} \cup Getting /\ (pc' = "get" => cmd' # "cursor")
            /\ (pc' = "walk" => pc' \notin {"get"} \cup Getting)
        BY <2>1, <2>2 DEF Getting
      <3>. QED  BY <2>1, <3>1, <3>2 DEF Accesses
    <2>4. n' = n /\ Accesses' < Accesses
      BY <2>1, <2>3 DEF n
    <2>. QED  BY <1>4, <2>1, <2>4
  <1>8. CASE cursor_add
    <2>1. pc = "got" /\ cmd = "cursor" /\ pc' = "set" /\ UNCHANGED <<cmd, call, index, chars>>
      BY <1>8 DEF cursor_add, Aim, walk
    <2>2. Accesses = 10 /\ Accesses' = 9
      <3>1. Before(pc) = 0 /\ Before(pc') = 9
        BY <2>1, Befores, Zenon
      <3>. QED  BY <2>1, <3>1 DEF Accesses, Getting
    <2>3. n' = n /\ Accesses' < Accesses
      BY <2>1, <2>2 DEF n
    <2>. QED  BY <1>4, <2>1, <2>3
  <1>9. CASE print_turn
    <2>1. cmd = "print" /\ cmd' = "print" /\ call' = call /\ call \in Formats
      BY <1>9 DEF print_turn, Typed, InString
    <2>2. index' > index
      BY <1>9, TurnReads
    <2>. DEFINE len == Len(call.str)
    <2>3. index \in 1 .. (len + 1) /\ index' \in 1 .. (len + 1) /\ len \in Nat
      BY <1>1, <2>1, DisplayAssumption DEF Typed, InString
    <2>4. ToRead = len + 1 - index /\ ToRead' = len + 1 - index'
      BY <2>1 DEF ToRead
    <2>. HIDE DEF len
    <2>. DEFINE i == index
                j == index'
    <2>5. /\ i \in 1 .. (len + 1) /\ j \in 1 .. (len + 1) /\ j > i
          /\ ToRead = len + 1 - i /\ ToRead' = len + 1 - j
      BY <2>2, <2>3, <2>4
    <2>. HIDE DEF i, j
    <2>6. ToRead' < ToRead
      BY <2>3, <2>5
    <2>. QED  BY <1>2, <1>3, <2>6 DEF CommandGoesOn
  <1>10. CASE Done \/ cursor_tell \/ print_returns
    <2>1. pc' = "idle"
      BY <1>10 DEF Done, cursor_tell, print_returns, Return
    <2>. QED  BY <1>2, <2>1 DEF CommandGoesOn
  <1>11. CASE \E ch \in TickCharacters : Tick(ch)
    <2>1. UNCHANGED <<cmd, pc, call, index, chars>>
      BY <1>11 DEF Tick, walk
    <2>2. UNCHANGED <<ToRead, ToType>>
      BY <2>1 DEF ToRead, ToType, Accesses, Before
    <2>. QED  BY <1>11, <2>2 DEF TickLeaves
  <1>. QED
    BY <1>5, <1>6, <1>7, <1>8, <1>9, <1>10, <1>11
       DEF Next, Command, putc, clear, cursor_set, cursor_get, print, Called

\* No command goes in a circle, whatever its string and however often ticks print into
\* it: each step of it is the last, takes print on in its string, or leaves less to type
\* and to access, and ticks, of which there are finitely many, leave all that alone.  It is
\* the variant behind CallsEnd.
THEOREM CommandsGoOn ==
    ASSUME ArgumentsSuffice
    PROVE  Spec => [][pc # "idle" => CommandGoesOn \/ TickLeaves]_vars
  <1>1. Init => Typed /\ Meant
    BY TypedInitially, MeantInitially
  <1>2. Typed /\ Meant /\ [Next]_vars => (Typed /\ Meant)'
    BY TypedInductive, MeantInductive
  <1>3. Typed /\ Meant /\ [Next]_vars
           => [pc # "idle" => CommandGoesOn \/ TickLeaves]_vars
    BY CommandStep
  <1>. QED  BY <1>1, <1>2, <1>3, PTL DEF Spec

=============================================================================
