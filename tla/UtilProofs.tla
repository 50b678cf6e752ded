------------------------------ MODULE UtilProofs ------------------------------
(***************************************************************************)
(* Proofs about Util for every width of the types and every argument.      *)
(***************************************************************************)
EXTENDS Util, WellFoundedInduction, SequenceTheorems, TLAPS

-----------------------------------------------------------------------------
(* Induction and recursion over the numbers.                                *)

\* A set of numbers has a smallest one.
LEMMA Smallest ==
    ASSUME NEW S, S \subseteq Nat, S # {}
    PROVE  \E x \in S : \A y \in S : x <= y
  <1>. DEFINE R == OpToRel(<, Nat)
  <1>1. IsWellFoundedOn(R, Nat)
    BY NatLessThanWellFounded
  <1>2. \A x, y \in Nat : x < y => <<x, y>> \in R
    BY DEF OpToRel
  <1>. HIDE DEF R
  <1>3. PICK x \in S : \A y \in S : ~(<<y, x>> \in R)
    BY <1>1, WFMin, Zenon
  <1>4. \A y \in S : ~(y < x)
    BY <1>2, <1>3, Zenon
  <1>5. \A y \in S : x <= y
    BY <1>4
  <1>. QED  BY <1>5

\* Induction: a set with 0 and the successors of its members has all numbers.
LEMMA Induction ==
    ASSUME NEW S, 0 \in S, \A n \in Nat : n \in S => n + 1 \in S
    PROVE  \A n \in Nat : n \in S
  <1>. SUFFICES ASSUME Nat \ S # {} PROVE FALSE
    OBVIOUS
  <1>1. PICK n \in Nat \ S : \A m \in Nat \ S : n <= m
    BY Smallest
  <1>2. n - 1 \in Nat /\ n - 1 \notin Nat \ S /\ (n - 1) + 1 = n
    BY <1>1
  <1>. QED  BY <1>1, <1>2

\* The same up to a number.
LEMMA InductionTo ==
    ASSUME NEW n \in Nat, NEW S, 0 \in S, \A k \in 0 .. (n - 1) : k \in S => k + 1 \in S
    PROVE  \A k \in 0 .. n : k \in S
  <1>. DEFINE T == {k \in Nat : k <= n => k \in S}
  <1>1. 0 \in T /\ \A k \in Nat : k \in T => k + 1 \in T
    OBVIOUS
  <1>2. \A k \in Nat : k \in T
    <2>. HIDE DEF T
    <2>. QED  BY <1>1, Induction
  <1>. QED  BY <1>2

\* What it takes to define a function by its values at arguments of a smaller rank, and
\* that g is the function so defined.
Descends(S, V, rank, before, Stop, base, step) ==
    /\ rank \in [S -> Nat] /\ before \in [S -> S]
    /\ base \in [S -> V] /\ step \in [S -> [V -> V]]
    /\ \A x \in S \ Stop : rank[before[x]] < rank[x]
Solves(g, S, V, before, Stop, base, step) ==
    /\ g \in [S -> V]
    /\ \A x \in S : g[x] = IF x \in Stop THEN base[x] ELSE step[x][g[before[x]]]

\* There is such a function.
LEMMA Recursion ==
    ASSUME NEW S, NEW V, NEW rank, NEW before, NEW Stop, NEW base, NEW step,
           Descends(S, V, rank, before, Stop, base, step)
    PROVE  \E g : Solves(g, S, V, before, Stop, base, step)
  <1>. /\ rank \in [S -> Nat] /\ before \in [S -> S]
       /\ base \in [S -> V] /\ step \in [S -> [V -> V]]
       /\ \A x \in S \ Stop : rank[before[x]] < rank[x]
    BY DEF Descends
  <1>. DEFINE Below(n) == {x \in S : rank[x] < n}
              Follows(g, x) == g[x] = IF x \in Stop THEN base[x] ELSE step[x][g[before[x]]]
              Good(n, g) == g \in [Below(n) -> V] /\ \A x \in Below(n) : Follows(g, x)
              Defined == {n \in Nat : \E g : Good(n, g)}
  <1>1. \A n \in Nat : \A x \in Below(n) : x \notin Stop => before[x] \in Below(n)
    OBVIOUS
  <1>2. 0 \in Defined
    <2>1. Below(0) = {}
      OBVIOUS
    <2>2. Good(0, [x \in {} |-> 0])
      BY <2>1
    <2>. QED  BY <2>2
  <1>3. ASSUME NEW n \in Nat, n \in Defined PROVE n + 1 \in Defined
    <2>1. PICK g : Good(n, g)
      BY <1>3
    <2>. DEFINE h == [x \in Below(n + 1) |-> IF x \in Stop THEN base[x] ELSE step[x][g[before[x]]]]
    <2>2. \A x \in Below(n + 1) : x \in Stop \/ before[x] \in Below(n)
      OBVIOUS
    <2>3. h \in [Below(n + 1) -> V]
      <3>1. \A x \in Below(n + 1) : x \notin Stop => g[before[x]] \in V
        BY <2>1, <2>2
      <3>. QED  BY <3>1
    <2>4. \A x \in Below(n) : h[x] = g[x]
      <3>1. \A x \in Below(n) : x \in Below(n + 1)
        OBVIOUS
      <3>. QED  BY <2>1, <3>1
    <2>5. \A x \in Below(n + 1) : Follows(h, x)
      BY <2>2, <2>4
    <2>6. Good(n + 1, h)
      <3>. HIDE DEF h, Below, Follows
      <3>. QED  BY <2>3, <2>5
    <2>. HIDE DEF Good
    <2>. QED  BY <2>6
  <1>4. \A n \in Nat : \E g : Good(n, g)
    <2>. HIDE DEF Defined
    <2>1. \A n \in Nat : n \in Defined
      BY <1>2, <1>3, Induction
    <2>. QED  BY <2>1 DEF Defined
  <1>5. ASSUME NEW n \in Nat, NEW m \in Nat, NEW g, NEW h, Good(n, g), Good(m, h)
        PROVE  \A x \in Below(n) \cap Below(m) : g[x] = h[x]
    <2>. DEFINE D == {x \in Below(n) \cap Below(m) : g[x] # h[x]}
                N == {rank[x] : x \in D}
    <2>. SUFFICES ASSUME D # {} PROVE FALSE
      OBVIOUS
    <2>1. N \subseteq Nat /\ N # {}
      OBVIOUS
    <2>2. PICK k \in N : \A j \in N : k <= j
      <3>. HIDE DEF N
      <3>. QED  BY <2>1, Smallest
    <2>3. PICK x \in D : rank[x] = k
      OBVIOUS
    <2>4. x \notin Stop /\ g[before[x]] # h[before[x]]
      <3>1. x \in Below(n) /\ x \in Below(m) /\ g[x] # h[x]
        BY <2>3
      <3>2. Follows(g, x) /\ Follows(h, x)
        BY <1>5, <3>1
      <3>. HIDE DEF Below, D
      <3>. QED  BY <3>1, <3>2
    <2>5. before[x] \in D
      BY <1>1, <2>3, <2>4
    <2>6. rank[before[x]] < rank[x] /\ rank[before[x]] \in N
      BY <2>3, <2>4, <2>5
    <2>7. rank[x] \in Nat /\ rank[before[x]] \in Nat
      BY <2>3
    <2>8. k <= rank[before[x]]
      <3>. HIDE DEF N, D
      <3>. QED  BY <2>2, <2>6
    <2>. HIDE DEF N, D
    <2>. QED  BY <2>3, <2>6, <2>7, <2>8
  <1>. DEFINE part(x) == CHOOSE g : Good(rank[x] + 1, g)
              g == [x \in S |-> part(x)[x]]
  <1>6. \A x \in S : Good(rank[x] + 1, part(x))
    <2>. HIDE DEF Good
    <2>. QED  BY <1>4
  <1>. HIDE DEF part
  <1>7. ASSUME NEW x \in S PROVE g[x] \in V /\ Follows(g, x)
    <2>1. x \in Below(rank[x] + 1)
      OBVIOUS
    <2>2. part(x)[x] \in V /\ Follows(part(x), x)
      BY <1>6, <2>1
    <2>3. CASE x \in Stop
      BY <2>2, <2>3
    <2>4. CASE x \notin Stop
      <3>. DEFINE y == before[x]
      <3>1. y \in Below(rank[x] + 1) /\ y \in Below(rank[y] + 1) /\ y \in S
        BY <1>1, <2>1, <2>4
      <3>2. Good(rank[x] + 1, part(x)) /\ Good(rank[y] + 1, part(y))
        BY <1>6, <3>1
      <3>3. rank[x] + 1 \in Nat /\ rank[y] + 1 \in Nat
        BY <3>1
      <3>4. part(x)[y] = part(y)[y]
        <4>. HIDE DEF Good, Below, y
        <4>. QED  BY <1>5, <3>1, <3>2, <3>3
      <3>. QED  BY <2>2, <2>4, <3>1, <3>4
    <2>. QED  BY <2>3, <2>4
  <1>8. g \in [S -> V] /\ \A x \in S : Follows(g, x)
    BY <1>7
  <1>. HIDE DEF g
  <1>. QED  BY <1>8 DEF Solves

\* The same over the numbers, each by a smaller one.
DefinedFrom(V, base, before, step) ==
    /\ base \in V /\ before \in [Nat -> Nat] /\ step \in [Nat -> [V -> V]]
    /\ \A n \in Nat \ {0} : before[n] < n

\* A function of the numbers so defined exists: what a conversion's loop of divisions
\* computes, and the powers of two.
LEMMA NumberRecursion ==
    ASSUME NEW V, NEW base, NEW before, NEW step, DefinedFrom(V, base, before, step)
    PROVE  \E g : /\ g \in [Nat -> V]
                  /\ \A n \in Nat : g[n] = IF n = 0 THEN base ELSE step[n][g[before[n]]]
  <1>. DEFINE rank == [n \in Nat |-> n]
              start == [n \in Nat |-> base]
  <1>1. Descends(Nat, V, rank, before, {0}, start, step)
    BY DEF Descends, DefinedFrom
  <1>2. PICK g : Solves(g, Nat, V, before, {0}, start, step)
    <2>. HIDE DEF rank, start
    <2>. QED  BY <1>1, Recursion
  <1>. QED  BY <1>2 DEF Solves

-----------------------------------------------------------------------------
(* Powers of two and remainders.                                            *)

\* What TwoTo computes.
LEMMA PowersDefined ==
    /\ TwoTo \in [Nat -> Nat \ {0}]
    /\ TwoTo[0] = 1
    /\ \A n \in Nat : TwoTo[n + 1] = 2 * TwoTo[n]
  <1>. DEFINE before == [n \in Nat |-> IF n = 0 THEN 0 ELSE n - 1]
              step == [n \in Nat |-> [v \in Nat \ {0} |-> 2 * v]]
              Is(g) == g = [n \in Nat |-> IF n = 0 THEN 1 ELSE 2 * g[n - 1]]
  <1>1. PICK g : /\ g \in [Nat -> Nat \ {0}]
                 /\ \A n \in Nat : g[n] = IF n = 0 THEN 1 ELSE step[n][g[before[n]]]
    <2>1. DefinedFrom(Nat \ {0}, 1, before, step)
      BY DEF DefinedFrom
    <2>. HIDE DEF before, step
    <2>. QED  BY <2>1, NumberRecursion
  <1>2. Is(g)
    <2>1. \A n \in Nat : step[n][g[before[n]]] = IF n = 0 THEN 2 * g[0] ELSE 2 * g[n - 1]
      BY <1>1
    <2>2. \A n \in Nat : g[n] = IF n = 0 THEN 1 ELSE 2 * g[n - 1]
      <3>. HIDE DEF step, before
      <3>. QED  BY <1>1, <2>1
    <2>3. g = [n \in Nat |-> g[n]]
      BY <1>1
    <2>. HIDE DEF step, before
    <2>. QED  BY <2>2, <2>3
  <1>3. TwoTo = CHOOSE h : Is(h)
    BY DEF TwoTo
  <1>4. Is(TwoTo)
    <2>. HIDE DEF Is
    <2>. QED  BY <1>2, <1>3, Zenon
  <1>5. TwoTo[0] = 1 /\ \A n \in Nat : TwoTo[n + 1] = 2 * TwoTo[n]
    BY <1>4
  <1>6. \A n \in Nat : n \in {k \in Nat : TwoTo[k] \in Nat \ {0}}
    <2>. DEFINE S == {k \in Nat : TwoTo[k] \in Nat \ {0}}
    <2>1. 0 \in S /\ \A n \in Nat : n \in S => n + 1 \in S
      BY <1>5
    <2>. HIDE DEF S
    <2>2. \A n \in Nat : n \in S
      BY <2>1, Induction
    <2>. QED  BY <2>2 DEF S
  <1>7. TwoTo = [n \in Nat |-> TwoTo[n]]
    BY <1>4
  <1>. QED  BY <1>5, <1>6, <1>7

\* A number is a quotient and a remainder in one way only.
LEMMA Remainder ==
    ASSUME NEW N \in Nat \ {0}, NEW q \in Int, NEW r \in 0 .. (N - 1)
    PROVE  (q * N + r) % N = r
  <1>. DEFINE d == (q * N + r) \div N
              e == (q * N + r) % N
  <1>1. q * N + r \in Int
    OBVIOUS
  <1>2. d \in Int /\ e \in 0 .. (N - 1) /\ q * N + r = d * N + e
    BY <1>1
  <1>3. (q - d) * N = e - r
    BY <1>2
  <1>. HIDE DEF d, e
  <1>4. ~(q - d >= 1) /\ ~(q - d <= 0 - 1)
    <2>1. ASSUME q - d >= 1 PROVE FALSE
      <3>1. (q - d) * N >= N
        BY <1>2, <2>1
      <3>. QED  BY <1>2, <1>3, <3>1
    <2>2. ASSUME q - d <= 0 - 1 PROVE FALSE
      <3>1. (q - d) * N <= 0 - N
        BY <1>2, <2>2
      <3>. QED  BY <1>2, <1>3, <3>1
    <2>. QED  BY <2>1, <2>2
  <1>5. q = d
    BY <1>2, <1>4
  <1>6. e = r
    BY <1>2, <1>3, <1>5
  <1>. QED  BY <1>6 DEF e

\* So a multiple of N more or less leaves the remainder as it is.
LEMMA SameRemainder ==
    ASSUME NEW N \in Nat \ {0}, NEW x \in Int, NEW q \in Int
    PROVE  /\ (x + q * N) % N = x % N
           /\ x % N \in 0 .. (N - 1)
           /\ \E d \in Int : x = d * N + (x % N)
  <1>. DEFINE d == x \div N
              e == x % N
  <1>1. d \in Int /\ e \in 0 .. (N - 1) /\ x = d * N + e
    OBVIOUS
  <1>. HIDE DEF d, e
  <1>2. x + q * N = (d + q) * N + e /\ d + q \in Int
    BY <1>1
  <1>3. ((d + q) * N + e) % N = e
    BY <1>1, <1>2, Remainder
  <1>4. (x + q * N) % N = e
    BY <1>2, <1>3
  <1>. QED  BY <1>1, <1>4 DEF e

-----------------------------------------------------------------------------
(* Text that is read back.                                                  *)

\* What Read computes.
LEMMA ReadDefined ==
    ASSUME NEW b \in Nat, NEW s \in Seq(Int)
    PROVE  \E r : /\ r \in [0 .. Len(s) -> Int] /\ r[0] = 0
                  /\ \A k \in 1 .. Len(s) : r[k] = (r[k - 1] * b) + Digit(s[k])
                  /\ Read(b, s) = r[Len(s)]
  <1>. DEFINE N == 0 .. Len(s)
              rank == [k \in N |-> k]
              before == [k \in N |-> IF k = 0 THEN 0 ELSE k - 1]
              base == [k \in N |-> 0]
              step == [k \in N |-> [v \in Int |-> (v * b) + (IF k = 0 THEN 0 ELSE Digit(s[k]))]]
              Is(r) == r = [k \in N |-> IF k = 0 THEN 0 ELSE (r[k - 1] * b) + Digit(s[k])]
  <1>1. Len(s) \in Nat /\ \A k \in 1 .. Len(s) : Digit(s[k]) \in Int
    BY DEF Digit
  <1>2. Descends(N, Int, rank, before, {0}, base, step)
    <2>1. step \in [N -> [Int -> Int]]
      BY <1>1
    <2>2. /\ rank \in [N -> Nat] /\ before \in [N -> N] /\ base \in [N -> Int]
          /\ \A x \in N \ {0} : rank[before[x]] < rank[x]
      BY <1>1
    <2>. QED  BY <2>1, <2>2 DEF Descends
  <1>3. PICK r : Solves(r, N, Int, before, {0}, base, step)
    <2>. HIDE DEF N, rank, before, base, step
    <2>. QED  BY <1>2, Recursion
  <1>4. r \in [N -> Int] /\ r[0] = 0 /\ \A k \in 1 .. Len(s) : r[k] = (r[k - 1] * b) + Digit(s[k])
    <2>1. /\ r \in [N -> Int]
          /\ \A k \in N : r[k] = IF k \in {0} THEN base[k] ELSE step[k][r[before[k]]]
      BY <1>3 DEF Solves
    <2>2. 0 \in N /\ base[0] = 0
      BY <1>1
    <2>3. ASSUME NEW k \in 1 .. Len(s) PROVE r[k] = (r[k - 1] * b) + Digit(s[k])
      <3>1. k \in N /\ k # 0 /\ before[k] = k - 1 /\ k - 1 \in N
        BY <1>1
      <3>2. r[k] = step[k][r[k - 1]] /\ r[k - 1] \in Int
        BY <2>1, <3>1
      <3>3. step[k][r[k - 1]] = (r[k - 1] * b) + Digit(s[k])
        BY <3>1, <3>2
      <3>. QED  BY <3>2, <3>3
    <2>4. r[0] = 0
      <3>. HIDE DEF N, base
      <3>. QED  BY <2>1, <2>2
    <2>. QED  BY <2>1, <2>3, <2>4
  <1>5. Is(r)
    BY <1>1, <1>4
  <1>. DEFINE q == CHOOSE h : Is(h)
  <1>6. Is(q) /\ Read(b, s) = q[Len(s)]
    <2>1. Is(q)
      <3>. HIDE DEF Is
      <3>. QED  BY <1>5
    <2>2. Read(b, s) = q[Len(s)]
      BY DEF Read
    <2>. QED  BY <2>1, <2>2
  <1>. HIDE DEF q
  <1>7. q = [k \in N |-> IF k = 0 THEN 0 ELSE (q[k - 1] * b) + Digit(s[k])]
    BY <1>6
  <1>8. q[0] = 0 /\ \A k \in 1 .. Len(s) : q[k] = (q[k - 1] * b) + Digit(s[k])
    <2>1. q[0] = 0
      BY <1>1, <1>7
    <2>2. ASSUME NEW k \in 1 .. Len(s) PROVE q[k] = (q[k - 1] * b) + Digit(s[k])
      <3>1. k \in N /\ k # 0
        BY <1>1
      <3>. HIDE DEF N
      <3>. QED  BY <1>7, <3>1
    <2>. QED  BY <2>1, <2>2
  <1>9. \A k \in 0 .. Len(s) : k \in {x \in N : q[x] = r[x]}
    <2>. DEFINE S == {x \in N : q[x] = r[x]}
    <2>1. 0 \in S /\ \A k \in 0 .. (Len(s) - 1) : k \in S => k + 1 \in S
      BY <1>1, <1>4, <1>8
    <2>. HIDE DEF S
    <2>2. \A k \in 0 .. Len(s) : k \in S
      BY <1>1, <2>1, InductionTo
    <2>. QED  BY <2>2 DEF S
  <1>10. q[Len(s)] = r[Len(s)]
    BY <1>1, <1>9
  <1>. QED  BY <1>4, <1>6, <1>10

\* One more digit behind a text.
LEMMA ReadAppend ==
    ASSUME NEW b \in Nat, NEW s \in Seq(Int), NEW c \in Int
    PROVE  Read(b, Append(s, c)) = (Read(b, s) * b) + Digit(c)
  <1>. DEFINE t == Append(s, c)
  <1>1. /\ t \in Seq(Int) /\ Len(t) = Len(s) + 1 /\ Len(s) \in Nat /\ t[Len(s) + 1] = c
        /\ \A k \in 1 .. Len(s) : t[k] = s[k]
    OBVIOUS
  <1>. HIDE DEF t
  <1>2. PICK r : /\ r \in [0 .. Len(s) -> Int] /\ r[0] = 0
                 /\ \A k \in 1 .. Len(s) : r[k] = (r[k - 1] * b) + Digit(s[k])
                 /\ Read(b, s) = r[Len(s)]
    BY ReadDefined
  <1>3. PICK q : /\ q \in [0 .. Len(t) -> Int] /\ q[0] = 0
                 /\ \A k \in 1 .. Len(t) : q[k] = (q[k - 1] * b) + Digit(t[k])
                 /\ Read(b, t) = q[Len(t)]
    BY <1>1, ReadDefined
  <1>. DEFINE S == {k \in 0 .. Len(s) : q[k] = r[k]}
  <1>4. 0 \in S
    BY <1>1, <1>2, <1>3
  <1>5. ASSUME NEW k \in 0 .. (Len(s) - 1), k \in S PROVE k + 1 \in S
    <2>1. k + 1 \in 1 .. Len(s) /\ k + 1 \in 1 .. Len(t) /\ (k + 1) - 1 = k /\ k + 1 \in 0 .. Len(s)
      BY <1>1
    <2>2. q[k + 1] = (q[k] * b) + Digit(t[k + 1]) /\ r[k + 1] = (r[k] * b) + Digit(s[k + 1])
      BY <1>2, <1>3, <2>1
    <2>3. q[k] = r[k] /\ t[k + 1] = s[k + 1]
      BY <1>1, <1>5, <2>1
    <2>. QED  BY <2>1, <2>2, <2>3
  <1>6. q[Len(s)] = r[Len(s)]
    <2>. HIDE DEF S
    <2>1. \A k \in 0 .. Len(s) : k \in S
      BY <1>1, <1>4, <1>5, InductionTo
    <2>. QED  BY <1>1, <2>1 DEF S
  <1>7. q[Len(t)] = (q[Len(s)] * b) + Digit(c)
    <2>1. Len(t) \in 1 .. Len(t) /\ Len(t) - 1 = Len(s)
      BY <1>1
    <2>. QED  BY <1>1, <1>3, <2>1
  <1>. QED  BY <1>2, <1>3, <1>6, <1>7 DEF t

\* Zeros in front change nothing.
LEMMA ReadPadded ==
    ASSUME NEW b \in Nat, NEW s \in Seq(Int), NEW t \in Seq(Int), NEW z \in Nat,
           Len(t) = z + Len(s),
           \A k \in 1 .. z : t[k] = Char(0),
           \A k \in 1 .. Len(s) : t[z + k] = s[k]
    PROVE  Read(b, t) = Read(b, s)
  <1>1. PICK r : /\ r \in [0 .. Len(s) -> Int] /\ r[0] = 0
                 /\ \A k \in 1 .. Len(s) : r[k] = (r[k - 1] * b) + Digit(s[k])
                 /\ Read(b, s) = r[Len(s)]
    BY ReadDefined
  <1>2. PICK q : /\ q \in [0 .. Len(t) -> Int] /\ q[0] = 0
                 /\ \A k \in 1 .. Len(t) : q[k] = (q[k - 1] * b) + Digit(t[k])
                 /\ Read(b, t) = q[Len(t)]
    BY ReadDefined
  <1>3. Len(s) \in Nat /\ Len(t) = z + Len(s) /\ Digit(Char(0)) = 0
    BY DEF Digit, Char
  <1>. DEFINE Z == {k \in 0 .. z : q[k] = 0}
              S == {k \in 0 .. Len(s) : q[z + k] = r[k]}
  <1>4. \A k \in 0 .. z : k \in Z
    <2>1. 0 \in Z
      BY <1>2
    <2>2. ASSUME NEW k \in 0 .. (z - 1), k \in Z PROVE k + 1 \in Z
      <3>. k \in Nat
        OBVIOUS
      <3>1. k + 1 \in 1 .. z /\ k + 1 \in 1 .. Len(t) /\ (k + 1) - 1 = k /\ k + 1 \in 0 .. z
        <4>1. k \in 0 .. (z - 1) /\ z \in Nat /\ Len(s) \in Nat /\ Len(t) = z + Len(s)
          BY <1>3
        <4>. QED  BY ONLY <4>1
      <3>2. q[k + 1] = (q[k] * b) + Digit(t[k + 1]) /\ t[k + 1] = Char(0) /\ q[k] = 0
        BY <1>2, <2>2, <3>1
      <3>3. q[k + 1] = 0
        BY <1>3, <3>2
      <3>. QED  BY <3>1, <3>3
    <2>. HIDE DEF Z
    <2>. QED  BY <2>1, <2>2, InductionTo
  <1>5. \A k \in 0 .. Len(s) : k \in S
    <2>1. 0 \in S
      BY <1>1, <1>3, <1>4
    <2>2. ASSUME NEW k \in 0 .. (Len(s) - 1), k \in S PROVE k + 1 \in S
      <3>1. /\ k + 1 \in 1 .. Len(s) /\ z + k + 1 \in 1 .. Len(t) /\ k + 1 \in 0 .. Len(s)
            /\ (k + 1) - 1 = k /\ (z + k + 1) - 1 = z + k /\ z + (k + 1) = z + k + 1
        <4>1. k \in 0 .. (Len(s) - 1) /\ z \in Nat /\ Len(s) \in Nat /\ Len(t) = z + Len(s)
          BY <1>3
        <4>. QED  BY ONLY <4>1
      <3>2. /\ q[z + k + 1] = (q[z + k] * b) + Digit(t[z + k + 1])
            /\ r[k + 1] = (r[k] * b) + Digit(s[k + 1])
        BY <1>1, <1>2, <3>1
      <3>3. q[z + k] = r[k]
        BY <2>2
      <3>4. t[z + k + 1] = s[k + 1]
        BY <3>1
      <3>. QED  BY <3>1, <3>2, <3>3, <3>4
    <2>. HIDE DEF S
    <2>. QED  BY <1>3, <2>1, <2>2, InductionTo
  <1>6. q[z + Len(s)] = r[Len(s)]
    BY <1>3, <1>5
  <1>. QED  BY <1>1, <1>2, <1>3, <1>6

\* Reverse.
LEMMA Reversed ==
    ASSUME NEW s \in Seq(Int)
    PROVE  /\ Reverse(s) \in Seq(Int) /\ Len(Reverse(s)) = Len(s)
           /\ \A k \in 1 .. Len(s) : Reverse(s)[k] = s[Len(s) - k + 1]
  <1>1. \A k \in 1 .. Len(s) : Len(s) - k + 1 \in 1 .. Len(s) /\ s[Len(s) - k + 1] \in Int
    OBVIOUS
  <1>2. Reverse(s) = [k \in 1 .. Len(s) |-> s[Len(s) - k + 1]]
    BY DEF Reverse
  <1>. QED  BY <1>1, <1>2

\* What is put in front of a text ends up behind the reversed one.
LEMMA ReversedCons ==
    ASSUME NEW c \in Int, NEW s \in Seq(Int)
    PROVE  Reverse(<<c>> \o s) = Append(Reverse(s), c)
  <1>. DEFINE t == <<c>> \o s
  <1>1. /\ t \in Seq(Int) /\ Len(t) = Len(s) + 1 /\ Len(s) \in Nat /\ t[1] = c
        /\ \A k \in 1 .. Len(s) : t[k + 1] = s[k]
    OBVIOUS
  <1>. HIDE DEF t
  <1>2. /\ Reverse(t) \in Seq(Int) /\ Len(Reverse(t)) = Len(t)
        /\ \A k \in 1 .. Len(t) : Reverse(t)[k] = t[Len(t) - k + 1]
    BY <1>1, Reversed
  <1>3. /\ Reverse(s) \in Seq(Int) /\ Len(Reverse(s)) = Len(s)
        /\ \A k \in 1 .. Len(s) : Reverse(s)[k] = s[Len(s) - k + 1]
    BY Reversed
  <1>. DEFINE u == Append(Reverse(s), c)
  <1>4. /\ u \in Seq(Int) /\ Len(u) = Len(s) + 1 /\ u[Len(s) + 1] = c
        /\ \A k \in 1 .. Len(s) : u[k] = s[Len(s) - k + 1]
    BY <1>1, <1>3
  <1>. HIDE DEF u
  <1>5. ASSUME NEW k \in 1 .. Len(t) PROVE Reverse(t)[k] = u[k]
    <2>1. CASE k = Len(s) + 1
      <3>1. Len(t) - k + 1 = 1
        BY <1>1, <2>1
      <3>. QED  BY <1>1, <1>2, <1>4, <2>1, <3>1
    <2>2. CASE k \in 1 .. Len(s)
      <3>1. Len(s) - k + 1 \in 1 .. Len(s) /\ Len(t) - k + 1 = (Len(s) - k + 1) + 1
        BY <1>1, <2>2
      <3>2. Reverse(t)[k] = t[(Len(s) - k + 1) + 1]
        BY <1>2, <3>1
      <3>3. t[(Len(s) - k + 1) + 1] = s[Len(s) - k + 1]
        BY <1>1, <3>1
      <3>. QED  BY <1>4, <2>2, <3>2, <3>3
    <2>. QED  BY <1>1, <2>1, <2>2
  <1>6. Reverse(t) = u
    BY <1>1, <1>2, <1>4, <1>5, SeqEqual
  <1>. QED  BY <1>6 DEF t, u

\* A set is all numbers if it has each number whose smaller ones it has.
LEMMA StrongInduction ==
    ASSUME NEW S, \A n \in Nat : (\A m \in Nat : m < n => m \in S) => n \in S
    PROVE  \A n \in Nat : n \in S
  <1>. SUFFICES ASSUME Nat \ S # {} PROVE FALSE
    OBVIOUS
  <1>1. PICK n \in Nat \ S : \A m \in Nat \ S : n <= m
    BY Smallest
  <1>2. \A m \in Nat : m < n => m \in S
    BY <1>1
  <1>. QED  BY <1>1, <1>2

-----------------------------------------------------------------------------
(* Digits.                                                                  *)

Bases == {2, 10, 16}

\* Quotient and remainder of a number by one of the bases.
LEMMA Divided ==
    ASSUME NEW b \in Bases, NEW n \in Nat
    PROVE  /\ n \div b \in Nat /\ n % b \in 0 .. (b - 1) /\ n = ((n \div b) * b) + (n % b)
           /\ n > 0 => n \div b < n
           /\ n > 0 /\ n \div b = 0 => n % b # 0
  <1>1. CASE b = 2
    BY <1>1
  <1>2. CASE b = 10
    BY <1>2
  <1>3. CASE b = 16
    BY <1>3
  <1>. QED  BY <1>1, <1>2, <1>3 DEF Bases

\* Characters of digits, which are different for different digits.
LEMMA Chars ==
    /\ \A d \in 0 .. 15 : Char(d) \in Nat /\ Digit(Char(d)) = d /\ Char(d) # Minus
    /\ \A d, e \in 0 .. 15 : Char(d) = Char(e) => d = e
  BY DEF Char, Digit, Minus

\* What Digits computes.
LEMMA DigitsDefined ==
    ASSUME NEW b \in Bases
    PROVE  /\ Digits(b) \in [Nat -> Seq(Int)]
           /\ Digits(b)[0] = <<>>
           /\ \A n \in Nat \ {0} : Digits(b)[n] = <<Char(n % b)>> \o Digits(b)[n \div b]
  <1>. DEFINE V == Seq(Int)
              before == [n \in Nat |-> n \div b]
              step == [n \in Nat |-> [v \in V |-> <<Char(n % b)>> \o v]]
              Is(g) == g = [n \in Nat |-> IF n = 0 THEN <<>> ELSE <<Char(n % b)>> \o g[n \div b]]
  <1>1. \A n \in Nat : n \div b \in Nat /\ Char(n % b) \in Int /\ (n > 0 => n \div b < n)
    <2>. TAKE n \in Nat
    <2>1. n % b \in 0 .. 15
      BY Divided DEF Bases
    <2>. QED  BY <2>1, Divided, Chars
  <1>2. DefinedFrom(V, <<>>, before, step)
    <2>1. step \in [Nat -> [V -> V]]
      BY <1>1
    <2>2. before \in [Nat -> Nat] /\ \A n \in Nat \ {0} : before[n] < n
      BY <1>1
    <2>3. <<>> \in V
      OBVIOUS
    <2>. HIDE DEF step, before
    <2>. QED  BY <2>1, <2>2, <2>3 DEF DefinedFrom
  <1>3. PICK g : /\ g \in [Nat -> V]
                 /\ \A n \in Nat : g[n] = IF n = 0 THEN <<>> ELSE step[n][g[before[n]]]
    <2>. HIDE DEF V, step, before
    <2>. QED  BY <1>2, NumberRecursion
  <1>4. Is(g)
    <2>1. ASSUME NEW n \in Nat PROVE step[n][g[before[n]]] = <<Char(n % b)>> \o g[n \div b]
      <3>1. before[n] = n \div b /\ g[n \div b] \in V
        BY <1>1, <1>3
      <3>. QED  BY <3>1
    <2>2. \A n \in Nat : g[n] = IF n = 0 THEN <<>> ELSE <<Char(n % b)>> \o g[n \div b]
      <3>. HIDE DEF step, before
      <3>. QED  BY <1>3, <2>1
    <2>3. g = [n \in Nat |-> g[n]]
      BY <1>3
    <2>. HIDE DEF step, before
    <2>. QED  BY <2>2, <2>3
  <1>5. Digits(b) = CHOOSE h : Is(h)
    BY DEF Digits
  <1>6. Is(Digits(b))
    <2>. HIDE DEF Is
    <2>. QED  BY <1>4, <1>5, Zenon
  <1>. DEFINE D == Digits(b)
  <1>. HIDE DEF D
  <1>7. D = [n \in Nat |-> IF n = 0 THEN <<>> ELSE <<Char(n % b)>> \o D[n \div b]]
    BY <1>6 DEF D
  <1>8. D[0] = <<>> /\ \A n \in Nat \ {0} : D[n] = <<Char(n % b)>> \o D[n \div b]
    BY <1>7
  <1>9. \A n \in Nat : n \in {k \in Nat : D[k] \in Seq(Int)}
    <2>. DEFINE S == {k \in Nat : D[k] \in Seq(Int)}
    <2>1. ASSUME NEW n \in Nat, \A m \in Nat : m < n => m \in S PROVE n \in S
      <3>1. CASE n = 0
        <4>1. D[n] \in Seq(Int)
          BY <1>8, <3>1, EmptySeq
        <4>. QED  BY <4>1
      <3>2. CASE n # 0
        <4>1. n \div b \in S
          <5>1. n \div b \in Nat /\ n \div b < n
            BY <1>1, <3>2
          <5>. QED  BY <2>1, <5>1
        <4>2. D[n] = <<Char(n % b)>> \o D[n \div b] /\ Char(n % b) \in Int
          BY <1>1, <1>8, <3>2
        <4>3. D[n \div b] \in Seq(Int) /\ <<Char(n % b)>> \in Seq(Int)
          BY <4>1, <4>2
        <4>4. D[n] \in Seq(Int)
          BY <4>2, <4>3, ConcatProperties
        <4>. QED  BY <4>4
      <3>. QED  BY <3>1, <3>2
    <2>. HIDE DEF S
    <2>2. \A n \in Nat : n \in S
      BY <2>1, StrongInduction
    <2>. QED  BY <2>2 DEF S
  <1>10. D \in [Nat -> Seq(Int)]
    <2>1. D = [n \in Nat |-> D[n]]
      BY <1>7
    <2>. QED  BY <1>9, <2>1
  <1>. QED  BY <1>8, <1>10 DEF D

\* The digits of a number, read from the last to the first, say the number; the last
\* of them, which comes first in the text, is not a zero.
Tells(b, n, s) ==
    /\ s \in Seq(Int)
    /\ \A k \in 1 .. Len(s) : \E d \in 0 .. (b - 1) : s[k] = Char(d)
    /\ Read(b, Reverse(s)) = n
    /\ n > 0 => s # <<>> /\ s[Len(s)] # Char(0)

\* The empty text reads as 0, in each base.
LEMMA ReadNothing == Read(10, <<>>) = 0 /\ \A b \in Bases : Read(b, Reverse(<<>>)) = 0
  <1>1. \A b \in Nat : Read(b, <<>>) = 0
    <2>. TAKE b \in Nat
    <2>1. <<>> \in Seq(Int) /\ Len(<<>>) = 0
      OBVIOUS
    <2>. QED  BY <2>1, ReadDefined
  <1>2. Reverse(<<>>) = <<>>
    <2>1. <<>> \in Seq(Int) /\ Len(<<>>) = 0
      OBVIOUS
    <2>2. Len(Reverse(<<>>)) = 0 /\ Reverse(<<>>) \in Seq(Int)
      BY <2>1, Reversed
    <2>. QED  BY <2>2, EmptySeq
  <1>. QED  BY <1>1, <1>2 DEF Bases

\* The digits that the loops of divisions write tell the number, whatever the number is.
LEMMA DigitsTell == ASSUME NEW b \in Bases, NEW n \in Nat PROVE Tells(b, n, Digits(b)[n])
  <1>. DEFINE D == Digits(b)
              S == {k \in Nat : Tells(b, k, D[k])}
  <1>1. /\ D \in [Nat -> Seq(Int)] /\ D[0] = <<>>
        /\ \A k \in Nat \ {0} : D[k] = <<Char(k % b)>> \o D[k \div b]
    BY DigitsDefined
  <1>. HIDE DEF D
  <1>2. b \in Nat /\ b - 1 \in 1 .. 15
    BY DEF Bases
  <1>3. ASSUME NEW k \in Nat, \A m \in Nat : m < k => m \in S PROVE k \in S
    <2>1. CASE k = 0
      BY <1>1, <2>1, ReadNothing DEF Tells
    <2>2. CASE k # 0
      <3>. DEFINE q == k \div b
                  d == k % b
                  s == D[q]
      <3>1. q \in Nat /\ q < k /\ d \in 0 .. (b - 1) /\ k = (q * b) + d /\ (q = 0 => d # 0)
        BY <2>2, Divided
      <3>. HIDE DEF q, d
      <3>2. s \in Seq(Int) /\ D[k] = <<Char(d)>> \o s
        BY <1>1, <2>2, <3>1 DEF q, d
      <3>3. d \in 0 .. 15 /\ Char(d) \in Int /\ Digit(Char(d)) = d
        BY <1>2, <3>1, Chars
      <3>4. Tells(b, q, s)
        BY <1>3, <3>1
      <3>5. q = 0 => s = <<>>
        BY <1>1
      <3>. HIDE DEF s
      <3>6. /\ D[k] \in Seq(Int) /\ Len(D[k]) = Len(s) + 1 /\ D[k][1] = Char(d)
            /\ \A j \in 1 .. Len(s) : D[k][j + 1] = s[j]
        BY <3>2, <3>3
      <3>7. \A j \in 1 .. Len(D[k]) : \E e \in 0 .. (b - 1) : D[k][j] = Char(e)
        <4>. TAKE j \in 1 .. Len(D[k])
        <4>1. CASE j = 1
          BY <3>1, <3>6, <4>1
        <4>2. CASE j # 1
          <5>1. j - 1 \in 1 .. Len(s) /\ (j - 1) + 1 = j
            BY <3>2, <3>6, <4>2
          <5>2. D[k][j] = s[j - 1]
            BY <3>6, <5>1
          <5>. QED  BY <3>4, <5>1, <5>2 DEF Tells
        <4>. QED  BY <4>1, <4>2
      <3>8. Read(b, Reverse(D[k])) = k
        <4>1. Reverse(D[k]) = Append(Reverse(s), Char(d)) /\ Reverse(s) \in Seq(Int)
          BY <3>2, <3>3, ReversedCons, Reversed
        <4>2. Read(b, Reverse(D[k])) = (Read(b, Reverse(s)) * b) + Digit(Char(d))
          BY <1>2, <3>3, <4>1, ReadAppend
        <4>. QED  BY <3>1, <3>3, <3>4, <4>2 DEF Tells
      <3>9. D[k] # <<>> /\ D[k][Len(D[k])] # Char(0)
        <4>1. CASE q = 0
          <5>1. Len(s) = 0 /\ Len(D[k]) = 1 /\ d # 0
            BY <3>1, <3>5, <3>6, <4>1
          <5>2. Char(d) # Char(0)
            BY <3>3, <5>1, Chars
          <5>. QED  BY <3>6, <5>1, <5>2
        <4>2. CASE q # 0
          <5>1. s # <<>> /\ s[Len(s)] # Char(0) /\ Len(s) \in 1 .. Len(s)
            BY <3>1, <3>2, <3>4, <4>2 DEF Tells
          <5>2. D[k][Len(D[k])] = s[Len(s)]
            BY <3>6, <5>1
          <5>. QED  BY <3>6, <5>1, <5>2
        <4>. QED  BY <4>1, <4>2
      <3>10. Tells(b, k, D[k])
        BY <3>6, <3>7, <3>8, <3>9 DEF Tells
      <3>. QED  BY <3>10
    <2>. QED  BY <2>1, <2>2
  <1>4. \A k \in Nat : k \in S
    <2>. HIDE DEF S
    <2>. QED  BY <1>3, StrongInduction
  <1>. QED  BY <1>4 DEF D

\* The binary digits that a digit of the base stands for.
Width(b) == IF b = 16 THEN 4 ELSE 1

\* A number below the j-th power of the base has at most j digits.
LEMMA DigitsCount ==
    ASSUME NEW b \in {2, 16}, NEW j \in Nat, NEW n \in Nat, n < TwoTo[Width(b) * j]
    PROVE  Len(Digits(b)[n]) <= j
  <1>. DEFINE D == Digits(b)
              S == {i \in Nat : \A m \in Nat : m < TwoTo[Width(b) * i] => Len(D[m]) <= i}
  <1>1. b \in Bases
    BY DEF Bases
  <1>2. /\ D \in [Nat -> Seq(Int)] /\ D[0] = <<>>
        /\ \A k \in Nat \ {0} : D[k] = <<Char(k % b)>> \o D[k \div b]
    BY <1>1, DigitsDefined
  <1>. HIDE DEF D
  <1>3. 0 \in S
    <2>1. Width(b) * 0 = 0
      BY DEF Width
    <2>2. \A m \in Nat : m < TwoTo[0] => m = 0
      BY PowersDefined
    <2>3. Len(D[0]) <= 0
      BY <1>2
    <2>. QED  BY <2>1, <2>2, <2>3
  <1>4. ASSUME NEW i \in Nat, i \in S PROVE i + 1 \in S
    <2>1. TwoTo[Width(b) * (i + 1)] = b * TwoTo[Width(b) * i] /\ TwoTo[Width(b) * i] \in Nat
      <3>1. CASE b = 2
        <4>1. Width(b) * (i + 1) = i + 1 /\ Width(b) * i = i
          BY <3>1 DEF Width
        <4>. QED  BY <3>1, <4>1, PowersDefined
      <3>2. CASE b = 16
        <4>1. Width(b) * (i + 1) = (4 * i) + 3 + 1 /\ Width(b) * i = 4 * i
          BY <3>2 DEF Width
        <4>2. /\ TwoTo[(4 * i) + 0 + 1] = 2 * TwoTo[(4 * i) + 0]
              /\ TwoTo[(4 * i) + 1 + 1] = 2 * TwoTo[(4 * i) + 1]
              /\ TwoTo[(4 * i) + 2 + 1] = 2 * TwoTo[(4 * i) + 2]
              /\ TwoTo[(4 * i) + 3 + 1] = 2 * TwoTo[(4 * i) + 3]
          <5>1. 4 * i \in Nat
            OBVIOUS
          <5>. HIDE DEF S
          <5>2. \A k \in Nat : TwoTo[k + 1] = 2 * TwoTo[k]
            BY PowersDefined
          <5>. QED  BY <5>1, <5>2
        <4>3. TwoTo[4 * i] \in Nat
          BY PowersDefined
        <4>4. /\ (4 * i) + 0 = 4 * i /\ (4 * i) + 0 + 1 = (4 * i) + 1
              /\ (4 * i) + 1 + 1 = (4 * i) + 2 /\ (4 * i) + 2 + 1 = (4 * i) + 3
          OBVIOUS
        <4>5. TwoTo[(4 * i) + 3 + 1] = 16 * TwoTo[4 * i]
          BY <4>2, <4>3, <4>4
        <4>. QED  BY <3>2, <4>1, <4>3, <4>5
      <3>. QED  BY <3>1, <3>2
    <2>2. ASSUME NEW m \in Nat, m < TwoTo[Width(b) * (i + 1)] PROVE Len(D[m]) <= i + 1
      <3>1. CASE m = 0
        BY <1>2, <3>1
      <3>2. CASE m # 0
        <4>1. m \div b \in Nat /\ m % b \in 0 .. (b - 1) /\ m = ((m \div b) * b) + (m % b)
          BY <1>1, Divided
        <4>2. m \div b < TwoTo[Width(b) * i]
          <5>. DEFINE q == m \div b
                      T == TwoTo[Width(b) * i]
          <5>1. q \in Nat /\ T \in Nat /\ q * b <= m /\ m < b * T
            BY <2>1, <2>2, <4>1
          <5>. HIDE DEF q, T
          <5>2. q < T
            BY <5>1
          <5>. QED  BY <5>2 DEF q, T
        <4>3. Len(D[m \div b]) <= i /\ D[m \div b] \in Seq(Int)
          BY <1>2, <1>4, <4>1, <4>2
        <4>4. Char(m % b) \in Int
          BY <4>1, Chars
        <4>5. Len(D[m]) = Len(D[m \div b]) + 1
          <5>1. D[m] = <<Char(m % b)>> \o D[m \div b]
            BY <1>2, <3>2
          <5>2. <<Char(m % b)>> \in Seq(Int) /\ Len(<<Char(m % b)>>) = 1
            BY <4>4
          <5>3. Len(D[m]) = Len(<<Char(m % b)>>) + Len(D[m \div b])
            BY <4>3, <5>1, <5>2, ConcatProperties
          <5>4. Len(D[m \div b]) \in Nat
            BY <4>3
          <5>. QED  BY <5>2, <5>3, <5>4
        <4>. QED  BY <4>3, <4>5
      <3>. QED  BY <3>1, <3>2
    <2>. QED  BY <2>2
  <1>5. j \in S
    <2>. HIDE DEF S
    <2>. QED  BY <1>3, <1>4, Induction
  <1>. QED  BY <1>5 DEF D

-----------------------------------------------------------------------------
(* Hexadecimal and binary text.                                             *)

\* s is a text of n to the base b.
Writes(b, n, s) ==
    /\ s \in Seq(Int) /\ s # <<>>
    /\ \A k \in 1 .. Len(s) : \E d \in 0 .. (b - 1) : s[k] = Char(d)
    /\ Read(b, s) = n

\* A text that writes a number holds digits of the base only.
LEMMA WritesPlain == ASSUME NEW b, NEW n, NEW s, Writes(b, n, s) PROVE Plain(b, s)
  BY DEF Writes, Plain

\* The text of the early return for 0 writes 0.
LEMMA WritesZero == ASSUME NEW b \in Bases PROVE Writes(b, 0, <<Char(0)>>)
  <1>1. <<>> \in Seq(Int) /\ Char(0) \in Int /\ Digit(Char(0)) = 0
    BY Chars
  <1>2. b \in Nat /\ 0 \in 0 .. (b - 1)
    BY DEF Bases
  <1>3. Read(b, <<>>) = 0
    <2>1. Len(<<>>) = 0
      OBVIOUS
    <2>. QED  BY <1>1, <1>2, <2>1, ReadDefined
  <1>4. Append(<<>>, Char(0)) = <<Char(0)>>
    OBVIOUS
  <1>5. Read(b, <<Char(0)>>) = 0
    <2>1. Read(b, Append(<<>>, Char(0))) = (Read(b, <<>>) * b) + Digit(Char(0))
      BY <1>1, <1>2, ReadAppend
    <2>. QED  BY <1>1, <1>2, <1>3, <1>4, <2>1
  <1>6. /\ <<Char(0)>> \in Seq(Int) /\ <<Char(0)>> # <<>>
        /\ \A k \in 1 .. Len(<<Char(0)>>) : <<Char(0)>>[k] = Char(0)
    BY <1>1
  <1>. QED  BY <1>2, <1>5, <1>6 DEF Writes

\* Filled up with zeros to w digits.
LEMMA PaddedWrites ==
    ASSUME NEW b \in Bases, NEW n \in Nat, NEW w \in Nat \ {0}, Len(Digits(b)[n]) <= w
    PROVE  Writes(b, n, Reverse(Padded(Digits(b)[n], w))) /\ Len(Reverse(Padded(Digits(b)[n], w))) = w
  <1>. DEFINE s == Digits(b)[n]
              z == w - Len(s)
              zeros == [k \in 1 .. z |-> Char(0)]
              p == Padded(s, w)
              t == Reverse(p)
  <1>1. Tells(b, n, s)
    BY DigitsTell
  <1>. HIDE DEF s
  <1>2. s \in Seq(Int) /\ Len(s) \in Nat /\ z \in Nat /\ Len(s) + z = w /\ Char(0) \in Int
    <2>1. s \in Seq(Int) /\ Char(0) \in Int
      BY <1>1, Chars DEF Tells
    <2>2. Len(s) \in Nat /\ Len(s) <= w
      BY <2>1 DEF s
    <2>. QED  BY <2>1, <2>2
  <1>. HIDE DEF z
  <1>3. zeros \in Seq(Int) /\ Len(zeros) = z /\ \A k \in 1 .. z : zeros[k] = Char(0)
    BY <1>2
  <1>4. p = s \o zeros
    BY DEF Padded, z
  <1>. HIDE DEF zeros, p
  <1>5. /\ p \in Seq(Int) /\ Len(p) = w
        /\ \A k \in 1 .. w : p[k] = IF k <= Len(s) THEN s[k] ELSE zeros[k - Len(s)]
    BY <1>2, <1>3, <1>4, ConcatProperties
  <1>6. /\ t \in Seq(Int) /\ Len(t) = w
        /\ \A k \in 1 .. w : t[k] = p[w - k + 1]
    BY <1>5, Reversed
  <1>7. /\ Reverse(s) \in Seq(Int) /\ Len(Reverse(s)) = Len(s)
        /\ \A k \in 1 .. Len(s) : Reverse(s)[k] = s[Len(s) - k + 1]
    BY <1>2, Reversed
  <1>. HIDE DEF t
  <1>8. \A k \in 1 .. z : t[k] = Char(0)
    <2>. TAKE k \in 1 .. z
    <2>1. k \in 1 .. w /\ w - k + 1 \in 1 .. w /\ ~(w - k + 1 <= Len(s)) /\ w - k + 1 - Len(s) \in 1 .. z
      BY <1>2
    <2>2. p[w - k + 1] = zeros[w - k + 1 - Len(s)]
      BY <1>5, <2>1
    <2>. QED  BY <1>3, <1>6, <2>1, <2>2
  <1>9. \A k \in 1 .. Len(s) : t[z + k] = Reverse(s)[k]
    <2>. TAKE k \in 1 .. Len(s)
    <2>1. z + k \in 1 .. w /\ w - (z + k) + 1 = Len(s) - k + 1 /\ Len(s) - k + 1 \in 1 .. w
          /\ Len(s) - k + 1 <= Len(s)
      BY <1>2
    <2>2. t[z + k] = p[Len(s) - k + 1] /\ p[Len(s) - k + 1] = s[Len(s) - k + 1]
      BY <1>5, <1>6, <2>1
    <2>. QED  BY <1>7, <2>2
  <1>10. b \in Nat /\ 0 \in 0 .. (b - 1)
    BY DEF Bases
  <1>11. Read(b, t) = n
    <2>. DEFINE r == Reverse(s)
    <2>1. /\ r \in Seq(Int) /\ Len(t) = z + Len(r)
          /\ \A k \in 1 .. Len(r) : t[z + k] = r[k]
      <3>1. r \in Seq(Int) /\ Len(r) = Len(s)
        BY <1>7
      <3>2. Len(t) = z + Len(r)
        BY <1>2, <1>6, <3>1
      <3>3. \A k \in 1 .. Len(r) : t[z + k] = r[k]
        BY <1>9, <3>1
      <3>. QED  BY <3>1, <3>2, <3>3
    <2>. HIDE DEF r
    <2>2. Read(b, t) = Read(b, r)
      BY <1>2, <1>6, <1>8, <1>10, <2>1, ReadPadded, ZenonT(40)
    <2>3. Read(b, t) = Read(b, Reverse(s))
      BY <2>2 DEF r
    <2>. QED  BY <1>1, <2>3 DEF Tells
  <1>12. \A k \in 1 .. Len(t) : \E d \in 0 .. (b - 1) : t[k] = Char(d)
    <2>. TAKE k \in 1 .. Len(t)
    <2>1. CASE k \in 1 .. z
      BY <1>8, <1>10, <2>1
    <2>2. CASE k \notin 1 .. z
      <3>1. Len(s) - (k - z) + 1 \in 1 .. Len(s) /\ k - z \in 1 .. Len(s) /\ z + (k - z) = k
        BY <1>2, <1>6, <2>2
      <3>2. t[k] = s[Len(s) - (k - z) + 1]
        BY <1>7, <1>9, <3>1
      <3>. QED  BY <1>1, <3>1, <3>2 DEF Tells
    <2>. QED  BY <2>1, <2>2
  <1>13. t # <<>>
    BY <1>6
  <1>14. Writes(b, n, t) /\ Len(t) = w
    BY <1>6, <1>11, <1>12, <1>13 DEF Writes
  <1>. QED  BY <1>14 DEF t, p, s

\* The widths of the types.
LEMMA Widths ==
    ASSUME NEW t \in Types
    PROVE  /\ Bits[t] \in Nat \ {0} /\ Bits[t] % 4 = 0 /\ Bits[t] - 1 \in Nat
           /\ Bits[t] \div 4 \in Nat \ {0} /\ Bits[t] = 4 * (Bits[t] \div 4)
           /\ TwoTo[Bits[t]] \in Nat \ {0} /\ TwoTo[Bits[t] - 1] \in Nat \ {0, 1}
           /\ TwoTo[Bits[t]] = 2 * TwoTo[Bits[t] - 1]
           /\ WORD \in Nat \ {0}
  <1>. DEFINE B == Bits[t]
  <1>1. B \in Nat \ {0} /\ B % 4 = 0 /\ Bits["U32"] \in Nat
    BY UtilAssumption
  <1>. HIDE DEF B
  <1>2. B \div 4 \in Nat \ {0} /\ B = 4 * (B \div 4) /\ B - 1 \in Nat /\ B - 2 \in Nat
    BY <1>1
  <1>3. TwoTo[(B - 1) + 1] = 2 * TwoTo[B - 1] /\ TwoTo[(B - 2) + 1] = 2 * TwoTo[B - 2]
    BY <1>2, PowersDefined
  <1>4. (B - 1) + 1 = B /\ (B - 2) + 1 = B - 1
    BY <1>1
  <1>5. TwoTo[B] \in Nat \ {0} /\ TwoTo[B - 2] \in Nat \ {0} /\ WORD \in Nat \ {0}
    BY <1>1, <1>2, PowersDefined DEF WORD
  <1>6. TwoTo[B - 1] \in Nat \ {0, 1} /\ TwoTo[B] = 2 * TwoTo[B - 1]
    BY <1>3, <1>4, <1>5
  <1>. QED  BY <1>1, <1>2, <1>5, <1>6 DEF B

\* num_to_hex.
LEMMA HexWrites ==
    ASSUME NEW t \in Types, NEW n \in Nat
    PROVE  /\ Writes(16, Masked(t, n), num_to_hex(t, n))
           /\ Len(num_to_hex(t, n)) = Bits[t] \div 4 \/ Masked(t, n) = 0
  <1>. DEFINE m == Masked(t, n)
              w == Bits[t] \div 4
              s == Reverse(Padded(Digits(16)[m], w))
  <1>1. TwoTo[Bits[t]] \in Nat \ {0} /\ w \in Nat \ {0} /\ Bits[t] = 4 * w
    BY Widths
  <1>2. m \in Nat /\ m < TwoTo[4 * w]
    BY <1>1 DEF Masked
  <1>3. CASE m = 0
    <2>1. num_to_hex(t, n) = <<Char(0)>>
      BY <1>3 DEF num_to_hex
    <2>2. 16 \in Bases
      BY DEF Bases
    <2>. QED  BY <1>3, <2>1, <2>2, WritesZero
  <1>4. CASE m # 0
    <2>. HIDE DEF m, w
    <2>1. Width(16) * w = 4 * w /\ 16 \in {2, 16} /\ 16 \in Bases
      BY DEF Width, Bases
    <2>2. Len(Digits(16)[m]) <= w
      BY <1>1, <1>2, <2>1, DigitsCount
    <2>3. Writes(16, m, s) /\ Len(s) = w
      BY <1>1, <1>2, <2>1, <2>2, PaddedWrites
    <2>4. num_to_hex(t, n) = s
      BY <1>4 DEF num_to_hex, m, w
    <2>. QED  BY <2>3, <2>4 DEF m, w
  <1>. QED  BY <1>3, <1>4

\* num_to_bin.
LEMMA BinWrites ==
    ASSUME NEW t \in Types, NEW n \in Nat
    PROVE  Writes(2, Masked(t, n), num_to_bin(t, n)) /\ Len(num_to_bin(t, n)) = Bits[t]
  <1>. DEFINE m == Masked(t, n)
              w == Bits[t]
  <1>1. TwoTo[w] \in Nat \ {0} /\ w \in Nat \ {0}
    BY Widths
  <1>2. m \in Nat /\ m < TwoTo[w]
    BY <1>1 DEF Masked
  <1>. HIDE DEF m, w
  <1>3. Width(2) * w = w /\ 2 \in {2, 16} /\ 2 \in Bases
    BY <1>1 DEF Width, Bases
  <1>4. Len(Digits(2)[m]) <= w
    BY <1>1, <1>2, <1>3, DigitsCount
  <1>5. Writes(2, m, Reverse(Padded(Digits(2)[m], w))) /\ Len(Reverse(Padded(Digits(2)[m], w))) = w
    BY <1>1, <1>2, <1>3, <1>4, PaddedWrites
  <1>. QED  BY <1>5 DEF num_to_bin, m, w

-----------------------------------------------------------------------------
(* Decimal text.                                                            *)

\* A text without needless zeros.
Short(s) == s[1] = Char(0) => Len(s) = 1

\* A text with i added to its last digit.
Bumped(s, i) == [s EXCEPT ![Len(s)] = @ + i]

\* The digits of a number, with i added to the last of them, which is not a nine if i is
\* one.
LEMMA DigitsWrite ==
    ASSUME NEW n \in Nat \ {0}, NEW i \in {0, 1}, i = 1 => n % 10 # 9
    PROVE  /\ Reverse(Digits(10)[n]) \in Seq(Int) /\ Reverse(Digits(10)[n]) # <<>>
           /\ Writes(10, n + i, Bumped(Reverse(Digits(10)[n]), i))
           /\ Short(Bumped(Reverse(Digits(10)[n]), i))
  <1>. DEFINE q == n \div 10
              d == n % 10
              D == Digits(10)
              r == Reverse(D[q])
              s == Reverse(D[n])
              u == [s EXCEPT ![Len(s)] = @ + i]
  <1>1. 10 \in Bases
    BY DEF Bases
  <1>2. q \in Nat /\ d \in 0 .. 9 /\ n = (q * 10) + d /\ (q = 0 => d # 0)
    OBVIOUS
  <1>3. Tells(10, q, D[q])
    BY <1>1, <1>2, DigitsTell
  <1>4. D[n] = <<Char(d)>> \o D[q] /\ D[0] = <<>>
    BY <1>1, DigitsDefined
  <1>. HIDE DEF q, d, D
  <1>5. d + i \in 0 .. 9 /\ Char(d) \in Int /\ Char(d + i) \in Int /\ Char(d) + i = Char(d + i)
    BY <1>2, Chars DEF Char, d
  <1>6. /\ D[q] \in Seq(Int)
        /\ r \in Seq(Int) /\ Len(r) = Len(D[q])
        /\ \A k \in 1 .. Len(r) : r[k] = D[q][Len(r) - k + 1]
    <2>1. D[q] \in Seq(Int)
      BY <1>3 DEF Tells
    <2>. QED  BY <2>1, Reversed
  <1>. HIDE DEF r
  <1>7. s = Append(r, Char(d))
    BY <1>4, <1>5, <1>6, ReversedCons DEF r
  <1>. HIDE DEF s
  <1>8. s \in Seq(Int) /\ s # <<>> /\ Len(s) = Len(r) + 1
    <2>1. r \in Seq(Int) /\ Char(d) \in Int
      BY <1>5, <1>6
    <2>2. /\ Append(r, Char(d)) \in Seq(Int) /\ Append(r, Char(d)) # <<>>
          /\ Len(Append(r, Char(d))) = Len(r) + 1
      BY ONLY <2>1, AppendProperties
    <2>. QED  BY ONLY <1>7, <2>2
  <1>9. u = Append(r, Char(d + i))
    <2>1. Append(r, Char(d + i)) \in Seq(Int) /\ Len(Append(r, Char(d + i))) = Len(s)
      BY <1>5, <1>6, <1>8
    <2>2. /\ Len(s) \in 1 .. Len(s) /\ s[Len(s)] = Char(d) /\ s[Len(s)] + i \in Int
          /\ s[Len(s)] + i = Char(d + i)
      BY <1>5, <1>6, <1>7, <1>8
    <2>3. /\ u \in Seq(Int) /\ Len(u) = Len(s)
          /\ \A k \in 1 .. Len(s) : u[k] = IF k = Len(s) THEN Char(d + i) ELSE s[k]
      <3>1. [s EXCEPT ![Len(s)] = @ + i] = [s EXCEPT ![Len(s)] = s[Len(s)] + i]
        OBVIOUS
      <3>. QED  BY <1>8, <2>2, <3>1, ExceptSeq
    <2>. DEFINE a == Append(r, Char(d + i))
    <2>4. /\ a[Len(r) + 1] = Char(d + i)
          /\ \A k \in 1 .. Len(r) : a[k] = r[k]
      BY <1>5, <1>6, AppendProperties
    <2>5. \A k \in 1 .. Len(r) : s[k] = r[k]
      BY <1>5, <1>6, <1>7, AppendProperties
    <2>6. a \in Seq(Int) /\ Len(a) = Len(s)
      BY <2>1
    <2>. HIDE DEF u, a
    <2>7. \A k \in 1 .. Len(s) : u[k] = a[k]
      <3>. TAKE k \in 1 .. Len(s)
      <3>1. CASE k = Len(s)
        BY <1>8, <2>3, <2>4, <3>1
      <3>2. CASE k # Len(s)
        <4>1. k \in 1 .. Len(r)
          BY <1>6, <1>8, <3>2
        <4>. QED  BY <2>3, <2>4, <2>5, <3>2, <4>1
      <3>. QED  BY <3>1, <3>2
    <2>8. u = a
      BY <2>3, <2>6, <2>7, SeqEqual
    <2>. QED  BY <2>8 DEF a
  <1>. HIDE DEF u
  <1>10. u \in Seq(Int) /\ u # <<>> /\ Len(u) = Len(r) + 1 /\ u[Len(r) + 1] = Char(d + i)
         /\ \A k \in 1 .. Len(r) : u[k] = r[k]
    BY <1>5, <1>6, <1>9
  <1>11. Read(10, u) = n + i
    <2>1. Read(10, u) = (Read(10, r) * 10) + Digit(Char(d + i))
      BY <1>5, <1>6, <1>9, ReadAppend
    <2>2. Read(10, r) = q
      BY <1>3 DEF Tells, r
    <2>3. Digit(Char(d + i)) = d + i
      BY <1>5, Chars
    <2>. QED  BY <1>2, <2>1, <2>2, <2>3
  <1>12. \A k \in 1 .. Len(u) : \E e \in 0 .. (10 - 1) : u[k] = Char(e)
    <2>. TAKE k \in 1 .. Len(u)
    <2>1. CASE k = Len(r) + 1
      BY <1>5, <1>10, <2>1
    <2>2. CASE k \in 1 .. Len(r)
      <3>1. Len(r) - k + 1 \in 1 .. Len(D[q])
        BY <1>6, <2>2
      <3>2. u[k] = D[q][Len(r) - k + 1]
        BY <1>6, <1>10, <2>2
      <3>. QED  BY <1>3, <3>1, <3>2 DEF Tells
    <2>. QED  BY <1>6, <1>10, <2>1, <2>2
  <1>13. Short(u)
    <2>1. CASE q = 0
      BY <1>4, <1>6, <1>10, <2>1 DEF Short
    <2>2. CASE q # 0
      <3>1. D[q] # <<>> /\ D[q][Len(D[q])] # Char(0)
        BY <1>2, <1>3, <2>2 DEF Tells
      <3>2. 1 \in 1 .. Len(r) /\ Len(r) - 1 + 1 = Len(D[q])
        BY <1>6, <3>1
      <3>3. u[1] = D[q][Len(D[q])]
        BY <1>6, <1>10, <3>2
      <3>. QED  BY <3>1, <3>3 DEF Short
    <2>. QED  BY <2>1, <2>2
  <1>14. s \in Seq(Int) /\ s # <<>> /\ Writes(10, n + i, u) /\ Short(u)
    BY <1>8, <1>10, <1>11, <1>12, <1>13 DEF Writes
  <1>. QED  BY <1>14 DEF s, u, D, Bumped

\* What DecimalReadsBack says of the text s of a number n.
Reads(n, s) ==
    /\ Plain(10, IF s[1] = Minus THEN Tail(s) ELSE s)
    /\ ReadSigned(s) = n
    /\ Short(s)

\* A text without a sign reads as what it says, behind a sign as the opposite.
LEMMA TextReads ==
    ASSUME NEW n \in Nat, NEW s, Writes(10, n, s), Short(s)
    PROVE  Reads(n, s) /\ Reads(0 - n, <<Minus>> \o s)
  <1>. DEFINE u == <<Minus>> \o s
  <1>1. s \in Seq(Int) /\ s # <<>> /\ Read(10, s) = n /\ Plain(10, s)
    BY WritesPlain DEF Writes
  <1>2. Minus \in Int
    BY DEF Minus
  <1>3. s[1] # Minus
    <2>1. 1 \in 1 .. Len(s)
      BY <1>1
    <2>2. PICK d \in 0 .. (10 - 1) : s[1] = Char(d)
      BY <2>1 DEF Writes
    <2>. QED  BY <2>2, Chars
  <1>4. Reads(n, s)
    BY <1>1, <1>3 DEF Reads, ReadSigned
  <1>5. u \in Seq(Int) /\ u # <<>> /\ u[1] = Minus /\ Len(u) = Len(s) + 1
    BY <1>1, <1>2
  <1>6. Tail(u) = s
    <2>1. /\ Tail(u) \in Seq(Int) /\ Len(Tail(u)) = Len(s)
          /\ \A k \in 1 .. Len(s) : Tail(u)[k] = u[k + 1]
      BY <1>1, <1>5, HeadTailProperties
    <2>2. \A k \in 1 .. Len(s) : u[k + 1] = s[k]
      BY <1>1, <1>2
    <2>. HIDE DEF u
    <2>. QED  BY <1>1, <2>1, <2>2, SeqEqual
  <1>7. u[1] # Char(0)
    BY <1>5, Chars
  <1>. HIDE DEF u
  <1>8. Reads(0 - n, u)
    BY <1>1, <1>5, <1>6, <1>7 DEF Reads, ReadSigned, Short
  <1>. QED  BY <1>4, <1>8 DEF u

\* The text of the early return for 0 reads as 0 and is short.
LEMMA ZeroReads == Reads(0, <<Char(0)>>)
  <1>1. 10 \in Bases
    BY DEF Bases
  <1>2. Writes(10, 0, <<Char(0)>>) /\ Short(<<Char(0)>>)
    BY <1>1, WritesZero DEF Short
  <1>. QED  BY <1>2, TextReads

\* The unsigned types.
LEMMA UnsignedText ==
    ASSUME NEW t \in Types, ~Signed(t), NEW n \in Nat
    PROVE  Reads(Cast(t, n), num_to_str(t, n))
  <1>. DEFINE m == Cast(t, n)
              s == Reverse(Digits(10)[m])
  <1>1. TwoTo[Bits[t]] \in Nat \ {0}
    BY Widths
  <1>2. m \in Nat
    <2>1. m = n % TwoTo[Bits[t]]
      BY DEF Cast
    <2>. QED  BY <1>1, <2>1
  <1>3. num_to_str(t, n) = num_to_str_unsigned(m)
    BY DEF num_to_str
  <1>. HIDE DEF m
  <1>4. CASE m = 0
    <2>1. num_to_str(t, n) = <<Char(0)>>
      BY <1>3, <1>4 DEF num_to_str_unsigned
    <2>. QED  BY <1>4, <2>1, ZeroReads DEF m
  <1>5. CASE m # 0
    <2>1. num_to_str(t, n) = s
      BY <1>3, <1>5 DEF num_to_str_unsigned
    <2>. DEFINE u == Bumped(s, 0)
    <2>2. s \in Seq(Int) /\ s # <<>> /\ Writes(10, m + 0, u) /\ Short(u)
      BY <1>2, <1>5, DigitsWrite
    <2>. HIDE DEF s
    <2>3. u = s
      <3>1. Len(s) \in 1 .. Len(s) /\ s[Len(s)] \in Int /\ s[Len(s)] + 0 = s[Len(s)]
        BY <2>2
      <3>2. u = [s EXCEPT ![Len(s)] = s[Len(s)]]
        BY <3>1 DEF Bumped
      <3>. QED  BY <2>2, <3>2
    <2>4. Writes(10, m, s) /\ Short(s)
      BY <1>2, <2>2, <2>3
    <2>. QED  BY <1>2, <2>1, <2>4, TextReads DEF m
  <1>. QED  BY <1>4, <1>5

\* No power of two ends in a zero, so that no largest number ends in a nine.
LEMMA LastDigit == ASSUME NEW n \in Nat PROVE TwoTo[n] % 5 # 0
  <1>. DEFINE S == {k \in Nat : TwoTo[k] % 5 # 0}
  <1>1. 0 \in S
    BY PowersDefined
  <1>2. ASSUME NEW k \in Nat, k \in S PROVE k + 1 \in S
    <2>1. TwoTo[k + 1] = 2 * TwoTo[k] /\ TwoTo[k] \in Nat
      BY PowersDefined
    <2>2. TwoTo[k + 1] % 5 # 0
      <3>. DEFINE x == TwoTo[k]
      <3>1. x % 5 # 0 /\ x \in Nat
        BY <1>2, <2>1
      <3>. HIDE DEF x
      <3>2. (2 * x) % 5 # 0
        BY <3>1
      <3>. QED  BY <2>1, <3>2 DEF x
    <2>. QED  BY <2>2
  <1>. HIDE DEF S
  <1>3. n \in S
    BY <1>1, <1>2, Induction
  <1>. QED  BY <1>3 DEF S

\* The int: a word n stands for n, or for n - WORD from half of that on.
LEMMA Words ==
    ASSUME NEW n \in 0 .. (WORD - 1)
    PROVE  LET H == TwoTo[Bits["I32"] - 1]
               c == Cast("I32", n)
           IN  /\ H \in Nat \ {0, 1} /\ TwoTo[Bits["I32"]] = 2 * H /\ WORD = 2 * H
               /\ c = IF n >= H THEN n - 2 * H ELSE n
               /\ Word(c) = n /\ n % (2 * H) = n /\ Word(0 - H) = H
  <1>. DEFINE H == TwoTo[Bits["I32"] - 1]
              c == Cast("I32", n)
  <1>1. "I32" \in Types /\ Bits["I32"] = Bits["U32"]
    BY UtilAssumption
  <1>2. H \in Nat \ {0, 1} /\ TwoTo[Bits["I32"]] = 2 * H /\ WORD = 2 * H
    BY <1>1, Widths DEF WORD
  <1>. HIDE DEF H
  <1>3. \A k \in 0 .. (2 * H - 1) : k % (2 * H) = k /\ (k - 2 * H) % (2 * H) = k
    <2>. TAKE k \in 0 .. (2 * H - 1)
    <2>1. 2 * H \in Nat \ {0} /\ 0 * (2 * H) + k = k /\ (0 - 1) * (2 * H) + k = k - 2 * H
      BY <1>2
    <2>2. (0 * (2 * H) + k) % (2 * H) = k /\ ((0 - 1) * (2 * H) + k) % (2 * H) = k
      <3>. DEFINE N == 2 * H
      <3>1. N \in Nat \ {0} /\ k \in 0 .. (N - 1) /\ 0 \in Int /\ 0 - 1 \in Int
        BY <2>1
      <3>. HIDE DEF N
      <3>2. (0 * N + k) % N = k /\ ((0 - 1) * N + k) % N = k
        BY <3>1, Remainder
      <3>. QED  BY <3>2 DEF N
    <2>. QED  BY <2>1, <2>2
  <1>4. n \in 0 .. (2 * H - 1) /\ n % (2 * H) = n
    BY <1>2, <1>3
  <1>5. c = IF n >= H THEN n - 2 * H ELSE n
    BY <1>2, <1>4 DEF Cast, Signed
  <1>6. Word(c) = n
    BY <1>2, <1>3, <1>4, <1>5 DEF Word
  <1>7. Word(0 - H) = H
    <2>1. H \in 0 .. (2 * H - 1) /\ H - 2 * H = 0 - H
      BY <1>2
    <2>. QED  BY <1>2, <1>3, <2>1 DEF Word
  <1>. QED  BY <1>2, <1>4, <1>5, <1>6, <1>7 DEF H

\* The signed type that is as wide as a word, its least number included, whose opposite is
\* not a number of the type.
LEMMA SignedText ==
    ASSUME NEW n \in 0 .. (WORD - 1)
    PROVE  Reads(Cast("I32", n), num_to_str("I32", n))
  <1>. DEFINE H == TwoTo[Bits["I32"] - 1]
              c == Cast("I32", n)
              least == n = H
              abs == IF least THEN H - 1 ELSE IF c < 0 THEN 0 - c ELSE c
              i == IF least THEN 1 ELSE 0
              s == Reverse(Digits(10)[abs])
              txt == (IF least \/ c < 0 THEN <<Minus>> ELSE <<>>) \o s
  <1>1. /\ H \in Nat \ {0, 1} /\ TwoTo[Bits["I32"]] = 2 * H /\ WORD = 2 * H
        /\ c = IF n >= H THEN n - 2 * H ELSE n
        /\ Word(c) = n /\ n % (2 * H) = n /\ Word(0 - H) = H
    BY Words
  <1>. HIDE DEF H, c
  <1>2. num_to_str("I32", n) = num_to_str_signed("I32", c)
    BY DEF num_to_str, Signed, c
  <1>3. Cast("I32", Word(c) % TwoTo[Bits["I32"]]) = c
    BY <1>1 DEF c
  <1>4. num_to_str_signed("I32", c) =
            IF c = 0 THEN <<Char(0)>> ELSE [txt EXCEPT ![Len(txt)] = @ + i]
    BY <1>1, <1>3, ZenonT(40) DEF num_to_str_signed, H
  <1>5. CASE c = 0
    BY <1>2, <1>4, <1>5, ZeroReads DEF c
  <1>6. CASE c # 0
    <2>1. /\ abs \in Nat \ {0} /\ i \in {0, 1} /\ abs + i \in Nat
          /\ c = IF least \/ c < 0 THEN 0 - (abs + i) ELSE abs + i
      BY <1>1, <1>6
    <2>2. i = 1 => abs % 10 # 9
      <3>. SUFFICES ASSUME n = H PROVE (H - 1) % 10 # 9
        OBVIOUS
      <3>1. "I32" \in Types
        BY UtilAssumption
      <3>2. Bits["I32"] - 1 \in Nat
        BY <3>1, Widths
      <3>3. H % 5 # 0
        BY <3>2, LastDigit DEF H
      <3>. QED  BY <1>1, <3>3
    <2>. HIDE DEF least, abs, i
    <2>3. /\ s \in Seq(Int) /\ s # <<>>
          /\ Writes(10, abs + i, Bumped(s, i)) /\ Short(Bumped(s, i))
      BY <2>1, <2>2, DigitsWrite
    <2>4. Reads(abs + i, Bumped(s, i)) /\ Reads(0 - (abs + i), <<Minus>> \o Bumped(s, i))
      BY <2>1, <2>3, TextReads
    <2>. HIDE DEF s
    <2>5. Len(s) \in 1 .. Len(s) /\ s[Len(s)] + i \in Int /\ Minus \in Int
      BY <2>1, <2>3 DEF Minus
    <2>6. /\ Bumped(s, i) \in Seq(Int) /\ Len(Bumped(s, i)) = Len(s)
          /\ \A k \in 1 .. Len(s) : Bumped(s, i)[k] = IF k = Len(s) THEN s[Len(s)] + i ELSE s[k]
      <3>1. Bumped(s, i) = [s EXCEPT ![Len(s)] = s[Len(s)] + i]
        BY DEF Bumped
      <3>. QED  BY <2>3, <2>5, <3>1, ExceptSeq
    <2>7. CASE least \/ c < 0
      <3>1. txt = <<Minus>> \o s
        BY <2>7
      <3>. HIDE DEF txt
      <3>2. /\ txt \in Seq(Int) /\ Len(txt) = Len(s) + 1 /\ txt[1] = Minus
            /\ \A k \in 1 .. Len(s) : txt[k + 1] = s[k]
        BY <2>3, <2>5, <3>1
      <3>. DEFINE u == [txt EXCEPT ![Len(txt)] = @ + i]
                  v == <<Minus>> \o Bumped(s, i)
      <3>3. Len(txt) \in 1 .. Len(txt) /\ txt[Len(txt)] = s[Len(s)]
        BY <2>5, <3>2
      <3>4. /\ u \in Seq(Int) /\ Len(u) = Len(txt)
            /\ \A k \in 1 .. Len(txt) : u[k] = IF k = Len(txt) THEN s[Len(s)] + i ELSE txt[k]
        <4>1. u = [txt EXCEPT ![Len(txt)] = s[Len(s)] + i]
          BY <3>3
        <4>. HIDE DEF u
        <4>. QED  BY <2>5, <3>2, <3>3, <4>1, ExceptSeq
      <3>5. /\ v \in Seq(Int) /\ Len(v) = Len(s) + 1 /\ v[1] = Minus
            /\ \A k \in 1 .. Len(s) : v[k + 1] = Bumped(s, i)[k]
        BY <2>5, <2>6
      <3>. HIDE DEF u, v
      <3>6. ASSUME NEW k \in 1 .. Len(txt) PROVE u[k] = v[k]
        <4>1. CASE k = 1
          BY <2>5, <3>2, <3>4, <3>5, <4>1
        <4>2. CASE k # 1
          <5>1. k - 1 \in 1 .. Len(s) /\ (k - 1) + 1 = k /\ (k = Len(txt) <=> k - 1 = Len(s))
            BY <2>5, <3>2, <4>2
          <5>2. txt[k] = s[k - 1] /\ v[k] = Bumped(s, i)[k - 1]
            BY <3>2, <3>5, <5>1
          <5>. QED  BY <2>6, <3>4, <5>1, <5>2
        <4>. QED  BY <4>1, <4>2
      <3>7. u = v
        BY <3>2, <3>4, <3>5, <3>6, SeqEqual
      <3>8. num_to_str("I32", n) = v
        BY <1>2, <1>4, <1>6, <3>7 DEF u
      <3>. QED  BY <2>1, <2>4, <2>7, <3>8 DEF c, v
    <2>8. CASE ~(least \/ c < 0)
      <3>1. txt = s
        <4>1. txt = <<>> \o s
          BY <2>8
        <4>. HIDE DEF txt
        <4>. QED  BY <2>3, <4>1, ConcatEmptySeq
      <3>. HIDE DEF txt
      <3>2. num_to_str("I32", n) = Bumped(s, i)
        BY <1>2, <1>4, <1>6, <3>1 DEF Bumped
      <3>. QED  BY <2>1, <2>4, <2>8, <3>2 DEF c
    <2>. QED  BY <2>7, <2>8
  <1>. QED  BY <1>5, <1>6

-----------------------------------------------------------------------------
(* pow.                                                                     *)

\* The larger and the smaller of two numbers.
LEMMA OfTwo ==
    ASSUME NEW a \in Int, NEW b \in Int
    PROVE  /\ Min({a, b}) = IF a <= b THEN a ELSE b
           /\ Max({a, b}) = IF a <= b THEN b ELSE a
  BY DEF Min, Max

\* A number of a type is the number that was cut but for a multiple of what the type can
\* hold; a multiple more or less makes no difference.
LEMMA CastCuts ==
    ASSUME NEW t \in Types, NEW x \in Int
    PROVE  /\ Cast(t, x) \in Int
           /\ \E q \in Int : Cast(t, x) = x + q * TwoTo[Bits[t]]
           /\ \A q \in Int : Cast(t, x + q * TwoTo[Bits[t]]) = Cast(t, x)
           /\ ~Signed(t) => Cast(t, x) \in 0 .. (TwoTo[Bits[t]] - 1)
  <1>. DEFINE M == TwoTo[Bits[t]]
              m == x % M
  <1>1. M \in Nat \ {0}
    BY Widths
  <1>2. Cast(t, x) = IF Signed(t) /\ 2 * m >= M THEN m - M ELSE m
    BY DEF Cast
  <1>3. \A q \in Int : Cast(t, x + q * M) = Cast(t, x)
    <2>. TAKE q \in Int
    <2>. HIDE DEF M
    <2>1. (x + q * M) % M = x % M
      BY <1>1, SameRemainder
    <2>. QED  BY <2>1 DEF Cast, M
  <1>. HIDE DEF M, m
  <1>4. m \in 0 .. (M - 1) /\ \E d \in Int : x = d * M + m
    <2>1. x % M \in 0 .. (M - 1) /\ \E d \in Int : x = d * M + (x % M)
      BY <1>1, SameRemainder
    <2>. QED  BY <2>1 DEF m
  <1>5. PICK d \in Int : x = d * M + m
    BY <1>4
  <1>6. m = x + (0 - d) * M /\ m - M = x + (0 - d - 1) * M
    BY <1>1, <1>4, <1>5
  <1>7. Cast(t, x) \in Int /\ \E q \in Int : Cast(t, x) = x + q * M
    BY <1>1, <1>2, <1>4, <1>6
  <1>8. ~Signed(t) => Cast(t, x) \in 0 .. (M - 1)
    BY <1>2, <1>4
  <1>. QED  BY <1>3, <1>7, <1>8 DEF M

\* To double a number that was cut to its type, and to cut it again, gives what cutting
\* the doubled number gives: a step of pow's loop.
LEMMA CastTwice ==
    ASSUME NEW t \in Types, NEW x \in Int
    PROVE  Cast(t, 2 * Cast(t, x)) = Cast(t, 2 * x)
  <1>. DEFINE M == TwoTo[Bits[t]]
  <1>1. M \in Nat \ {0}
    BY Widths
  <1>2. PICK q \in Int : Cast(t, x) = x + q * M
    BY CastCuts
  <1>3. \A y \in Int, p \in Int : Cast(t, y + p * M) = Cast(t, y)
    BY CastCuts
  <1>. HIDE DEF M
  <1>4. 2 * Cast(t, x) = 2 * x + (2 * q) * M /\ 2 * x \in Int /\ 2 * q \in Int
    BY <1>1, <1>2
  <1>. QED  BY <1>3, <1>4

\* What the loop of pow computes from a number.
LEMMA DoubledDefined ==
    ASSUME NEW t \in Types, NEW n \in Int
    PROVE  \E d : /\ d \in [Nat -> Int] /\ d[0] = n
                  /\ \A k \in Nat : d[k + 1] = Cast(t, 2 * d[k])
                  /\ \A i : Doubled(t, n, i) = IF i < 0 THEN n ELSE d[Min({i, Bits[t]})]
  <1>. DEFINE before == [k \in Nat |-> IF k = 0 THEN 0 ELSE k - 1]
              step == [k \in Nat |-> [v \in Int |-> Cast(t, 2 * v)]]
              Is(g) == g = [k \in Nat |-> IF k = 0 THEN n ELSE Cast(t, 2 * g[k - 1])]
  <1>1. DefinedFrom(Int, n, before, step)
    <2>1. \A v \in Int : Cast(t, 2 * v) \in Int
      <3>. TAKE v \in Int
      <3>1. 2 * v \in Int
        OBVIOUS
      <3>. QED  BY <3>1, CastCuts
    <2>2. step \in [Nat -> [Int -> Int]]
      BY <2>1
    <2>3. before \in [Nat -> Nat] /\ \A k \in Nat \ {0} : before[k] < k
      OBVIOUS
    <2>. HIDE DEF before, step
    <2>. QED  BY <2>2, <2>3 DEF DefinedFrom
  <1>2. PICK g : /\ g \in [Nat -> Int]
                 /\ \A k \in Nat : g[k] = IF k = 0 THEN n ELSE step[k][g[before[k]]]
    <2>. HIDE DEF before, step
    <2>. QED  BY <1>1, NumberRecursion
  <1>3. Is(g)
    <2>1. ASSUME NEW k \in Nat \ {0} PROVE step[k][g[before[k]]] = Cast(t, 2 * g[k - 1])
      <3>1. before[k] = k - 1 /\ g[k - 1] \in Int
        BY <1>2
      <3>. QED  BY <3>1
    <2>2. g = [k \in Nat |-> g[k]]
      BY <1>2
    <2>. HIDE DEF before, step
    <2>3. \A k \in Nat : g[k] = IF k = 0 THEN n ELSE Cast(t, 2 * g[k - 1])
      BY <1>2, <2>1
    <2>. QED  BY <2>2, <2>3
  <1>. DEFINE d == CHOOSE h : Is(h)
  <1>4. Is(d)
    <2>. HIDE DEF Is
    <2>. QED  BY <1>3, Zenon
  <1>5. \A i : Doubled(t, n, i) = IF i < 0 THEN n ELSE d[Min({i, Bits[t]})]
    BY DEF Doubled
  <1>. HIDE DEF d
  <1>6. d = [k \in Nat |-> IF k = 0 THEN n ELSE Cast(t, 2 * d[k - 1])]
    BY <1>4
  <1>7. d[0] = n /\ \A k \in Nat : d[k + 1] = Cast(t, 2 * d[k])
    BY <1>6
  <1>8. \A k \in Nat : k \in {j \in Nat : d[j] \in Int}
    <2>. DEFINE S == {j \in Nat : d[j] \in Int}
    <2>1. 0 \in S
      BY <1>7
    <2>2. ASSUME NEW k \in Nat, k \in S PROVE k + 1 \in S
      <3>1. 2 * d[k] \in Int
        BY <2>2
      <3>2. Cast(t, 2 * d[k]) \in Int
        BY <3>1, CastCuts
      <3>. QED  BY <1>7, <3>2
    <2>. HIDE DEF S
    <2>3. \A k \in Nat : k \in S
      BY <2>1, <2>2, Induction
    <2>. QED  BY <2>3 DEF S
  <1>9. d \in [Nat -> Int]
    <2>1. d = [k \in Nat |-> d[k]]
      BY <1>6
    <2>. QED  BY <1>8, <2>1
  <1>. QED  BY <1>5, <1>7, <1>9

\* pow of two.
LEMMA PowText ==
    ASSUME NEW t \in Types, NEW e \in Int, Cast(t, e) > 0
    PROVE  pow(t, 2, e) = Cast(t, TwoTo[Min({Cast(t, e), Bits[t]})])
  <1>. DEFINE num2 == Cast(t, e)
              B == Bits[t]
              M == TwoTo[B]
              n == Cast(t, 2)
  <1>1. /\ B \in Nat \ {0} /\ M \in Nat \ {0} /\ num2 \in Int /\ num2 > 0 /\ n \in Int
    BY Widths, CastCuts
  <1>2. (IF t = "U32" THEN Word(num2 - 1) ELSE num2 - 1) = num2 - 1
    <2>1. ASSUME t = "U32" PROVE Word(num2 - 1) = num2 - 1
      <3>1. num2 \in 0 .. (M - 1) /\ M = WORD
        BY <2>1, CastCuts DEF Signed, WORD
      <3>. HIDE DEF num2, M
      <3>2. num2 - 1 \in 0 .. (WORD - 1) /\ WORD \in Nat \ {0} /\ 0 * WORD + (num2 - 1) = num2 - 1
        BY <1>1, <3>1
      <3>3. (0 * WORD + (num2 - 1)) % WORD = num2 - 1
        BY <3>2, Remainder
      <3>. QED  BY <3>2, <3>3 DEF Word
    <2>. QED  BY <2>1
  <1>3. pow(t, 2, e) = Doubled(t, n, num2 - 1)
    <2>1. ~(num2 < 0)
      BY <1>1
    <2>. QED  BY <1>2, <2>1 DEF pow
  <1>4. PICK d : /\ d \in [Nat -> Int] /\ d[0] = n
                 /\ \A k \in Nat : d[k + 1] = Cast(t, 2 * d[k])
                 /\ \A i : Doubled(t, n, i) = IF i < 0 THEN n ELSE d[Min({i, Bits[t]})]
    BY <1>1, DoubledDefined
  <1>5. \A k \in Nat : d[k] = Cast(t, TwoTo[k + 1])
    <2>. DEFINE S == {k \in Nat : d[k] = Cast(t, TwoTo[k + 1])}
    <2>1. 0 \in S
      <3>1. TwoTo[0 + 1] = 2
        BY PowersDefined
      <3>. QED  BY <1>4, <3>1
    <2>2. ASSUME NEW k \in Nat, k \in S PROVE k + 1 \in S
      <3>1. TwoTo[k + 1 + 1] = 2 * TwoTo[k + 1] /\ TwoTo[k + 1] \in Int
        BY PowersDefined
      <3>2. Cast(t, 2 * Cast(t, TwoTo[k + 1])) = Cast(t, 2 * TwoTo[k + 1])
        BY <3>1, CastTwice
      <3>. QED  BY <1>4, <2>2, <3>1, <3>2
    <2>. HIDE DEF S
    <2>3. \A k \in Nat : k \in S
      BY <2>1, <2>2, Induction
    <2>. QED  BY <2>3 DEF S
  <1>. HIDE DEF num2, B, n
  <1>6. CASE num2 - 1 < B
    <2>1. num2 <= B /\ num2 - 1 \in Nat /\ (num2 - 1) + 1 = num2 /\ ~(num2 - 1 < 0)
      BY <1>1, <1>6
    <2>2. Min({num2 - 1, B}) = num2 - 1 /\ Min({num2, B}) = num2
      BY <1>1, <2>1, OfTwo
    <2>3. Doubled(t, n, num2 - 1) = d[num2 - 1]
      BY <1>4, <2>1, <2>2 DEF B
    <2>. QED  BY <1>3, <1>5, <2>1, <2>2, <2>3 DEF B, num2
  <1>7. CASE num2 - 1 >= B
    <2>1. ~(num2 - 1 < 0) /\ ~(num2 <= B) /\ num2 - 1 \in Int
      BY <1>1, <1>7
    <2>2. Min({num2 - 1, B}) = B /\ Min({num2, B}) = B
      BY <1>1, <1>7, <2>1, OfTwo
    <2>3. Doubled(t, n, num2 - 1) = d[B]
      BY <1>4, <2>1, <2>2 DEF B
    <2>4. d[B] = Cast(t, TwoTo[B + 1]) /\ TwoTo[B + 1] = 2 * M
      BY <1>1, <1>5, PowersDefined
    <2>5. \A q \in Int : Cast(t, M + q * M) = Cast(t, M)
      <3>1. M \in Int
        BY <1>1
      <3>. HIDE DEF M
      <3>2. \A x \in Int, q \in Int : Cast(t, x + q * TwoTo[Bits[t]]) = Cast(t, x)
        BY CastCuts
      <3>. QED  BY <3>1, <3>2 DEF M, B
    <2>. HIDE DEF M
    <2>6. M + 1 * M = 2 * M
      BY <1>1
    <2>7. Cast(t, 2 * M) = Cast(t, M)
      BY <2>5, <2>6
    <2>. QED  BY <1>3, <2>2, <2>3, <2>4, <2>7 DEF M, B, num2
  <1>. QED  BY <1>1, <1>6, <1>7

-----------------------------------------------------------------------------
(* memcpy.                                                                  *)

\* The k-th byte is copied.
Copied(v, dst, src, k) == [v EXCEPT ![dst + k - 1] = v[src + k - 1]]

\* What the loop of memcpy computes, byte after byte.
LEMMA CopyDefined ==
    ASSUME NEW dst \in Address, NEW src \in Address, NEW n \in Nat,
           dst + n <= ADDRESSES, src + n <= ADDRESSES
    PROVE  \E c : /\ c \in [0 .. n -> [Address -> Address]] /\ c[0] = Fresh
                  /\ \A k \in 1 .. n : c[k] = Copied(c[k - 1], dst, src, k)
                  /\ memcpy(Fresh, dst, src, n) = c[n]
  <1>. DEFINE N == 0 .. n
              V == [Address -> Address]
              rank == [k \in N |-> k]
              before == [k \in N |-> IF k = 0 THEN 0 ELSE k - 1]
              base == [k \in N |-> Fresh]
              step == [k \in N |-> [v \in V |->
                          IF k = 0 THEN v ELSE Copied(v, dst, src, k)]]
              Is(c) == c = [k \in N |->
                          IF k = 0 THEN Fresh ELSE Copied(c[k - 1], dst, src, k)]
  <1>1. ADDRESSES \in Nat /\ Fresh \in V
    BY UtilAssumption DEF Fresh
  <1>2. \A k \in 1 .. n : dst + k - 1 \in Address /\ src + k - 1 \in Address
    BY <1>1 DEF Address
  <1>3. step \in [N -> [V -> V]]
    <2>1. ASSUME NEW k \in N, NEW v \in V
          PROVE  (IF k = 0 THEN v ELSE Copied(v, dst, src, k)) \in V
      <3>1. CASE k = 0
        BY <3>1
      <3>2. CASE k # 0
        <4>1. dst + k - 1 \in Address /\ src + k - 1 \in Address
          BY <1>2, <3>2
        <4>. QED  BY <3>2, <4>1 DEF Copied
      <3>. QED  BY <3>1, <3>2
    <2>. QED  BY <2>1
  <1>4. Descends(N, V, rank, before, {0}, base, step)
    <2>1. /\ rank \in [N -> Nat] /\ before \in [N -> N] /\ base \in [N -> V]
          /\ \A x \in N \ {0} : rank[before[x]] < rank[x]
      BY <1>1
    <2>. HIDE DEF rank, before, base, step, N, V
    <2>. QED  BY <1>3, <2>1 DEF Descends
  <1>5. PICK c : Solves(c, N, V, before, {0}, base, step)
    <2>. HIDE DEF N, V, rank, before, base, step
    <2>. QED  BY <1>4, Recursion
  <1>6. /\ c \in [N -> V]
        /\ \A k \in N : c[k] = IF k \in {0} THEN base[k] ELSE step[k][c[before[k]]]
    BY <1>5 DEF Solves
  <1>7. c[0] = Fresh
    <2>1. 0 \in N /\ base[0] = Fresh
      OBVIOUS
    <2>. HIDE DEF N, V, base, step, before
    <2>. QED  BY <1>6, <2>1
  <1>8. ASSUME NEW k \in 1 .. n
        PROVE  c[k] = Copied(c[k - 1], dst, src, k)
    <2>1. k \in N /\ k # 0 /\ k - 1 \in N /\ before[k] = k - 1
      OBVIOUS
    <2>2. c[k] = step[k][c[k - 1]] /\ c[k - 1] \in V
      <3>. HIDE DEF step, before, N, V
      <3>. QED  BY <1>6, <2>1
    <2>3. step[k][c[k - 1]] = Copied(c[k - 1], dst, src, k)
      BY <2>1, <2>2
    <2>. QED  BY <2>2, <2>3
  <1>9. Is(c)
    <2>1. \A k \in N : c[k] = IF k = 0 THEN Fresh
                              ELSE Copied(c[k - 1], dst, src, k)
      BY <1>7, <1>8
    <2>2. c = [k \in N |-> c[k]]
      BY <1>6
    <2>. QED  BY <2>1, <2>2
  <1>. DEFINE d == CHOOSE h : Is(h)
  <1>10. Is(d)
    <2>. HIDE DEF Is
    <2>. QED  BY <1>9, Zenon
  <1>11. memcpy(Fresh, dst, src, n) = d[n]
    BY DEF memcpy, Copied
  <1>. HIDE DEF d
  <1>12. /\ d[0] = Fresh
         /\ \A k \in 1 .. n : d[k] = Copied(d[k - 1], dst, src, k)
    BY <1>10
  <1>. DEFINE S == {k \in N : d[k] = c[k]}
  <1>13. \A k \in 0 .. n : k \in S
    <2>1. 0 \in S
      BY <1>7, <1>12
    <2>2. ASSUME NEW k \in 0 .. (n - 1), k \in S PROVE k + 1 \in S
      <3>1. k + 1 \in 1 .. n /\ (k + 1) - 1 = k /\ k + 1 \in N
        OBVIOUS
      <3>2. /\ d[k + 1] = Copied(d[k], dst, src, k + 1)
            /\ c[k + 1] = Copied(c[k], dst, src, k + 1)
        BY <1>8, <1>12, <3>1
      <3>. QED  BY <2>2, <3>1, <3>2
    <2>. HIDE DEF S
    <2>. QED  BY <2>1, <2>2, InductionTo
  <1>14. d[n] = c[n]
    BY <1>13
  <1>. QED  BY <1>6, <1>7, <1>8, <1>11, <1>14

\* Bytes that are read are those that were there before, unless the destination begins
\* inside the source.
LEMMA CopyRight ==
    ASSUME NEW dst \in Address, NEW src \in Address, NEW n \in Nat,
           dst + n <= ADDRESSES, src + n <= ADDRESSES,
           dst \notin (src + 1) .. (src + n - 1)
    PROVE  \A a \in Address :
               memcpy(Fresh, dst, src, n)[a] = IF a \in dst .. (dst + n - 1) THEN a - dst + src ELSE a
  <1>1. PICK c : /\ c \in [0 .. n -> [Address -> Address]] /\ c[0] = Fresh
                 /\ \A k \in 1 .. n : c[k] = Copied(c[k - 1], dst, src, k)
                 /\ memcpy(Fresh, dst, src, n) = c[n]
    BY CopyDefined
  <1>2. ADDRESSES \in Nat /\ dst \in Nat /\ src \in Nat
    BY UtilAssumption DEF Address
  <1>. DEFINE Moved(k) == \A a \in Address :
                  c[k][a] = IF a \in dst .. (dst + k - 1) THEN a - dst + src ELSE a
              S == {k \in 0 .. n : Moved(k)}
  <1>3. 0 \in S
    BY <1>1, <1>2 DEF Fresh
  <1>4. ASSUME NEW k \in 0 .. (n - 1), k \in S PROVE k + 1 \in S
    <2>1. /\ k + 1 \in 1 .. n /\ (k + 1) - 1 = k /\ k \in 0 .. n
          /\ dst + k \in Address /\ src + k \in Address
          /\ dst + (k + 1) - 1 = dst + k /\ src + (k + 1) - 1 = src + k
      BY <1>2 DEF Address
    <2>2. c[k + 1] = [c[k] EXCEPT ![dst + k] = c[k][src + k]] /\ c[k] \in [Address -> Address]
      <3>1. c[k + 1] = Copied(c[k], dst, src, k + 1)
        BY <1>1, <2>1
      <3>. QED  BY <1>1, <2>1, <3>1 DEF Copied
    <2>3. c[k][src + k] = src + k
      <3>1. src + k \notin dst .. (dst + k - 1)
        BY <1>2
      <3>. QED  BY <1>4, <2>1, <3>1
    <2>4. \A a \in Address : c[k + 1][a] = IF a = dst + k THEN src + k ELSE c[k][a]
      BY <2>1, <2>2, <2>3
    <2>5. ASSUME NEW a \in Address
          PROVE  c[k + 1][a] = IF a \in dst .. (dst + (k + 1) - 1) THEN a - dst + src ELSE a
      <3>1. a \in Int /\ (a \in dst .. (dst + (k + 1) - 1) <=> a \in dst .. (dst + k - 1) \/ a = dst + k)
        BY <1>2 DEF Address
      <3>2. c[k][a] = IF a \in dst .. (dst + k - 1) THEN a - dst + src ELSE a
        BY <1>4
      <3>3. a = dst + k => a - dst + src = src + k
        BY <1>2
      <3>. QED  BY <2>4, <3>1, <3>2, <3>3
    <2>. QED  BY <2>1, <2>5
  <1>5. n \in S
    <2>. HIDE DEF S
    <2>1. \A k \in 0 .. n : k \in S
      BY <1>3, <1>4, InductionTo
    <2>. QED  BY <2>1
  <1>. QED  BY <1>1, <1>5

-----------------------------------------------------------------------------
(* The properties.                                                          *)

\* The inductive invariant: between the calls the memory is as it was, and after a call
\* the result is right.
IInv == /\ call = None => memory = Fresh
        /\ DecimalReadsBack
        /\ BitsReadBack
        /\ PowersOfTwo
        /\ MemoryRight

\* A call of a conversion.
LEMMA ConvertRight ==
    ASSUME NEW cmd \in {"str", "hex", "bin"}, NEW t \in Types, NEW n \in 0 .. (WORD - 1),
           Convert(cmd, t, n)
    PROVE  DecimalReadsBack' /\ BitsReadBack'
  <1>1. call' = [cmd |-> cmd, type |-> t, num |-> n] /\ n \in Nat
    <2>1. WORD \in Nat
      BY Widths
    <2>. QED  BY <2>1 DEF Convert
  <1>2. call'.cmd = cmd /\ call'.type = t /\ call'.num = n
    BY <1>1
  <1>3. CASE cmd = "str"
    <2>1. text' = num_to_str(t, n)
      BY <1>3 DEF Convert
    <2>2. ASSUME t \in {"U8", "U16", "U32", "I32"} PROVE Reads(Cast(t, n), text')
      <3>1. CASE t = "I32"
        BY <2>1, <3>1, SignedText
      <3>2. CASE t # "I32"
        <4>1. ~Signed(t)
          BY <2>2, <3>2 DEF Signed
        <4>. QED  BY <1>1, <2>1, <4>1, UnsignedText
      <3>. QED  BY <3>1, <3>2
    <2>3. DecimalReadsBack'
      <3>. SUFFICES ASSUME NEW u \in {"U8", "U16", "U32", "I32"}, call'.type = u
                    PROVE  /\ Plain(10, IF text'[1] = Minus THEN Tail(text') ELSE text')
                           /\ ReadSigned(text') = Cast(u, call'.num)
                           /\ text'[1] = Char(0) => Len(text') = 1
        BY DEF DecimalReadsBack, Decimal
      <3>1. u = t
        BY <1>2
      <3>. QED  BY <1>2, <2>2, <3>1 DEF Reads, Short
    <2>4. BitsReadBack'
      BY <1>2, <1>3 DEF BitsReadBack
    <2>. QED  BY <2>3, <2>4
  <1>4. CASE cmd = "hex"
    <2>1. text' = num_to_hex(t, n)
      BY <1>4 DEF Convert
    <2>2. /\ Writes(16, Masked(t, n), text')
          /\ Len(text') = Bits[t] \div 4 \/ Masked(t, n) = 0
      BY <1>1, <2>1, HexWrites
    <2>3. Plain(16, text') /\ Read(16, text') = Masked(t, n)
      <3>1. Writes(16, Masked(t, n), text')
        BY <2>2
      <3>2. Plain(16, text')
        BY ONLY <3>1, WritesPlain
      <3>3. Read(16, text') = Masked(t, n)
        BY ONLY <3>1 DEF Writes
      <3>. QED  BY <3>2, <3>3
    <2>4. BitsReadBack'
      BY <1>2, <1>4, <2>2, <2>3 DEF BitsReadBack
    <2>5. DecimalReadsBack'
      BY <1>2, <1>4 DEF DecimalReadsBack, Decimal
    <2>. QED  BY <2>4, <2>5
  <1>5. CASE cmd = "bin"
    <2>1. text' = num_to_bin(t, n)
      BY <1>5 DEF Convert
    <2>2. Writes(2, Masked(t, n), text') /\ Len(text') = Bits[t]
      BY <1>1, <2>1, BinWrites
    <2>3. Plain(2, text') /\ Read(2, text') = Masked(t, n)
      <3>1. Writes(2, Masked(t, n), text')
        BY <2>2
      <3>2. Plain(2, text')
        BY ONLY <3>1, WritesPlain
      <3>3. Read(2, text') = Masked(t, n)
        BY ONLY <3>1 DEF Writes
      <3>. QED  BY <3>2, <3>3
    <2>4. BitsReadBack'
      BY <1>2, <1>5, <2>2, <2>3 DEF BitsReadBack
    <2>5. DecimalReadsBack'
      BY <1>2, <1>5 DEF DecimalReadsBack, Decimal
    <2>. QED  BY <2>4, <2>5
  <1>. QED  BY <1>3, <1>4, <1>5

\* Each step leaves the results right.
LEMMA StepRight == IInv /\ [Next]_vars => IInv'
  <1>. SUFFICES ASSUME IInv, [Next]_vars PROVE IInv'
    OBVIOUS
  <1>1. CASE UNCHANGED vars
    BY <1>1 DEF vars, IInv, DecimalReadsBack, Decimal, BitsReadBack, PowersOfTwo, MemoryRight
  <1>2. CASE Used
    <2>1. call'.cmd = "none" /\ memory' = Fresh
      BY <1>2 DEF Used, None
    <2>. QED
      BY <2>1 DEF IInv, DecimalReadsBack, Decimal, BitsReadBack, PowersOfTwo, MemoryRight
  <1>3. ASSUME NEW t \in Types, NEW n \in 0 .. (WORD - 1), NEW cmd \in {"str", "hex", "bin"},
               Convert(cmd, t, n)
        PROVE  IInv'
    <2>1. DecimalReadsBack' /\ BitsReadBack'
      BY <1>3, ConvertRight
    <2>2. call'.cmd \in {"str", "hex", "bin"}
      BY <1>3 DEF Convert
    <2>3. call' # None
      BY <2>2 DEF None
    <2>. QED  BY <2>1, <2>2, <2>3 DEF IInv, PowersOfTwo, MemoryRight
  <1>4. ASSUME NEW t \in Types, NEW n \in 0 .. (WORD - 1), NEW e \in Exponents, Pow(t, n, e)
        PROVE  IInv'
    <2>1. /\ call'.cmd = "pow" /\ call'.type = t /\ call'.num = n /\ call'.exponent = e
          /\ number' = pow(t, n, e)
      BY <1>4 DEF Pow
    <2>2. call' # None
      BY <2>1 DEF None
    <2>3. e \in Int
      BY UtilAssumption
    <2>4. PowersOfTwo'
      <3>. SUFFICES ASSUME n = 2, Cast(t, e) > 0
                    PROVE  pow(t, n, e) = Cast(t, TwoTo[Min({Cast(t, e), Bits[t]})])
        BY <2>1 DEF PowersOfTwo
      <3>. QED  BY <2>3, PowText
    <2>. QED  BY <2>1, <2>2, <2>4 DEF IInv, DecimalReadsBack, Decimal, BitsReadBack, MemoryRight
  <1>5. ASSUME call = None, NEW a \in Address, NEW b \in Address,
               NEW n \in 0 .. (ADDRESSES - Max({a, b})), Copy(a, b, n)
        PROVE  IInv'
    <2>1. /\ call'.cmd = "memcpy" /\ call'.dst = a /\ call'.src = b /\ call'.size = n
          /\ memory' = memcpy(Fresh, a, b, n)
      BY <1>5 DEF Copy, IInv
    <2>2. call' # None
      BY <2>1 DEF None
    <2>3. n \in Nat /\ a + n <= ADDRESSES /\ b + n <= ADDRESSES
      <3>1. a \in Int /\ b \in Int /\ ADDRESSES \in Nat
        BY UtilAssumption DEF Address
      <3>2. Max({a, b}) = IF a <= b THEN b ELSE a
        BY <3>1, OfTwo
      <3>. QED  BY <3>1, <3>2
    <2>4. MemoryRight'
      <3>1. ASSUME a \notin (b + 1) .. (b + n - 1)
            PROVE  \A x \in Address :
                       memory'[x] = IF x \in a .. (a + n - 1) THEN x - a + b ELSE x
        BY <2>1, <2>3, <3>1, CopyRight
      <3>. QED  BY <2>1, <3>1 DEF MemoryRight
    <2>. QED  BY <2>1, <2>2, <2>4 DEF IInv, DecimalReadsBack, Decimal, BitsReadBack, PowersOfTwo
  <1>6. ASSUME call = None, NEW a \in Address, NEW n \in 0 .. (ADDRESSES - a),
               Set(a, ADDRESSES, n)
        PROVE  IInv'
    <2>1. /\ call'.cmd = "memset" /\ call'.dst = a /\ call'.value = ADDRESSES /\ call'.size = n
          /\ memory' = memset(Fresh, a, ADDRESSES, n)
      BY <1>6 DEF Set, IInv
    <2>2. call' # None
      BY <2>1 DEF None
    <2>3. MemoryRight'
      <3>1. a \in Int /\ ADDRESSES \in Nat /\ n \in Int /\ \A x \in Address : x \in Int
        BY UtilAssumption DEF Address
      <3>2. \A x \in Address : memory'[x] = IF x >= a /\ x < a + n THEN ADDRESSES ELSE x
        BY <2>1, <3>1 DEF memset, Fresh
      <3>. QED  BY <2>1, <3>2 DEF MemoryRight
    <2>. QED  BY <2>1, <2>2, <2>3 DEF IInv, DecimalReadsBack, Decimal, BitsReadBack, PowersOfTwo
  <1>. QED  BY <1>1, <1>2, <1>3, <1>4, <1>5, <1>6 DEF Next, Call

\* The inductive invariant holds throughout.
LEMMA Invariance == Spec => []IInv
  <1>1. Init => IInv
    <2>. SUFFICES ASSUME Init PROVE IInv
      OBVIOUS
    <2>1. call.cmd = "none" /\ memory = Fresh
      BY DEF Init, None
    <2>. QED
      BY <2>1 DEF IInv, DecimalReadsBack, Decimal, BitsReadBack, PowersOfTwo, MemoryRight
  <1>. QED  BY <1>1, StepRight, PTL DEF Spec

\* num_to_str writes the number it was called with, for every width of the types and with
\* the least number of the widest signed one, whose digits it writes as those of the number
\* above it with one added to the last of them.
THEOREM DecimalRight == Spec => []DecimalReadsBack
  <1>1. IInv => DecimalReadsBack
    BY DEF IInv
  <1>. QED  BY <1>1, Invariance, PTL

\* num_to_hex and num_to_bin write the bits of the number, a digit for every four or for
\* every one of them.
THEOREM BitsRight == Spec => []BitsReadBack
  <1>1. IInv => BitsReadBack
    BY DEF IInv
  <1>. QED  BY <1>1, Invariance, PTL

\* pow with base two gives the power, cut to the width of the type, however large the
\* exponent is.
THEOREM PowersRight == Spec => []PowersOfTwo
  <1>1. IInv => PowersOfTwo
    BY DEF IInv
  <1>. QED  BY <1>1, Invariance, PTL

\* memcpy moves the bytes it is asked to, the same place and a destination before the
\* source included; it and memset touch no others.
THEOREM MemoryStaysRight == Spec => []MemoryRight
  <1>1. IInv => MemoryRight
    BY DEF IInv
  <1>. QED  BY <1>1, Invariance, PTL

=============================================================================
