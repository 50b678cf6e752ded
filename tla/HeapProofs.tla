----------------------------- MODULE HeapProofs -----------------------------
(***************************************************************************)
(* Proofs about Heap for a heap of any size, units and headers of any size *)
(* and any set of request sizes that survive the integer types (SizesFit). *)
(***************************************************************************)
EXTENDS Heap, TLAPS

\* Every unit of the heap lies in a block of the list h.
Covers(h) == \A u \in Unit : \E b \in DOMAIN h : b <= u /\ u < b + h[b].units

GoodList(h) == /\ DOMAIN h \subseteq Unit
               /\ h \in [DOMAIN h -> Header]
               /\ Tiles(h)
               /\ Covers(h)

\* While kmalloc walks, the blocks it has passed are of no use to it.
WalkInv ==
    pc = "walk" => /\ cur \in DOMAIN hdr \cup {Null}
                   /\ size \in Sizes \ {0}
                   /\ \A b \in DOMAIN hdr : b < cur => ~Fits(b, bytes_to_units(size))

\* While kfree searches, block is free and merged with its successor, it is
\* still ahead, and last is the predecessor of cur.
SearchInv ==
    pc = "search" => /\ block \in DOMAIN hdr /\ hdr[block].free
                     /\ hdr[block].next # Null => ~hdr[hdr[block].next].free
                     /\ cur \in DOMAIN hdr /\ cur <= block
                     /\ \/ last = Null /\ cur = 0
                        \/ last \in DOMAIN hdr /\ hdr[last].next = cur

\* The inductive invariant.
IInv == /\ TypeOK
        /\ Tiling
        /\ Covers(hdr)
        /\ NoFreeNeighbours
        /\ HeldFits
        /\ WalkInv
        /\ SearchInv

-----------------------------------------------------------------------------

\* bytes_to_units asks for at least one unit, and for enough of them to hold
\* the header and the payload.
LEMMA UnitsSuffice ==
    ASSUME SizesFit, NEW n \in Sizes
    PROVE  /\ bytes_to_units(n) \in 0 .. (UNIT_WIDTH - 1)
           /\ n # 0 => bytes_to_units(n) > 0
           /\ n + HEADER_SIZE <= bytes_to_units(n) * UNIT_SIZE
  <1>. DEFINE t == n + HEADER_SIZE
              s == t + UNIT_SIZE - 1
  <1>1. n \in Nat /\ t \in Nat /\ s \in Nat /\ s < BYTE_WIDTH /\ t < BYTE_WIDTH
    BY HeapAssumption DEF SizesFit
  <1>2. t % BYTE_WIDTH = t /\ s % BYTE_WIDTH = s
    BY <1>1, HeapAssumption
  <1>3. s \div UNIT_SIZE \in Nat /\ s \div UNIT_SIZE < UNIT_WIDTH
    BY <1>1, HeapAssumption DEF SizesFit
  <1>4. (s \div UNIT_SIZE) % UNIT_WIDTH = s \div UNIT_SIZE
    BY <1>3, HeapAssumption
  <1>5. bytes_to_units(n) = s \div UNIT_SIZE
    BY <1>2, <1>4 DEF bytes_to_units
  <1>6. t <= (s \div UNIT_SIZE) * UNIT_SIZE
    BY <1>1, HeapAssumption
  <1>7. n # 0 => s \div UNIT_SIZE > 0
    BY <1>1, HeapAssumption
  <1>. QED
    BY <1>3, <1>5, <1>6, <1>7, HeapAssumption

\* What GoodList says of each block, with the integer types spelled out.
LEMMA BlockFacts ==
    ASSUME NEW h, GoodList(h)
    PROVE  \A x \in DOMAIN h :
              /\ x \in Nat /\ x < HEAP_TOTAL_UNITS
              /\ h[x] \in Header
              /\ h[x].units \in Nat /\ h[x].units > 0 /\ h[x].units < UNIT_WIDTH
              /\ h[x].free \in BOOLEAN
              /\ h[x].next = x + h[x].units
              /\ h[x].next \in DOMAIN h \cup {Null}
              /\ h[x].next <= HEAP_TOTAL_UNITS
              /\ \A y \in DOMAIN h : x < y => h[x].next <= y
  <1>. SUFFICES ASSUME NEW x \in DOMAIN h
                PROVE  /\ x \in Nat /\ x < HEAP_TOTAL_UNITS
                       /\ h[x] \in Header
                       /\ h[x].units \in Nat /\ h[x].units > 0 /\ h[x].units < UNIT_WIDTH
                       /\ h[x].free \in BOOLEAN
                       /\ h[x].next = x + h[x].units
                       /\ h[x].next \in DOMAIN h \cup {Null}
                       /\ h[x].next <= HEAP_TOTAL_UNITS
                       /\ \A y \in DOMAIN h : x < y => h[x].next <= y
    OBVIOUS
  <1>1. x \in Unit /\ h[x] \in Header
    BY DEF GoodList
  <1>2. /\ h[x].units > 0 /\ h[x].next = x + h[x].units
        /\ h[x].next \in DOMAIN h \cup {Null}
        /\ \A y \in DOMAIN h : x < y => x + h[x].units <= y
    BY DEF GoodList, Tiles
  <1>3. h[x].next <= HEAP_TOTAL_UNITS
    BY <1>2, HeapAssumption DEF GoodList, Unit, Null
  <1>. QED  BY <1>1, <1>2, <1>3, HeapAssumption DEF Unit, Header

\* The list g is h with the block c swallowed by the block b before it.
Absorbed(h, b, c, g) ==
    /\ DOMAIN g = DOMAIN h \ {c}
    /\ g[b].units = h[b].units + h[c].units /\ g[b].free = h[b].free /\ g[b].next = h[c].next
    /\ \A x \in DOMAIN h \ {b, c} : g[x] = h[x]
    /\ b < c

\* Merging a block with its successor keeps the list good and touches no
\* other block.
LEMMA AbsorbGood ==
    ASSUME NEW h, GoodList(h), NEW b \in DOMAIN h, NEW c \in DOMAIN h, h[b].next = c,
           NEW g, g = Absorb(h, b, c)
    PROVE  GoodList(g) /\ Absorbed(h, b, c, g)
  <1>1. /\ h[b] \in Header /\ h[c] \in Header
        /\ b \in Unit /\ c \in Unit
        /\ c = b + h[b].units /\ b < c
        /\ h[c].next = c + h[c].units
        /\ h[c].next <= HEAP_TOTAL_UNITS
    BY HeapAssumption DEF GoodList, Tiles, Unit, Header, Null
  <1>2. (h[b].units + h[c].units) % UNIT_WIDTH = h[b].units + h[c].units
    <2>1. h[b].units + h[c].units \in Nat /\ h[b].units + h[c].units < UNIT_WIDTH
      BY <1>1, HeapAssumption DEF Unit, Header
    <2>. QED  BY <2>1, HeapAssumption
  <1>3. DOMAIN g = DOMAIN h \ {c}
    BY DEF Absorb
  <1>4. g[b] = [units |-> h[b].units + h[c].units, free |-> h[b].free, next |-> h[c].next]
    <2>1. g[b] = [h[b] EXCEPT !.units = (@ + h[c].units) % UNIT_WIDTH, !.next = h[c].next]
      BY <1>1, <1>3 DEF Absorb, Unit
    <2>. QED  BY <1>1, <1>2, <2>1 DEF Header
  <1>5. \A x \in DOMAIN h \ {b, c} : g[x] = h[x]
    BY <1>3 DEF Absorb
  <1>6. g[b] \in Header /\ g[b].units = h[b].units + h[c].units /\ g[b].next = h[c].next
    BY <1>1, <1>4, HeapAssumption DEF Header, Unit
  <1>7. g \in [DOMAIN g -> Header] /\ DOMAIN g \subseteq Unit
    <2>1. \A x \in DOMAIN g : g[x] \in Header
      BY <1>3, <1>5, <1>6 DEF GoodList
    <2>2. g = [x \in DOMAIN g |-> g[x]]
      BY DEF Absorb
    <2>. QED  BY <1>3, <2>1, <2>2 DEF GoodList
  <1>8. Tiles(g)
    <2>1. 0 \in DOMAIN g
      BY <1>1, <1>3 DEF GoodList, Tiles, Unit
    <2>2. ASSUME NEW x \in DOMAIN g
          PROVE  /\ g[x].units > 0 /\ g[x].next = x + g[x].units
                 /\ g[x].next \in DOMAIN g \cup {Null}
                 /\ \A y \in DOMAIN g : x < y => x + g[x].units <= y
      <3>1. CASE x = b
        <4>1. h[c].next # c
          BY <1>1, BlockFacts
        <4>2. g[x].next \in DOMAIN g \cup {Null}
          BY <1>3, <1>6, <3>1, <4>1, BlockFacts
        <4>3. g[x].units > 0 /\ g[x].next = x + g[x].units
          BY <1>1, <1>6, <3>1, BlockFacts
        <4>4. ASSUME NEW y \in DOMAIN g, x < y
              PROVE  x + g[x].units <= y
          <5>1. y \in DOMAIN h /\ y # c /\ y \in Nat
            BY <1>3, BlockFacts
          <5>2. c <= y
            BY <1>1, <3>1, <4>4, <5>1, BlockFacts
          <5>3. h[c].next <= y
            BY <1>1, <5>1, <5>2, BlockFacts
          <5>. QED  BY <4>3, <1>6, <3>1, <5>3
        <4>. QED  BY <4>2, <4>3, <4>4
      <3>2. CASE x # b
        <4>1. g[x] = h[x] /\ x \in DOMAIN h
          BY <1>3, <1>5, <3>2
        <4>2. h[x].next # c
          <5>1. x \in Nat /\ b \in Nat /\ h[x].units > 0 /\ h[x].next = x + h[x].units
                /\ h[x].units \in Nat /\ h[b].units \in Nat
            BY <4>1, BlockFacts
          <5>2. x < b => x + h[x].units <= b
            BY <4>1, <5>1, BlockFacts
          <5>3. b < x => b + h[b].units <= x
            BY <4>1, BlockFacts
          <5>. QED  BY <1>1, <3>2, <5>1, <5>2, <5>3
        <4>. QED  BY <1>3, <4>1, <4>2, BlockFacts
      <3>. QED  BY <3>1, <3>2
    <2>. QED  BY <2>1, <2>2 DEF Tiles
  <1>9. Covers(g)
    <2>. SUFFICES ASSUME NEW u \in Unit
                  PROVE  \E x \in DOMAIN g : x <= u /\ u < x + g[x].units
      BY DEF Covers
    <2>1. PICK x \in DOMAIN h : x <= u /\ u < x + h[x].units
      BY DEF GoodList, Covers
    <2>2. CASE x \in {b, c}
      BY <1>1, <1>3, <1>6, <2>1, <2>2 DEF Unit, Header
    <2>3. CASE x \notin {b, c}
      BY <1>3, <1>5, <2>1, <2>3
    <2>. QED  BY <2>2, <2>3
  <1>. QED
    BY <1>1, <1>3, <1>4, <1>5, <1>7, <1>8, <1>9 DEF GoodList, Absorbed

\* Changing the free flag of a block keeps the list good.
LEMMA FlagGood ==
    ASSUME NEW h, GoodList(h), NEW b \in DOMAIN h, NEW f \in BOOLEAN
    PROVE  LET g == [h EXCEPT ![b].free = f]
           IN  /\ GoodList(g)
               /\ DOMAIN g = DOMAIN h
               /\ g[b] = [units |-> h[b].units, free |-> f, next |-> h[b].next]
               /\ \A x \in DOMAIN h \ {b} : g[x] = h[x]
  <1>. DEFINE g == [h EXCEPT ![b].free = f]
  <1>1. h[b] \in Header
    BY BlockFacts
  <1>2. DOMAIN g = DOMAIN h /\ \A x \in DOMAIN h \ {b} : g[x] = h[x]
    OBVIOUS
  <1>3. g[b] = [units |-> h[b].units, free |-> f, next |-> h[b].next]
    BY <1>1 DEF Header
  <1>4. g[b] \in Header
    BY <1>1, <1>3 DEF Header
  <1>5. \A x \in DOMAIN h : g[x].units = h[x].units /\ g[x].next = h[x].next
    BY <1>2, <1>3
  <1>6. g \in [DOMAIN g -> Header] /\ DOMAIN g \subseteq Unit
    BY <1>4, <1>2 DEF GoodList
  <1>7. Tiles(g)
    BY <1>2, <1>5 DEF GoodList, Tiles
  <1>8. Covers(g)
    BY <1>2, <1>5 DEF GoodList, Covers
  <1>. QED  BY <1>2, <1>3, <1>6, <1>7, <1>8 DEF GoodList

\* The list g is the current one with the block b split before the unit c.
Carved(b, n, c, g) ==
    /\ c \in Nat /\ b < c /\ c \notin DOMAIN hdr
    /\ DOMAIN g = DOMAIN hdr \cup {c}
    /\ g[b] = [units |-> n, free |-> FALSE, next |-> c]
    /\ g[c] = [units |-> hdr[b].units - n, free |-> TRUE, next |-> hdr[b].next]
    /\ \A x \in DOMAIN hdr \ {b} : g[x] = hdr[x]

\* Splitting a block keeps the list good, adds one free block inside the old
\* one and touches no other block.
LEMMA CarveGood ==
    ASSUME GoodList(hdr), NEW b \in DOMAIN hdr, NEW n \in Nat, 0 < n, n < hdr[b].units,
           NEW c, c = b + n, NEW g, g = Carve(b, n)
    PROVE  GoodList(g) /\ Carved(b, n, c, g)
  <1>1. /\ b \in Nat /\ c \in Nat /\ b < c /\ hdr[b].units \in Nat
        /\ hdr[b].next = b + hdr[b].units /\ c < hdr[b].next
        /\ hdr[b].next <= HEAP_TOTAL_UNITS /\ hdr[b].units < UNIT_WIDTH
        /\ hdr[b].next \in DOMAIN hdr \cup {Null}
    BY BlockFacts
  <1>2. c \notin DOMAIN hdr
    BY <1>1, BlockFacts
  <1>3. hdr[b].units - n \in Nat /\ hdr[b].units - n < UNIT_WIDTH
    BY <1>1, HeapAssumption
  <1>4. (hdr[b].units - n) % UNIT_WIDTH = hdr[b].units - n
    BY <1>3, HeapAssumption
  <1>5. /\ DOMAIN g = DOMAIN hdr \cup {c}
        /\ g[b] = [units |-> n, free |-> FALSE, next |-> c]
        /\ \A x \in DOMAIN hdr \ {b} : g[x] = hdr[x]
    BY <1>2 DEF Carve
  <1>6. g[c] = [units |-> hdr[b].units - n, free |-> TRUE, next |-> hdr[b].next]
    <2>1. c # b /\ c \in DOMAIN hdr \cup {c}
      BY <1>1
    <2>2. g[c] = [units |-> (hdr[b].units - n) % UNIT_WIDTH, free |-> TRUE, next |-> hdr[b].next]
      BY <2>1 DEF Carve
    <2>. QED  BY <1>4, <2>2
  <1>7. c \in Unit
    BY <1>1, HeapAssumption DEF Unit
  <1>8. g \in [DOMAIN g -> Header] /\ DOMAIN g \subseteq Unit
    <2>1. g[b] \in Header
      <3>1. n \in 0 .. (UNIT_WIDTH - 1)
        BY <1>1, HeapAssumption
      <3>. QED  BY <1>5, <1>7, <3>1 DEF Header
    <2>2. g[c] \in Header
      <3>1. hdr[b].next \in Unit \cup {Null}
        BY <1>1 DEF GoodList
      <3>. QED  BY <1>3, <1>6, <3>1, HeapAssumption DEF Header
    <2>3. \A x \in DOMAIN g : g[x] \in Header
      BY <1>5, <2>1, <2>2 DEF GoodList
    <2>4. g = [x \in DOMAIN g |-> g[x]]
      BY DEF Carve
    <2>. QED  BY <1>5, <1>7, <2>3, <2>4 DEF GoodList
  <1>9. Tiles(g)
    <2>1. 0 \in DOMAIN g
      BY <1>5 DEF GoodList, Tiles
    <2>2. ASSUME NEW x \in DOMAIN g
          PROVE  /\ g[x].units > 0 /\ g[x].next = x + g[x].units
                 /\ g[x].next \in DOMAIN g \cup {Null}
                 /\ \A y \in DOMAIN g : x < y => x + g[x].units <= y
      <3>1. CASE x = b
        <4>1. g[x].units = n /\ g[x].next = c
          BY <1>5, <3>1
        <4>2. ASSUME NEW y \in DOMAIN g, x < y
              PROVE  c <= y
          BY <1>1, <1>5, <3>1, <4>2, BlockFacts
        <4>. QED  BY <1>5, <3>1, <4>1, <4>2
      <3>2. CASE x = c
        <4>1. g[x].units = hdr[b].units - n /\ g[x].next = hdr[b].next
          BY <1>6, <3>2
        <4>2. ASSUME NEW y \in DOMAIN g, x < y
              PROVE  hdr[b].next <= y
          BY <1>1, <1>5, <3>2, <4>2, BlockFacts
        <4>. QED  BY <1>1, <1>5, <3>2, <4>1, <4>2
      <3>3. CASE x # b /\ x # c
        <4>1. x \in DOMAIN hdr /\ g[x] = hdr[x]
          BY <1>5, <3>3
        <4>2. x < c => x + hdr[x].units <= c
          BY <1>1, <3>3, <4>1, BlockFacts
        <4>. QED  BY <1>5, <4>1, <4>2, BlockFacts
      <3>. QED  BY <3>1, <3>2, <3>3
    <2>. QED  BY <2>1, <2>2 DEF Tiles
  <1>10. Covers(g)
    <2>. SUFFICES ASSUME NEW u \in Unit
                  PROVE  \E x \in DOMAIN g : x <= u /\ u < x + g[x].units
      BY DEF Covers
    <2>1. PICK x \in DOMAIN hdr : x <= u /\ u < x + hdr[x].units
      BY DEF GoodList, Covers
    <2>2. CASE x = b /\ u < c
      BY <1>1, <1>5, <2>1, <2>2
    <2>3. CASE x = b /\ ~(u < c)
      <3>1. c <= u /\ u < c + g[c].units
        BY <1>1, <1>6, <2>1, <2>3 DEF Unit
      <3>. QED  BY <1>5, <3>1
    <2>4. CASE x # b
      BY <1>5, <2>1, <2>4
    <2>. QED  BY <2>2, <2>3, <2>4
  <1>. QED
    BY <1>1, <1>2, <1>5, <1>6, <1>8, <1>9, <1>10 DEF GoodList, Carved

\* No two neighbours on the list h are free, except perhaps b and the block
\* before it.
Merged(h, b) == \A x, y \in DOMAIN h : h[x].next = y /\ h[x].free /\ h[y].free => y = b

\* Merging the free block b with its successor n when that is free too leaves
\* only b and its predecessor as possible free neighbours.
LEMMA MergeNextGood ==
    ASSUME NEW h, GoodList(h), NEW b \in DOMAIN h, h[b].free,
           \A x, y \in DOMAIN h : h[x].next = y /\ h[x].free /\ h[y].free => b \in {x, y},
           NEW n, n = h[b].next,
           NEW g, n # Null /\ h[n].free => g = Absorb(h, b, n),
           ~(n # Null /\ h[n].free) => g = h
    PROVE  /\ GoodList(g)
           /\ Merged(g, b)
           /\ b \in DOMAIN g /\ g[b].free
           /\ g[b].next # Null => ~g[g[b].next].free
           /\ {x \in DOMAIN g : ~g[x].free} = {x \in DOMAIN h : ~h[x].free}
           /\ \A x \in DOMAIN g : ~g[x].free => g[x] = h[x]
  <1>1. /\ Null \notin DOMAIN h
        /\ \A x \in DOMAIN h : h[x].next # x /\ h[x].next \in DOMAIN h \cup {Null}
    BY BlockFacts DEF Null
  <1>2. CASE n # Null /\ h[n].free
    <2>1. n \in DOMAIN h /\ n # b /\ g = Absorb(h, b, n)
      BY <1>1, <1>2
    <2>2. /\ GoodList(g)
          /\ DOMAIN g = DOMAIN h \ {n}
          /\ g[b].units = h[b].units + h[n].units /\ g[b].free = h[b].free /\ g[b].next = h[n].next
          /\ \A x \in DOMAIN h \ {b, n} : g[x] = h[x]
          /\ b < n
      <3>1. GoodList(g) /\ Absorbed(h, b, n, g)
        BY <2>1, AbsorbGood
      <3>. QED  BY <3>1 DEF Absorbed
    <2>3. g[b].next # Null => ~g[g[b].next].free
      <3>. SUFFICES ASSUME g[b].next # Null
                    PROVE  ~g[g[b].next].free
        OBVIOUS
      <3>1. g[b].next = h[n].next /\ h[n].next \in DOMAIN h /\ h[n].next # n
        BY <1>1, <2>1, <2>2
      <3>2. h[n].next # b
        BY <2>1, <2>2, BlockFacts
      <3>3. ~h[h[n].next].free
        BY <1>2, <2>1, <3>1, <3>2
      <3>. QED  BY <2>2, <3>1, <3>2, <3>3
    <2>4. Merged(g, b)
      <3>. SUFFICES ASSUME NEW x \in DOMAIN g, NEW y \in DOMAIN g,
                           g[x].next = y, g[x].free, g[y].free, y # b
                    PROVE  FALSE
        BY DEF Merged
      <3>1. x # b
        BY <1>1, <2>2, <2>3
      <3>. QED  BY <2>2, <3>1
    <2>5. \A x \in DOMAIN g : ~g[x].free => g[x] = h[x]
      BY <2>2
    <2>6. {x \in DOMAIN g : ~g[x].free} = {x \in DOMAIN h : ~h[x].free}
      BY <1>2, <2>1, <2>2, <2>5
    <2>. QED  BY <2>1, <2>2, <2>3, <2>4, <2>5, <2>6
  <1>3. CASE ~(n # Null /\ h[n].free)
    BY <1>3, <1>1 DEF Merged
  <1>. QED  BY <1>2, <1>3

\* The first half of kfree turns a list without free neighbours into one whose
\* only free neighbours are b and its predecessor.  The blocks in use are the
\* same but for b.
LEMMA MarkFreeGood ==
    ASSUME GoodList(hdr), Merged(hdr, Null), NEW b \in DOMAIN hdr, ~hdr[b].free,
           NEW g, g = MarkFree(b)
    PROVE  /\ GoodList(g)
           /\ Merged(g, b)
           /\ b \in DOMAIN g /\ g[b].free
           /\ g[b].next # Null => ~g[g[b].next].free
           /\ {x \in DOMAIN g : ~g[x].free} = {x \in DOMAIN hdr : ~hdr[x].free} \ {b}
           /\ \A x \in DOMAIN g : ~g[x].free => g[x] = hdr[x]
  <1>1. PICK h : h = [hdr EXCEPT ![b].free = TRUE]
    OBVIOUS
  <1>2. /\ GoodList(h) /\ DOMAIN h = DOMAIN hdr
        /\ h[b] = [units |-> hdr[b].units, free |-> TRUE, next |-> hdr[b].next]
        /\ \A x \in DOMAIN hdr \ {b} : h[x] = hdr[x]
    BY <1>1, FlagGood
  <1>3. g = IF h[b].next # Null /\ h[h[b].next].free THEN Absorb(h, b, h[b].next) ELSE h
    BY <1>1 DEF MarkFree
  <1>4. Null \notin DOMAIN hdr
    BY BlockFacts DEF Null
  <1>5. \A x, y \in DOMAIN h : h[x].next = y /\ h[x].free /\ h[y].free => b \in {x, y}
    BY <1>2, <1>4 DEF Merged
  <1>6. {x \in DOMAIN h : ~h[x].free} = {x \in DOMAIN hdr : ~hdr[x].free} \ {b}
    BY <1>2
  <1>7. \A x \in DOMAIN h : ~h[x].free => h[x] = hdr[x]
    BY <1>2
  <1>8. b \in DOMAIN h /\ h[b].free
    BY <1>2
  <1>9. /\ GoodList(g)
        /\ Merged(g, b)
        /\ b \in DOMAIN g /\ g[b].free
        /\ g[b].next # Null => ~g[g[b].next].free
        /\ {x \in DOMAIN g : ~g[x].free} = {x \in DOMAIN h : ~h[x].free}
        /\ \A x \in DOMAIN g : ~g[x].free => g[x] = h[x]
    BY <1>2, <1>3, <1>5, <1>8, MergeNextGood
  <1>. QED  BY <1>6, <1>7, <1>9

-----------------------------------------------------------------------------

\* bee_init leaves a heap that satisfies the invariant.
LEMMA InitInv == Init => IInv
  <1>. SUFFICES ASSUME Init PROVE IInv
    OBVIOUS
  <1>1. /\ hdr = [b \in {0} |-> [units |-> HEAP_TOTAL_UNITS, free |-> TRUE, next |-> Null]]
        /\ pc = "idle" /\ cur = Null /\ last = Null /\ block = Null
        /\ size = 0 /\ ret = Null /\ held = [b \in {} |-> 0]
    BY DEF Init
  <1>2. /\ DOMAIN hdr = {0} /\ hdr[0].units = HEAP_TOTAL_UNITS /\ hdr[0].free = TRUE
        /\ hdr[0].next = HEAP_TOTAL_UNITS /\ DOMAIN held = {}
    BY <1>1 DEF Null
  <1>3. TypeOK
    <2>1. hdr \in [DOMAIN hdr -> Header]
      BY <1>1, HeapAssumption DEF Header, Null
    <2>2. held \in [DOMAIN held -> Sizes]
      BY <1>1
    <2>3. 0 \in Unit
      BY HeapAssumption DEF Unit
    <2>. QED  BY <1>1, <1>2, <2>1, <2>2, <2>3 DEF TypeOK
  <1>4. Tiling
    BY <1>2, HeapAssumption DEF Tiling, Tiles, Null
  <1>5. Covers(hdr)
    BY <1>2, HeapAssumption DEF Covers, Unit
  <1>6. NoFreeNeighbours /\ HeldFits
    BY <1>2, HeapAssumption DEF NoFreeNeighbours, HeldFits
  <1>7. WalkInv /\ SearchInv
    BY <1>1 DEF WalkInv, SearchInv
  <1>. QED  BY <1>3, <1>4, <1>5, <1>6, <1>7 DEF IInv

\* What the invariant says of the list, in the terms of the lemmas above.
LEMMA ListFacts ==
    ASSUME IInv
    PROVE  /\ GoodList(hdr)
           /\ Merged(hdr, IF pc = "search" THEN block ELSE Null)
           /\ Null \notin DOMAIN hdr
  <1>1. GoodList(hdr)
    BY DEF IInv, TypeOK, Tiling, GoodList
  <1>2. Null \notin DOMAIN hdr
    BY <1>1, BlockFacts DEF Null
  <1>. QED  BY <1>1, <1>2 DEF IInv, NoFreeNeighbours, Merged

\* The steps that leave the list and the callers' blocks alone.
LEMMA WalkSteps ==
    ASSUME IInv,
           \/ kmalloc_zero
           \/ \E n \in Sizes : kmalloc_enter(n)
           \/ kmalloc_next
           \/ kmalloc_fail
           \/ \E p \in Unit : kfree_twice(p)
           \/ kfree_next
           \/ UNCHANGED vars
    PROVE  IInv'
  <1>1. GoodList(hdr) /\ Merged(hdr, IF pc = "search" THEN block ELSE Null) /\ Null \notin DOMAIN hdr
    BY ListFacts
  <1>2. /\ UNCHANGED <<hdr, held>>
        /\ pc = "search" => pc' = "search" /\ block' = block
    BY DEF kmalloc_zero, kmalloc_enter, kmalloc_next, kmalloc_fail, kfree_twice, kfree_next, vars
  <1>3. Tiling' /\ Covers(hdr)' /\ HeldFits'
    BY <1>2 DEF IInv, Tiling, Tiles, Covers, HeldFits
  <1>4. NoFreeNeighbours'
    BY <1>2 DEF IInv, NoFreeNeighbours
  <1>5. \A x \in DOMAIN hdr : hdr[x].next \in DOMAIN hdr \cup {Null}
    BY <1>1, BlockFacts
  <1>6. 0 \in DOMAIN hdr
    BY <1>1 DEF GoodList, Tiles
  <1>7. CASE kmalloc_zero
    BY <1>2, <1>3, <1>4, <1>7 DEF kmalloc_zero, IInv, TypeOK, WalkInv, SearchInv, Fits, Null
  <1>8. CASE \E n \in Sizes : kmalloc_enter(n)
    <2>1. \A x \in DOMAIN hdr : ~(x < 0)
      BY <1>1, BlockFacts
    <2>. QED
      BY <1>2, <1>3, <1>4, <1>6, <1>8, <2>1 DEF kmalloc_enter, IInv, TypeOK, WalkInv, SearchInv
  <1>9. CASE kmalloc_next
    <2>1. cur \in DOMAIN hdr
      BY <1>9 DEF kmalloc_next, IInv, WalkInv
    <2>2. \A x \in DOMAIN hdr : x < hdr[cur].next => x < cur \/ x = cur
      <3>1. ASSUME NEW x \in DOMAIN hdr, cur < x
            PROVE  ~(x < hdr[cur].next)
        <4>1. x \in Nat /\ hdr[cur].next <= x /\ hdr[cur].next \in Int
          BY <1>1, <2>1, <3>1, BlockFacts
        <4>. QED  BY <4>1
      <3>2. \A x \in DOMAIN hdr : x \in Nat
        BY <1>1, BlockFacts
      <3>. QED  BY <2>1, <3>1, <3>2
    <2>3. \A x \in DOMAIN hdr' : x < cur' => ~Fits(x, bytes_to_units(size))'
      BY <1>2, <1>9, <2>2 DEF kmalloc_next, IInv, WalkInv, Fits, bytes_to_units
    <2>. QED
      BY <1>2, <1>3, <1>4, <1>5, <1>9, <2>1, <2>3 DEF kmalloc_next, IInv, TypeOK, WalkInv, SearchInv
  <1>10. CASE kmalloc_fail
    BY <1>2, <1>3, <1>4, <1>10 DEF kmalloc_fail, IInv, TypeOK, WalkInv, SearchInv, Null
  <1>11. CASE \E p \in Unit : kfree_twice(p)
    BY <1>2, <1>3, <1>4, <1>11 DEF kfree_twice, IInv, TypeOK, WalkInv, SearchInv
  <1>12. CASE kfree_next
    <2>1. /\ cur \in DOMAIN hdr /\ block \in DOMAIN hdr /\ cur <= block /\ cur # block
          /\ last' = cur /\ cur' = hdr[cur].next /\ pc = "search"
      BY <1>12 DEF kfree_next, IInv, SearchInv
    <2>2. hdr[cur].next <= block /\ hdr[cur].next \in DOMAIN hdr
      BY <1>1, <2>1, BlockFacts DEF Null
    <2>3. SearchInv'
      BY <1>2, <1>12, <2>1, <2>2 DEF kfree_next, IInv, SearchInv
    <2>. QED
      BY <1>2, <1>3, <1>4, <1>12, <2>1, <2>2, <2>3 DEF kfree_next, IInv, TypeOK, WalkInv
  <1>13. CASE UNCHANGED vars
    BY <1>2, <1>3, <1>4, <1>13 DEF vars, IInv, TypeOK, WalkInv, SearchInv, Fits
  <1>. QED  BY <1>7, <1>8, <1>9, <1>10, <1>11, <1>12, <1>13

\* How the list looks once kmalloc has taken n units from the free block b.
Taken(g, b, n) ==
    /\ GoodList(g)
    /\ Merged(g, Null)
    /\ DOMAIN hdr \subseteq DOMAIN g
    /\ b \in DOMAIN g /\ ~g[b].free /\ g[b].units = n
    /\ {x \in DOMAIN g : ~g[x].free} = {x \in DOMAIN hdr : ~hdr[x].free} \cup {b}
    /\ \A x \in DOMAIN g : ~g[x].free /\ x # b => g[x] = hdr[x]

\* The list kmalloc leaves behind, whether or not it splits the block.
LEMMA TakeGood ==
    ASSUME GoodList(hdr), Merged(hdr, Null), Null \notin DOMAIN hdr,
           NEW b \in DOMAIN hdr, hdr[b].free,
           NEW n \in Nat, 0 < n, n <= hdr[b].units,
           NEW g,
           hdr[b].units > n => g = Carve(b, n),
           ~(hdr[b].units > n) => g = [hdr EXCEPT ![b].free = FALSE]
    PROVE  Taken(g, b, n)
  <1>1. \A x \in DOMAIN hdr : hdr[x].next # x /\ hdr[x].next \in DOMAIN hdr \cup {Null}
    BY BlockFacts DEF Null
  <1>2. hdr[b].units \in Nat
    BY BlockFacts
  <1>3. CASE hdr[b].units > n
    <2>1. PICK c : c = b + n
      OBVIOUS
    <2>2. g = Carve(b, n) /\ n < hdr[b].units
      BY <1>2, <1>3
    <2>3. GoodList(g) /\ Carved(b, n, c, g)
      BY <2>1, <2>2, CarveGood
    <2>4. /\ DOMAIN g = DOMAIN hdr \cup {c} /\ c \notin DOMAIN hdr /\ c # b
          /\ g[b].units = n /\ ~g[b].free /\ g[b].next = c
          /\ g[c].free /\ g[c].next = hdr[b].next
          /\ \A x \in DOMAIN hdr \ {b} : g[x] = hdr[x]
      BY <2>3 DEF Carved
    <2>5. Merged(g, Null)
      <3>. SUFFICES ASSUME NEW x \in DOMAIN g, NEW y \in DOMAIN g,
                           g[x].next = y, g[x].free, g[y].free
                    PROVE  FALSE
        BY DEF Merged
      <3>1. c # Null
        BY <2>3, <2>4, HeapAssumption DEF GoodList, Unit, Null
      <3>2. CASE x = c
        <4>1. hdr[b].next = y /\ y # c
          BY <1>1, <2>4, <3>1, <3>2
        <4>2. y \in DOMAIN hdr /\ y # b /\ g[y] = hdr[y]
          BY <1>1, <2>4, <4>1
        <4>. QED  BY <4>1, <4>2 DEF Merged
      <3>3. CASE x # c
        <4>1. x \in DOMAIN hdr /\ x # b /\ g[x] = hdr[x]
          BY <2>4, <3>3
        <4>2. y \in DOMAIN hdr /\ y # b /\ g[y] = hdr[y]
          BY <1>1, <2>4, <3>1, <4>1
        <4>. QED  BY <4>1, <4>2 DEF Merged
      <3>. QED  BY <3>2, <3>3
    <2>6. \A x \in DOMAIN g : ~g[x].free /\ x # b => g[x] = hdr[x]
      BY <2>4
    <2>7. {x \in DOMAIN g : ~g[x].free} = {x \in DOMAIN hdr : ~hdr[x].free} \cup {b}
      BY <2>4
    <2>. QED  BY <2>3, <2>4, <2>5, <2>6, <2>7 DEF Taken
  <1>4. CASE ~(hdr[b].units > n)
    <2>1. GoodList(g)
      <3>1. GoodList([hdr EXCEPT ![b].free = FALSE])
        BY FlagGood
      <3>. QED  BY <1>4, <3>1
    <2>2. /\ DOMAIN g = DOMAIN hdr
          /\ g[b] = [units |-> hdr[b].units, free |-> FALSE, next |-> hdr[b].next]
          /\ \A x \in DOMAIN hdr \ {b} : g[x] = hdr[x]
      <3>1. g = [hdr EXCEPT ![b].free = FALSE]
        BY <1>4
      <3>2. hdr[b] \in Header
        BY BlockFacts
      <3>3. DOMAIN g = DOMAIN hdr /\ \A x \in DOMAIN hdr \ {b} : g[x] = hdr[x]
        BY <3>1
      <3>4. g[b] = [hdr[b] EXCEPT !.free = FALSE]
        BY <3>1
      <3>5. g[b] = [units |-> hdr[b].units, free |-> FALSE, next |-> hdr[b].next]
        BY <3>2, <3>4 DEF Header
      <3>. QED  BY <3>3, <3>5
    <2>3. hdr[b].units = n
      BY <1>2, <1>4
    <2>4. Merged(g, Null)
      BY <2>2 DEF Merged
    <2>5. {x \in DOMAIN g : ~g[x].free} = {x \in DOMAIN hdr : ~hdr[x].free} \cup {b}
      BY <2>2
    <2>. QED  BY <2>1, <2>2, <2>3, <2>4, <2>5 DEF Taken
  <1>. QED  BY <1>3, <1>4

\* Handing out a block preserves the invariant.
LEMMA TakeStep ==
    ASSUME SizesFit, IInv, kmalloc_take
    PROVE  IInv'
  <1>1. /\ pc = "walk" /\ cur # Null /\ Fits(cur, bytes_to_units(size))
        /\ ret' = cur /\ cur' = Null /\ size' = 0 /\ pc' = "idle" /\ UNCHANGED <<last, block>>
        /\ held' = [p \in DOMAIN held \cup {cur} |-> IF p = cur THEN size ELSE held[p]]
    BY DEF kmalloc_take
  <1>2. PICK n : n = bytes_to_units(size)
    OBVIOUS
  <1>3. cur \in DOMAIN hdr /\ hdr[cur].free /\ size \in Sizes /\ size # 0
    BY <1>1 DEF IInv, WalkInv, Fits
  <1>4. /\ n \in 0 .. (UNIT_WIDTH - 1) /\ n > 0 /\ size + HEADER_SIZE <= n * UNIT_SIZE
    BY <1>2, <1>3, UnitsSuffice
  <1>5. n \in Nat /\ 0 < n /\ n <= hdr[cur].units
    BY <1>1, <1>2, <1>3, <1>4, ListFacts, BlockFacts, HeapAssumption DEF Fits
  <1>6. /\ hdr[cur].units > n => hdr' = Carve(cur, n)
        /\ ~(hdr[cur].units > n) => hdr' = [hdr EXCEPT ![cur].free = FALSE]
    BY <1>2 DEF kmalloc_take
  <1>7. GoodList(hdr) /\ Merged(hdr, Null) /\ Null \notin DOMAIN hdr
    BY <1>1, ListFacts
  <1>8. Taken(hdr', cur, n)
    BY <1>3, <1>5, <1>6, <1>7, TakeGood
  <1>9. /\ GoodList(hdr') /\ Merged(hdr', Null)
        /\ cur \in DOMAIN hdr' /\ ~hdr'[cur].free /\ hdr'[cur].units = n
        /\ {x \in DOMAIN hdr' : ~hdr'[x].free} = {x \in DOMAIN hdr : ~hdr[x].free} \cup {cur}
        /\ \A x \in DOMAIN hdr' : ~hdr'[x].free /\ x # cur => hdr'[x] = hdr[x]
        /\ DOMAIN hdr \subseteq DOMAIN hdr'
    BY <1>8 DEF Taken
  <1>10. DOMAIN held' = DOMAIN held \cup {cur} /\ held'[cur] = size
         /\ \A p \in DOMAIN held \ {cur} : held'[p] = held[p]
    BY <1>1
  <1>11. cur \in Unit
    BY <1>3, <1>7 DEF GoodList
  <1>12. TypeOK'
    <2>1. \A p \in DOMAIN held' : held'[p] \in Sizes
      BY <1>3, <1>10 DEF IInv, TypeOK
    <2>2. held' \in [DOMAIN held' -> Sizes]
      BY <1>1, <2>1
    <2>3. last \in DOMAIN hdr' \cup {Null} /\ block \in DOMAIN hdr' \cup {Null}
      BY <1>9 DEF IInv, TypeOK
    <2>. QED
      BY <1>1, <1>3, <1>9, <1>10, <1>11, <2>2, <2>3 DEF IInv, TypeOK, GoodList
  <1>13. HeldFits'
    <2>1. DOMAIN held' = {b \in DOMAIN hdr' : ~hdr'[b].free}
      BY <1>9, <1>10 DEF IInv, HeldFits
    <2>2. ASSUME NEW p \in DOMAIN held'
          PROVE  held'[p] + HEADER_SIZE <= hdr'[p].units * UNIT_SIZE
      <3>1. CASE p = cur
        BY <1>4, <1>9, <1>10, <3>1
      <3>2. CASE p # cur
        BY <1>9, <1>10, <2>1, <3>2 DEF IInv, HeldFits
      <3>. QED  BY <3>1, <3>2
    <2>. QED  BY <2>1, <2>2 DEF HeldFits
  <1>14. NoFreeNeighbours'
    <2>1. Null \notin DOMAIN hdr'
      BY <1>9, BlockFacts DEF Null
    <2>. QED  BY <1>9, <2>1 DEF Merged, NoFreeNeighbours
  <1>15. Tiling' /\ Covers(hdr)'
    BY <1>9 DEF GoodList, Tiling, Tiles, Covers
  <1>16. WalkInv' /\ SearchInv'
    BY <1>1 DEF WalkInv, SearchInv
  <1>. QED  BY <1>12, <1>13, <1>14, <1>15, <1>16 DEF IInv

\* The first half of kfree preserves the invariant.
LEMMA FreeStep ==
    ASSUME IInv, NEW p \in DOMAIN held, kfree_enter(p)
    PROVE  IInv'
  <1>1. /\ pc = "idle" /\ ~hdr[p].free /\ hdr' = MarkFree(p)
        /\ held' = [q \in DOMAIN held \ {p} |-> held[q]]
        /\ block' = p /\ cur' = 0 /\ last' = Null /\ pc' = "search" /\ UNCHANGED <<size, ret>>
    BY DEF kfree_enter
  <1>2. p \in DOMAIN hdr
    BY DEF IInv, HeldFits
  <1>3. GoodList(hdr) /\ Merged(hdr, Null)
    BY <1>1, ListFacts
  <1>4. /\ GoodList(hdr') /\ Merged(hdr', p)
        /\ p \in DOMAIN hdr' /\ hdr'[p].free
        /\ hdr'[p].next # Null => ~hdr'[hdr'[p].next].free
        /\ {x \in DOMAIN hdr' : ~hdr'[x].free} = {x \in DOMAIN hdr : ~hdr[x].free} \ {p}
        /\ \A x \in DOMAIN hdr' : ~hdr'[x].free => hdr'[x] = hdr[x]
    BY <1>1, <1>2, <1>3, MarkFreeGood
  <1>5. DOMAIN held' = DOMAIN held \ {p} /\ \A q \in DOMAIN held' : held'[q] = held[q]
    BY <1>1
  <1>6. 0 \in DOMAIN hdr' /\ 0 <= p
    BY <1>4, BlockFacts DEF GoodList, Tiles
  <1>7. TypeOK'
    <2>1. \A q \in DOMAIN held' : held'[q] \in Sizes
      BY <1>5 DEF IInv, TypeOK
    <2>2. held' \in [DOMAIN held' -> Sizes]
      BY <1>1, <2>1
    <2>. QED  BY <1>1, <1>4, <1>5, <1>6, <2>2 DEF IInv, TypeOK, GoodList
  <1>8. HeldFits'
    <2>1. DOMAIN held' = {b \in DOMAIN hdr' : ~hdr'[b].free}
      BY <1>4, <1>5 DEF IInv, HeldFits
    <2>. QED  BY <1>4, <1>5, <2>1 DEF IInv, HeldFits
  <1>9. NoFreeNeighbours'
    BY <1>1, <1>4 DEF Merged, NoFreeNeighbours
  <1>10. Tiling' /\ Covers(hdr)'
    BY <1>4 DEF GoodList, Tiling, Tiles, Covers
  <1>11. WalkInv' /\ SearchInv'
    BY <1>1, <1>4, <1>6 DEF WalkInv, SearchInv
  <1>. QED  BY <1>7, <1>8, <1>9, <1>10, <1>11 DEF IInv

\* With its predecessor known, block is merged into it or has no free neighbour
\* at all; the blocks in use do not change.
LEMMA DoneKeeps ==
    ASSUME IInv, kfree_done
    PROVE  /\ GoodList(hdr') /\ Merged(hdr', Null)
           /\ {x \in DOMAIN hdr' : ~hdr'[x].free} = {x \in DOMAIN hdr : ~hdr[x].free}
           /\ \A x \in DOMAIN hdr' : ~hdr'[x].free => hdr'[x] = hdr[x]
  <1>1. /\ pc = "search" /\ cur = block /\ cur' = Null /\ last' = Null /\ block' = Null
        /\ pc' = "idle" /\ UNCHANGED <<size, ret, held>>
        /\ hdr' = IF last # Null /\ hdr[last].free THEN Absorb(hdr, last, block) ELSE hdr
    BY DEF kfree_done
  <1>2. GoodList(hdr) /\ Merged(hdr, block) /\ Null \notin DOMAIN hdr
    BY <1>1, ListFacts
  <1>3. /\ block \in DOMAIN hdr /\ hdr[block].free
        /\ hdr[block].next # Null => ~hdr[hdr[block].next].free
        /\ \/ last = Null /\ block = 0
           \/ last \in DOMAIN hdr /\ hdr[last].next = block
    BY <1>1 DEF IInv, SearchInv
  <1>4. /\ GoodList(hdr') /\ Merged(hdr', Null)
        /\ {x \in DOMAIN hdr' : ~hdr'[x].free} = {x \in DOMAIN hdr : ~hdr[x].free}
        /\ \A x \in DOMAIN hdr' : ~hdr'[x].free => hdr'[x] = hdr[x]
    <2>1. CASE last # Null /\ hdr[last].free
      <3>1. last \in DOMAIN hdr /\ hdr[last].next = block /\ hdr' = Absorb(hdr, last, block)
        BY <1>1, <1>3, <2>1
      <3>2. GoodList(hdr') /\ Absorbed(hdr, last, block, hdr')
        BY <1>2, <1>3, <3>1, AbsorbGood
      <3>3. /\ DOMAIN hdr' = DOMAIN hdr \ {block} /\ last # block
            /\ hdr'[last].free /\ hdr'[last].next = hdr[block].next
            /\ \A x \in DOMAIN hdr \ {last, block} : hdr'[x] = hdr[x]
        <4>1. last < block /\ last \in Nat /\ block \in Nat
          BY <1>2, <1>3, <3>1, <3>2, BlockFacts DEF Absorbed
        <4>. QED  BY <2>1, <3>2, <4>1 DEF Absorbed
      <3>4. Merged(hdr', Null)
        <4>. SUFFICES ASSUME NEW x \in DOMAIN hdr', NEW y \in DOMAIN hdr',
                             hdr'[x].next = y, hdr'[x].free, hdr'[y].free
                      PROVE  FALSE
          BY DEF Merged
        <4>1. hdr[block].next # last /\ hdr[last].next # last
          BY <1>2, <1>3, <3>1, BlockFacts
        <4>2. x # last
          <5>1. SUFFICES x = last => FALSE
            OBVIOUS
          <5>. QED  BY <1>2, <1>3, <3>3, <4>1
        <4>3. hdr'[x] = hdr[x] /\ x \in DOMAIN hdr
          BY <3>3, <4>2
        <4>4. y \in DOMAIN hdr /\ hdr[y].free /\ y # block
          BY <2>1, <3>3
        <4>. QED  BY <1>2, <4>3, <4>4 DEF Merged
      <3>5. \A x \in DOMAIN hdr' : ~hdr'[x].free => hdr'[x] = hdr[x]
        BY <3>3
      <3>6. {x \in DOMAIN hdr' : ~hdr'[x].free} = {x \in DOMAIN hdr : ~hdr[x].free}
        BY <1>3, <2>1, <3>3, <3>5
      <3>. QED  BY <3>2, <3>4, <3>5, <3>6
    <2>2. CASE ~(last # Null /\ hdr[last].free)
      <3>1. hdr' = hdr
        BY <1>1, <2>2
      <3>2. Merged(hdr, Null)
        <4>. SUFFICES ASSUME NEW x \in DOMAIN hdr, NEW y \in DOMAIN hdr,
                             hdr[x].next = y, hdr[x].free, hdr[y].free
                      PROVE  FALSE
          BY DEF Merged
        <4>1. y = block
          BY <1>2 DEF Merged
        <4>2. CASE last = Null
          BY <1>2, <1>3, <4>1, <4>2, BlockFacts
        <4>3. CASE last # Null
          <5>1. last \in DOMAIN hdr /\ hdr[last].next = block /\ ~hdr[last].free
            BY <1>3, <2>2, <4>3
          <5>2. x # last /\ hdr[x].next = hdr[last].next
            BY <4>1, <5>1
          <5>. QED  BY <1>2, <5>1, <5>2, BlockFacts
        <4>. QED  BY <4>2, <4>3
      <3>. QED  BY <1>2, <3>1, <3>2
    <2>. QED  BY <2>1, <2>2
  <1>. QED  BY <1>4

\* The second half of kfree preserves the invariant.
LEMMA DoneStep ==
    ASSUME IInv, kfree_done
    PROVE  IInv'
  <1>1. /\ pc = "search" /\ cur' = Null /\ last' = Null /\ block' = Null
        /\ pc' = "idle" /\ UNCHANGED <<size, ret, held>>
    BY DEF kfree_done
  <1>2. /\ GoodList(hdr') /\ Merged(hdr', Null)
        /\ {x \in DOMAIN hdr' : ~hdr'[x].free} = {x \in DOMAIN hdr : ~hdr[x].free}
        /\ \A x \in DOMAIN hdr' : ~hdr'[x].free => hdr'[x] = hdr[x]
    BY DoneKeeps
  <1>3. TypeOK'
    BY <1>1, <1>2 DEF IInv, TypeOK, GoodList
  <1>4. HeldFits'
    <2>1. DOMAIN held' = {b \in DOMAIN hdr' : ~hdr'[b].free}
      BY <1>1, <1>2 DEF IInv, HeldFits
    <2>. QED  BY <1>1, <1>2, <2>1 DEF IInv, HeldFits
  <1>5. NoFreeNeighbours'
    <2>1. Null \notin DOMAIN hdr'
      BY <1>2, BlockFacts DEF Null
    <2>. QED  BY <1>2, <2>1 DEF Merged, NoFreeNeighbours
  <1>6. Tiling' /\ Covers(hdr)'
    BY <1>2 DEF GoodList, Tiling, Tiles, Covers
  <1>7. WalkInv' /\ SearchInv'
    BY <1>1 DEF WalkInv, SearchInv
  <1>. QED  BY <1>3, <1>4, <1>5, <1>6, <1>7 DEF IInv

\* Every step of the bee preserves the invariant.
LEMMA StepInv ==
    ASSUME SizesFit
    PROVE  IInv /\ [Next]_vars => IInv'
  <1>. SUFFICES ASSUME IInv, [Next]_vars
                PROVE  IInv'
    OBVIOUS
  <1>1. CASE kmalloc_take
    BY <1>1, TakeStep
  <1>2. ASSUME NEW p \in DOMAIN held, kfree_enter(p)
        PROVE  IInv'
    BY <1>2, FreeStep
  <1>3. CASE kfree_done
    BY <1>3, DoneStep
  <1>4. CASE \/ kmalloc_zero
             \/ \E n \in Sizes : kmalloc_enter(n)
             \/ kmalloc_next
             \/ kmalloc_fail
             \/ \E p \in Unit : kfree_twice(p)
             \/ kfree_next
             \/ UNCHANGED vars
    BY <1>4, WalkSteps
  <1>. QED
    BY <1>1, <1>2, <1>3, <1>4 DEF Next, kmalloc_loop, kfree_loop, Spin

\* In every behaviour of the bee, the invariant holds throughout.
THEOREM Invariance ==
    ASSUME SizesFit
    PROVE  Spec => []IInv
  <1>1. Init => IInv
    BY InitInv
  <1>2. IInv /\ [Next]_vars => IInv'
    BY StepInv
  <1>. QED  BY <1>1, <1>2, PTL DEF Spec

\* Type correctness, for a heap of any size: the cursors of both loops stay on
\* the list.
THEOREM TypeCorrect ==
    ASSUME SizesFit
    PROVE  Spec => []TypeOK
  <1>1. IInv => TypeOK
    BY DEF IInv
  <1>. QED  BY <1>1, Invariance, PTL

\* Whatever kmalloc splits and kfree merges, no unit of the heap is lost and
\* none belongs to two blocks.
THEOREM HeapTiled ==
    ASSUME SizesFit
    PROVE  Spec => []Tiling
  <1>1. IInv => Tiling
    BY DEF IInv
  <1>. QED  BY <1>1, Invariance, PTL

\* Between two calls no two free blocks are neighbours.
THEOREM FreeBlocksMerged ==
    ASSUME SizesFit
    PROVE  Spec => []NoFreeNeighbours
  <1>1. IInv => NoFreeNeighbours
    BY DEF IInv
  <1>. QED  BY <1>1, Invariance, PTL

\* A caller's block stays allocated, and large enough, until it is freed.
THEOREM CallersHoldEnough ==
    ASSUME SizesFit
    PROVE  Spec => []HeldFits
  <1>1. IInv => HeldFits
    BY DEF IInv
  <1>. QED  BY <1>1, Invariance, PTL

-----------------------------------------------------------------------------
(* The heap implements the pool.                                            *)

\* The extents in use, as the refinement mapping gives them.
InUse == [b \in {x \in DOMAIN hdr : ~hdr[x].free} |-> hdr[b].units]

\* A unit is used in the pool when it lies in a block that is not free.
LEMMA UsedUnits ==
    ASSUME IInv, NEW u \in Int
    PROVE  Pool!Used(u) <=> \E b \in DOMAIN hdr :
                               ~hdr[b].free /\ b <= u /\ u < b + hdr[b].units
  <1>1. \A b \in DOMAIN hdr : b \in Nat /\ hdr[b].units \in Nat
    BY ListFacts, BlockFacts
  <1>2. \A b \in DOMAIN hdr : u \in b .. (b + hdr[b].units - 1) <=> b <= u /\ u < b + hdr[b].units
    BY <1>1
  <1>. QED  BY <1>2 DEF Pool!Used, Pool!Extent

\* n unused units in a row lie in one free block: the list covers every unit,
\* and a free block is followed by one in use.
LEMMA GapInBlock ==
    ASSUME IInv, pc = "walk", NEW p \in Nat, NEW n \in Nat, n > 0, Pool!Gap(p, n)
    PROVE  \E b \in DOMAIN hdr : hdr[b].free /\ n <= hdr[b].units
  <1>1. \A u \in Int : p <= u /\ u < p + n => u \in Unit /\ ~Pool!Used(u)
    BY DEF Pool!Gap, Pool!Extent, Unit
  <1>2. p \in Unit /\ ~Pool!Used(p)
    BY <1>1
  <1>3. PICK b \in DOMAIN hdr : b <= p /\ p < b + hdr[b].units
    BY <1>2 DEF IInv, Covers
  <1>4. /\ b \in Nat /\ hdr[b].units \in Nat /\ hdr[b].next = b + hdr[b].units
        /\ hdr[b].next \in DOMAIN hdr \cup {Null}
    BY ListFacts, BlockFacts
  <1>5. hdr[b].free
    BY <1>2, <1>3, UsedUnits
  <1>6. ~(hdr[b].next < p + n)
    <2>. SUFFICES ASSUME hdr[b].next < p + n
                  PROVE  FALSE
      OBVIOUS
    <2>. DEFINE c == hdr[b].next
    <2>1. c \in Int /\ p <= c /\ c \in Unit /\ ~Pool!Used(c)
      BY <1>1, <1>3, <1>4
    <2>2. c \in DOMAIN hdr
      BY <1>4, <2>1, HeapAssumption DEF Unit, Null
    <2>3. ~hdr[c].free
      BY <1>5, <2>2 DEF IInv, NoFreeNeighbours
    <2>4. c <= c /\ c < c + hdr[c].units
      BY <2>1, <2>2, ListFacts, BlockFacts
    <2>. QED  BY <2>1, <2>2, <2>3, <2>4, UsedUnits
  <1>7. n <= hdr[b].units
    BY <1>3, <1>4, <1>6
  <1>. QED  BY <1>5, <1>7

\* Handing out a block is a Grant of the pool.
LEMMA TakeGrants ==
    ASSUME SizesFit, IInv, IInv', kmalloc_take
    PROVE  \E p \in 0 .. (HEAP_TOTAL_UNITS - 1) : Pool!Grant(p)
  <1>1. /\ pc = "walk" /\ cur # Null /\ Fits(cur, bytes_to_units(size))
        /\ ret' = cur /\ pc' = "idle"
    BY DEF kmalloc_take
  <1>2. PICK n : n = bytes_to_units(size)
    OBVIOUS
  <1>3. cur \in DOMAIN hdr /\ hdr[cur].free /\ size \in Sizes /\ size # 0
    BY <1>1 DEF IInv, WalkInv, Fits
  <1>4. n \in Nat /\ 0 < n
    BY <1>2, <1>3, UnitsSuffice, HeapAssumption
  <1>5. n <= hdr[cur].units
    BY <1>1, <1>2, <1>3, <1>4, ListFacts, BlockFacts DEF Fits
  <1>6. /\ hdr[cur].units > n => hdr' = Carve(cur, n)
        /\ ~(hdr[cur].units > n) => hdr' = [hdr EXCEPT ![cur].free = FALSE]
    BY <1>2 DEF kmalloc_take
  <1>7. GoodList(hdr) /\ Merged(hdr, Null) /\ Null \notin DOMAIN hdr
    BY <1>1, ListFacts
  <1>8. Taken(hdr', cur, n)
    BY <1>3, <1>4, <1>5, <1>6, <1>7, TakeGood
  <1>9. /\ cur \in DOMAIN hdr' /\ ~hdr'[cur].free /\ hdr'[cur].units = n
        /\ {x \in DOMAIN hdr' : ~hdr'[x].free} = {x \in DOMAIN hdr : ~hdr[x].free} \cup {cur}
        /\ \A x \in DOMAIN hdr' : ~hdr'[x].free /\ x # cur => hdr'[x] = hdr[x]
    BY <1>8 DEF Taken
  <1>10. cur \in Nat /\ cur + hdr[cur].units <= HEAP_TOTAL_UNITS /\ hdr[cur].units \in Nat
    BY <1>3, <1>7, BlockFacts
  <1>11. Pool!Gap(cur, n)
    <2>. SUFFICES ASSUME NEW u \in Int, cur <= u, u < cur + n
                  PROVE  u \in 0 .. (HEAP_TOTAL_UNITS - 1) /\ ~Pool!Used(u)
      BY <1>4, <1>10 DEF Pool!Gap, Pool!Extent
    <2>1. u \in 0 .. (HEAP_TOTAL_UNITS - 1)
      BY <1>4, <1>5, <1>10, HeapAssumption
    <2>2. ASSUME NEW b \in DOMAIN hdr, ~hdr[b].free, b <= u, u < b + hdr[b].units
          PROVE  FALSE
      <3>1. /\ b \in Nat /\ hdr[b].units \in Nat
            /\ b < cur => b + hdr[b].units <= cur
            /\ cur < b => cur + hdr[cur].units <= b
        BY <1>3, <1>7, BlockFacts
      <3>2. b # cur
        BY <1>3, <2>2
      <3>. QED  BY <1>4, <1>5, <1>10, <2>2, <3>1, <3>2
    <2>. QED  BY <2>1, <2>2, UsedUnits
  <1>12. InUse' = [q \in DOMAIN InUse \cup {cur} |-> IF q = cur THEN n ELSE InUse[q]]
    BY <1>9 DEF InUse
  <1>13. PICK p : p = cur
    OBVIOUS
  <1>14. Pool!Grant(p)
    BY <1>1, <1>2, <1>4, <1>11, <1>12, <1>13 DEF Pool!Grant, InUse
  <1>15. p \in 0 .. (HEAP_TOTAL_UNITS - 1)
    BY <1>4, <1>5, <1>10, <1>13, HeapAssumption
  <1>. QED  BY <1>14, <1>15

\* A kmalloc that reaches the end of the list is a Refuse of the pool: the walk
\* has seen that no free block is large enough, and a gap lies in one block.
LEMMA FailRefuses ==
    ASSUME SizesFit, IInv, kmalloc_fail
    PROVE  Pool!Refuse
  <1>1. /\ pc = "walk" /\ cur = Null /\ ret' = Null /\ pc' = "idle" /\ hdr' = hdr
    BY DEF kmalloc_fail
  <1>2. PICK n : n = bytes_to_units(size)
    OBVIOUS
  <1>3. size \in Sizes /\ size # 0
    BY <1>1 DEF IInv, WalkInv
  <1>4. n \in Nat /\ n > 0
    BY <1>2, <1>3, UnitsSuffice, HeapAssumption
  <1>5. \A b \in DOMAIN hdr : b < cur /\ hdr[b].units \in Nat
    BY <1>1, ListFacts, BlockFacts DEF Null
  <1>6. \A b \in DOMAIN hdr : ~(hdr[b].free /\ n <= hdr[b].units)
    BY <1>1, <1>2, <1>4, <1>5 DEF IInv, WalkInv, Fits
  <1>7. \A p \in 0 .. (HEAP_TOTAL_UNITS - 1) : ~Pool!Gap(p, n)
    BY <1>1, <1>4, <1>6, GapInBlock, HeapAssumption
  <1>. QED  BY <1>1, <1>2, <1>4, <1>7 DEF Pool!Refuse

\* Every step of the heap is a step of the pool or leaves the pool unchanged.
LEMMA StepRefines ==
    ASSUME SizesFit, IInv, IInv', [Next]_vars
    PROVE  [Pool!Next]_(Pool!vars)
  <1>1. CASE kmalloc_zero
    BY <1>1 DEF kmalloc_zero, Pool!Next, Pool!RequestNothing
  <1>2. ASSUME NEW n \in Sizes, kmalloc_enter(n)
        PROVE  Pool!Request
    <2>1. pc = "idle" /\ pc' = "walk" /\ size' = n /\ n # 0 /\ UNCHANGED <<hdr, ret>>
      BY <1>2 DEF kmalloc_enter
    <2>2. bytes_to_units(n) \in Nat \ {0}
      BY <2>1, UnitsSuffice, HeapAssumption
    <2>. QED  BY <2>1, <2>2 DEF Pool!Request
  <1>3. CASE kmalloc_next
    BY <1>3 DEF kmalloc_next, Pool!vars
  <1>4. CASE kmalloc_take
    <2>1. \E p \in 0 .. (HEAP_TOTAL_UNITS - 1) : Pool!Grant(p)
      BY <1>4, TakeGrants
    <2>. QED  BY <2>1, Zenon DEF Pool!Next, Pool!Answer
  <1>5. CASE kmalloc_fail
    BY <1>5, FailRefuses DEF Pool!Next, Pool!Answer
  <1>6. ASSUME NEW p \in DOMAIN held, kfree_enter(p)
        PROVE  \E q \in DOMAIN InUse : Pool!Release(q)
    <2>1. /\ pc = "idle" /\ pc' = "search" /\ ~hdr[p].free /\ hdr' = MarkFree(p)
          /\ UNCHANGED ret
      BY <1>6 DEF kfree_enter
    <2>2. p \in DOMAIN hdr
      BY DEF IInv, HeldFits
    <2>3. GoodList(hdr) /\ Merged(hdr, Null)
      BY <2>1, ListFacts
    <2>4. /\ {x \in DOMAIN hdr' : ~hdr'[x].free} = {x \in DOMAIN hdr : ~hdr[x].free} \ {p}
          /\ \A x \in DOMAIN hdr' : ~hdr'[x].free => hdr'[x] = hdr[x]
      BY <2>1, <2>2, <2>3, MarkFreeGood
    <2>5. InUse' = [q \in DOMAIN InUse \ {p} |-> InUse[q]]
      BY <2>4 DEF InUse
    <2>6. p \in DOMAIN InUse
      BY <2>1, <2>2 DEF InUse
    <2>7. Pool!Release(p)
      BY <2>1, <2>5, <2>6 DEF Pool!Release, InUse
    <2>. QED  BY <2>6, <2>7, Zenon
  <1>7. ASSUME NEW p \in Unit, kfree_twice(p)
        PROVE  UNCHANGED Pool!vars
    BY <1>7 DEF kfree_twice, Pool!vars
  <1>8. CASE kfree_next
    BY <1>8 DEF kfree_next, Pool!vars
  <1>9. CASE kfree_done
    <2>1. pc = "search" /\ pc' = "idle" /\ UNCHANGED <<ret, held>>
      BY <1>9 DEF kfree_done
    <2>2. InUse' = InUse
      BY <1>9, DoneKeeps DEF InUse
    <2>. QED  BY <2>1, <2>2 DEF Pool!vars, InUse
  <1>10. CASE UNCHANGED vars
    BY <1>10 DEF vars, Pool!vars
  <1>. QED
    BY <1>1, <1>2, <1>3, <1>4, <1>5, <1>6, <1>7, <1>8, <1>9, <1>10
       DEF Next, kmalloc_loop, kfree_loop, Spin, Pool!Next, InUse

\* The heap implements the pool: kmalloc hands out unused units only, and
\* answers with the null pointer only when no run of unused units is long
\* enough, wherever in the heap it may be.
THEOREM HeapImplementsPool ==
    ASSUME SizesFit
    PROVE  Spec => ImplementsPool
  <1>1. Init => Pool!Init
    BY DEF Init, Pool!Init
  <1>2. IInv /\ IInv' /\ [Next]_vars => [Pool!Next]_(Pool!vars)
    BY StepRefines
  <1>. QED  BY <1>1, <1>2, Invariance, PTL DEF Spec, ImplementsPool, Pool!Spec

-----------------------------------------------------------------------------
(* The calls come to an end.                                                *)

\* The units of the heap that the loop of a call has still before it.
Ahead == HEAP_TOTAL_UNITS - cur

\* Each iteration is the last one of its call or leaves less of the heap to go through.
GoesOn ==
    pc \in {"walk", "search"} =>
        /\ Ahead \in 0 .. HEAP_TOTAL_UNITS
        /\ pc' = "idle" \/ (pc' = pc /\ Ahead' \in Nat /\ Ahead' < Ahead)

\* While a call is under way nothing but its loop runs, and the loop goes on.
LEMMA LoopGoesOn ==
    ASSUME IInv, [Next]_vars, pc \in {"walk", "search"}
    PROVE  GoesOn \/ UNCHANGED vars
  <1>1. GoodList(hdr) /\ Null \notin DOMAIN hdr /\ HEAP_TOTAL_UNITS \in Nat
    BY ListFacts, HeapAssumption
  <1>2. \A x \in DOMAIN hdr :
            /\ x \in Nat /\ x < HEAP_TOTAL_UNITS /\ hdr[x].next \in Nat /\ x < hdr[x].next
            /\ hdr[x].next <= HEAP_TOTAL_UNITS
    BY <1>1, BlockFacts
  <1>3. cur \in DOMAIN hdr \cup {Null}
    BY DEF IInv, WalkInv, SearchInv
  <1>4. Ahead \in 0 .. HEAP_TOTAL_UNITS
    BY <1>1, <1>2, <1>3 DEF Ahead, Null
  <1>5. ASSUME cur \in DOMAIN hdr, cur' = hdr[cur].next, pc' = pc PROVE GoesOn
    BY <1>1, <1>2, <1>5 DEF GoesOn, Ahead
  <1>6. CASE kmalloc_next
    <2>1. cur \in DOMAIN hdr /\ cur' = hdr[cur].next /\ pc' = pc
      BY <1>3, <1>6 DEF kmalloc_next
    <2>. QED  BY <1>4, <1>5, <2>1
  <1>7. CASE kfree_next
    <2>1. cur \in DOMAIN hdr /\ cur' = hdr[cur].next /\ pc' = pc
      BY <1>7 DEF kfree_next, IInv, SearchInv
    <2>. QED  BY <1>4, <1>5, <2>1
  <1>8. CASE kmalloc_take \/ kmalloc_fail \/ kfree_done
    BY <1>4, <1>8 DEF kmalloc_take, kmalloc_fail, kfree_done, GoesOn
  <1>. QED
    BY <1>4, <1>6, <1>7, <1>8
       DEF Next, kmalloc_loop, kfree_loop, kmalloc_zero, kmalloc_enter, kfree_enter, kfree_twice,
           Spin

\* Neither loop goes in a circle, however the blocks have been split and merged: each
\* iteration of kmalloc and kfree ends the call or takes it on towards the end of the
\* heap, so that a call takes at most one more than the heap has units.  It is the
\* variant behind CallsReturn.
THEOREM LoopsGoOn ==
    ASSUME SizesFit
    PROVE  Spec => [][GoesOn]_vars
  <1>1. IInv /\ [Next]_vars => [GoesOn]_vars
    BY LoopGoesOn DEF GoesOn
  <1>. QED  BY <1>1, Invariance, PTL DEF Spec

=============================================================================
