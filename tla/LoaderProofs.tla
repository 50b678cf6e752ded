---------------------------- MODULE LoaderProofs ----------------------------
(***************************************************************************)
(* Proofs about Loader for any disk, whichever of its sectors are bad, any *)
(* sector size and any number of names to a page.                          *)
(***************************************************************************)
EXTENDS Loader, WellFoundedInduction, SequenceTheorems, TLAPS

\* What a name page can have the name of, and what lies in its slots.
Known == (UNION {{d.bees[k] : k \in DOMAIN d.bees} : d \in Disks}) \cup {NoBee(a) : a \in Nat}
Row   == [Slot -> Known \cup {Junk, Empty}]

\* The first k slots of the last page have been written, and so have all slots of
\* the pages before; the slot behind them, if there is one, ends the names.
FilledTo(ps, k) ==
    /\ \A p \in 1 .. Len(ps), j \in Slot : p < Len(ps) \/ j < k => ps[p][j] # Junk
    /\ k < NAMES_PER_PAGE => ps[Len(ps)][k] = Empty

\* A chain of pages with c names.
Chain(ps, c) ==
    /\ ps \in Seq(Row) /\ ps # <<>>
    /\ \E k \in 0 .. NAMES_PER_PAGE :
          FilledTo(ps, k) /\ c = (Len(ps) - 1) * NAMES_PER_PAGE + k

\* A walk over the names has not passed the one that ends them.
NotPast == /\ page \in 1 .. Len(pages) /\ i \in Slot
           /\ \A j \in Slot : j < i => pages[page][j] # Empty

\* Pieces of memory that lie below m and apart from each other.
Laid(R, m) ==
    /\ \A r \in R : r.lo \in Nat /\ r.hi \in Nat /\ r.lo <= r.hi /\ r.hi <= m
    /\ \A r, q \in R : r # q => r.hi <= q.lo \/ q.hi <= r.lo

\* The inductive invariant.
IInv == /\ disk \in Disks
        /\ last_end \in Nat
        /\ MEMORY \in Nat /\ Laid(regions, MEMORY)
        /\ Chain(pages, count)
        /\ NotPast
        /\ pc = "scan" => page = 1 /\ i = 0

-----------------------------------------------------------------------------
(* Numbers.                                                                 *)

\* A set of numbers has a smallest one, which Min is.
LEMMA Smallest ==
    ASSUME NEW S, S \subseteq Nat, S # {}
    PROVE  Min(S) \in S /\ \A y \in S : Min(S) <= y
  <1>. DEFINE R == OpToRel(<, Nat)
  <1>1. IsWellFoundedOn(R, Nat)
    BY NatLessThanWellFounded
  <1>2. \A x, y \in Nat : x < y => <<x, y>> \in R
    BY DEF OpToRel
  <1>. HIDE DEF R
  <1>3. PICK x \in S : \A y \in S : ~(<<y, x>> \in R)
    BY <1>1, WFMin, Zenon
  <1>4. \A y \in S : ~(y < x)
    BY <1>2, <1>3, Zenon
  <1>5. \A y \in S : x <= y
    BY <1>4
  <1>. QED  BY <1>5 DEF Min

\* Quotient and remainder are unique.
LEMMA Quotient ==
    ASSUME NEW N \in Nat \ {0}, NEW q \in Nat, NEW k \in 0 .. (N - 1)
    PROVE  (q * N + k) \div N = q /\ (q * N + k) % N = k
  <1>. DEFINE d == (q * N + k) \div N
              r == (q * N + k) % N
  <1>1. q * N + k \in Nat
    OBVIOUS
  <1>2. d \in Int /\ r \in 0 .. (N - 1) /\ q * N + k = d * N + r
    BY <1>1
  <1>3. (q - d) * N = r - k /\ (d - q) * N = k - r
    BY <1>2
  <1>4. ~(q > d)
    <2>1. q > d => (q - d) * N >= N
      BY <1>2
    <2>. QED  BY <1>2, <1>3, <2>1
  <1>5. ~(q < d)
    <2>1. q < d => (d - q) * N >= N
      BY <1>2
    <2>. QED  BY <1>2, <1>3, <2>1
  <1>. QED  BY <1>2, <1>3, <1>4, <1>5

\* Rounding up gives a whole number of sectors that is not less.
LEMMA Rounded ==
    ASSUME NEW n \in Nat
    PROVE  RoundUp(n) \in Nat /\ RoundUp(n) >= n
  <1>1. SECTOR \in Nat \ {0}
    BY LoaderAssumption
  <1>. DEFINE a == n + SECTOR - 1
              d == a \div SECTOR
  <1>2. a \in Nat
    BY <1>1
  <1>3. d \in Nat /\ (a % SECTOR) \in 0 .. (SECTOR - 1) /\ a = (d * SECTOR) + (a % SECTOR)
    <2>. HIDE DEF a
    <2>. QED  BY <1>1, <1>2
  <1>4. d * SECTOR \in Nat
    BY <1>1, <1>3
  <1>. QED  BY <1>1, <1>3, <1>4 DEF RoundUp

-----------------------------------------------------------------------------
(* The disk and the bees on it.                                             *)

\* A search ends at a byte of the disk or with 0.
LEMMA FindBee ==
    ASSUME disk \in Disks, NEW a \in Nat
    PROVE  find_bee(a) \in Nat
  <1>. DEFINE hits == {m \in Marks : /\ m >= a /\ InLimit(a, m)
                                   /\ \A q \in (a \div SECTOR) .. (m \div SECTOR + 1) : Good(q)}
  <1>1. \A b \in Bees : b.at \in Nat /\ b.size \in Nat
    BY DiskAssumption DEF Bees
  <1>2. \A m \in Marks : m \in Int
    BY <1>1, LoaderAssumption DEF Marks
  <1>3. hits \subseteq Nat
    BY <1>2
  <1>4. hits # {} => Min(hits) \in Nat
    BY <1>3, Smallest
  <1>. QED  BY <1>4 DEF find_bee

\* The bee a page is given the name of is one of those.
LEMMA BeeAtKnown ==
    ASSUME disk \in Disks, NEW a \in Nat
    PROVE  BeeAt(a) \in Known
  <1>1. Bees \subseteq Known
    BY DEF Bees, Known
  <1>2. NoBee(a) \in Known
    BY DEF Known
  <1>. QED  BY <1>1, <1>2 DEF BeeAt

\* The exports of such a bee have a number and a largest id.
LEMMA KnownSized ==
    ASSUME NEW b \in Known
    PROVE  Len(b.exports) \in Nat /\ MAX_ID(b) \in Int /\ MAX_ID(b) >= -1
  <1>1. \/ b.exports = <<>>
        \/ /\ b.exports \in Seq(Nat) /\ b.exports # <<>>
           /\ \E j \in DOMAIN b.exports :
                 \A n \in DOMAIN b.exports : b.exports[j] >= b.exports[n]
    <2>1. CASE \E d \in Disks : \E k \in DOMAIN d.bees : b = d.bees[k]
      BY <2>1, DiskAssumption
    <2>2. CASE \E a \in Nat : b = NoBee(a)
      BY <2>2 DEF NoBee
    <2>. QED  BY <2>1, <2>2 DEF Known
  <1>2. CASE b.exports = <<>>
    BY <1>2 DEF MAX_ID
  <1>3. ASSUME b.exports \in Seq(Nat), b.exports # <<>>,
               NEW j \in DOMAIN b.exports,
               \A n \in DOMAIN b.exports : b.exports[j] >= b.exports[n]
        PROVE  Len(b.exports) \in Nat /\ MAX_ID(b) \in Int /\ MAX_ID(b) >= -1
    <2>. DEFINE ids == {b.exports[k] : k \in DOMAIN b.exports}
    <2>1. ids \subseteq Nat /\ b.exports[j] \in ids /\ \A y \in ids : b.exports[j] >= y
      BY <1>3
    <2>2. Max(ids) \in ids
      <3>. HIDE DEF ids
      <3>. QED  BY <2>1 DEF Max
    <2>3. MAX_ID(b) = Max(ids)
      BY <1>3 DEF MAX_ID
    <2>4. MAX_ID(b) \in Nat
      BY <2>1, <2>2, <2>3
    <2>. QED  BY <1>3, <2>4
  <1>. QED  BY <1>1, <1>2, <1>3

-----------------------------------------------------------------------------
(* The name pages.                                                          *)

\* A walk that has not passed the name that ends the names is at a slot that has
\* been written.
LEMMA NotUnwritten ==
    ASSUME MarkersApart, NEW c, Chain(pages, c), NotPast
    PROVE  pages[page][i] # Junk
  <1>1. PICK k \in 0 .. NAMES_PER_PAGE : FilledTo(pages, k)
    BY DEF Chain
  <1>2. page \in 1 .. Len(pages) /\ Len(pages) \in Nat /\ i \in 0 .. (NAMES_PER_PAGE - 1)
    BY DEF NotPast, Chain, Slot
  <1>3. CASE page < Len(pages) \/ i < k
    BY <1>1, <1>2, <1>3 DEF FilledTo, Slot
  <1>4. CASE page = Len(pages) /\ i = k
    BY <1>1, <1>2, <1>4, LoaderAssumption DEF FilledTo, MarkersApart
  <1>5. ~(page = Len(pages) /\ i > k)
    BY <1>1, <1>2, LoaderAssumption DEF FilledTo, NotPast, Slot
  <1>. QED  BY <1>1, <1>2, <1>3, <1>4, <1>5, LoaderAssumption

\* What lies in a slot that is neither unwritten nor empty is a name.
LEMMA SlotKnown ==
    ASSUME NEW c, Chain(pages, c), NotPast,
           pages[page][i] # Junk, pages[page][i] # Empty
    PROVE  pages[page][i] \in Known
  <1>1. pages[page] \in Row
    BY DEF Chain, NotPast
  <1>. QED  BY <1>1 DEF Row, NotPast

\* A name is nothing that stands for an unwritten slot.
LEMMA NameWritten ==
    ASSUME MarkersApart, NEW b \in Known
    PROVE  NameOf(b) \in Known \cup {Empty} /\ NameOf(b) # Junk
  <1>1. b # Junk
    BY DEF MarkersApart, Known
  <1>. QED  BY <1>1 DEF NameOf, MarkersApart

\* A new name keeps the chain, which grows by a page when the last one is full.
LEMMA ChainGrows ==
    ASSUME MarkersApart, NEW ps, NEW c, Chain(ps, c), NEW b \in Known
    PROVE  /\ Chain(addNameToPage(ps, c, b), c + 1)
           /\ Len(addNameToPage(ps, c, b)) \in {Len(ps), Len(ps) + 1}
  <1>. DEFINE N == NAMES_PER_PAGE
              L == Len(ps)
  <1>1. ps \in Seq(Row) /\ L \in Nat \ {0} /\ N \in Nat \ {0}
    BY LoaderAssumption DEF Chain
  <1>2. PICK k \in 0 .. N : FilledTo(ps, k) /\ c = (L - 1) * N + k
    BY DEF Chain
  <1>3. NameOf(b) \in Known \cup {Empty} /\ NameOf(b) # Junk
    BY NameWritten
  <1>4. NewPage \in Row
    BY DEF NewPage, Row
  <1>5. CASE k < N
    <2>1. c \div N = L - 1 /\ c % N = k
      <3>1. L - 1 \in Nat /\ k \in 0 .. (N - 1)
        BY <1>1, <1>5
      <3>. HIDE DEF L, N
      <3>. QED  BY <1>1, <1>2, <3>1, Quotient, Zenon
    <2>. DEFINE row == [j \in Slot |-> IF j = k THEN NameOf(b)
                                       ELSE IF j = k + 1 THEN Empty ELSE ps[L][j]]
                new == [ps EXCEPT ![L] = row]
    <2>2. addNameToPage(ps, c, b) = new
      <3>1. c \div N + 1 = L /\ ~(L > Len(ps))
        BY <1>1, <2>1
      <3>. QED  BY <2>1, <3>1 DEF addNameToPage
    <2>3. ps[L] \in Row
      BY <1>1
    <2>4. row \in Row
      BY <1>3, <2>3 DEF Row
    <2>5. new \in Seq(Row) /\ Len(new) = L /\ new # <<>>
      BY <1>1, <2>4
    <2>6. FilledTo(new, k + 1)
      <3>1. ASSUME NEW p \in 1 .. L, NEW j \in Slot, p < L \/ j < k + 1 PROVE new[p][j] # Junk
        BY <1>1, <1>2, <1>3, <3>1 DEF FilledTo, Slot
      <3>2. k + 1 < N => new[L][k + 1] = Empty
        BY <1>1, <1>2 DEF Slot
      <3>. QED  BY <2>5, <3>1, <3>2 DEF FilledTo
    <2>7. c + 1 = (L - 1) * N + (k + 1) /\ k + 1 \in 0 .. N
      BY <1>1, <1>2, <1>5
    <2>. QED  BY <2>2, <2>5, <2>6, <2>7 DEF Chain
  <1>6. CASE k = N
    <2>1. c = L * N + 0
      BY <1>1, <1>2, <1>6
    <2>2. c \div N = L /\ c % N = 0
      <3>1. L \in Nat /\ 0 \in 0 .. (N - 1)
        BY <1>1
      <3>. HIDE DEF L, N
      <3>. QED  BY <1>1, <2>1, <3>1, Quotient, Zenon
    <2>. DEFINE all == Append(ps, NewPage)
                row == [j \in Slot |-> IF j = 0 THEN NameOf(b)
                                       ELSE IF j = 0 + 1 THEN Empty ELSE all[L + 1][j]]
                new == [all EXCEPT ![L + 1] = row]
    <2>3. /\ all \in Seq(Row) /\ Len(all) = L + 1 /\ all[L + 1] = NewPage
          /\ \A p \in 1 .. L : all[p] = ps[p]
      BY <1>1, <1>4, AppendProperties
    <2>4. addNameToPage(ps, c, b) = new
      <3>1. c \div N + 1 = L + 1 /\ L + 1 > L
        BY <1>1, <2>2
      <3>. QED  BY <2>2, <3>1 DEF addNameToPage
    <2>5. row \in Row
      BY <1>3, <1>4, <2>3 DEF Row
    <2>6. new \in Seq(Row) /\ Len(new) = L + 1 /\ new # <<>>
      <3>. HIDE DEF all, row
      <3>. QED  BY <1>1, <2>3, <2>5
    <2>7. FilledTo(new, 1)
      <3>1. \A p \in 1 .. L, j \in Slot : ps[p][j] # Junk
        BY <1>1, <1>2, <1>6 DEF FilledTo, Slot
      <3>2. /\ \A p \in 1 .. L : new[p] = ps[p]
            /\ new[L + 1] = row
        <4>. HIDE DEF all, row
        <4>. QED  BY <1>1, <2>3
      <3>3. \A j \in Slot : j < 1 => row[j] # Junk
        BY <1>3 DEF Slot
      <3>4. 1 < N => row[1] = Empty
        BY <1>1 DEF Slot
      <3>. HIDE DEF new, row
      <3>. QED  BY <1>1, <2>6, <3>1, <3>2, <3>3, <3>4 DEF FilledTo
    <2>8. c + 1 = ((L + 1) - 1) * N + 1 /\ 1 \in 0 .. N
      BY <1>1, <2>1
    <2>. HIDE DEF new
    <2>. QED  BY <1>1, <2>4, <2>6, <2>7, <2>8 DEF Chain
  <1>. QED  BY <1>1, <1>2, <1>5, <1>6

-----------------------------------------------------------------------------
(* Memory.                                                                  *)

\* A piece at the bump pointer lies apart from all before.
LEMMA LaidBehind ==
    ASSUME NEW R, NEW m \in Nat, Laid(R, m), NEW hi \in Nat, m <= hi,
           NEW n \in Nat, hi <= n, NEW k
    PROVE  Laid(R \cup {Piece(k, m, hi)}, n)
  <1>. DEFINE x == Piece(k, m, hi)
  <1>1. x.lo = m /\ x.hi = hi
    BY DEF Piece
  <1>2. \A r \in R : r.lo \in Nat /\ r.hi \in Nat /\ r.lo <= r.hi /\ r.hi <= m
    BY DEF Laid
  <1>3. \A r, q \in R : r # q => r.hi <= q.lo \/ q.hi <= r.lo
    BY DEF Laid
  <1>. HIDE DEF x
  <1>4. \A r \in R \cup {x} : r.lo \in Nat /\ r.hi \in Nat /\ r.lo <= r.hi /\ r.hi <= n
    BY <1>1, <1>2
  <1>5. \A r, q \in R \cup {x} : r # q => r.hi <= q.lo \/ q.hi <= r.lo
    BY <1>1, <1>2, <1>3
  <1>. QED  BY <1>4, <1>5 DEF Laid, x

\* The sectors of a bee take up a number of bytes.
LEMMA ImageSize ==
    ASSUME NEW start \in Nat, NEW end \in Nat, Readable(start, end)
    PROVE  SECTOR * (SectorEnd(end) - SectorStart(start)) \in Nat
  <1>1. SECTOR \in Nat \ {0}
    BY LoaderAssumption
  <1>2. SectorStart(start) \in Int
    BY <1>1 DEF SectorStart
  <1>3. SectorEnd(end) \in Int
    BY <1>1, Rounded DEF SectorEnd
  <1>4. SectorEnd(end) - SectorStart(start) \in Nat
    BY <1>2, <1>3 DEF Readable
  <1>. QED  BY <1>1, <1>4

-----------------------------------------------------------------------------
(* The invariant.                                                           *)

\* Both walks over the names go on to a slot up to which no name is empty.
LEMMA StaysNotPast ==
    ASSUME NotPast, Len(pages) \in Nat \ {0}, pages[page][i] # Empty, UNCHANGED pages,
           \/ i + 1 < NAMES_PER_PAGE /\ i' = i + 1 /\ page' = page
           \/ i' = 0 /\ page < Len(pages) /\ page' = page + 1
           \/ i' = 0 /\ page' = 1
    PROVE  NotPast'
  <1>1. NAMES_PER_PAGE \in Nat \ {0} /\ page \in Nat /\ i \in Nat
    BY LoaderAssumption DEF NotPast, Slot
  <1>2. CASE i + 1 < NAMES_PER_PAGE /\ i' = i + 1 /\ page' = page
    BY <1>1, <1>2 DEF NotPast, Slot
  <1>3. CASE i' = 0 /\ ((page' = page + 1 /\ page < Len(pages)) \/ page' = 1)
    BY <1>1, <1>3 DEF NotPast, Slot
  <1>. QED  BY <1>2, <1>3

\* It holds at the start.
LEMMA Initially == ASSUME MarkersApart PROVE Init => IInv
  <1>. SUFFICES ASSUME Init PROVE IInv
    OBVIOUS
  <1>1. /\ SECTOR \in Nat \ {0} /\ MEMORY_START \in Nat /\ NAMES_PER_PAGE \in Nat \ {0}
        /\ PAGE_SIZE \in Nat /\ PAGE_SIZE <= SECTOR
    BY LoaderAssumption DEF PAGE_SIZE
  <1>2. disk \in Disks /\ last_end \in Nat /\ MEMORY \in Nat
    BY <1>1 DEF Init
  <1>3. Laid(regions, MEMORY)
    BY <1>1 DEF Init, Laid, Piece
  <1>. DEFINE row == [NewPage EXCEPT ![0] = Empty]
  <1>4. row \in Row /\ (\A j \in Slot : j = 0 => row[j] = Empty) /\ 0 \in Slot
    BY <1>1 DEF NewPage, Row, Slot
  <1>5. pages = <<row>>
    BY DEF Init
  <1>. HIDE DEF row
  <1>6. pages \in Seq(Row) /\ pages # <<>> /\ Len(pages) = 1 /\ pages[1] = row
    BY <1>4, <1>5
  <1>7. FilledTo(pages, 0)
    BY <1>1, <1>4, <1>6 DEF FilledTo, Slot
  <1>8. Chain(pages, count)
    <2>1. count = (Len(pages) - 1) * NAMES_PER_PAGE + 0 /\ 0 \in 0 .. NAMES_PER_PAGE
      BY <1>1, <1>6 DEF Init
    <2>. QED  BY <1>6, <1>7, <2>1 DEF Chain
  <1>9. NotPast /\ page = 1 /\ i = 0
    BY <1>4, <1>6 DEF Init, NotPast, Slot
  <1>. QED  BY <1>2, <1>3, <1>8, <1>9 DEF IInv

\* A bee is loaded: an image, a data page and, when the names need one, a name
\* page, each behind the one before.
LEMMA LoadBeeKeeps ==
    ASSUME MarkersApart, IInv, NEW start \in Nat, NEW end \in Nat, LoadBee(start, end)
    PROVE  IInv'
  <1>. DEFINE b     == BeeAt(start)
              data  == MEMORY + SECTOR * (SectorEnd(end) - SectorStart(start))
              names == data + DataStep(b)
              more  == Len(addNameToPage(pages, count, b)) > Len(pages)
              two   == regions \cup {Piece("image", MEMORY, data)}
                               \cup {Piece("data", data, data + DataSize(b))}
  <1>1. /\ pc = "scan" /\ Readable(start, end)
        /\ regions' = regions \cup {Piece("image", MEMORY, data),
                                    Piece("data", data, data + DataSize(b))}
                         \cup (IF more THEN {Piece("page", names, names + PAGE_SIZE)} ELSE {})
        /\ MEMORY' = (IF more THEN names + SECTOR ELSE names)
        /\ pages' = addNameToPage(pages, count, b)
        /\ count' = count + 1
        /\ last_end' = end
        /\ UNCHANGED <<disk, pc, page, i>>
    BY DEF LoadBee, Resume
  <1>2. /\ disk \in Disks /\ MEMORY \in Nat /\ Laid(regions, MEMORY)
        /\ Chain(pages, count) /\ NotPast /\ page = 1 /\ i = 0
    BY <1>1 DEF IInv
  <1>3. b \in Known
    BY <1>2, BeeAtKnown
  <1>. HIDE DEF b
  <1>4. /\ Chain(pages', count')
        /\ Len(pages') \in {Len(pages), Len(pages) + 1}
    BY <1>1, <1>2, <1>3, ChainGrows
  <1>5. data \in Nat /\ MEMORY <= data
    BY <1>1, <1>2, ImageSize
  <1>6. DataSize(b) \in Nat /\ DataStep(b) \in Nat /\ DataSize(b) <= DataStep(b)
    <2>1. DataSize(b) \in Nat
      BY <1>3, KnownSized DEF DataSize
    <2>. QED  BY <2>1, Rounded DEF DataStep
  <1>7. PAGE_SIZE \in Nat /\ PAGE_SIZE <= SECTOR /\ SECTOR \in Nat
    BY LoaderAssumption DEF PAGE_SIZE
  <1>. HIDE DEF data
  <1>8. names \in Nat /\ data + DataSize(b) \in Nat /\ data + DataSize(b) <= names
    BY <1>5, <1>6
  <1>. HIDE DEF names
  <1>9. Laid(two, names)
    <2>1. Laid(regions \cup {Piece("image", MEMORY, data)}, data)
      BY <1>2, <1>5, LaidBehind
    <2>2. data <= data + DataSize(b)
      BY <1>5, <1>6
    <2>. QED  BY <1>5, <1>8, <2>1, <2>2, LaidBehind
  <1>10. MEMORY' \in Nat /\ Laid(regions', MEMORY')
    <2>1. CASE more
      <3>1. /\ MEMORY' = names + SECTOR
            /\ regions' = two \cup {Piece("page", names, names + PAGE_SIZE)}
        BY <1>1, <2>1
      <3>2. /\ names + SECTOR \in Nat /\ names + PAGE_SIZE \in Nat
            /\ names <= names + PAGE_SIZE /\ names + PAGE_SIZE <= names + SECTOR
        BY <1>7, <1>8
      <3>. HIDE DEF two
      <3>. QED  BY <1>8, <1>9, <3>1, <3>2, LaidBehind
    <2>2. CASE ~more
      <3>1. MEMORY' = names /\ regions' = two
        BY <1>1, <2>2
      <3>. QED  BY <1>8, <1>9, <3>1
    <2>. QED  BY <2>1, <2>2
  <1>11. NotPast' /\ page' = 1 /\ i' = 0
    <2>1. Len(pages') \in Nat \ {0}
      BY <1>4 DEF Chain
    <2>. QED  BY <1>1, <1>2, <2>1 DEF NotPast, Slot
  <1>. QED  BY <1>1, <1>2, <1>4, <1>10, <1>11 DEF IInv

\* A node of the lookup array is laid behind everything else.
LEMMA AddNodeKeeps ==
    ASSUME MarkersApart, IInv, AddNode
    PROVE  IInv'
  <1>. DEFINE b == pages[page][i]
  <1>1. /\ pc = "lookup" /\ b # Empty
        /\ regions' = regions \cup {Piece("node", MEMORY, MEMORY + NodeSize(b))}
        /\ MEMORY' = MEMORY + NodeStep(b)
        /\ UNCHANGED <<disk, last_end, pages, count>>
    BY DEF AddNode
  <1>2. /\ disk \in Disks /\ last_end \in Nat /\ MEMORY \in Nat /\ Laid(regions, MEMORY)
        /\ Chain(pages, count) /\ NotPast
    BY DEF IInv
  <1>3. b \in Known
    BY <1>1, <1>2, NotUnwritten, SlotKnown
  <1>4. NodeSize(b) \in Nat /\ NodeStep(b) \in Nat /\ NodeSize(b) <= NodeStep(b)
    <2>1. MAX_ID(b) \in Int /\ MAX_ID(b) >= -1
      BY <1>3, KnownSized
    <2>. HIDE DEF b
    <2>. QED  BY <2>1 DEF NodeSize, NodeStep
  <1>5. MEMORY' \in Nat /\ Laid(regions', MEMORY')
    <2>1. /\ MEMORY + NodeSize(b) \in Nat /\ MEMORY + NodeStep(b) \in Nat
          /\ MEMORY <= MEMORY + NodeSize(b) /\ MEMORY + NodeSize(b) <= MEMORY + NodeStep(b)
      BY <1>2, <1>4
    <2>. QED  BY <1>1, <1>2, <2>1, LaidBehind
  <1>6. NotPast' /\ pc' # "scan"
    <2>1. Len(pages) \in Nat \ {0}
      BY <1>2 DEF Chain
    <2>2. /\ \/ i + 1 < NAMES_PER_PAGE /\ i' = i + 1 /\ page' = page
             \/ i' = 0 /\ page < Len(pages) /\ page' = page + 1
             \/ i' = 0 /\ page' = 1
          /\ pc' # "scan"
      BY <1>1 DEF AddNode, NextName
    <2>. QED  BY <1>1, <1>2, <2>1, <2>2, StaysNotPast
  <1>. QED  BY <1>1, <1>2, <1>5, <1>6 DEF IInv

\* A walk begins again.
LEMMA Begins ==
    ASSUME IInv, page' = 1, i' = 0, UNCHANGED pages
    PROVE  NotPast'
  <1>1. Len(pages) \in Nat \ {0} /\ NAMES_PER_PAGE \in Nat \ {0}
    BY LoaderAssumption DEF IInv, Chain
  <1>. QED  BY <1>1 DEF NotPast, Slot

\* Every step keeps it.
LEMMA Inductive == ASSUME MarkersApart PROVE IInv /\ [Next]_vars => IInv'
  <1>. SUFFICES ASSUME IInv, [Next]_vars PROVE IInv'
    OBVIOUS
  <1>1. ASSUME NEW start \in {find_bee(last_end)},
               NEW end \in {find_bee(start + MAGIC) + MAGIC},
               LoadBee(start, end) \/ ScanEnds(start, end)
        PROVE  IInv'
    <2>1. start \in Nat
      BY FindBee DEF IInv
    <2>2. end \in Nat
      <3>1. start + MAGIC \in Nat /\ MAGIC \in Nat
        BY <2>1, LoaderAssumption
      <3>2. find_bee(start + MAGIC) \in Nat
        BY <3>1, FindBee DEF IInv
      <3>. QED  BY <1>1, <3>1, <3>2
    <2>3. CASE LoadBee(start, end)
      BY <2>1, <2>2, <2>3, LoadBeeKeeps
    <2>4. CASE ScanEnds(start, end)
      BY <2>2, <2>4 DEF ScanEnds, Resume, IInv, NotPast
    <2>. QED  BY <1>1, <2>3, <2>4
  <1>2. CASE AddNode
    BY <1>2, AddNodeKeeps
  <1>3. CASE NodesDone
    BY <1>3, Begins DEF NodesDone, IInv
  <1>4. CASE RunInit
    <2>1. Len(pages) \in Nat \ {0} /\ NotPast
      BY DEF IInv, Chain
    <2>2. /\ pages[page][i] # Empty /\ pc' # "scan"
          /\ UNCHANGED <<disk, MEMORY, last_end, pages, count, regions>>
          /\ \/ i + 1 < NAMES_PER_PAGE /\ i' = i + 1 /\ page' = page
             \/ i' = 0 /\ page < Len(pages) /\ page' = page + 1
             \/ i' = 0 /\ page' = 1
             \/ i' = i /\ page' = page
      BY <1>4 DEF RunInit, Advance
    <2>3. NotPast'
      <3>1. CASE i' = i /\ page' = page
        BY <2>1, <2>2, <3>1 DEF NotPast
      <3>2. CASE ~(i' = i /\ page' = page)
        BY <2>1, <2>2, <3>2, StaysNotPast
      <3>. QED  BY <3>1, <3>2
    <2>. QED  BY <2>2, <2>3 DEF IInv
  <1>5. CASE NextPriority
    BY <1>5, Begins DEF NextPriority, IInv
  <1>6. CASE BootEnds
    BY <1>6 DEF BootEnds, IInv, NotPast
  <1>7. CASE UNCHANGED vars
    BY <1>7 DEF vars, IInv, NotPast
  <1>. QED
    BY <1>1, <1>2, <1>3, <1>4, <1>5, <1>6, <1>7 DEF Next, Boot, Stay

\* So it always holds.
LEMMA Invariance == ASSUME MarkersApart PROVE Spec => []IInv
  <1>1. Init => IInv
    BY Initially
  <1>2. IInv /\ [Next]_vars => IInv'
    BY Inductive
  <1>. QED  BY <1>1, <1>2, PTL DEF Spec

-----------------------------------------------------------------------------
(* Which bees are found.                                                    *)

\* Of two bytes the one that is not behind lies in a sector that is not behind,
\* and bytes at most a sector apart lie at most a sector apart.
LEMMA Sectors ==
    ASSUME NEW a \in Nat, NEW b \in Nat
    PROVE  /\ a \div SECTOR \in Nat
           /\ a <= b => a \div SECTOR <= b \div SECTOR
           /\ b <= a + SECTOR => b \div SECTOR <= a \div SECTOR + 1
  <1>1. SECTOR \in Nat \ {0}
    BY LoaderAssumption
  <1>. DEFINE q == a \div SECTOR
              d == b \div SECTOR
              r == a % SECTOR
              e == b % SECTOR
  <1>2. /\ q \in Nat /\ r \in 0 .. (SECTOR - 1) /\ a = q * SECTOR + r
        /\ d \in Nat /\ e \in 0 .. (SECTOR - 1) /\ b = d * SECTOR + e
    BY <1>1
  <1>. HIDE DEF q, d, r, e
  <1>3. a <= b => q <= d
    <2>. SUFFICES ASSUME a <= b, q > d PROVE FALSE
      BY <1>2
    <2>1. (q - d) * SECTOR >= SECTOR
      BY <1>1, <1>2
    <2>2. (q - d) * SECTOR = q * SECTOR - d * SECTOR
      BY <1>1, <1>2
    <2>3. q * SECTOR \in Nat /\ d * SECTOR \in Nat
      BY <1>1, <1>2
    <2>. QED  BY <1>1, <1>2, <2>1, <2>2, <2>3
  <1>4. b <= a + SECTOR => d <= q + 1
    <2>. SUFFICES ASSUME b <= a + SECTOR, d > q + 1 PROVE FALSE
      BY <1>2
    <2>1. (d - q - 1) * SECTOR >= SECTOR
      BY <1>1, <1>2
    <2>2. (d - q - 1) * SECTOR = d * SECTOR - q * SECTOR - SECTOR
      BY <1>1, <1>2
    <2>3. q * SECTOR \in Nat /\ d * SECTOR \in Nat
      BY <1>1, <1>2
    <2>. QED  BY <1>1, <1>2, <2>1, <2>2, <2>3
  <1>. QED  BY <1>2, <1>3, <1>4 DEF q, d

\* The first sector behind the one with the last byte.
LEMMA EndOf ==
    ASSUME NEW n \in Nat
    PROVE  SectorEnd(n) = (n + SECTOR - 1) \div SECTOR
  <1>1. SECTOR \in Nat \ {0}
    BY LoaderAssumption
  <1>. DEFINE d == (n + SECTOR - 1) \div SECTOR
  <1>2. n + SECTOR - 1 \in Nat
    BY <1>1
  <1>3. d \in Nat
    BY <1>2, Sectors
  <1>4. 0 \in 0 .. (SECTOR - 1)
    BY <1>1
  <1>5. SectorEnd(n) = (d * SECTOR) \div SECTOR
    BY DEF SectorEnd, RoundUp
  <1>. HIDE DEF d
  <1>6. (d * SECTOR + 0) \div SECTOR = d
    BY <1>1, <1>3, <1>4, Quotient
  <1>7. d * SECTOR + 0 = d * SECTOR
    BY <1>1, <1>3
  <1>. QED  BY <1>5, <1>6, <1>7 DEF d

\* The bees of the disk follow each other.
LEMMA InARow ==
    ASSUME InDiskOrder, disk \in Disks
    PROVE  /\ Len(disk.bees) \in Nat /\ DOMAIN disk.bees = 1 .. Len(disk.bees)
           /\ \A k \in 1 .. Len(disk.bees) :
                 /\ disk.bees[k].at \in Nat /\ disk.bees[k].at >= 2 * SECTOR
                 /\ disk.bees[k].size \in Nat /\ disk.bees[k].size >= 2 * MAGIC
           /\ \A k, j \in 1 .. Len(disk.bees) :
                 k < j => disk.bees[k].at + disk.bees[k].size <= disk.bees[j].at
  <1>1. disk.bees \in Seq(Range(disk.bees))
    BY DiskAssumption
  <1>2. Len(disk.bees) \in Nat /\ DOMAIN disk.bees = 1 .. Len(disk.bees)
    BY <1>1
  <1>3. \A k \in DOMAIN disk.bees :
                 /\ disk.bees[k].at \in Nat /\ disk.bees[k].at >= 2 * SECTOR
                 /\ disk.bees[k].size \in Nat /\ disk.bees[k].size >= 2 * MAGIC
    BY DiskAssumption
  <1>. QED  BY <1>2, <1>3 DEF InDiskOrder

\* A bee is the only one at its place.
LEMMA OnePlace ==
    ASSUME InDiskOrder, disk \in Disks, NEW k \in 1 .. Len(disk.bees)
    PROVE  BeeAt(disk.bees[k].at) = disk.bees[k]
  <1>1. ASSUME NEW j \in 1 .. Len(disk.bees), disk.bees[j].at = disk.bees[k].at
        PROVE  j = k
    <2>1. MAGIC \in Nat \ {0} /\ j \in Nat /\ k \in Nat
      BY InARow, LoaderAssumption
    <2>. DEFINE at(n) == disk.bees[n].at
                size(n) == disk.bees[n].size
    <2>2. ASSUME NEW n \in 1 .. Len(disk.bees)
          PROVE  at(n) \in Nat /\ size(n) \in Nat /\ size(n) > 0
      <3>1. at(n) \in Nat /\ size(n) \in Nat /\ size(n) >= 2 * MAGIC
        BY InARow
      <3>. HIDE DEF at, size
      <3>. QED  BY <2>1, <3>1
    <2>3. \A n, l \in 1 .. Len(disk.bees) : n < l => at(n) + size(n) <= at(l)
      BY InARow
    <2>4. at(j) = at(k)
      BY <1>1
    <2>. HIDE DEF at, size
    <2>5. ~(j < k) /\ ~(k < j)
      BY <2>2, <2>3, <2>4
    <2>. QED  BY <2>1, <2>5
  <1>2. Bees = {disk.bees[j] : j \in 1 .. Len(disk.bees)}
    BY InARow DEF Bees
  <1>. QED  BY <1>1, <1>2 DEF BeeAt

\* A search finds the first mark from its start on, unless it is too far away or
\* a sector in between is bad.
LEMMA FindsFirst ==
    ASSUME InDiskOrder, disk \in Disks, NEW a \in Nat, NEW m \in Marks, a <= m,
           \A x \in Marks : a <= x => m <= x
    PROVE  find_bee(a) = IF /\ InLimit(a, m)
                            /\ \A q \in (a \div SECTOR) .. (m \div SECTOR + 1) : Good(q)
                         THEN m ELSE 0
  <1>. DEFINE Open(x) == /\ InLimit(a, x)
                         /\ \A q \in (a \div SECTOR) .. (x \div SECTOR + 1) : Good(q)
              hits == {x \in Marks : x >= a /\ Open(x)}
  <1>1. \A x \in Marks : x \in Nat
    <2>1. \A b \in Bees : b.at \in Nat /\ b.size \in Nat /\ b.size >= 2 * MAGIC
      BY InARow DEF Bees
    <2>2. MAGIC \in Nat
      BY LoaderAssumption
    <2>. QED  BY <2>1, <2>2 DEF Marks
  <1>2. ASSUME NEW x \in hits PROVE Open(m) /\ m <= x
    <2>1. x \in Nat /\ m \in Nat /\ m <= x
      BY <1>1, <1>2
    <2>2. m \div SECTOR <= x \div SECTOR /\ m \div SECTOR \in Nat /\ x \div SECTOR \in Nat
      BY <2>1, Sectors
    <2>3. a \div SECTOR \in Nat /\ SEARCH_LIMIT \in Nat
      BY Sectors, LoaderAssumption
    <2>. QED  BY <1>2, <2>1, <2>2, <2>3 DEF InLimit
  <1>3. hits \subseteq Nat
    BY <1>1
  <1>4. m \in Nat
    BY <1>1
  <1>5. CASE Open(m)
    <2>1. m \in hits
      BY <1>4, <1>5
    <2>. HIDE DEF hits, Open
    <2>2. Min(hits) \in hits /\ Min(hits) <= m
      BY <1>3, <2>1, Smallest
    <2>3. m <= Min(hits)
      BY <1>2, <2>2
    <2>4. Min(hits) = m
      <3>. DEFINE lo == Min(hits)
      <3>1. lo \in Nat /\ lo <= m /\ m <= lo
        BY <1>3, <2>2, <2>3
      <3>. HIDE DEF lo
      <3>2. lo = m
        BY <1>4, <3>1
      <3>. QED  BY <3>2 DEF lo
    <2>5. find_bee(a) = Min(hits)
      BY <2>1 DEF find_bee, hits, Open
    <2>. QED  BY <1>5, <2>4, <2>5 DEF Open
  <1>6. CASE ~Open(m)
    <2>1. hits = {}
      BY <1>2, <1>6
    <2>2. find_bee(a) = 0
      BY <2>1 DEF find_bee
    <2>. QED  BY <1>6, <2>2
  <1>. QED  BY <1>5, <1>6

\* Only the disk says which bees are found.
LEMMA FoundStays == ASSUME UNCHANGED disk PROVE \A k : Found(k)' = Found(k)
  BY DEF Found, Whole, From, Good, InLimit

\* The first bees have been read, as many as there are names; the search goes on
\* behind the last of them, and ends when the next one cannot be read.
Scanned ==
    /\ count \in 0 .. Len(disk.bees)
    /\ \A k \in 1 .. count : Found(k)
    /\ IF pc = "scan"
       THEN last_end = IF count = 0 THEN SECTOR ELSE disk.bees[count].at + disk.bees[count].size
       ELSE count < Len(disk.bees) => ~Found(count + 1)

\* While bees are searched for, all that have been read lie before the place where
\* the search goes on, and all others behind it.
LEMMA SearchBetween ==
    ASSUME InDiskOrder, disk \in Disks, Scanned, pc = "scan"
    PROVE  /\ last_end \in Nat /\ SECTOR <= last_end
           /\ \A k \in 1 .. Len(disk.bees) :
                 IF k <= count THEN disk.bees[k].at + disk.bees[k].size <= last_end
                               ELSE last_end <= disk.bees[k].at
  <1>. DEFINE n == Len(disk.bees)
              at(k) == disk.bees[k].at
              end(k) == disk.bees[k].at + disk.bees[k].size
  <1>1. SECTOR \in Nat
    BY LoaderAssumption
  <1>2. n \in Nat /\ \A k \in 1 .. n : at(k) \in Nat /\ end(k) \in Nat /\ at(k) <= end(k) /\ SECTOR <= at(k)
    BY <1>1, InARow
  <1>3. \A k, j \in 1 .. n : k < j => end(k) <= at(j)
    BY InARow
  <1>4. count \in 0 .. n /\ last_end = IF count = 0 THEN SECTOR ELSE end(count)
    BY DEF Scanned
  <1>. HIDE DEF n, at, end
  <1>5. last_end \in Nat /\ SECTOR <= last_end
    BY <1>1, <1>2, <1>4
  <1>6. ASSUME NEW k \in 1 .. n
        PROVE  IF k <= count THEN end(k) <= last_end ELSE last_end <= at(k)
    <2>1. CASE k < count
      BY <1>2, <1>3, <1>4, <2>1
    <2>2. CASE k = count
      BY <1>2, <1>4, <2>2
    <2>3. CASE count < k
      BY <1>2, <1>3, <1>4, <2>3
    <2>. QED  BY <1>2, <1>4, <2>1, <2>2, <2>3
  <1>. QED  BY <1>5, <1>6 DEF n, at, end

\* No bee is left: there is nothing to find.
LEMMA NoneLeft ==
    ASSUME InDiskOrder, disk \in Disks, Scanned, pc = "scan", count = Len(disk.bees)
    PROVE  find_bee(last_end) = 0
  <1>. DEFINE n == Len(disk.bees)
  <1>1. MAGIC \in Nat \ {0}
    BY LoaderAssumption
  <1>2. \A b \in Bees : b.at \in Nat /\ b.size \in Nat /\ b.size > 0 /\ b.at + b.size <= last_end
    <2>1. \A k \in 1 .. n : disk.bees[k].at + disk.bees[k].size <= last_end
      BY InARow, SearchBetween
    <2>. QED  BY <1>1, <2>1, InARow DEF Bees
  <1>3. \A x \in Marks : x \in Int /\ x < last_end
    <2>1. last_end \in Nat
      BY SearchBetween
    <2>. QED  BY <1>1, <1>2, <2>1 DEF Marks
  <1>4. {m \in Marks : m >= last_end} = {}
    <2>1. last_end \in Nat
      BY SearchBetween
    <2>. QED  BY <1>3, <2>1
  <1>. QED  BY <1>4 DEF find_bee

\* Both magic numbers of the next bee are the first ones there are from where
\* they are searched for.
LEMMA NextMarks ==
    ASSUME InDiskOrder, disk \in Disks, Scanned, pc = "scan", count < Len(disk.bees),
           NEW b, b = disk.bees[count + 1]
    PROVE  /\ b.at \in Marks /\ last_end <= b.at
           /\ \A x \in Marks : last_end <= x => b.at <= x
           /\ b.at + b.size - MAGIC \in Marks /\ b.at + MAGIC <= b.at + b.size - MAGIC
           /\ \A x \in Marks : b.at + MAGIC <= x => b.at + b.size - MAGIC <= x
  <1>. DEFINE n == Len(disk.bees)
              at(k) == disk.bees[k].at
              size(k) == disk.bees[k].size
  <1>1. MAGIC \in Nat \ {0}
    BY LoaderAssumption
  <1>2. n \in Nat /\ count \in Nat /\ count + 1 \in 1 .. n
    BY InARow DEF Scanned
  <1>3. \A k \in 1 .. n : at(k) \in Nat /\ size(k) \in Nat /\ size(k) >= 2 * MAGIC
    BY InARow
  <1>4. \A k, j \in 1 .. n : k < j => at(k) + size(k) <= at(j)
    BY InARow
  <1>5. last_end \in Nat /\ \A k \in 1 .. n :
           IF k <= count THEN at(k) + size(k) <= last_end ELSE last_end <= at(k)
    BY SearchBetween
  <1>6. b.at = at(count + 1) /\ b.size = size(count + 1)
    OBVIOUS
  <1>7. Bees = {disk.bees[k] : k \in 1 .. n}
    BY InARow DEF Bees
  <1>8. Marks = UNION {{at(k), at(k) + size(k) - MAGIC} : k \in 1 .. n}
    BY <1>7 DEF Marks
  <1>. HIDE DEF n, at, size
  <1>9. b.at \in Marks /\ b.at + b.size - MAGIC \in Marks
    BY <1>2, <1>6, <1>8
  <1>10. last_end <= b.at /\ b.at + MAGIC <= b.at + b.size - MAGIC
    BY <1>1, <1>2, <1>3, <1>5, <1>6
  <1>11. ASSUME NEW k \in 1 .. n
         PROVE  /\ last_end <= at(k) => b.at <= at(k)
                /\ last_end <= at(k) + size(k) - MAGIC => b.at <= at(k) + size(k) - MAGIC
                /\ b.at + MAGIC <= at(k) => b.at + b.size - MAGIC <= at(k)
                /\ b.at + MAGIC <= at(k) + size(k) - MAGIC
                      => b.at + b.size - MAGIC <= at(k) + size(k) - MAGIC
    <2>. DEFINE c == count + 1
                lo == at(k)
                hi == at(k) + size(k) - MAGIC
                blo == b.at
                bhi == b.at + b.size - MAGIC
    <2>1. /\ at(k) \in Nat /\ size(k) \in Nat /\ size(k) >= 2 * MAGIC
          /\ at(c) \in Nat /\ size(c) \in Nat /\ size(c) >= 2 * MAGIC
      BY <1>2, <1>3
    <2>2. /\ lo \in Nat /\ hi \in Nat /\ blo \in Nat /\ bhi \in Nat
          /\ MAGIC \in Nat \ {0} /\ last_end \in Nat
          /\ lo < hi /\ blo < bhi /\ last_end <= blo
      <3>1. last_end \in Nat /\ last_end <= blo
        BY <1>5, <1>10
      <3>2. lo \in Nat /\ hi \in Nat /\ lo < hi
        BY <1>1, <2>1
      <3>3. blo \in Nat /\ bhi \in Nat /\ blo < bhi
        BY <1>1, <1>6, <2>1
      <3>. QED  BY <1>1, <3>1, <3>2, <3>3
    <2>3. CASE k <= count
      <3>1. at(k) + size(k) <= last_end
        BY <1>5, <2>3
      <3>2. hi < last_end
        BY <1>1, <2>2, <2>1, <3>1
      <3>. HIDE DEF lo, hi, blo, bhi
      <3>3. ~(last_end <= lo) /\ ~(last_end <= hi) /\ ~(blo + MAGIC <= lo) /\ ~(blo + MAGIC <= hi)
        BY <2>2, <3>2
      <3>. QED  BY <3>3 DEF lo, hi, blo, bhi
    <2>4. CASE k = c
      <3>1. lo = blo /\ hi = bhi
        BY <1>6, <2>4
      <3>. HIDE DEF lo, hi, blo, bhi
      <3>2. blo <= lo /\ blo <= hi /\ ~(blo + MAGIC <= lo) /\ bhi <= hi
        BY <2>2, <3>1
      <3>. QED  BY <3>2 DEF lo, hi, blo, bhi
    <2>5. CASE c < k
      <3>1. at(c) + size(c) <= at(k)
        BY <1>2, <1>4, <2>5
      <3>2. bhi < lo
        BY <1>1, <1>6, <2>1, <3>1
      <3>. HIDE DEF lo, hi, blo, bhi
      <3>3. blo <= lo /\ blo <= hi /\ bhi <= lo /\ bhi <= hi
        BY <2>2, <3>2
      <3>. QED  BY <3>3 DEF lo, hi, blo, bhi
    <2>. QED  BY <1>2, <2>3, <2>4, <2>5
  <1>. QED  BY <1>8, <1>9, <1>10, <1>11

\* The number of sectors that are read for a bee follows from where it lies: the
\* sectors its magic numbers are searched in hold all of it.
LEMMA ImageSectors ==
    ASSUME NEW a \in Nat, NEW m \in Nat, a <= m
    PROVE  /\ SectorStart(a) = a \div SECTOR
           /\ SectorEnd(m + MAGIC) \in Nat
           /\ SectorStart(a) <= SectorEnd(m + MAGIC)
           /\ SectorEnd(m + MAGIC) <= m \div SECTOR + 2
  <1>1. SECTOR \in Nat \ {0} /\ MAGIC \in 1 .. SECTOR
    BY LoaderAssumption
  <1>. DEFINE e == m + MAGIC + SECTOR - 1
              f == m + SECTOR
  <1>2. e \in Nat /\ f \in Nat /\ m <= e /\ m <= f /\ e <= f + SECTOR /\ m + MAGIC \in Nat
    BY <1>1
  <1>3. SectorEnd(m + MAGIC) = e \div SECTOR
    BY <1>2, EndOf
  <1>4. f <= m + SECTOR
    BY <1>1
  <1>. HIDE DEF e, f
  <1>5. e \div SECTOR \in Nat /\ f \div SECTOR \in Nat /\ m \div SECTOR \in Nat /\ a \div SECTOR \in Nat
    BY <1>2, Sectors
  <1>6. e \div SECTOR <= f \div SECTOR + 1
    BY <1>2, Sectors
  <1>7. f \div SECTOR <= m \div SECTOR + 1
    BY <1>2, <1>4, Sectors
  <1>8. a \div SECTOR <= m \div SECTOR /\ m \div SECTOR <= e \div SECTOR
    BY <1>2, Sectors
  <1>. DEFINE qa == a \div SECTOR
              qe == e \div SECTOR
              qf == f \div SECTOR
              qm == m \div SECTOR
  <1>9. /\ qa \in Nat /\ qe \in Nat /\ qf \in Nat /\ qm \in Nat
        /\ qe <= qf + 1 /\ qf <= qm + 1 /\ qa <= qm /\ qm <= qe
    BY <1>5, <1>6, <1>7, <1>8
  <1>10. SectorStart(a) = qa /\ SectorEnd(m + MAGIC) = qe
    BY <1>3 DEF SectorStart
  <1>. HIDE DEF qa, qe, qf, qm
  <1>11. qa <= qe /\ qe <= qm + 2
    BY <1>9
  <1>. QED  BY <1>9, <1>10, <1>11 DEF qa, qm

\* The second sector is number 1, and what lies in front of it ends there.
LEMMA SecondSector ==
    /\ SECTOR \div SECTOR = 1
    /\ \A a \in Nat : a >= SECTOR => a \div SECTOR >= 1
    /\ \A a \in Nat : a >= 2 * SECTOR => ~Readable(a, MAGIC)
  <1>1. SECTOR \in Nat \ {0} /\ MAGIC \in 1 .. SECTOR
    BY LoaderAssumption
  <1>2. SECTOR \div SECTOR = 1
    <2>1. SECTOR = 1 * SECTOR + 0 /\ 0 \in 0 .. (SECTOR - 1)
      BY <1>1
    <2>. QED  BY <1>1, <2>1, Quotient
  <1>3. ASSUME NEW a \in Nat, a >= SECTOR PROVE a \div SECTOR >= 1
    <2>1. SECTOR <= a
      BY <1>1, <1>3
    <2>2. SECTOR \div SECTOR <= a \div SECTOR
      BY <1>1, <2>1, Sectors
    <2>3. a \div SECTOR \in Nat
      BY Sectors
    <2>. QED  BY <1>2, <2>2, <2>3
  <1>4. ASSUME NEW a \in Nat, a >= 2 * SECTOR PROVE ~Readable(a, MAGIC)
    <2>. DEFINE two == 2 * SECTOR
                one == SECTOR + (SECTOR - 1)
                e == MAGIC + SECTOR - 1
    <2>1. two \in Nat /\ one \in Nat /\ e \in Nat /\ two <= a /\ e <= one /\ MAGIC \in Nat
      BY <1>1, <1>4
    <2>2. two \div SECTOR = 2
      <3>1. 2 * SECTOR = 2 * SECTOR + 0 /\ 0 \in 0 .. (SECTOR - 1)
        BY <1>1
      <3>. QED  BY <1>1, <3>1, Quotient
    <2>3. one \div SECTOR = 1
      <3>1. one = 1 * SECTOR + (SECTOR - 1) /\ SECTOR - 1 \in 0 .. (SECTOR - 1)
        BY <1>1
      <3>. HIDE DEF one
      <3>. QED  BY <1>1, <3>1, Quotient
    <2>4. SectorEnd(MAGIC) = e \div SECTOR
      BY <2>1, EndOf
    <2>. HIDE DEF two, one, e
    <2>5. two \div SECTOR <= a \div SECTOR /\ a \div SECTOR \in Nat
      BY <2>1, Sectors
    <2>6. e \div SECTOR <= one \div SECTOR /\ e \div SECTOR \in Nat
      BY <2>1, Sectors
    <2>. QED  BY <2>2, <2>3, <2>4, <2>5, <2>6 DEF Readable, SectorStart
  <1>. QED  BY <1>2, <1>3, <1>4

\* A bee is found and read when all of its sectors up to the one behind its end,
\* and those between the bee before and it, are good, and neither the one nor the
\* other are more than a search looks at, and only then.
LEMMA NextFound ==
    ASSUME InDiskOrder, disk \in Disks, Scanned, pc = "scan",
           NEW start, start = find_bee(last_end),
           NEW end, end = find_bee(start + MAGIC) + MAGIC
    PROVE  IF start # 0 /\ Readable(start, end)
           THEN /\ count < Len(disk.bees)
                /\ start = disk.bees[count + 1].at
                /\ end = disk.bees[count + 1].at + disk.bees[count + 1].size
                /\ Found(count + 1)
           ELSE count < Len(disk.bees) => ~Found(count + 1)
  <1>1. CASE count = Len(disk.bees)
    <2>1. start = 0
      BY <1>1, NoneLeft
    <2>. QED  BY <1>1, <2>1, InARow
  <1>2. CASE count < Len(disk.bees)
    <2>. DEFINE b == disk.bees[count + 1]
                m1 == b.at
                m2 == b.at + b.size - MAGIC
                ql == last_end \div SECTOR
                q1 == m1 \div SECTOR
                qn == (m1 + MAGIC) \div SECTOR
                q2 == m2 \div SECTOR
                head == \A q \in ql .. (q1 + 1) : Good(q)
                tail == \A q \in qn .. (q2 + 1) : Good(q)
                near == InLimit(last_end, m1)
                short == InLimit(m1 + MAGIC, m2)
    <2>1. SECTOR \in Nat \ {0} /\ MAGIC \in 1 .. SECTOR
      BY LoaderAssumption
    <2>2. count \in Nat /\ count + 1 \in 1 .. Len(disk.bees)
      BY <1>2, InARow DEF Scanned
    <2>3. /\ b.at \in Nat /\ b.at >= 2 * SECTOR /\ b.size \in Nat
          /\ last_end \in Nat /\ last_end >= SECTOR
      BY <2>1, <2>2, InARow, SearchBetween
    <2>4. /\ m1 \in Marks /\ last_end <= m1
          /\ \A x \in Marks : last_end <= x => m1 <= x
          /\ m2 \in Marks /\ m1 + MAGIC <= m2
          /\ \A x \in Marks : m1 + MAGIC <= x => m2 <= x
      <3>. HIDE DEF b
      <3>. QED  BY <1>2, NextMarks DEF b
    <2>. HIDE DEF b
    <2>5. m1 \in Nat /\ m1 # 0 /\ m1 + MAGIC \in Nat /\ m2 \in Nat /\ m1 <= m2 /\ m1 + MAGIC <= m1 + SECTOR
      BY <2>1, <2>3, <2>4
    <2>6. start = IF near /\ head THEN m1 ELSE 0
      BY <2>3, <2>4, FindsFirst
    <2>7. start = m1 => end = (IF short /\ tail THEN m2 ELSE 0) + MAGIC
      BY <2>4, <2>5, FindsFirst
    <2>8. Found(count + 1) <=> near /\ short /\ \A q \in 1 .. (q2 + 1) : Good(q)
      <3>1. last_end = From(count + 1)
        <4>1. count + 1 = 1 <=> count = 0
          BY <2>2
        <4>2. count + 1 - 1 = count
          BY <2>2
        <4>. QED  BY <4>1, <4>2 DEF Scanned, From
      <3>. QED  BY <3>1 DEF Found, Whole, b
    <2>9. m2 + MAGIC = b.at + b.size
      BY <2>1, <2>3
    <2>10. ql \in Nat /\ q1 \in Nat /\ qn \in Nat /\ q2 \in Nat
      <3>. HIDE DEF m1, m2
      <3>. QED  BY <2>3, <2>5, Sectors
    <2>11. 1 <= ql /\ ql <= q1 /\ q1 <= q2 /\ qn <= q1 + 1
      <3>. HIDE DEF m1, m2
      <3>1. ql <= q1
        BY <2>3, <2>4, <2>5, Sectors
      <3>2. q1 <= q2
        BY <2>5, Sectors
      <3>3. qn <= q1 + 1
        BY <2>5, Sectors
      <3>4. 1 <= ql
        BY <2>3, SecondSector
      <3>. QED  BY <3>1, <3>2, <3>3, <3>4
    <2>12. 1 <= qn /\ qn <= q2
      <3>. HIDE DEF m1, m2
      <3>1. qn <= q2
        BY <2>4, <2>5, Sectors
      <3>2. q1 <= qn
        <4>1. m1 <= m1 + MAGIC
          BY <2>1, <2>5
        <4>. QED  BY <2>5, <4>1, Sectors
      <3>. QED  BY <2>10, <2>11, <3>1, <3>2
    <2>13. \A q \in 1 .. (ql - 1) : Good(q)
      <3>1. CASE count = 0
        <4>1. last_end = SECTOR
          BY <3>1 DEF Scanned
        <4>2. ql = 1
          BY <4>1, SecondSector
        <4>. QED  BY <4>2
      <3>2. CASE count # 0
        <4>. DEFINE c == disk.bees[count]
                    w == c.at + c.size - MAGIC
        <4>1. count \in 1 .. Len(disk.bees) /\ Whole(c)
          BY <2>2, <3>2 DEF Scanned, Found
        <4>2. c.at \in Nat /\ c.size \in Nat /\ c.size >= 2 * MAGIC
          BY <4>1, InARow
        <4>3. last_end = c.at + c.size
          BY <3>2 DEF Scanned
        <4>. HIDE DEF c
        <4>4. w \in Nat /\ last_end <= w + SECTOR
          BY <2>1, <4>2, <4>3
        <4>5. \A q \in 1 .. (w \div SECTOR + 1) : Good(q)
          BY <4>1 DEF Whole
        <4>. HIDE DEF w
        <4>6. ql <= w \div SECTOR + 1 /\ w \div SECTOR \in Nat
          BY <2>3, <4>4, Sectors
        <4>. QED  BY <2>10, <4>5, <4>6
      <3>. QED  BY <3>1, <3>2
    <2>14. CASE ~(near /\ head)
      <3>1. start = 0
        BY <2>6, <2>14
      <3>2. ~Found(count + 1)
        <4>. HIDE DEF ql, q1, q2
        <4>. QED  BY <2>8, <2>10, <2>11, <2>14
      <3>. QED  BY <3>1, <3>2 DEF b
    <2>15. CASE near /\ head /\ ~(short /\ tail)
      <3>1. start = m1 /\ end = MAGIC
        BY <2>1, <2>6, <2>7, <2>15
      <3>2. ~Found(count + 1)
        <4>. HIDE DEF qn, q2
        <4>. QED  BY <2>8, <2>10, <2>12, <2>15
      <3>3. ~Readable(start, end)
        BY <2>3, <3>1, SecondSector
      <3>. QED  BY <3>2, <3>3 DEF b
    <2>16. CASE near /\ head /\ short /\ tail
      <3>1. start = m1 /\ end = m2 + MAGIC
        BY <2>6, <2>7, <2>16
      <3>2. Found(count + 1)
        <4>1. \A q \in 1 .. (q2 + 1) : q < ql \/ q \in ql .. (q1 + 1) \/ q \in qn .. (q2 + 1)
          <5>. HIDE DEF ql, q1, qn, q2
          <5>. QED  BY <2>10, <2>11
        <4>2. \A q \in 1 .. (q2 + 1) : q < ql => q \in 1 .. (ql - 1)
          <5>. HIDE DEF ql, q2
          <5>. QED  BY <2>10
        <4>3. \A q \in 1 .. (q2 + 1) : Good(q)
          <5>. HIDE DEF ql, q1, qn, q2
          <5>. QED  BY <2>13, <2>16, <4>1, <4>2, Zenon
        <4>. QED  BY <2>8, <2>16, <4>3
      <3>3. Readable(start, end)
        <4>. HIDE DEF m1, m2
        <4>1. /\ SectorStart(m1) = q1 /\ SectorEnd(m2 + MAGIC) \in Nat
              /\ SectorStart(m1) <= SectorEnd(m2 + MAGIC)
              /\ SectorEnd(m2 + MAGIC) <= q2 + 2
          BY <2>5, ImageSectors
        <4>. DEFINE e == SectorEnd(m2 + MAGIC)
        <4>2. \A q \in q1 .. (e - 1) : q \in 1 .. (q2 + 1)
          <5>. HIDE DEF ql, q1, q2, e
          <5>. QED  BY <2>10, <2>11, <4>1 DEF e
        <4>3. \A q \in q1 .. (e - 1) : Good(q)
          BY <2>8, <3>2, <4>2, Zenon
        <4>. QED  BY <3>1, <4>1, <4>3 DEF Readable
      <3>. QED  BY <1>2, <2>5, <2>9, <3>1, <3>2, <3>3 DEF b
    <2>. QED  BY <2>14, <2>15, <2>16
  <1>. QED  BY <1>1, <1>2, InARow DEF Scanned

-----------------------------------------------------------------------------
(* Which names are read.                                                    *)

\* The number, from 0, of the name in slot j of page p, and of the one a walk over
\* the names is at.
Number(p, j) == (p - 1) * NAMES_PER_PAGE + j
At == Number(page, i)

\* The names lie in the slots in the order of the bees.
Written ==
    \A p \in 1 .. Len(pages), j \in Slot :
        /\ pages[p][j] \in Bees \cup {Junk, Empty}
        /\ Number(p, j) < count => pages[p][j] = NameOf(disk.bees[Number(p, j) + 1])

\* Slots are numbered along the pages.
LEMMA Numbering ==
    /\ Number(1, 0) = 0
    /\ \A p \in Nat \ {0}, j \in Nat :
          Number(p, j) \in Nat /\ Number(p, j + 1) = Number(p, j) + 1
    /\ \A p \in Nat \ {0} : Number(p + 1, 0) = Number(p, NAMES_PER_PAGE)
    /\ \A p, q \in Nat \ {0}, j \in Slot, l \in Nat : p < q => Number(p, j) < Number(q, l)
  <1>. DEFINE N == NAMES_PER_PAGE
  <1>1. N \in Nat \ {0}
    BY LoaderAssumption
  <1>2. ASSUME NEW p \in Nat \ {0}, NEW j \in Nat
        PROVE  Number(p, j) \in Nat /\ Number(p, j + 1) = Number(p, j) + 1
    <2>1. (p - 1) * N \in Nat
      BY <1>1
    <2>. QED  BY <2>1 DEF Number
  <1>3. ASSUME NEW p \in Nat \ {0} PROVE Number(p + 1, 0) = Number(p, N)
    <2>1. ((p + 1) - 1) * N + 0 = (p - 1) * N + N
      BY <1>1
    <2>. QED  BY <2>1 DEF Number
  <1>4. ASSUME NEW p \in Nat \ {0}, NEW q \in Nat \ {0}, NEW j \in Slot, NEW l \in Nat, p < q
        PROVE  Number(p, j) < Number(q, l)
    <2>1. j \in 0 .. (N - 1)
      BY DEF Slot
    <2>2. (p - 1) * N \in Nat /\ (q - 1) * N \in Nat /\ (q - p - 1) * N >= 0
      BY <1>1, <1>4
    <2>3. (q - p - 1) * N = (q - 1) * N - (p - 1) * N - N
      BY <1>1
    <2>. QED  BY <1>1, <2>1, <2>2, <2>3 DEF Number
  <1>5. Number(1, 0) = 0
    BY <1>1 DEF Number
  <1>. QED  BY <1>2, <1>3, <1>4, <1>5

\* A new name is written to the slot with its number; of the others, those that
\* were written stay as they were, and no other name is written.
LEMMA OneName ==
    ASSUME NEW ps, NEW c, Chain(ps, c), NEW b, NEW p \in 1 .. Len(addNameToPage(ps, c, b)),
           NEW j \in Slot, NEW x, x = addNameToPage(ps, c, b)[p][j]
    PROVE  /\ Number(p, j) < c => p \in 1 .. Len(ps) /\ x = ps[p][j]
           /\ Number(p, j) = c => x = NameOf(b)
           /\ x \in {NameOf(b), Junk, Empty} \/ (p \in 1 .. Len(ps) /\ x = ps[p][j])
  <1>. DEFINE N == NAMES_PER_PAGE
              L == Len(ps)
              all == IF c \div N + 1 > L THEN Append(ps, NewPage) ELSE ps
              m == Len(all)
              n == c % N
              row == [l \in Slot |-> IF l = n THEN NameOf(b)
                                     ELSE IF l = n + 1 THEN Empty ELSE all[m][l]]
  <1>1. ps \in Seq(Row) /\ L \in Nat \ {0} /\ N \in Nat \ {0}
    BY LoaderAssumption DEF Chain
  <1>2. PICK k \in 0 .. N : c = (L - 1) * N + k
    BY DEF Chain
  <1>3. NewPage \in Row
    BY DEF NewPage, Row
  <1>4. /\ m \in {L, L + 1} /\ n \in Slot /\ c = Number(m, n) /\ m = c \div N + 1
        /\ all \in Seq(Row)
        /\ \A q \in 1 .. L : all[q] = ps[q]
        /\ m = L + 1 => all[m] = NewPage /\ n = 0
    <2>1. CASE k < N
      <3>1. c \div N = L - 1 /\ c % N = k
        <4>1. L - 1 \in Nat /\ k \in 0 .. (N - 1)
          BY <1>1, <2>1
        <4>. HIDE DEF L, N
        <4>. QED  BY <1>1, <1>2, <4>1, Quotient, Zenon
      <3>2. all = ps
        BY <1>1, <3>1
      <3>3. c = Number(L, k) /\ k \in Slot
        BY <1>1, <1>2, <2>1 DEF Number, Slot
      <3>4. c \div N + 1 = L
        BY <1>1, <3>1
      <3>. HIDE DEF all, N, L
      <3>5. m = L /\ m # L + 1
        BY <1>1, <3>2 DEF L
      <3>. QED  BY <1>1, <3>1, <3>2, <3>3, <3>4, <3>5
    <2>2. CASE k = N
      <3>1. c = L * N + 0
        BY <1>1, <1>2, <2>2
      <3>2. c \div N = L /\ c % N = 0
        <4>1. L \in Nat /\ 0 \in 0 .. (N - 1)
          BY <1>1
        <4>. HIDE DEF L, N
        <4>. QED  BY <1>1, <3>1, <4>1, Quotient, Zenon
      <3>3. all = Append(ps, NewPage)
        BY <1>1, <3>2
      <3>4. /\ all \in Seq(Row) /\ Len(all) = L + 1 /\ all[L + 1] = NewPage
            /\ \A q \in 1 .. L : all[q] = ps[q]
        BY <1>1, <1>3, <3>3, AppendProperties
      <3>5. 0 \in Slot
        BY <1>1 DEF Slot
      <3>6. c = Number(L + 1, 0)
        BY <1>1, <3>1 DEF Number
      <3>7. L + 1 = c \div N + 1
        BY <3>2
      <3>. HIDE DEF all, N, L
      <3>. QED  BY <3>2, <3>4, <3>5, <3>6, <3>7
    <2>. QED  BY <1>1, <1>2, <2>1, <2>2
  <1>5. addNameToPage(ps, c, b) = [all EXCEPT ![m] = row]
    <2>1. addNameToPage(ps, c, b) = [all EXCEPT ![c \div N + 1] =
             [l \in Slot |-> IF l = n THEN NameOf(b) ELSE IF l = n + 1 THEN Empty ELSE @[l]]]
      BY DEF addNameToPage
    <2>. HIDE DEF all, n
    <2>. QED  BY <1>4, <2>1 DEF m
  <1>. HIDE DEF all, n
  <1>6. m \in Nat \ {0} /\ DOMAIN all = 1 .. m /\ Len([all EXCEPT ![m] = row]) = m
    <2>1. m \in Nat \ {0}
      BY <1>1, <1>4
    <2>. HIDE DEF row
    <2>2. all \in Seq(Row)
      BY <1>4
    <2>3. DOMAIN all = 1 .. Len(all) /\ DOMAIN [all EXCEPT ![m] = row] = DOMAIN all
      BY <2>2, LenProperties
    <2>4. Len([all EXCEPT ![m] = row]) = Len(all)
      BY <2>1, <2>3
    <2>. QED  BY <2>1, <2>3, <2>4
  <1>. HIDE DEF L, m, N
  <1>7. p \in 1 .. m /\ x = [all EXCEPT ![m] = row][p][j]
    BY <1>5, <1>6
  <1>8. CASE p < m
    <2>1. x = all[p][j]
      BY <1>6, <1>7, <1>8
    <2>2. p \in 1 .. L
      BY <1>1, <1>4, <1>7, <1>8
    <2>3. x = ps[p][j] /\ p \in 1 .. Len(ps)
      BY <1>4, <2>1, <2>2 DEF L
    <2>. HIDE DEF m
    <2>4. p \in Nat \ {0} /\ m \in Nat \ {0} /\ j \in Nat /\ n \in Nat
      BY <1>4, <1>6, <1>7 DEF Slot
    <2>5. Number(p, j) < c /\ Number(p, j) \in Nat /\ c \in Nat
      BY <1>4, <1>8, <2>4, Numbering
    <2>. QED  BY <2>3, <2>5
  <1>9. CASE p = m
    <2>1. x = row[j]
      BY <1>6, <1>7, <1>9
    <2>2. Number(p, j) = (m - 1) * N + j /\ c = (m - 1) * N + n /\ (m - 1) * N \in Nat
      <3>. HIDE DEF m
      <3>1. m - 1 \in Nat /\ N \in Nat
        BY <1>1, <1>6
      <3>2. (m - 1) * N \in Nat
        BY <3>1
      <3>3. c = Number(m, n)
        BY <1>4
      <3>. QED  BY <1>9, <3>2, <3>3 DEF Number, N
    <2>3. j \in Nat /\ n \in Nat
      BY <1>4 DEF Slot
    <2>4. CASE j = n
      <3>1. x = NameOf(b)
        BY <2>1, <2>4
      <3>. QED  BY <2>2, <2>3, <2>4, <3>1
    <2>5. CASE j = n + 1
      <3>1. x = Empty
        BY <2>1, <2>3, <2>5
      <3>2. ~(Number(p, j) < c) /\ Number(p, j) # c
        BY <2>2, <2>3, <2>5
      <3>. QED  BY <3>1, <3>2
    <2>6. CASE j # n /\ j # n + 1
      <3>1. x = all[m][j]
        BY <2>1, <2>6
      <3>2. Number(p, j) # c /\ (Number(p, j) < c => j < n)
        BY <2>2, <2>3, <2>6
      <3>3. CASE m = L
        <4>1. p \in 1 .. Len(ps) /\ x = ps[p][j]
          BY <1>1, <1>4, <1>7, <1>9, <3>1, <3>3 DEF L
        <4>. QED  BY <3>2, <4>1
      <3>4. CASE m = L + 1
        <4>1. x = Junk /\ n = 0
          BY <1>4, <3>1, <3>4 DEF NewPage
        <4>. QED  BY <2>3, <3>2, <4>1
      <3>. QED  BY <1>4, <3>3, <3>4
    <2>. QED  BY <2>4, <2>5, <2>6
  <1>. QED  BY <1>6, <1>7, <1>8, <1>9

\* The slot a walk is at has the name with the number of the slot, if there is
\* one; an empty name there is the name of a bee without one, or ends the names.
LEMMA AtSlot ==
    ASSUME MarkersApart, InDiskOrder, disk \in Disks, Chain(pages, count), NotPast, Scanned,
           Written
    PROVE  /\ At \in Nat /\ At <= count
           /\ pages[page][i] # Empty => /\ At < count
                                        /\ pages[page][i] = disk.bees[At + 1]
                                        /\ disk.bees[At + 1].named
           /\ pages[page][i] = Empty /\ At < count => ~disk.bees[At + 1].named
  <1>. DEFINE L == Len(pages)
              N == NAMES_PER_PAGE
  <1>1. PICK k \in 0 .. N : FilledTo(pages, k) /\ count = Number(L, k)
    BY DEF Chain, Number
  <1>2. page \in 1 .. L /\ L \in Nat \ {0} /\ i \in 0 .. (N - 1) /\ N \in Nat \ {0}
    BY LoaderAssumption DEF NotPast, Chain, Slot
  <1>3. page \in Nat \ {0} /\ i \in Nat /\ k \in Nat /\ i \in Slot
    BY <1>2 DEF Slot
  <1>4. count \in Nat /\ At \in Nat
    BY <1>1, <1>2, <1>3, Numbering DEF At
  <1>5. pages[page][i] = Empty \/ At < count
    <2>1. CASE page < L
      BY <1>1, <1>2, <1>3, <2>1, Numbering DEF At
    <2>2. CASE page = L
      <3>1. ~(i > k)
        BY <1>1, <1>2, <2>2 DEF FilledTo, NotPast, Slot
      <3>2. CASE i = k
        BY <1>1, <1>2, <2>2, <3>2 DEF FilledTo
      <3>3. CASE i < k
        <4>1. (L - 1) * N \in Nat
          BY <1>2
        <4>. QED  BY <1>1, <1>3, <2>2, <3>3, <4>1 DEF At, Number
      <3>. QED  BY <1>3, <3>1, <3>2, <3>3
    <2>. QED  BY <1>2, <2>1, <2>2
  <1>6. At <= count
    <2>1. CASE page < L
      <3>1. At < count
        BY <1>1, <1>2, <1>3, <2>1, Numbering DEF At
      <3>. QED  BY <1>4, <3>1
    <2>2. CASE page = L
      <3>1. ~(i > k)
        BY <1>1, <1>2, <2>2 DEF FilledTo, NotPast, Slot
      <3>2. (L - 1) * N \in Nat
        BY <1>2
      <3>. QED  BY <1>1, <1>3, <2>2, <3>1, <3>2 DEF At, Number
    <2>. QED  BY <1>2, <2>1, <2>2
  <1>7. ASSUME At < count
        PROVE  IF disk.bees[At + 1].named
               THEN pages[page][i] = disk.bees[At + 1] /\ pages[page][i] # Empty
               ELSE pages[page][i] = Empty
    <2>1. pages[page][i] = NameOf(disk.bees[At + 1])
      BY <1>2, <1>3, <1>7 DEF Written, At
    <2>2. At + 1 \in DOMAIN disk.bees
      BY <1>4, <1>7, InARow DEF Scanned
    <2>3. disk.bees[At + 1] # Empty
      BY <2>2 DEF MarkersApart
    <2>. QED  BY <2>1, <2>3 DEF NameOf
  <1>. QED  BY <1>4, <1>5, <1>6, <1>7

\* From one name a walk goes on to the next, and is through behind the last.
LEMMA Onward ==
    ASSUME Chain(pages, count), NotPast, At < count
    PROVE  /\ Number(page, i + 1) = At + 1
           /\ i + 1 < NAMES_PER_PAGE \/ Number(page + 1, 0) = At + 1
           /\ i + 1 < NAMES_PER_PAGE \/ page < Len(pages) \/ count = At + 1
  <1>. DEFINE L == Len(pages)
              N == NAMES_PER_PAGE
  <1>1. PICK k \in 0 .. N : count = Number(L, k)
    BY DEF Chain, Number
  <1>2. page \in 1 .. L /\ L \in Nat \ {0} /\ i \in 0 .. (N - 1) /\ N \in Nat \ {0}
    BY LoaderAssumption DEF NotPast, Chain, Slot
  <1>3. page \in Nat \ {0} /\ i \in Nat /\ k \in Nat
    BY <1>2
  <1>4. Number(page, i + 1) = At + 1
    BY <1>3, Numbering DEF At
  <1>5. CASE i + 1 < N
    BY <1>4, <1>5
  <1>6. CASE i + 1 = N
    <2>1. Number(page + 1, 0) = At + 1
      BY <1>3, <1>4, <1>6, Numbering
    <2>2. ~(page < L) => count = At + 1
      <3>. SUFFICES ASSUME page = L PROVE k = N
        BY <1>1, <1>2, <1>4, <1>6
      <3>1. (L - 1) * N \in Nat
        BY <1>2
      <3>. QED  BY <1>1, <1>2, <1>3, <1>6, <3>1 DEF At, Number
    <2>. QED  BY <1>4, <2>1, <2>2
  <1>. QED  BY <1>2, <1>5, <1>6

-----------------------------------------------------------------------------
(* Which bees are started.                                                  *)

\* The lookup array has the nodes of the first bees, in the end of all up to the
\* first one that has no name or has not been read.
Nodes ==
    /\ idNodes \in Seq([adr : Nat, bee : Bees]) /\ Len(idNodes) <= count
    /\ \A k \in 1 .. Len(idNodes) : idNodes[k].bee = disk.bees[k] /\ disk.bees[k].named
    /\ pc = "scan" => idNodes = <<>>
    /\ pc = "lookup" => Len(idNodes) = At
    /\ pc = "inits" => At <= Len(idNodes)
    /\ pc \notin {"scan", "lookup"} /\ Len(idNodes) < count => ~disk.bees[Len(idNodes) + 1].named

\* run_inits has come past the bee number x, and has called its init function.
Past(x) == \/ disk.bees[x].priority < s
           \/ disk.bees[x].priority = s /\ x <= At
HasStarted(x) == \E k \in 1 .. Len(inits) : inits[k] = disk.bees[x]

\* The bees that have been started are those with a node that run_inits has come
\* past.
Started ==
    /\ inits \in Seq(Bees) /\ s \in 0 .. PRIORITIES
    /\ \A k \in 1 .. Len(inits) : \E x \in 1 .. Len(idNodes) :
          inits[k] = disk.bees[x] /\ (pc = "inits" => Past(x))
    /\ pc = "inits" => \A x \in 1 .. Len(idNodes) : Past(x) => HasStarted(x)
    /\ pc \in {"scan", "lookup"} => inits = <<>> /\ s = 0

\* All that are more urgent than a bee were started before it.
UrgentFirst ==
    \A k \in 1 .. Len(inits), x \in 1 .. Len(idNodes) :
        disk.bees[x].priority < inits[k].priority => \E j \in 1 .. (k - 1) : inits[j] = disk.bees[x]

\* The invariant of the boot on a disk whose bees lie in order.
BootInv ==
    /\ IInv
    /\ pc \in {"scan", "lookup", "inits", "running", "done"}
    /\ Scanned /\ Written /\ Nodes /\ Started /\ UrgentFirst

\* It holds at the start.
LEMMA BootInitially == ASSUME MarkersApart, InDiskOrder PROVE Init => BootInv
  <1>. SUFFICES ASSUME Init PROVE BootInv
    OBVIOUS
  <1>1. IInv
    BY Initially
  <1>2. /\ pc = "scan" /\ count = 0 /\ last_end = SECTOR /\ idNodes = <<>> /\ inits = <<>>
        /\ s = 0 /\ pages = <<[NewPage EXCEPT ![0] = Empty]>> /\ disk \in Disks
    BY DEF Init
  <1>3. Scanned
    BY <1>2, InARow DEF Scanned
  <1>4. Written
    <2>1. ASSUME NEW p \in 1 .. Len(pages), NEW j \in Slot
          PROVE  pages[p][j] \in {Junk, Empty} /\ ~(Number(p, j) < count)
      <3>1. p = 1 /\ j \in Nat
        BY <1>2 DEF Slot
      <3>2. pages[p][j] \in {Junk, Empty}
        BY <1>2, <3>1 DEF NewPage
      <3>3. Number(p, j) \in Nat
        BY <3>1, Numbering
      <3>. QED  BY <1>2, <3>2, <3>3
    <2>. QED  BY <2>1 DEF Written
  <1>5. Nodes
    BY <1>2 DEF Nodes
  <1>6. Started
    BY <1>2, LoaderAssumption DEF Started
  <1>7. UrgentFirst
    BY <1>2 DEF UrgentFirst
  <1>. QED  BY <1>1, <1>2, <1>3, <1>4, <1>5, <1>6, <1>7 DEF BootInv

\* A bee is read and its name written.
LEMMA LoadBeeReads ==
    ASSUME MarkersApart, InDiskOrder, BootInv,
           NEW start, start = find_bee(last_end),
           NEW end, end = find_bee(start + MAGIC) + MAGIC,
           LoadBee(start, end)
    PROVE  (Scanned /\ Written /\ Nodes /\ Started /\ UrgentFirst)'
  <1>. DEFINE b == disk.bees[count + 1]
  <1>1. /\ pc = "scan" /\ start # 0 /\ Readable(start, end)
        /\ pages' = addNameToPage(pages, count, BeeAt(start))
        /\ count' = count + 1
        /\ last_end' = end
        /\ UNCHANGED <<disk, idNodes, pc, page, i, s, inits>>
    BY DEF LoadBee, Resume
  <1>2. disk \in Disks /\ Chain(pages, count) /\ Scanned /\ Written /\ Nodes /\ Started
    BY DEF BootInv, IInv
  <1>3. /\ count < Len(disk.bees) /\ start = b.at /\ end = b.at + b.size /\ Found(count + 1)
    BY <1>1, <1>2, NextFound
  <1>4. count \in Nat /\ Len(disk.bees) \in Nat /\ count + 1 \in 1 .. Len(disk.bees)
    BY <1>2, <1>3, InARow DEF Scanned
  <1>5. BeeAt(start) = b
    BY <1>2, <1>3, <1>4, OnePlace
  <1>6. Scanned'
    <2>1. \A k \in 1 .. (count + 1) : Found(k)
      BY <1>2, <1>3, <1>4 DEF Scanned
    <2>2. \A k : Found(k)' = Found(k)
      BY <1>1, FoundStays
    <2>. QED  BY <1>1, <1>3, <1>4, <2>1, <2>2 DEF Scanned
  <1>7. Written'
    <2>1. ASSUME NEW p \in 1 .. Len(pages'), NEW j \in Slot
          PROVE  /\ pages'[p][j] \in Bees \cup {Junk, Empty}
                 /\ Number(p, j) < count + 1 => pages'[p][j] = NameOf(disk.bees[Number(p, j) + 1])
      <3>. DEFINE x == pages'[p][j]
                  n == Number(p, j)
      <3>1. /\ n < count => p \in 1 .. Len(pages) /\ x = pages[p][j]
            /\ n = count => x = NameOf(b)
            /\ x \in {NameOf(b), Junk, Empty} \/ (p \in 1 .. Len(pages) /\ x = pages[p][j])
        BY <1>1, <1>2, <1>5, OneName
      <3>2. b \in Bees
        BY <1>4, InARow, <1>2 DEF Bees
      <3>3. n \in Nat
        <4>1. BeeAt(start) \in Known
          <5>1. start \in Nat
            BY <1>2, <1>3, <1>4, InARow
          <5>. QED  BY <1>2, <5>1, BeeAtKnown
        <4>2. Chain(pages', count + 1)
          BY <1>1, <1>2, <4>1, ChainGrows
        <4>3. p \in Nat \ {0} /\ j \in Nat
          BY <4>2 DEF Chain, Slot
        <4>. QED  BY <4>3, Numbering
      <3>4. x \in Bees \cup {Junk, Empty}
        BY <1>2, <3>1, <3>2 DEF Written, NameOf
      <3>5. n < count => x = NameOf(disk.bees[n + 1])
        BY <1>2, <3>1 DEF Written
      <3>6. n < count + 1 => n < count \/ n = count
        BY <1>4, <3>3
      <3>. HIDE DEF x, n
      <3>. QED  BY <3>1, <3>4, <3>5, <3>6 DEF x, n
    <2>2. \A p, j : Number(p, j)' = Number(p, j)
      BY DEF Number
    <2>. QED  BY <1>1, <2>1, <2>2 DEF Written, Bees, NameOf
  <1>8. Nodes' /\ Started' /\ UrgentFirst'
    <2>1. idNodes = <<>> /\ inits = <<>>
      BY <1>1, <1>2 DEF Nodes, Started
    <2>2. Nodes'
      BY <1>1, <1>2, <1>4, <2>1 DEF Nodes
    <2>3. Started'
      BY <1>1, <1>2, <2>1 DEF Started, Bees
    <2>4. UrgentFirst'
      BY <1>1, <2>1 DEF UrgentFirst
    <2>. QED  BY <2>2, <2>3, <2>4
  <1>. QED  BY <1>6, <1>7, <1>8

\* The search ends at a bee that cannot be read, or with the last one.
LEMMA ScanEndsReads ==
    ASSUME InDiskOrder, BootInv,
           NEW start, start = find_bee(last_end),
           NEW end, end = find_bee(start + MAGIC) + MAGIC,
           ScanEnds(start, end)
    PROVE  (Scanned /\ Written /\ Nodes /\ Started /\ UrgentFirst)'
  <1>1. /\ pc = "scan" /\ ~(start # 0 /\ Readable(start, end)) /\ pc' = "lookup"
        /\ UNCHANGED <<disk, pages, count, idNodes, page, i, s, inits>>
    BY DEF ScanEnds
  <1>2. disk \in Disks /\ Scanned /\ Written /\ Nodes /\ Started /\ page = 1 /\ i = 0
    BY <1>1 DEF BootInv, IInv
  <1>3. Scanned'
    <2>1. count < Len(disk.bees) => ~Found(count + 1)
      BY <1>1, <1>2, NextFound
    <2>2. \A k : Found(k)' = Found(k)
      BY <1>1, FoundStays
    <2>. QED  BY <1>1, <1>2, <2>1, <2>2 DEF Scanned
  <1>4. Written'
    BY <1>1, <1>2 DEF Written, Bees, NameOf, Number
  <1>5. idNodes = <<>> /\ inits = <<>> /\ s = 0
    BY <1>1, <1>2 DEF Nodes, Started
  <1>6. Nodes'
    <2>1. At' = 0
      BY <1>1, <1>2, Numbering DEF At, Number
    <2>. QED  BY <1>1, <1>2, <1>5, <2>1 DEF Nodes, Bees
  <1>7. Started'
    BY <1>1, <1>2, <1>5 DEF Started, Bees
  <1>8. UrgentFirst'
    BY <1>1, <1>5 DEF UrgentFirst
  <1>. QED  BY <1>3, <1>4, <1>6, <1>7, <1>8

\* What has been read stays as it is from then on.
LEMMA StaysRead ==
    ASSUME Scanned, Written, pc # "scan", pc' # "scan", UNCHANGED <<disk, pages, count>>
    PROVE  Scanned' /\ Written'
  <1>1. Scanned'
    <2>1. \A k : Found(k)' = Found(k)
      BY FoundStays
    <2>. QED  BY <2>1 DEF Scanned
  <1>2. Written'
    BY DEF Written, Bees, NameOf, Number
  <1>. QED  BY <1>1, <1>2

\* The nodes hold no name twice and pass none over.
LEMMA AddNodeReads ==
    ASSUME MarkersApart, InDiskOrder, BootInv, AddNode
    PROVE  (Scanned /\ Written /\ Nodes /\ Started /\ UrgentFirst)'
  <1>. DEFINE b == pages[page][i]
              T == Len(idNodes)
              node == [adr |-> MEMORY, bee |-> b]
  <1>1. /\ pc = "lookup" /\ b # Empty /\ idNodes' = Append(idNodes, node)
        /\ UNCHANGED <<disk, pages, count, s, inits>> /\ NextName
    BY DEF AddNode
  <1>2. /\ disk \in Disks /\ MEMORY \in Nat /\ Chain(pages, count) /\ NotPast
        /\ Scanned /\ Written /\ Nodes /\ Started
    BY DEF BootInv, IInv
  <1>3. /\ pc' = "lookup" \/ pc' = "inits"
        /\ pc' = "lookup" => \/ page' = page /\ i' = i + 1
                             \/ page' = page + 1 /\ i' = 0 /\ ~(i + 1 < NAMES_PER_PAGE)
        /\ pc' = "inits" => /\ page' = 1 /\ i' = 0
                            /\ ~(i + 1 < NAMES_PER_PAGE) /\ ~(page < Len(pages))
    BY <1>1 DEF NextName
  <1>4. /\ At \in Nat /\ At < count /\ b = disk.bees[At + 1] /\ disk.bees[At + 1].named
    BY <1>1, <1>2, AtSlot
  <1>5. T = At /\ idNodes \in Seq([adr : Nat, bee : Bees])
    BY <1>1, <1>2 DEF Nodes
  <1>6. count \in Nat /\ count \in 0 .. Len(disk.bees) /\ Len(disk.bees) \in Nat
    BY <1>2, InARow DEF Scanned
  <1>7. b \in Bees
    <2>1. At + 1 \in DOMAIN disk.bees
      BY <1>2, <1>4, <1>6, InARow
    <2>. QED  BY <1>4, <2>1 DEF Bees
  <1>. HIDE DEF b
  <1>8. node \in [adr : Nat, bee : Bees]
    BY <1>2, <1>7
  <1>9. /\ idNodes' \in Seq([adr : Nat, bee : Bees]) /\ Len(idNodes') = T + 1
        /\ \A k \in 1 .. T : idNodes'[k] = idNodes[k]
        /\ idNodes'[T + 1].bee = b
    <2>. HIDE DEF node
    <2>1. /\ idNodes' \in Seq([adr : Nat, bee : Bees]) /\ Len(idNodes') = T + 1
          /\ \A k \in 1 .. T : idNodes'[k] = idNodes[k]
          /\ idNodes'[T + 1] = node
      BY <1>1, <1>5, <1>8, AppendProperties
    <2>. QED  BY <2>1 DEF node
  <1>. HIDE DEF node, T
  <1>10. \A k \in 1 .. (T + 1) : idNodes'[k].bee = disk.bees[k] /\ disk.bees[k].named
    <2>1. \A k \in 1 .. T : idNodes[k].bee = disk.bees[k] /\ disk.bees[k].named
      BY <1>2 DEF Nodes, T
    <2>2. T \in Nat
      BY <1>4, <1>5
    <2>3. idNodes'[T + 1].bee = disk.bees[T + 1] /\ disk.bees[T + 1].named
      BY <1>4, <1>5, <1>9
    <2>. QED  BY <1>9, <2>1, <2>2, <2>3
  <1>11. pc' = "lookup" => At' = At + 1
    <2>1. Number(page, i + 1) = At + 1 /\ (i + 1 < NAMES_PER_PAGE \/ Number(page + 1, 0) = At + 1)
      BY <1>2, <1>4, Onward
    <2>2. At' = Number(page', i')
      BY DEF At, Number
    <2>. QED  BY <1>3, <2>1, <2>2
  <1>12. pc' = "inits" => At' = 0 /\ count = At + 1
    <2>1. i + 1 < NAMES_PER_PAGE \/ page < Len(pages) \/ count = At + 1
      BY <1>2, <1>4, Onward
    <2>2. At' = Number(page', i')
      BY DEF At, Number
    <2>. QED  BY <1>3, <2>1, <2>2, Numbering
  <1>13. Nodes'
    <2>1. Len(idNodes') <= count /\ (pc' = "inits" => count = Len(idNodes'))
      BY <1>4, <1>5, <1>6, <1>9, <1>12
    <2>2. pc' = "lookup" => Len(idNodes') = At'
      BY <1>5, <1>9, <1>11
    <2>3. pc' = "inits" => At' <= Len(idNodes')
      BY <1>4, <1>5, <1>9, <1>12
    <2>4. pc' # "scan"
      BY <1>3
    <2>5. pc' = "inits" => ~(Len(idNodes') < count)
      BY <1>6, <2>1
    <2>6. \A k \in 1 .. Len(idNodes') : idNodes'[k].bee = disk.bees[k] /\ disk.bees[k].named
      BY <1>9, <1>10
    <2>7. Bees' = Bees
      BY <1>1 DEF Bees
    <2>. QED  BY <1>1, <1>3, <1>9, <2>1, <2>2, <2>3, <2>4, <2>5, <2>6, <2>7 DEF Nodes
  <1>14. inits = <<>> /\ s = 0 /\ s \in 0 .. PRIORITIES
    BY <1>1, <1>2 DEF Started
  <1>15. UrgentFirst'
    BY <1>1, <1>14 DEF UrgentFirst
  <1>16. Started'
    <2>1. pc' = "inits" => \A x \in 1 .. Len(idNodes') : ~(Past(x)')
      <3>. SUFFICES ASSUME pc' = "inits", NEW x \in 1 .. Len(idNodes') PROVE ~(Past(x)')
        OBVIOUS
      <3>1. x \in 1 .. Len(disk.bees)
        BY <1>4, <1>5, <1>6, <1>9, <1>12
      <3>2. disk.bees[x].priority \in Nat
        BY <1>2, <3>1, InARow, DiskAssumption
      <3>3. ~(x <= At')
        BY <1>12, <1>4, <1>5, <1>9
      <3>. QED  BY <1>1, <1>14, <3>2, <3>3 DEF Past
    <2>. QED  BY <1>1, <1>14, <2>1 DEF Started, Bees
  <1>. QED  BY <1>1, <1>2, <1>3, <1>13, <1>15, <1>16, StaysRead

\* The priorities of the bees with a node are numbers.
LEMMA Priorities ==
    ASSUME InDiskOrder, disk \in Disks, Scanned, Nodes
    PROVE  /\ Len(idNodes) \in Nat
           /\ \A x \in 1 .. Len(idNodes) : x \in 1 .. Len(disk.bees) /\ disk.bees[x].priority \in Nat
  <1>1. Len(idNodes) \in Nat /\ count \in 0 .. Len(disk.bees) /\ Len(disk.bees) \in Nat
    BY InARow DEF Nodes, Scanned
  <1>2. Len(idNodes) <= count
    BY DEF Nodes
  <1>3. \A x \in 1 .. Len(idNodes) : x \in 1 .. Len(disk.bees)
    BY <1>1, <1>2
  <1>. QED  BY <1>1, <1>3, InARow, DiskAssumption

\* The names end at a bee without one, or with the last that was read.
LEMMA NodesDoneReads ==
    ASSUME MarkersApart, InDiskOrder, BootInv, NodesDone
    PROVE  (Scanned /\ Written /\ Nodes /\ Started /\ UrgentFirst)'
  <1>1. /\ pc = "lookup" /\ pages[page][i] = Empty /\ pc' = "inits" /\ page' = 1 /\ i' = 0
        /\ UNCHANGED <<disk, pages, count, idNodes, s, inits>>
    BY DEF NodesDone
  <1>2. /\ disk \in Disks /\ Chain(pages, count) /\ NotPast
        /\ Scanned /\ Written /\ Nodes /\ Started
    BY DEF BootInv, IInv
  <1>3. At < count => ~disk.bees[At + 1].named
    BY <1>1, <1>2, AtSlot
  <1>4. At' = 0
    <2>1. At' = Number(page', i')
      BY DEF At, Number
    <2>. QED  BY <1>1, <2>1, Numbering
  <1>5. Nodes'
    <2>1. Len(idNodes) \in Nat
      BY <1>2, Priorities
    <2>. QED  BY <1>1, <1>2, <1>3, <1>4, <2>1 DEF Nodes, Bees
  <1>6. inits = <<>> /\ s = 0
    BY <1>1, <1>2 DEF Started
  <1>7. UrgentFirst'
    BY <1>1, <1>6 DEF UrgentFirst
  <1>8. Started'
    <2>1. \A x \in 1 .. Len(idNodes) : ~(Past(x)')
      <3>. SUFFICES ASSUME NEW x \in 1 .. Len(idNodes) PROVE ~(Past(x)')
        OBVIOUS
      <3>1. disk.bees[x].priority \in Nat /\ ~(x <= At')
        BY <1>2, <1>4, Priorities
      <3>. QED  BY <1>1, <1>6, <3>1 DEF Past
    <2>2. inits \in Seq(Bees) /\ s \in 0 .. PRIORITIES
      BY <1>2 DEF Started
    <2>. QED  BY <1>1, <1>6, <2>1, <2>2 DEF Started, Bees
  <1>. QED  BY <1>1, <1>2, <1>5, <1>7, <1>8, StaysRead

\* When run_inits goes on from a name, it has come past the bee with this name, if
\* the priority is its turn, and past no other.
LEMMA ComesPast ==
    ASSUME InDiskOrder, disk \in Disks, Chain(pages, count), NotPast, Scanned, Nodes, s \in Nat,
           At \in Nat, At < count, At < Len(idNodes), Advance, UNCHANGED <<disk, pages>>
    PROVE  /\ At' \in Nat /\ At' <= Len(idNodes)
           /\ \A x \in 1 .. Len(idNodes) :
                 Past(x)' <=> Past(x) \/ (x = At + 1 /\ disk.bees[x].priority = s)
  <1>. DEFINE T == Len(idNodes)
  <1>1. T \in Nat /\ T <= count /\ count \in Nat
    BY Priorities DEF Nodes, Scanned
  <1>2. \/ s' = s /\ page' = page /\ i' = i + 1
        \/ s' = s /\ page' = page + 1 /\ i' = 0 /\ ~(i + 1 < NAMES_PER_PAGE)
        \/ /\ s' = s + 1 /\ page' = 1 /\ i' = 0
           /\ ~(i + 1 < NAMES_PER_PAGE) /\ ~(page < Len(pages))
    BY DEF Advance
  <1>3. At' = Number(page', i')
    BY DEF At, Number
  <1>4. /\ Number(page, i + 1) = At + 1
        /\ i + 1 < NAMES_PER_PAGE \/ Number(page + 1, 0) = At + 1
        /\ i + 1 < NAMES_PER_PAGE \/ page < Len(pages) \/ count = At + 1
    BY Onward
  <1>5. CASE s' = s + 1
    <2>1. s' # s
      BY <1>5
    <2>2. At' = 0 /\ count = At + 1
      BY <1>2, <1>3, <1>4, <2>1, Numbering
    <2>3. T = At + 1
      BY <1>1, <2>2
    <2>4. ASSUME NEW x \in 1 .. T
          PROVE  Past(x)' <=> Past(x) \/ (x = At + 1 /\ disk.bees[x].priority = s)
      <3>1. disk.bees[x].priority \in Nat
        BY <2>4, Priorities
      <3>2. Past(x)' <=> disk.bees[x].priority < s + 1 \/ (disk.bees[x].priority = s + 1 /\ x <= At')
        BY <1>5 DEF Past
      <3>3. ~(x <= At') /\ (x <= At \/ x = At + 1)
        BY <2>2, <2>3, <2>4
      <3>. QED  BY <3>1, <3>2, <3>3 DEF Past
    <2>. QED  BY <1>1, <2>2, <2>4
  <1>6. CASE s' = s
    <2>1. s' # s + 1
      BY <1>6
    <2>2. At' = At + 1
      BY <1>2, <1>3, <1>4, <2>1
    <2>3. ASSUME NEW x \in 1 .. T
          PROVE  Past(x)' <=> Past(x) \/ (x = At + 1 /\ disk.bees[x].priority = s)
      <3>1. Past(x)' <=> disk.bees[x].priority < s \/ (disk.bees[x].priority = s /\ x <= At + 1)
        BY <1>6, <2>2 DEF Past
      <3>2. x <= At + 1 <=> x <= At \/ x = At + 1
        BY <1>1
      <3>. QED  BY <3>1, <3>2 DEF Past
    <2>. QED  BY <1>1, <2>2, <2>3
  <1>. QED  BY <1>2, <1>5, <1>6

\* The bee whose turn it is has a node, and has not been started.
LEMMA NextInTurn ==
    ASSUME MarkersApart, InDiskOrder, BootInv, pc = "inits", pages[page][i] # Empty
    PROVE  /\ At \in Nat /\ At < count /\ At < Len(idNodes)
           /\ pages[page][i] = disk.bees[At + 1]
           /\ Due(disk.bees[At + 1]) => ~HasStarted(At + 1)
  <1>1. /\ disk \in Disks /\ Chain(pages, count) /\ NotPast
        /\ Scanned /\ Written /\ Nodes /\ Started
    BY DEF BootInv, IInv
  <1>2. /\ At \in Nat /\ At < count /\ pages[page][i] = disk.bees[At + 1]
        /\ disk.bees[At + 1].named
    BY <1>1, AtSlot
  <1>3. /\ Len(idNodes) \in Nat /\ At <= Len(idNodes)
        /\ Len(idNodes) < count => ~disk.bees[Len(idNodes) + 1].named
    BY <1>1, Priorities DEF Nodes
  <1>4. At < Len(idNodes)
    BY <1>2, <1>3
  <1>5. ASSUME Due(disk.bees[At + 1]), HasStarted(At + 1) PROVE FALSE
    <2>1. PICK k \in 1 .. Len(inits) : inits[k] = disk.bees[At + 1]
      BY <1>5 DEF HasStarted
    <2>2. PICK x \in 1 .. Len(idNodes) : inits[k] = disk.bees[x] /\ Past(x)
      BY <1>1 DEF Started
    <2>3. disk.bees[x].priority = s
      BY <1>5, <2>1, <2>2 DEF Due
    <2>4. s \in Nat
      BY <1>1 DEF Started
    <2>5. x <= At
      BY <2>2, <2>3, <2>4 DEF Past
    <2>6. x \in 1 .. Len(disk.bees) /\ At + 1 \in 1 .. Len(disk.bees)
      BY <1>1, <1>2, <1>3, <1>4, Priorities
    <2>7. x < At + 1
      BY <1>2, <2>5
    <2>. DEFINE at == disk.bees[x].at
                size == disk.bees[x].size
    <2>8. at + size <= at
      BY <1>1, <2>1, <2>2, <2>6, <2>7, InARow
    <2>9. at \in Nat /\ size \in Nat /\ size > 0
      BY <1>1, <2>6, InARow, LoaderAssumption
    <2>. HIDE DEF at, size
    <2>. QED  BY <2>8, <2>9
  <1>. QED  BY <1>2, <1>4, <1>5

\* An init function is called behind those of all more urgent bees.
LEMMA RunInitReads ==
    ASSUME MarkersApart, InDiskOrder, BootInv, RunInit
    PROVE  (Scanned /\ Written /\ Nodes /\ Started /\ UrgentFirst)'
  <1>. DEFINE b == disk.bees[At + 1]
              T == Len(idNodes)
              L == Len(inits)
  <1>1. /\ pc = "inits" /\ s < PRIORITIES /\ pages[page][i] # Empty
        /\ UNCHANGED <<disk, pages, count, idNodes>>
    BY DEF RunInit
  <1>2. /\ disk \in Disks /\ Chain(pages, count) /\ NotPast
        /\ Scanned /\ Written /\ Nodes /\ Started /\ UrgentFirst
    BY DEF BootInv, IInv
  <1>3. At \in Nat /\ At < count /\ At < T /\ pages[page][i] = b
    BY <1>1, NextInTurn
  <1>4. \/ Due(b) /\ inits' = Append(inits, b) /\ Advance /\ pc' = "inits"
        \/ Due(b) /\ inits' = Append(inits, b) /\ pc' = "running" /\ UNCHANGED <<page, i, s>>
        \/ ~Due(b) /\ inits' = inits /\ Advance /\ pc' = "inits"
    BY <1>1, <1>3 DEF RunInit
  <1>5. T \in Nat /\ \A x \in 1 .. T : x \in 1 .. Len(disk.bees) /\ disk.bees[x].priority \in Nat
    BY <1>2, Priorities
  <1>6. inits \in Seq(Bees) /\ s \in 0 .. PRIORITIES /\ PRIORITIES \in Nat /\ L \in Nat
    BY <1>2, LoaderAssumption DEF Started
  <1>7. b \in Bees /\ At + 1 \in 1 .. T
    <2>1. At + 1 \in 1 .. T
      BY <1>3, <1>5
    <2>. QED  BY <1>2, <1>5, <2>1, InARow DEF Bees
  <1>8. PICK a \in 1 .. T : a = At + 1
    BY <1>7
  <1>9. Advance => /\ At' \in Nat /\ At' <= T
                   /\ \A x \in 1 .. T :
                         Past(x)' <=> Past(x) \/ (x = a /\ disk.bees[x].priority = s)
    BY <1>1, <1>2, <1>3, <1>6, <1>8, ComesPast
  <1>10. s' \in 0 .. PRIORITIES
    BY <1>1, <1>4, <1>6 DEF Advance
  <1>11. Bees' = Bees
    BY <1>1 DEF Bees
  <1>12. Nodes'
    BY <1>1, <1>2, <1>4, <1>9, <1>11 DEF Nodes
  <1>. HIDE DEF b, T, L
  <1>13. CASE ~Due(b)
    <2>1. Advance /\ inits' = inits /\ pc' = "inits"
      BY <1>4, <1>13
    <2>2. \A x \in 1 .. T : Past(x)' <=> Past(x)
      BY <1>9, <1>13, <1>8, <2>1 DEF b, Due
    <2>3. Started'
      <3>1. \A x : HasStarted(x)' <=> HasStarted(x)
        BY <1>1, <2>1 DEF HasStarted
      <3>. QED  BY <1>1, <1>2, <1>10, <1>11, <2>1, <2>2, <3>1 DEF Started, T
    <2>4. UrgentFirst'
      BY <1>1, <1>2, <2>1 DEF UrgentFirst
    <2>. QED  BY <1>1, <1>2, <1>12, <2>1, <2>3, <2>4, StaysRead
  <1>14. CASE Due(b)
    <2>1. inits' = Append(inits, b) /\ (pc' = "running" \/ (pc' = "inits" /\ Advance))
      BY <1>4, <1>14
    <2>2. /\ inits' \in Seq(Bees) /\ Len(inits') = L + 1
          /\ \A k \in 1 .. L : inits'[k] = inits[k]
          /\ inits'[L + 1] = b
      BY <1>6, <1>7, <2>1, AppendProperties DEF L
    <2>3. b.priority = s
      BY <1>14 DEF Due
    <2>4. \A x \in 1 .. T : HasStarted(x) => HasStarted(x)'
      BY <1>1, <1>6, <2>2 DEF HasStarted, L
    <2>5. HasStarted(a)'
      <3>1. inits'[L + 1] = disk'.bees[a] /\ L + 1 \in 1 .. Len(inits')
        BY <1>1, <1>6, <1>8, <2>2 DEF b
      <3>. QED  BY <3>1 DEF HasStarted
    <2>6. Started'
      <3>1. ASSUME NEW k \in 1 .. Len(inits')
            PROVE  \E x \in 1 .. T : inits'[k] = disk.bees[x] /\ (pc' = "inits" => Past(x)')
        <4>1. CASE k <= L
          <5>1. k \in 1 .. L /\ inits'[k] = inits[k]
            BY <1>6, <2>2, <4>1
          <5>2. PICK x \in 1 .. T : inits[k] = disk.bees[x] /\ Past(x)
            BY <1>1, <1>2, <5>1 DEF Started, T, L
          <5>3. pc' = "inits" => Past(x)'
            BY <1>9, <2>1, <5>2
          <5>. QED  BY <5>1, <5>2, <5>3
        <4>2. CASE k = L + 1
          <5>1. inits'[k] = disk.bees[a]
            BY <1>8, <2>2, <4>2 DEF b
          <5>2. disk.bees[a].priority = s
            BY <1>8, <2>3 DEF b
          <5>3. pc' = "inits" => Past(a)'
            BY <1>9, <1>8, <2>1, <5>2
          <5>. QED  BY <1>8, <5>1, <5>3
        <4>. QED  BY <1>6, <2>2, <4>1, <4>2
      <3>2. ASSUME pc' = "inits", NEW x \in 1 .. T, Past(x)' PROVE HasStarted(x)'
        <4>1. Past(x) \/ x = a
          BY <1>9, <2>1, <3>2
        <4>2. Past(x) => HasStarted(x)
          BY <1>1, <1>2 DEF Started, T
        <4>. QED  BY <2>4, <2>5, <4>1, <4>2
      <3>3. pc' \notin {"scan", "lookup"}
        BY <2>1
      <3>. QED  BY <1>1, <1>10, <1>11, <2>2, <3>1, <3>2, <3>3 DEF Started, T
    <2>7. UrgentFirst'
      <3>1. ASSUME NEW k \in 1 .. Len(inits'), NEW x \in 1 .. T,
                   disk.bees[x].priority < inits'[k].priority
            PROVE  \E j \in 1 .. (k - 1) : inits'[j] = disk.bees[x]
        <4>1. CASE k <= L
          <5>1. k \in 1 .. L /\ inits'[k] = inits[k]
            BY <1>6, <2>2, <4>1
          <5>2. PICK j \in 1 .. (k - 1) : inits[j] = disk.bees[x]
            BY <1>2, <3>1, <5>1 DEF UrgentFirst, T, L
          <5>3. j \in 1 .. L
            BY <1>6, <5>1, <5>2
          <5>. QED  BY <2>2, <5>2, <5>3
        <4>2. CASE k = L + 1
          <5>1. disk.bees[x].priority < s
            BY <2>2, <2>3, <3>1, <4>2
          <5>2. HasStarted(x)
            BY <1>1, <1>2, <5>1 DEF Started, Past, T
          <5>3. PICK j \in 1 .. L : inits[j] = disk.bees[x]
            BY <5>2 DEF HasStarted, L
          <5>4. j \in 1 .. (k - 1)
            BY <1>6, <4>2, <5>3
          <5>. QED  BY <2>2, <5>3, <5>4
        <4>. QED  BY <1>6, <2>2, <4>1, <4>2
      <3>. QED  BY <1>1, <3>1 DEF UrgentFirst, T
    <2>8. pc' # "scan"
      BY <2>1
    <2>. QED  BY <1>1, <1>2, <1>12, <2>6, <2>7, <2>8, StaysRead
  <1>. QED  BY <1>13, <1>14

\* The turn of the next priority comes when all bees with a node have been looked
\* at.
LEMMA NextPriorityReads ==
    ASSUME MarkersApart, InDiskOrder, BootInv, NextPriority
    PROVE  (Scanned /\ Written /\ Nodes /\ Started /\ UrgentFirst)'
  <1>. DEFINE T == Len(idNodes)
  <1>1. /\ pc = "inits" /\ s < PRIORITIES /\ pages[page][i] = Empty
        /\ s' = s + 1 /\ page' = 1 /\ i' = 0
        /\ UNCHANGED <<disk, pages, count, idNodes, pc, inits>>
    BY DEF NextPriority
  <1>2. /\ disk \in Disks /\ Chain(pages, count) /\ NotPast
        /\ Scanned /\ Written /\ Nodes /\ Started /\ UrgentFirst
    BY DEF BootInv, IInv
  <1>3. At \in Nat /\ At <= count /\ (At < count => ~disk.bees[At + 1].named)
    BY <1>1, <1>2, AtSlot
  <1>4. /\ T \in Nat /\ At <= T /\ T <= count
        /\ \A x \in 1 .. T : disk.bees[x].priority \in Nat /\ disk.bees[x].named
    BY <1>1, <1>2, Priorities DEF Nodes
  <1>5. At = T
    <2>1. ASSUME At < T PROVE FALSE
      <3>1. At + 1 \in 1 .. T /\ At < count
        BY <1>2, <1>3, <1>4, <2>1 DEF Scanned
      <3>. QED  BY <1>3, <1>4, <3>1
    <2>. QED  BY <1>3, <1>4, <2>1
  <1>6. s \in Nat /\ s' \in 0 .. PRIORITIES
    BY <1>1, <1>2, LoaderAssumption DEF Started
  <1>7. At' = 0
    <2>1. At' = Number(page', i')
      BY DEF At, Number
    <2>. QED  BY <1>1, <2>1, Numbering
  <1>8. \A x \in 1 .. T : Past(x)' <=> Past(x)
    <2>. SUFFICES ASSUME NEW x \in 1 .. T PROVE Past(x)' <=> Past(x)
      OBVIOUS
    <2>1. disk.bees[x].priority \in Nat
      BY <1>4
    <2>2. Past(x)' <=> disk.bees[x].priority < s + 1 \/ (disk.bees[x].priority = s + 1 /\ x <= At')
      BY <1>1 DEF Past
    <2>3. ~(x <= At') /\ x <= At
      BY <1>4, <1>5, <1>7
    <2>. HIDE DEF T
    <2>. QED  BY <1>6, <2>1, <2>2, <2>3 DEF Past
  <1>9. Bees' = Bees
    BY <1>1 DEF Bees
  <1>10. Nodes'
    BY <1>1, <1>2, <1>4, <1>7, <1>9 DEF Nodes
  <1>11. Started'
    <2>1. \A x : HasStarted(x)' <=> HasStarted(x)
      BY <1>1 DEF HasStarted
    <2>. QED  BY <1>1, <1>2, <1>6, <1>8, <1>9, <2>1 DEF Started
  <1>12. UrgentFirst'
    BY <1>1, <1>2 DEF UrgentFirst
  <1>. QED  BY <1>1, <1>2, <1>10, <1>11, <1>12, StaysRead

\* Every step keeps the invariant.
LEMMA BootInductive ==
    ASSUME MarkersApart, InDiskOrder
    PROVE  BootInv /\ [Next]_vars => BootInv'
  <1>. SUFFICES ASSUME BootInv, [Next]_vars PROVE BootInv'
    OBVIOUS
  <1>1. IInv'
    BY Inductive DEF BootInv
  <1>2. pc' \in {"scan", "lookup", "inits", "running", "done"}
    BY DEF BootInv, Next, Boot, Stay, vars, LoadBee, ScanEnds, AddNode, NextName, NodesDone,
           RunInit, NextPriority, BootEnds
  <1>. SUFFICES (Scanned /\ Written /\ Nodes /\ Started /\ UrgentFirst)'
    BY <1>1, <1>2 DEF BootInv
  <1>3. ASSUME NEW start \in {find_bee(last_end)},
               NEW end \in {find_bee(start + MAGIC) + MAGIC},
               LoadBee(start, end) \/ ScanEnds(start, end)
        PROVE  (Scanned /\ Written /\ Nodes /\ Started /\ UrgentFirst)'
    <2>1. start = find_bee(last_end) /\ end = find_bee(start + MAGIC) + MAGIC
      OBVIOUS
    <2>2. CASE LoadBee(start, end)
      BY <2>1, <2>2, LoadBeeReads
    <2>3. CASE ScanEnds(start, end)
      BY <2>1, <2>3, ScanEndsReads
    <2>. QED  BY <1>3, <2>2, <2>3
  <1>4. CASE AddNode
    BY <1>4, AddNodeReads
  <1>5. CASE NodesDone
    BY <1>5, NodesDoneReads
  <1>6. CASE RunInit
    BY <1>6, RunInitReads
  <1>7. CASE NextPriority
    BY <1>7, NextPriorityReads
  <1>8. CASE BootEnds
    <2>1. /\ pc = "inits" /\ pc' = "done"
          /\ UNCHANGED <<disk, pages, count, idNodes, page, i, s, inits>>
      BY <1>8 DEF BootEnds
    <2>2. Scanned /\ Written /\ Nodes /\ Started /\ UrgentFirst
      BY DEF BootInv
    <2>3. Nodes'
      BY <2>1, <2>2 DEF Nodes, Bees, At, Number
    <2>4. Started'
      BY <2>1, <2>2 DEF Started, Bees
    <2>5. UrgentFirst'
      BY <2>1, <2>2 DEF UrgentFirst
    <2>. QED  BY <2>1, <2>2, <2>3, <2>4, <2>5, StaysRead
  <1>9. CASE UNCHANGED vars
    <2>1. Scanned /\ Written /\ Nodes /\ Started /\ UrgentFirst
      BY DEF BootInv
    <2>2. Scanned' /\ Written'
      <3>1. \A k : Found(k)' = Found(k)
        BY <1>9, FoundStays DEF vars
      <3>. QED  BY <1>9, <2>1, <3>1 DEF vars, Scanned, Written, Bees, NameOf, Number
    <2>3. Nodes'
      BY <1>9, <2>1 DEF vars, Nodes, Bees, At, Number
    <2>4. Started' /\ UrgentFirst'
      BY <1>9, <2>1 DEF vars, Started, UrgentFirst, Bees, Past, HasStarted, At, Number
    <2>. QED  BY <2>2, <2>3, <2>4
  <1>. QED
    BY <1>3, <1>4, <1>5, <1>6, <1>7, <1>8, <1>9 DEF Next, Boot, Stay

\* So it always holds.
LEMMA BootInvariance ==
    ASSUME MarkersApart, InDiskOrder
    PROVE  Spec => []BootInv
  <1>1. Init => BootInv
    BY BootInitially
  <1>2. BootInv /\ [Next]_vars => BootInv'
    BY BootInductive
  <1>. QED  BY <1>1, <1>2, PTL DEF Spec

-----------------------------------------------------------------------------

\* The bees that can be got at are those with a node, once all nodes are there.
LEMMA ReachableNodes ==
    ASSUME InDiskOrder, BootInv, pc \notin {"scan", "lookup"}
    PROVE  Reachable = [k \in 1 .. Len(idNodes) |-> disk.bees[k]]
  <1>. DEFINE T == Len(idNodes)
              n == Len(disk.bees)
              lost == {x \in 1 .. n : ~disk.bees[x].named \/ ~Found(x)}
  <1>1. disk \in Disks /\ Scanned /\ Nodes
    BY DEF BootInv, IInv
  <1>2. T \in Nat /\ n \in Nat /\ count \in 0 .. n /\ T <= count
    BY <1>1, Priorities, InARow DEF Scanned, Nodes
  <1>3. \A x \in 1 .. T : disk.bees[x].named /\ Found(x)
    BY <1>1, <1>2 DEF Scanned, Nodes
  <1>4. T < count => ~disk.bees[T + 1].named
    BY <1>1 DEF Nodes
  <1>5. count < n => ~Found(count + 1)
    BY <1>1 DEF Scanned
  <1>6. disk.bees \in Seq(Range(disk.bees)) /\ disk.bees = [k \in 1 .. n |-> disk.bees[k]]
    <2>1. disk.bees \in Seq(Range(disk.bees))
      BY <1>1, DiskAssumption
    <2>. QED  BY <2>1
  <1>7. Lost = lost
    BY <1>6 DEF Lost
  <1>8. CASE T = n
    <2>1. lost = {}
      BY <1>3, <1>8
    <2>2. Lost = {}
      BY <1>7, <2>1
    <2>. QED  BY <1>6, <1>8, <2>2 DEF Reachable
  <1>9. CASE T < n
    <2>1. T + 1 \in lost
      <3>1. T + 1 \in 1 .. n /\ (T = count \/ T < count)
        BY <1>2, <1>9
      <3>. QED  BY <1>4, <1>5, <1>9, <3>1
    <2>2. \A x \in lost : T + 1 <= x
      <3>1. \A x \in lost : x \in 1 .. n /\ ~(x \in 1 .. T)
        BY <1>3
      <3>. HIDE DEF lost, T, n
      <3>. QED  BY <1>2, <3>1
    <2>3. lost \subseteq Nat
      OBVIOUS
    <2>. HIDE DEF lost
    <2>5. Min(lost) \in Nat /\ Min(lost) <= T + 1 /\ T + 1 <= Min(lost)
      BY <2>1, <2>2, <2>3, Smallest
    <2>. HIDE DEF T, n
    <2>6. Lost # {} /\ Min(Lost) - 1 = T
      BY <1>2, <1>7, <2>1, <2>5
    <2>7. Reachable = SubSeq(disk.bees, 1, T)
      BY <2>6 DEF Reachable
    <2>8. SubSeq(disk.bees, 1, T) = [k \in 1 .. T |-> disk.bees[k]]
      <3>. DEFINE cut == SubSeq(disk.bees, 1, T)
      <3>1. \A x \in 1 .. T : disk.bees[x] \in Range(disk.bees)
        <4>1. \A x \in 1 .. T : x \in 1 .. n
          BY <1>2
        <4>. QED  BY <1>6, <4>1 DEF Range
      <3>2. /\ cut \in Seq(Range(disk.bees))
            /\ Len(cut) = IF 1 <= T THEN T - 1 + 1 ELSE 0
            /\ \A x \in 1 .. (T - 1 + 1) : cut[x] = disk.bees[1 + x - 1]
        BY <1>2, <3>1, SubSeqProperties
      <3>3. Len(cut) = T
        BY <1>2, <3>2
      <3>4. T - 1 + 1 = T /\ \A x \in 1 .. T : 1 + x - 1 = x
        BY <1>2
      <3>5. \A x \in 1 .. T : cut[x] = disk.bees[x]
        BY <3>2, <3>4
      <3>. HIDE DEF cut
      <3>6. cut = [x \in 1 .. Len(cut) |-> cut[x]]
        BY <3>2
      <3>. QED  BY <3>3, <3>5, <3>6 DEF cut
    <2>. QED  BY <2>7, <2>8 DEF T
  <1>. QED  BY <1>2, <1>8, <1>9

\* Only the disk says which bees can be got at, and no step changes it.
LEMMA ReachableStays == UNCHANGED disk => UNCHANGED Reachable
  <1>. SUFFICES ASSUME UNCHANGED disk PROVE UNCHANGED Reachable
    OBVIOUS
  <1>1. \A k : Found(k)' = Found(k)
    BY FoundStays
  <1>2. Lost' = Lost
    BY <1>1 DEF Lost
  <1>. QED  BY <1>2 DEF Reachable

\* The step that starts a bee starts one whose turn it is, and every other step
\* starts none.
LEMMA StartsNext ==
    ASSUME MarkersApart, InDiskOrder, BootInv, [Next]_vars
    PROVE  [Order!Next]_(Order!vars)
  <1>1. UNCHANGED disk
    BY DEF Next, Boot, Stay, vars, LoadBee, ScanEnds, AddNode, NodesDone,
           RunInit, NextPriority, BootEnds
  <1>2. UNCHANGED Range(Reachable)
    BY <1>1, ReachableStays
  <1>3. CASE UNCHANGED inits
    <2>1. UNCHANGED Range(inits)
      BY <1>3
    <2>. QED  BY <1>2, <2>1 DEF Order!vars
  <1>4. CASE RunInit /\ ~(UNCHANGED inits)
    <2>1. /\ pc = "inits" /\ pages[page][i] # Empty
          /\ Due(pages[page][i]) /\ inits' = Append(inits, pages[page][i])
      BY <1>4 DEF RunInit
    <2>2. /\ At \in Nat /\ At < Len(idNodes) /\ pages[page][i] = disk.bees[At + 1]
          /\ ~HasStarted(At + 1)
      BY <2>1, NextInTurn
    <2>3. disk \in Disks /\ Scanned /\ Nodes /\ Started
      BY DEF BootInv, IInv
    <2>4. Len(idNodes) \in Nat /\ \A x \in 1 .. Len(idNodes) : disk.bees[x].priority \in Nat
      BY <2>3, Priorities
    <2>5. PICK a \in 1 .. Len(idNodes) : a = At + 1
      BY <2>2, <2>4
    <2>. DEFINE b == disk.bees[a]
    <2>6. Range(Reachable) = {disk.bees[x] : x \in 1 .. Len(idNodes)}
      <3>1. Reachable = [k \in 1 .. Len(idNodes) |-> disk.bees[k]]
        BY <2>1, ReachableNodes
      <3>. QED  BY <3>1 DEF Range
    <2>7. inits \in Seq(Bees)
      BY <2>3 DEF Started
    <2>8. Range(inits) = {inits[k] : k \in 1 .. Len(inits)}
      BY <2>7 DEF Range
    <2>9. b \in Range(Reachable) /\ b \notin Range(inits)
      BY <2>2, <2>5, <2>6, <2>8 DEF HasStarted
    <2>10. b.priority = s
      BY <2>1, <2>2, <2>5 DEF Due
    <2>11. s \in Nat
      BY <2>3 DEF Started
    <2>12. ASSUME NEW c \in Range(Reachable) \ Range(inits) PROVE b.priority <= c.priority
      <3>1. PICK x \in 1 .. Len(idNodes) : c = disk.bees[x]
        BY <2>6
      <3>2. ~HasStarted(x)
        BY <2>8, <2>12, <3>1 DEF HasStarted
      <3>3. ~Past(x)
        BY <2>1, <2>3, <3>2 DEF Started
      <3>4. ~(c.priority < s) /\ c.priority \in Nat
        BY <2>4, <3>1, <3>3 DEF Past
      <3>. QED  BY <2>10, <2>11, <3>4
    <2>13. Range(inits') = Range(inits) \cup {b}
      <3>1. b \in Bees
        BY <2>3, <2>5, Priorities, InARow DEF Bees
      <3>2. inits' = Append(inits, b)
        BY <2>1, <2>2, <2>5
      <3>. HIDE DEF b
      <3>3. /\ DOMAIN inits' = 1 .. (Len(inits) + 1) /\ inits'[Len(inits) + 1] = b
            /\ \A k \in 1 .. Len(inits) : inits'[k] = inits[k]
            /\ Len(inits) \in Nat
        BY <2>7, <3>1, <3>2, AppendProperties
      <3>. DEFINE l == Len(inits)
      <3>4. 1 .. (l + 1) = (1 .. l) \cup {l + 1}
        BY <3>3
      <3>. HIDE DEF l
      <3>. QED  BY <2>8, <3>3, <3>4 DEF Range, l
    <2>14. Order!Start(b)
      BY <1>2, <2>12, <2>13 DEF Order!Start, Order!Ready
    <2>. QED  BY <2>9, <2>14 DEF Order!Next
  <1>. QED
    BY <1>3, <1>4 DEF Next, Boot, Stay, vars, LoadBee, ScanEnds, AddNode, NodesDone,
                      NextPriority, BootEnds

-----------------------------------------------------------------------------

\* On no disk, however the bees lie on it and whatever cannot be read, does the
\* queen put anything in memory over something it has put there before.
THEOREM RegionsStayDisjoint ==
    ASSUME MarkersApart
    PROVE  Spec => []RegionsDisjoint
  <1>1. IInv => RegionsDisjoint
    BY DEF IInv, Laid, RegionsDisjoint
  <1>. QED  BY <1>1, Invariance, PTL

\* However many bees are registered, wherever the pages are full, neither walk
\* over the names takes for a name what was in memory before the page was.
THEOREM WalksEndInTime ==
    ASSUME MarkersApart
    PROVE  Spec => []NoJunkRead
  <1>1. IInv => NoJunkRead
    BY NotUnwritten DEF IInv, NoJunkRead
  <1>. QED  BY <1>1, Invariance, PTL

\* On every disk with its bees one behind the other the cursors stay on the pages,
\* and what lies in slots, nodes and the list of started bees are bees of the disk.
THEOREM LoaderStaysTyped ==
    ASSUME MarkersApart, InDiskOrder
    PROVE  Spec => []TypeOK
  <1>1. ASSUME BootInv PROVE TypeOK
    <2>1. IInv /\ Scanned /\ Written /\ Nodes /\ Started
      BY <1>1 DEF BootInv
    <2>2. pages \in Seq(Row) /\ Len(pages) \in Nat \ {0}
      BY <2>1 DEF IInv, Chain
    <2>3. DOMAIN pages = 1 .. Len(pages)
      BY <2>2
    <2>4. MEMORY \in Nat /\ last_end \in Nat /\ page \in 1 .. Len(pages) /\ i \in Slot
      BY <2>1 DEF IInv, NotPast
    <2>5. \A r \in regions : r.lo \in Nat /\ r.hi \in r.lo .. MEMORY
      BY <2>1, <2>4 DEF IInv, Laid
    <2>6. \A k \in DOMAIN idNodes : idNodes[k].bee \in Bees /\ idNodes[k].adr \in Nat
      <3>. DEFINE Node == [adr : Nat, bee : Bees]
      <3>1. idNodes \in Seq(Node)
        BY <2>1 DEF Nodes
      <3>2. \A k \in DOMAIN idNodes : idNodes[k] \in Node
        <4>. HIDE DEF Node
        <4>. QED  BY <3>1
      <3>. QED  BY <3>2
    <2>7. s \in 0 .. PRIORITIES /\ \A k \in DOMAIN inits : inits[k] \in Bees
      BY <2>1 DEF Started
    <2>8. \A p \in DOMAIN pages : \A j \in Slot : pages[p][j] \in Bees \cup {Junk, Empty}
      BY <2>1, <2>3 DEF Written
    <2>9. pc \in {"scan", "lookup", "inits", "running", "done"} /\ count \in 0 .. Len(disk.bees)
      BY <1>1 DEF BootInv, Scanned
    <2>10. page \in DOMAIN pages /\ Len(pages) > 0
      BY <2>2, <2>3, <2>4
    <2>. QED
      BY <2>4, <2>5, <2>6, <2>7, <2>8, <2>9, <2>10, Zenon DEF TypeOK
  <1>. QED  BY <1>1, BootInvariance, PTL

\* Whichever sectors of the disk are bad, wherever the bees straddle sectors and the
\* name pages fill up, the lookup array has the bees that can be got at, each once
\* and in disk order.
THEOREM LookupStaysComplete ==
    ASSUME MarkersApart, InDiskOrder
    PROVE  Spec => []LookupComplete
  <1>1. ASSUME BootInv PROVE LookupComplete
    <2>. SUFFICES ASSUME pc \in {"inits", "running", "done"}
                  PROVE  Reachable = [k \in DOMAIN idNodes |-> idNodes[k].bee]
      BY DEF LookupComplete
    <2>1. Nodes
      BY <1>1 DEF BootInv
    <2>2. DOMAIN idNodes = 1 .. Len(idNodes)
      BY <2>1 DEF Nodes
    <2>3. \A k \in 1 .. Len(idNodes) : idNodes[k].bee = disk.bees[k]
      BY <2>1 DEF Nodes
    <2>4. Reachable = [k \in 1 .. Len(idNodes) |-> disk.bees[k]]
      BY <1>1, ReachableNodes
    <2>. QED  BY <2>2, <2>3, <2>4
  <1>. QED  BY <1>1, BootInvariance, PTL

\* When every bee has a larger priority number than the bees it calls, run_inits
\* has called their init functions before its own, in whatever order the bees
\* lie on the disk.
THEOREM CalledAreReady ==
    ASSUME MarkersApart, InDiskOrder, PrioritiesSuffice
    PROVE  Spec => []DependenciesMet
  <1>1. ASSUME BootInv PROVE DependenciesMet
    <2>1. disk \in Disks /\ Scanned /\ Nodes /\ Started /\ UrgentFirst
      BY <1>1 DEF BootInv, IInv
    <2>2. inits \in Seq(Bees)
      BY <2>1 DEF Started
    <2>3. ASSUME NEW k \in DOMAIN inits, NEW b \in Range(Reachable), b.id \in inits[k].needs
          PROVE  \E j \in 1 .. (k - 1) : inits[j] = b
      <3>1. k \in 1 .. Len(inits)
        BY <2>2
      <3>2. PICK y \in 1 .. Len(idNodes) : inits[k] = disk.bees[y]
        BY <2>1, <3>1 DEF Started
      <3>3. pc \notin {"scan", "lookup"}
        BY <2>1, <3>1 DEF Started
      <3>4. Reachable = [x \in 1 .. Len(idNodes) |-> disk.bees[x]]
        BY <1>1, <3>3, ReachableNodes
      <3>5. PICK x \in 1 .. Len(idNodes) : b = disk.bees[x]
        BY <3>4 DEF Range
      <3>6. x \in DOMAIN disk.bees /\ y \in DOMAIN disk.bees
        BY <2>1, Priorities, InARow
      <3>7. disk.bees[x].priority < inits[k].priority
        BY <2>1, <2>3, <3>2, <3>5, <3>6 DEF PrioritiesSuffice
      <3>. QED  BY <2>1, <3>1, <3>5, <3>7 DEF UrgentFirst
    <2>. QED  BY <2>3 DEF DependenciesMet
  <1>. QED  BY <1>1, BootInvariance, PTL

\* The safety part of the refinement: every step of the boot starts no bee, or
\* one that BootOrder lets start.
THEOREM BootsInOrder ==
    ASSUME MarkersApart, InDiskOrder
    PROVE  Spec => Order!Init /\ [][Order!Next]_(Order!vars)
  <1>1. Init => Order!Init
    <2>. SUFFICES ASSUME Init PROVE Range(inits) = {}
      BY DEF Order!Init
    <2>. QED  BY DEF Init, Range
  <1>2. BootInv /\ [Next]_vars => [Order!Next]_(Order!vars)
    BY StartsNext
  <1>. QED  BY <1>1, <1>2, BootInvariance, PTL DEF Spec

-----------------------------------------------------------------------------
(* The boot comes to an end, and where.                                     *)

\* main is through with every bee, or has called an init function that stays.
Ended ==
    /\ pc = "done" => \A x \in 1 .. Len(idNodes) : HasStarted(x)
    /\ pc = "running" => inits # <<>> /\ ~inits[Len(inits)].returns

\* The invariant of the boot keeps this one.
LEMMA EndedKept ==
    ASSUME MarkersApart, InDiskOrder, BootInv, Ended, [Next]_vars
    PROVE  Ended'
  <1>1. disk \in Disks /\ Scanned /\ Nodes /\ Started
    BY DEF BootInv, IInv
  <1>2. CASE pc' \notin {"done", "running"}
    BY <1>2 DEF Ended
  <1>3. CASE BootEnds
    <2>1. pc = "inits" /\ s = PRIORITIES /\ pc' = "done" /\ UNCHANGED <<disk, idNodes, inits>>
      BY <1>3 DEF BootEnds
    <2>2. ASSUME NEW x \in 1 .. Len(idNodes) PROVE HasStarted(x)
      <3>1. x \in 1 .. Len(disk.bees) /\ disk.bees[x].priority \in Nat
        BY <1>1, Priorities
      <3>2. disk.bees[x].priority \in 0 .. (PRIORITIES - 1)
        BY <1>1, <3>1, InARow, DiskAssumption
      <3>3. Past(x)
        BY <2>1, <3>1, <3>2, LoaderAssumption DEF Past
      <3>. QED  BY <1>1, <2>1, <3>3 DEF Started
    <2>. QED  BY <2>1, <2>2 DEF Ended, HasStarted
  <1>4. CASE RunInit /\ pc' = "running"
    <2>. DEFINE b == pages[page][i]
    <2>1. /\ pc = "inits" /\ b # Empty /\ inits' = Append(inits, b) /\ ~b.returns
      BY <1>4 DEF RunInit
    <2>2. At \in Nat /\ At < Len(idNodes) /\ b = disk.bees[At + 1]
      BY <2>1, NextInTurn
    <2>3. b \in Bees
      <3>1. At + 1 \in 1 .. Len(idNodes)
        BY <1>1, <2>2, Priorities
      <3>. QED  BY <1>1, <2>2, <3>1, Priorities, InARow DEF Bees
    <2>. HIDE DEF b
    <2>4. inits \in Seq(Bees)
      BY <1>1 DEF Started
    <2>5. /\ inits' \in Seq(Bees) /\ Len(inits') = Len(inits) + 1 /\ inits'[Len(inits) + 1] = b
          /\ Len(inits) \in Nat
      BY <2>1, <2>3, <2>4, AppendProperties
    <2>6. inits' # <<>>
      BY <2>5
    <2>. QED  BY <1>4, <2>1, <2>5, <2>6 DEF Ended
  <1>5. CASE pc' = pc /\ UNCHANGED <<disk, idNodes, inits>>
    BY <1>5 DEF Ended, HasStarted
  <1>6. CASE RunInit /\ pc' # "running"
    <2>1. pc' \notin {"done", "running"}
      BY <1>6 DEF RunInit
    <2>. QED  BY <1>2, <2>1
  <1>7. CASE \E start, end : LoadBee(start, end) \/ ScanEnds(start, end)
    <2>1. pc' \notin {"done", "running"}
      BY <1>7 DEF LoadBee, ScanEnds
    <2>. QED  BY <1>2, <2>1
  <1>8. CASE AddNode \/ NodesDone
    <2>1. pc' \notin {"done", "running"}
      BY <1>8 DEF AddNode, NextName, NodesDone
    <2>. QED  BY <1>2, <2>1
  <1>. QED
    BY <1>3, <1>4, <1>5, <1>6, <1>7, <1>8 DEF Next, Boot, Stay, vars, NextPriority

\* Where the boot stays, it has started all bees that can be got at: main ends in its
\* while(1) behind the last of them only, unless the init function called last does not
\* return.
THEOREM AllAreStarted ==
    ASSUME MarkersApart, InDiskOrder
    PROVE  Spec => [](/\ pc = "done" => Range(inits) = Range(Reachable)
                      /\ pc = "running" => inits # <<>> /\ ~inits[Len(inits)].returns)
  <1>. DEFINE Goal == /\ pc = "done" => Range(inits) = Range(Reachable)
                      /\ pc = "running" => inits # <<>> /\ ~inits[Len(inits)].returns
  <1>1. Init => Ended
    BY DEF Init, Ended
  <1>2. BootInv /\ Ended /\ [Next]_vars => Ended'
    BY EndedKept
  <1>3. ASSUME BootInv, Ended PROVE Goal
    <2>1. ASSUME pc = "done" PROVE Range(inits) = Range(Reachable)
      <3>1. Started /\ Reachable = [k \in 1 .. Len(idNodes) |-> disk.bees[k]]
        BY <1>3, <2>1, ReachableNodes DEF BootInv
      <3>2. inits \in Seq(Bees)
        BY <3>1 DEF Started
      <3>3. Range(inits) = {inits[k] : k \in 1 .. Len(inits)}
        BY <3>2 DEF Range
      <3>4. Range(Reachable) = {disk.bees[x] : x \in 1 .. Len(idNodes)}
        BY <3>1 DEF Range
      <3>5. \A k \in 1 .. Len(inits) : \E x \in 1 .. Len(idNodes) : inits[k] = disk.bees[x]
        BY <3>1 DEF Started
      <3>6. \A x \in 1 .. Len(idNodes) : \E k \in 1 .. Len(inits) : inits[k] = disk.bees[x]
        BY <1>3, <2>1 DEF Ended, HasStarted
      <3>7. Range(inits) \subseteq Range(Reachable)
        BY <3>3, <3>4, <3>5
      <3>8. Range(Reachable) \subseteq Range(inits)
        BY <3>3, <3>4, <3>6
      <3>. QED  BY <3>7, <3>8
    <2>. QED  BY <1>3, <2>1 DEF Ended
  <1>. HIDE DEF Goal
  <1>4. Spec => []Goal
    BY <1>1, <1>2, <1>3, BootInvariance, PTL DEF Spec
  <1>. QED  BY <1>4 DEF Goal

\* The parts of the boot in their order.
Stage == [scan |-> 0, lookup |-> 1, inits |-> 2, running |-> 3, done |-> 3]

\* Each step reads another bee, goes on to another name, to the next priority or to the
\* next part of the boot; none of them has more than so many.
BootGoesOn ==
    /\ Stage[pc] \in 0 .. 3
    /\ \/ Stage[pc'] > Stage[pc] /\ Stage[pc'] <= 3
       \/ pc' = "scan" /\ pc = "scan" /\ count' = count + 1 /\ count' <= Len(disk.bees)
       \/ pc' = "lookup" /\ pc = "lookup" /\ At' = At + 1 /\ At' <= count
       \/ pc' = "inits" /\ pc = "inits" /\ s' = s /\ At' = At + 1 /\ At' <= count
       \/ pc' = "inits" /\ pc = "inits" /\ s' = s + 1 /\ s' <= PRIORITIES

\* The next name is that with the next number.
LEMMA NextNumber ==
    ASSUME BootInv, At \in Nat, At < count,
           \/ page' = page /\ i' = i + 1
           \/ page' = page + 1 /\ i' = 0 /\ ~(i + 1 < NAMES_PER_PAGE)
    PROVE  At' = At + 1 /\ At' <= count
  <1>1. Chain(pages, count) /\ NotPast /\ Scanned
    BY DEF BootInv, IInv
  <1>2. Number(page, i + 1) = At + 1 /\ (i + 1 < NAMES_PER_PAGE \/ Number(page + 1, 0) = At + 1)
    BY <1>1, Onward
  <1>3. At' = Number(page', i')
    BY DEF At, Number
  <1>4. count \in Int
    BY <1>1 DEF Scanned
  <1>5. At' = At + 1
    BY <1>2, <1>3
  <1>. QED  BY <1>4, <1>5

\* Each step of the boot goes on.
LEMMA BootStepGoesOn ==
    ASSUME MarkersApart, InDiskOrder, BootInv, Boot
    PROVE  BootGoesOn
  <1>1. /\ disk \in Disks /\ Chain(pages, count) /\ NotPast
        /\ Scanned /\ Written /\ Nodes /\ Started
        /\ pc \in {"scan", "lookup", "inits", "running", "done"}
    BY DEF BootInv, IInv
  <1>2. /\ Stage["scan"] = 0 /\ Stage["lookup"] = 1 /\ Stage["inits"] = 2
        /\ Stage["running"] = 3 /\ Stage["done"] = 3 /\ Stage[pc] \in 0 .. 3
    BY <1>1 DEF Stage
  <1>3. ASSUME NEW start \in {find_bee(last_end)},
               NEW end \in {find_bee(start + MAGIC) + MAGIC},
               LoadBee(start, end)
        PROVE  BootGoesOn
    <2>1. /\ pc = "scan" /\ pc' = "scan" /\ count' = count + 1 /\ start # 0 /\ Readable(start, end)
      BY <1>3 DEF LoadBee
    <2>2. count < Len(disk.bees)
      BY <1>1, <2>1, NextFound
    <2>3. count + 1 <= Len(disk.bees)
      BY <1>1, <2>2, InARow DEF Scanned
    <2>. QED  BY <1>2, <2>1, <2>3 DEF BootGoesOn
  <1>4. ASSUME NEW start, NEW end, ScanEnds(start, end) PROVE BootGoesOn
    BY <1>2, <1>4 DEF ScanEnds, BootGoesOn
  <1>5. CASE AddNode
    <2>1. /\ pc = "lookup" /\ pages[page][i] # Empty /\ NextName
      BY <1>5 DEF AddNode
    <2>2. At \in Nat /\ At < count
      BY <1>1, <2>1, AtSlot
    <2>3. \/ pc' = "inits"
          \/ pc' = "lookup" /\ \/ page' = page /\ i' = i + 1
                               \/ page' = page + 1 /\ i' = 0 /\ ~(i + 1 < NAMES_PER_PAGE)
      BY <2>1 DEF NextName
    <2>4. CASE pc' = "inits"
      BY <1>2, <2>1, <2>4 DEF BootGoesOn
    <2>5. CASE pc' = "lookup"
      <3>1. At' = At + 1 /\ At' <= count
        BY <2>2, <2>3, <2>5, NextNumber
      <3>. QED  BY <1>2, <2>1, <2>5, <3>1 DEF BootGoesOn
    <2>. QED  BY <2>3, <2>4, <2>5
  <1>6. CASE NodesDone
    BY <1>2, <1>6 DEF NodesDone, BootGoesOn
  <1>7. s \in Nat /\ PRIORITIES \in Nat
    BY <1>1, LoaderAssumption DEF Started
  <1>8. CASE RunInit
    <2>1. /\ pc = "inits" /\ pages[page][i] # Empty /\ s < PRIORITIES
          /\ pc' = "running" \/ (pc' = "inits" /\ Advance)
      BY <1>8 DEF RunInit
    <2>2. At \in Nat /\ At < count
      BY <1>1, <2>1, AtSlot
    <2>3. CASE pc' = "running"
      BY <1>2, <2>1, <2>3 DEF BootGoesOn
    <2>4. CASE pc' = "inits" /\ s' = s + 1
      BY <1>2, <1>7, <2>1, <2>4 DEF BootGoesOn
    <2>5. CASE pc' = "inits" /\ Advance /\ s' # s + 1
      <3>1. s' = s /\ \/ page' = page /\ i' = i + 1
                      \/ page' = page + 1 /\ i' = 0 /\ ~(i + 1 < NAMES_PER_PAGE)
        BY <2>5 DEF Advance
      <3>2. At' = At + 1 /\ At' <= count
        BY <2>2, <3>1, NextNumber
      <3>. QED  BY <1>2, <2>1, <2>5, <3>1, <3>2 DEF BootGoesOn
    <2>. QED  BY <2>1, <2>3, <2>4, <2>5
  <1>9. CASE NextPriority
    BY <1>2, <1>7, <1>9 DEF NextPriority, BootGoesOn
  <1>10. CASE BootEnds
    BY <1>2, <1>10 DEF BootEnds, BootGoesOn
  <1>. QED  BY <1>3, <1>4, <1>5, <1>6, <1>8, <1>9, <1>10 DEF Boot

\* No part of the boot goes in a circle, on whatever disk: neither the search for bees,
\* which goes on behind the one it has read, nor the walks over the names, whose pages may
\* all be full.  It is the variant behind the promise of BootOrder that all bees are
\* started.
THEOREM BootsWithoutCircle ==
    ASSUME MarkersApart, InDiskOrder
    PROVE  Spec => [][BootGoesOn]_vars
  <1>1. BootInv /\ [Next]_vars => [BootGoesOn]_vars
    BY BootStepGoesOn DEF Next, Stay
  <1>. QED  BY <1>1, BootInvariance, PTL DEF Spec

=============================================================================
