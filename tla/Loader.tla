------------------------------- MODULE Loader -------------------------------
(***************************************************************************)
(* The boot of the queen (queen/main.c, main and the functions it calls).  *)
(* It reads the disk sector by sector for the magic numbers that start and *)
(* end a bee, loads each bee at the bump pointer MEMORY, records it on a   *)
(* chain of name pages, builds the lookup array and calls the bees' init   *)
(* functions in order of priority.  Nothing else runs meanwhile, so a step *)
(* is one iteration of the loop the queen is in.                           *)
(*                                                                         *)
(* Byte addresses, sizes and sector numbers are the real ones.             *)
(***************************************************************************)
EXTENDS Integers, Sequences, FiniteSetsExt, SequencesExt

CONSTANTS
    SECTOR,         \* bytes per sector, name page and rounding step: 512
    MAGIC,          \* bytes of the magic number: 4
    MEMORY_START,   \* first value of MEMORY: 16 KB
    CELL,           \* CORE_GLOBAL_MEMORY, 0x6000
    NAMES_PER_PAGE, \* 14 in the code
    PRIORITIES,     \* number of priorities, 256 in the code
    SEARCH_LIMIT,   \* sectors a search for a magic number looks at: 1024 * 100
    MAX_BEES,       \* places in idNodes: 1024
    Disks,          \* the disks to boot from
    Junk,           \* a slot nobody has written
    Empty           \* a slot with an empty name: the end of the names

\* A disk is a number of sectors, the set of those that cannot be read, and a
\* sequence of bees.  Of a bee the record has where it starts (at) and how many
\* bytes long it is with both magic numbers (size); from its metadata id,
\* priority, the ids of its exports and whether it is named; of its init
\* function, whether it returns and the ids of the bees it calls (needs).
ASSUME LoaderAssumption ==
    /\ SECTOR \in Nat \ {0} /\ MAGIC \in 1 .. SECTOR
    /\ MEMORY_START \in Nat /\ CELL \in Nat
    /\ NAMES_PER_PAGE \in Nat \ {0} /\ 36 * NAMES_PER_PAGE + 8 <= SECTOR
    /\ PRIORITIES \in Nat \ {0}
    /\ SEARCH_LIMIT \in Nat \ {0} /\ MAX_BEES \in Nat

\* The boot sector and the second stage lie in front of the first bee.  A bee is
\* as long as its two magic numbers at least, and one of its exports, if it has
\* any, has the largest id.  There are no more bees than idNodes has places for:
\* setupLookupArray does not check it, and would write past the array.
ASSUME DiskAssumption ==
    \A d \in Disks :
        /\ d.sectors \in Nat
        /\ d.bees \in Seq(Range(d.bees)) /\ Len(d.bees) <= MAX_BEES
        /\ \A k \in DOMAIN d.bees :
              LET b == d.bees[k]
              IN  /\ b.at \in Nat /\ b.at >= 2 * SECTOR
                  /\ b.size \in Nat /\ b.size >= 2 * MAGIC
                  /\ b.priority \in 0 .. (PRIORITIES - 1)
                  /\ b.exports \in Seq(Nat)
                  /\ b.exports = <<>> \/ \E j \in DOMAIN b.exports :
                        \A n \in DOMAIN b.exports : b.exports[j] >= b.exports[n]

\* The bees of a disk are listed in the order in which they lie on it, one behind
\* the other.
InDiskOrder ==
    \A d \in Disks : \A k, j \in DOMAIN d.bees :
        k < j => d.bees[k].at + d.bees[k].size <= d.bees[j].at

\* A bee has a larger priority number than those its init function calls.
PrioritiesSuffice ==
    \A d \in Disks : \A k, j \in DOMAIN d.bees :
        d.bees[j].id \in d.bees[k].needs => d.bees[j].priority < d.bees[k].priority

VARIABLES
    disk,     \* the disk in the drive
    MEMORY,   \* the bump pointer
    last_end, \* static local of BEE_SCAN_AND_LOAD
    pages,    \* the chain of name pages from page0 on, each a row of slots
    count,    \* local pageIndex of main: names registered so far
    idNodes,  \* the nodes of the lookup array
    regions,  \* what the queen has put in memory: kind and bytes [lo, hi)
    pc,       \* the loop the queen is in
    page, i,  \* cursor into the name pages: page number from 1, slot from 0
    s,        \* the priority run_inits is at
    inits     \* the bees whose init function has been called, in order

vars == <<disk, MEMORY, last_end, pages, count, idNodes, regions, pc, page, i, s, inits>>

Slot == 0 .. (NAMES_PER_PAGE - 1)

Bees == {disk.bees[k] : k \in DOMAIN disk.bees}

Piece(k, lo, hi) == [kind |-> k, lo |-> lo, hi |-> hi]

RoundUp(n) == ((n + SECTOR - 1) \div SECTOR) * SECTOR

-----------------------------------------------------------------------------
(* Reading the disk.                                                        *)

Marks == UNION {{b.at, b.at + b.size - MAGIC} : b \in Bees}

\* ata_read_sector_safe succeeds: the sector is on the disk and not bad.
Good(q) == q < disk.sectors /\ q \notin disk.bad

\* The sector of the byte m is one of those a search that starts at a looks at.
InLimit(a, m) == m \div SECTOR < a \div SECTOR + SEARCH_LIMIT

\* A mutant that takes no notice of a bad sector.
find_bee_blind(a) ==
    LET hits == {m \in Marks : m >= a /\ InLimit(a, m)}
    IN  IF hits = {} THEN 0 ELSE Min(hits)

\* The first magic number at or after the byte a and within the limit, or 0.  From
\* a on the sectors are read in pairs, so the one behind the number must be good, too.
find_bee(a) ==
    LET hits == {m \in Marks : /\ m >= a /\ InLimit(a, m)
                             /\ \A q \in (a \div SECTOR) .. (m \div SECTOR + 1) : Good(q)}
    IN  IF hits = {} THEN 0 ELSE Min(hits)

\* A mutant that does not remember where the bee it has read ends.
Resume_start(start, end) == start + MAGIC

\* Where the search for the next bee starts: at the end of this one.
Resume(start, end) == end

\* The first sector of a bee, and the first one behind it.
SectorStart(start) == start \div SECTOR
SectorEnd(end)     == RoundUp(end) \div SECTOR

\* All sectors of the bee can be read.  Their number is unsigned: without an
\* end magic number, end is MAGIC, the number wraps around and the loop reads
\* on until it is past the end of the disk.
Readable(start, end) ==
    /\ SectorStart(start) <= SectorEnd(end)
    /\ \A q \in SectorStart(start) .. (SectorEnd(end) - 1) : Good(q)

\* From a magic number that ends a bee, the queen would read metadata of no bee
\* on the disk.
NoBee(a) == [at |-> a, size |-> 0, id |-> 0, named |-> TRUE, priority |-> 0,
             exports |-> <<>>, returns |-> TRUE, needs |-> {}]

\* The bee whose first byte is at a.
BeeAt(a) ==
    IF \E b \in Bees : b.at = a THEN CHOOSE b \in Bees : b.at = a ELSE NoBee(a)

\* What stands for a slot that nobody has written, or for the end of the names,
\* is nothing that is ever written as a name.
MarkersApart ==
    /\ Junk # Empty
    /\ \A a \in Nat : NoBee(a) # Junk
    /\ \A d \in Disks : \A k \in DOMAIN d.bees : d.bees[k] \notin {Junk, Empty}

-----------------------------------------------------------------------------
(* Name pages, data pages and nodes.                                        *)

\* What a copy of the name of b makes of its slot.
NameOf(b) == IF b.named THEN b ELSE Empty

NewPage == [j \in Slot |-> Junk]

\* A mutant that leaves the slot after the new name as it was.
addNameToPage_open(ps, index, b) ==
    LET p == index \div NAMES_PER_PAGE + 1
        all == IF p > Len(ps) THEN Append(ps, NewPage) ELSE ps
        n == index % NAMES_PER_PAGE
    IN  [all EXCEPT ![p] = [j \in Slot |-> IF j = n THEN NameOf(b) ELSE @[j]]]

\* The pages ps with the name number index written, on a fresh page if the last
\* one is full, and the slot behind it emptied if it is on the same page.
addNameToPage(ps, index, b) ==
    LET p == index \div NAMES_PER_PAGE + 1
        all == IF p > Len(ps) THEN Append(ps, NewPage) ELSE ps
        n == index % NAMES_PER_PAGE
    IN  [all EXCEPT ![p] = [j \in Slot |-> IF j = n THEN NameOf(b)
                                           ELSE IF j = n + 1 THEN Empty ELSE @[j]]]

\* Bytes of a name page: its names, each with a pointer, and two words.
PAGE_SIZE == 36 * NAMES_PER_PAGE + 8

\* Bytes of a data page: the fixed part and the exports.
DataSize(b) == 18 + 8 * Len(b.exports)

\* Bytes by which makeBeeData and addNameToPage move MEMORY.
DataStep_unrounded(b) == (DataSize(b) \div SECTOR) * SECTOR
DataStep(b) == RoundUp(DataSize(b))

MAX_ID(b) == IF b.exports = <<>> THEN -1 ELSE Max({b.exports[k] : k \in DOMAIN b.exports})

\* Bytes of struct idNode with its funcs, and by how much MEMORY moves for it.
NodeSize(b) == 28 + 4 * (MAX_ID(b) + 1)
NodeStep_short(b) == MAX_ID(b) * 4 + 4 + 16 + 4 + 4
NodeStep(b) == (MAX_ID(b) + 1) * 4 + 4 + 16 + 4 + 4

-----------------------------------------------------------------------------

Init == /\ disk \in Disks
        /\ MEMORY = MEMORY_START + SECTOR
        /\ last_end = SECTOR
        /\ pages = <<[NewPage EXCEPT ![0] = Empty]>>
        /\ count = 0
        /\ idNodes = <<>>
        /\ regions = {Piece("page", MEMORY_START, MEMORY_START + PAGE_SIZE)}
        /\ pc = "scan"
        /\ page = 1
        /\ i = 0
        /\ s = 0
        /\ inits = <<>>

\* One iteration of main's loop: BEE_SCAN_AND_LOAD has found a bee and reads
\* it to MEMORY, makeBeeData copies its metadata to a data page, addNameToPage
\* registers its name.
LoadBee(start, end) ==
    /\ pc = "scan"
    /\ start # 0
    /\ Readable(start, end)
    /\ LET b     == BeeAt(start)
           buf   == MEMORY
           data  == buf + SECTOR * (SectorEnd(end) - SectorStart(start))
           names == data + DataStep(b)
           more  == Len(addNameToPage(pages, count, b)) > Len(pages)
       IN  /\ regions' = regions \cup {Piece("image", buf, data),
                                       Piece("data", data, data + DataSize(b))}
                            \cup (IF more THEN {Piece("page", names, names + PAGE_SIZE)} ELSE {})
           /\ MEMORY' = IF more THEN names + SECTOR ELSE names
           /\ pages' = addNameToPage(pages, count, b)
    /\ count' = count + 1
    /\ last_end' = Resume(start, end)
    /\ UNCHANGED <<disk, idNodes, pc, page, i, s, inits>>

\* No further bee, or a sector that cannot be read: main leaves the loop.
ScanEnds(start, end) ==
    /\ pc = "scan"
    /\ start = 0 \/ ~Readable(start, end)
    /\ last_end' = IF start = 0 THEN last_end ELSE Resume(start, end)
    /\ pc' = "lookup"
    /\ UNCHANGED <<disk, MEMORY, pages, count, idNodes, regions, page, i, s, inits>>

\* A mutant that does not follow the chain of pages.
NextName_onPage ==
    IF i + 1 < NAMES_PER_PAGE THEN i' = i + 1 /\ UNCHANGED <<page, pc>>
    ELSE i' = 0 /\ page' = 1 /\ pc' = "inits"

\* setupLookupArray moves to the next slot; a full page is followed by the next
\* page, if there is one.
NextName ==
    IF i + 1 < NAMES_PER_PAGE THEN i' = i + 1 /\ UNCHANGED <<page, pc>>
    ELSE /\ i' = 0
         /\ IF page < Len(pages) THEN page' = page + 1 /\ UNCHANGED pc
                                 ELSE page' = 1 /\ pc' = "inits"

\* One name of setupLookupArray.
AddNode ==
    /\ pc = "lookup"
    /\ pages[page][i] # Empty
    /\ LET b == pages[page][i]
       IN  /\ idNodes' = Append(idNodes, [adr |-> MEMORY, bee |-> b])
           /\ regions' = regions \cup {Piece("node", MEMORY, MEMORY + NodeSize(b))}
           /\ MEMORY' = MEMORY + NodeStep(b)
    /\ NextName
    /\ UNCHANGED <<disk, last_end, pages, count, s, inits>>

\* The names end on a page that is not full.
NodesDone ==
    /\ pc = "lookup"
    /\ pages[page][i] = Empty
    /\ pc' = "inits"
    /\ page' = 1
    /\ i' = 0
    /\ UNCHANGED <<disk, MEMORY, last_end, pages, count, idNodes, regions, s, inits>>

\* A mutant of the test of run_inits that lets everybody go at once, and the
\* test.
DueAtOnce(b) == b.priority >= s
Due(b)       == b.priority = s

\* A mutant that runs past the end of a full page, and one that stops there.
AdvanceFar ==
    IF i < NAMES_PER_PAGE THEN i' = i + 1 /\ UNCHANGED <<page, s>>
    ELSE /\ i' = 0
         /\ IF page < Len(pages) THEN page' = page + 1 /\ UNCHANGED s
                                 ELSE page' = 1 /\ s' = s + 1
AdvanceOnPage ==
    IF i + 1 < NAMES_PER_PAGE THEN i' = i + 1 /\ UNCHANGED <<page, s>>
    ELSE i' = 0 /\ page' = 1 /\ s' = s + 1

\* run_inits moves to the next slot, the next page or the next priority.
Advance ==
    IF i + 1 < NAMES_PER_PAGE THEN i' = i + 1 /\ UNCHANGED <<page, s>>
    ELSE /\ i' = 0
         /\ IF page < Len(pages) THEN page' = page + 1 /\ UNCHANGED s
                                 ELSE page' = 1 /\ s' = s + 1

\* run_inits looks at a name and calls its init function if it is its turn.
\* An init function that does not return is the last one called.
RunInit ==
    /\ pc = "inits"
    /\ s < PRIORITIES
    /\ pages[page][i] # Empty
    /\ LET b == pages[page][i]
       IN  IF Due(b)
           THEN /\ inits' = Append(inits, b)
                /\ IF b.returns THEN Advance /\ UNCHANGED pc
                                ELSE pc' = "running" /\ UNCHANGED <<page, i, s>>
           ELSE Advance /\ UNCHANGED <<pc, inits>>
    /\ UNCHANGED <<disk, MEMORY, last_end, pages, count, idNodes, regions>>

NextPriority ==
    /\ pc = "inits"
    /\ s < PRIORITIES
    /\ pages[page][i] = Empty
    /\ s' = s + 1
    /\ page' = 1
    /\ i' = 0
    /\ UNCHANGED <<disk, MEMORY, last_end, pages, count, idNodes, regions, pc, inits>>

\* Every init function has returned: main ends in its while(1).
BootEnds ==
    /\ pc = "inits"
    /\ s = PRIORITIES
    /\ pc' = "done"
    /\ UNCHANGED <<disk, MEMORY, last_end, pages, count, idNodes, regions, page, i, s, inits>>

\* Where the queen stays for good.
Stay == pc \in {"running", "done"} /\ UNCHANGED vars

Boot == \/ \E start \in {find_bee(last_end)} : \E end \in {find_bee(start + MAGIC) + MAGIC} :
              LoadBee(start, end) \/ ScanEnds(start, end)
        \/ AddNode \/ NodesDone
        \/ RunInit \/ NextPriority \/ BootEnds

Next == Boot \/ Stay

Spec == Init /\ [][Next]_vars

\* The processor goes on executing the boot.
FairSpec == Spec /\ WF_vars(Boot)

-----------------------------------------------------------------------------
(* Properties.                                                              *)

\* The cursors stay on the pages, and MEMORY behind everything loaded.
TypeOK ==
    /\ MEMORY \in Nat /\ last_end \in Nat
    /\ Len(pages) > 0
    /\ \A p \in DOMAIN pages : \A j \in Slot : pages[p][j] \in Bees \cup {Junk, Empty}
    /\ count \in 0 .. Len(disk.bees)
    /\ \A k \in DOMAIN idNodes : idNodes[k].bee \in Bees /\ idNodes[k].adr \in Nat
    /\ \A r \in regions : r.lo \in Nat /\ r.hi \in r.lo .. MEMORY
    /\ pc \in {"scan", "lookup", "inits", "running", "done"}
    /\ page \in DOMAIN pages /\ i \in Slot
    /\ s \in 0 .. PRIORITIES
    /\ \A k \in DOMAIN inits : inits[k] \in Bees

\* Nothing the queen puts in memory overlaps anything else it has put there:
\* what an image, page or node takes up and what MEMORY is moved by agree.
RegionsDisjoint ==
    \A r, q \in regions : r # q => r.hi <= q.lo \/ q.hi <= r.lo

\* Every sector up to the one behind the bee's end is good.
Whole(b) == \A q \in 1 .. ((b.at + b.size - MAGIC) \div SECTOR + 1) : Good(q)

\* Where the bee before bee number k ends.
From(k) == IF k = 1 THEN SECTOR ELSE disk.bees[k - 1].at + disk.bees[k - 1].size

\* Bee number k is whole, and neither the gap in front of it nor the bee itself is
\* longer than a search.
Found(k) ==
    LET b == disk.bees[k]
    IN  Whole(b) /\ InLimit(From(k), b.at) /\ InLimit(b.at + MAGIC, b.at + b.size - MAGIC)

\* The bees on the disk that the queen can get at: those in front of the first one
\* that is not found or has no name.  That a bee in the last sectors is lost, and all
\* bees from an unnamed one on, is what the code does and is taken over from it here.
Lost      == {k \in DOMAIN disk.bees : ~disk.bees[k].named \/ ~Found(k)}
Reachable == IF Lost = {} THEN disk.bees ELSE SubSeq(disk.bees, 1, Min(Lost) - 1)

\* Walking the pages, setupLookupArray and run_inits never take for a name
\* what was in memory before the page was: the name that ends a walk has been
\* written or the page is full.
NoJunkRead ==
    pc = "lookup" \/ (pc = "inits" /\ s < PRIORITIES) => pages[page][i] # Junk

\* Whatever the order of the bees on the disk, wherever they straddle sectors
\* and page boundaries fall, and whichever sector is bad, the lookup array has a
\* node for each bee that can be got at, once and in disk order, and no other.
LookupComplete ==
    pc \in {"inits", "running", "done"} =>
        Reachable = [k \in DOMAIN idNodes |-> idNodes[k].bee]

\* When the init function of a bee is called, those of the bees it calls have
\* returned, if they are there: the priorities the bees carry are enough, in any
\* order on the disk.
DependenciesMet ==
    \A k \in DOMAIN inits, b \in Range(Reachable) :
        b.id \in inits[k].needs => \E j \in 1 .. (k - 1) : inits[j] = b

\* The queen starts the bees as BootOrder promises: each once, the urgent ones
\* first, and all that can be got at in the end.
Order == INSTANCE BootOrder WITH
             bees    <- Range(Reachable),
             started <- Range(inits)

ImplementsBootOrder == Order!Spec

\* The word in which main leaves the address of the interrupt handler for the
\* bees is not part of anything loaded.
CellApart ==
    pc # "scan" => \A r \in regions : r.hi <= CELL \/ CELL + 4 <= r.lo
=============================================================================
