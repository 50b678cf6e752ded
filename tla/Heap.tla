-------------------------------- MODULE Heap --------------------------------
(***************************************************************************)
(* The memory-manager bee (bees/memory/memory.c): a first-fit heap of      *)
(* fixed-size units.  Every block starts with a header {units, free, next} *)
(* and the headers form a singly linked list that starts at global->heap.  *)
(* kmalloc walks the list one header at a time and splits the block it     *)
(* takes; kfree merges a block with its successor, walks the list again to *)
(* find its predecessor and merges with that one.                          *)
(*                                                                         *)
(* A pointer is the number of the unit it points to, counted from          *)
(* global->heap, which is unit 0.  Null stands for the null pointer; it is *)
(* the number of the unit after the heap, where no block can start.        *)
(***************************************************************************)
EXTENDS Integers

CONSTANTS HEAP_TOTAL_UNITS, \* HEAP_SIZE / UNIT_SIZE, 16384 in the code
          UNIT_SIZE,        \* bytes per unit, 64 in the code
          HEADER_SIZE,      \* sizeof(heap_block_t), 8 in the code
          UNIT_WIDTH,       \* values of a uint16_t, 2^16
          BYTE_WIDTH,       \* values of a uint32_t, 2^32
          Sizes             \* the byte counts callers ask for

\* The second conjunct is the _Static_assert of memory.c, the third one says
\* that HEAP_TOTAL_UNITS can be stored in heap_block_t.units.
ASSUME HeapAssumption ==
    /\ HEAP_TOTAL_UNITS \in Nat \ {0}
    /\ UNIT_SIZE \in Nat \ {0} /\ HEADER_SIZE \in 0 .. (UNIT_SIZE - 1)
    /\ UNIT_WIDTH \in Nat /\ HEAP_TOTAL_UNITS < UNIT_WIDTH
    /\ BYTE_WIDTH \in Nat \ {0}
    /\ Sizes \subseteq 0 .. (BYTE_WIDTH - 1)

VARIABLES
    hdr,   \* the headers on the list, by unit
    pc,    \* where the bee is: idle, in kmalloc's or kfree's loop, or stuck
    cur,   \* local cur of kmalloc and kfree
    last,  \* local last of kfree
    block, \* local block of kfree
    size,  \* args[0] of the kmalloc in progress
    ret,   \* the pointer the last kmalloc stored in *data
    held   \* what callers hold: pointer -> the size they asked for

vars == <<hdr, pc, cur, last, block, size, ret, held>>

Null   == HEAP_TOTAL_UNITS
Unit   == 0 .. (HEAP_TOTAL_UNITS - 1)
Header == [units : 0 .. (UNIT_WIDTH - 1), free : BOOLEAN, next : Unit \cup {Null}]

-----------------------------------------------------------------------------
(* bytes_to_units: the sum is a uint32_t, the result a uint16_t.            *)

\* A mutant that forgets the header.
bytes_to_units_no_header(n) == ((n + UNIT_SIZE - 1) \div UNIT_SIZE) % UNIT_WIDTH

bytes_to_units(n) ==
    LET total == (n + HEADER_SIZE) % BYTE_WIDTH
    IN  (((total + UNIT_SIZE - 1) % BYTE_WIDTH) \div UNIT_SIZE) % UNIT_WIDTH

\* The test of kmalloc's loop.
FitsStrictly(b, n) == hdr[b].free /\ hdr[b].units > n
Fits(b, n)         == hdr[b].free /\ hdr[b].units >= n

-----------------------------------------------------------------------------
(* How the handlers rewrite the list.                                       *)

\* A mutant that computes the address of the rest in the wrong unit.
CarveUnscaled(b, n) ==
    [x \in DOMAIN hdr \cup {b + n * UNIT_SIZE} |->
        IF x = b THEN [units |-> n, free |-> FALSE, next |-> b + n * UNIT_SIZE]
        ELSE IF x = b + n * UNIT_SIZE
        THEN [units |-> (hdr[b].units - n) % UNIT_WIDTH, free |-> TRUE, next |-> hdr[b].next]
        ELSE hdr[x]]

\* A mutant whose split forgets the blocks behind the one it takes.
CarveLosingTail(b, n) ==
    [x \in {y \in DOMAIN hdr : y <= b} \cup {b + n} |->
        IF x = b THEN [units |-> n, free |-> FALSE, next |-> b + n]
        ELSE IF x = b + n
        THEN [units |-> (hdr[b].units - n) % UNIT_WIDTH, free |-> TRUE, next |-> Null]
        ELSE hdr[x]]

\* kmalloc takes the first n units of the larger block b, and what is left
\* of b becomes a free block of its own.
Carve(b, n) ==
    [x \in DOMAIN hdr \cup {b + n} |->
        IF x = b THEN [units |-> n, free |-> FALSE, next |-> b + n]
        ELSE IF x = b + n
        THEN [units |-> (hdr[b].units - n) % UNIT_WIDTH, free |-> TRUE, next |-> hdr[b].next]
        ELSE hdr[x]]

\* The list h after block b has swallowed the block c that follows it.  The
\* header of c is no longer on the list.
Absorb(h, b, c) ==
    [x \in DOMAIN h \ {c} |->
        IF x = b
        THEN [h[b] EXCEPT !.units = (@ + h[c].units) % UNIT_WIDTH, !.next = h[c].next]
        ELSE h[x]]

FreeFlagOnly(b) == [hdr EXCEPT ![b].free = TRUE]

\* The first half of kfree: mark b free and merge it with a free successor.
MarkFree(b) ==
    LET h == [hdr EXCEPT ![b].free = TRUE]
        n == h[b].next
    IN  IF n # Null /\ h[n].free THEN Absorb(h, b, n) ELSE h

-----------------------------------------------------------------------------

\* The heap as bee_init leaves it: one free block of HEAP_TOTAL_UNITS units.
Init == /\ hdr = [b \in {0} |-> [units |-> HEAP_TOTAL_UNITS, free |-> TRUE, next |-> Null]]
        /\ pc = "idle"
        /\ cur = Null
        /\ last = Null
        /\ block = Null
        /\ size = 0
        /\ ret = Null
        /\ held = [b \in {} |-> 0]

\* kmalloc(0) answers with the null pointer.
kmalloc_zero == /\ pc = "idle"
                /\ 0 \in Sizes
                /\ ret' = Null
                /\ UNCHANGED <<hdr, pc, cur, last, block, size, held>>

kmalloc_enter(n) == /\ pc = "idle"
                    /\ n # 0
                    /\ size' = n
                    /\ cur' = 0
                    /\ pc' = "walk"
                    /\ UNCHANGED <<hdr, last, block, ret, held>>

\* A mutant that moves on from free blocks only.
kmalloc_next_free == /\ pc = "walk"
                     /\ cur # Null
                     /\ ~Fits(cur, bytes_to_units(size))
                     /\ cur' = IF hdr[cur].free THEN hdr[cur].next ELSE cur
                     /\ UNCHANGED <<hdr, pc, last, block, size, ret, held>>

kmalloc_next == /\ pc = "walk"
                /\ cur # Null
                /\ ~Fits(cur, bytes_to_units(size))
                /\ cur' = hdr[cur].next
                /\ UNCHANGED <<hdr, pc, last, block, size, ret, held>>

kmalloc_take == /\ pc = "walk"
                /\ cur # Null
                /\ Fits(cur, bytes_to_units(size))
                /\ LET n == bytes_to_units(size)
                   IN hdr' = IF hdr[cur].units > n
                             THEN Carve(cur, n)
                             ELSE [hdr EXCEPT ![cur].free = FALSE]
                /\ ret' = cur
                /\ held' = [p \in DOMAIN held \cup {cur} |->
                               IF p = cur THEN size ELSE held[p]]
                /\ cur' = Null
                /\ size' = 0
                /\ pc' = "idle"
                /\ UNCHANGED <<last, block>>

\* The walk has passed the last block: the heap is exhausted.
kmalloc_fail == /\ pc = "walk"
                /\ cur = Null
                /\ ret' = Null
                /\ size' = 0
                /\ pc' = "idle"
                /\ UNCHANGED <<hdr, cur, last, block, held>>

\* A caller gives back a pointer it holds.
kfree_enter(p) == /\ pc = "idle"
                  /\ ~hdr[p].free
                  /\ hdr' = MarkFree(p)
                  /\ held' = [q \in DOMAIN held \ {p} |-> held[q]]
                  /\ block' = p
                  /\ cur' = 0
                  /\ last' = Null
                  /\ pc' = "search"
                  /\ UNCHANGED <<size, ret>>

\* A pointer to a block that has been freed before and is free still, or whose
\* header is no longer on the list since the block was merged into another.  Such
\* a header reads free, and kfree never leaves its while(1), unless it lies in a
\* block that a caller has been given since and written to: if it reads otherwise
\* now, what kfree marks is within that payload, and its search, which goes along
\* the list, never meets it.  Neither call returns or changes the list.
kfree_twice(p) == /\ pc = "idle"
                  /\ p \in DOMAIN hdr => hdr[p].free
                  /\ pc' = "stuck"
                  /\ UNCHANGED <<hdr, cur, last, block, size, ret, held>>

kfree_next == /\ pc = "search"
              /\ cur # block
              /\ last' = cur
              /\ cur' = hdr[cur].next
              /\ UNCHANGED <<hdr, pc, block, size, ret, held>>

\* The predecessor is known: merge into it if it is free, and return.
kfree_done == /\ pc = "search"
              /\ cur = block
              /\ hdr' = IF last # Null /\ hdr[last].free THEN Absorb(hdr, last, block) ELSE hdr
              /\ cur' = Null
              /\ last' = Null
              /\ block' = Null
              /\ pc' = "idle"
              /\ UNCHANGED <<size, ret, held>>

Spin == pc = "stuck" /\ UNCHANGED vars

kmalloc_loop == kmalloc_next \/ kmalloc_take \/ kmalloc_fail
kfree_loop   == kfree_next \/ kfree_done

Next == \/ kmalloc_zero
        \/ \E n \in Sizes : kmalloc_enter(n)
        \/ kmalloc_loop
        \/ \E p \in DOMAIN held : kfree_enter(p)
        \/ \E p \in Unit : kfree_twice(p)
        \/ kfree_loop
        \/ Spin

Spec == Init /\ [][Next]_vars

\* The processor keeps executing the loop it is in.
FairSpec == Spec /\ WF_vars(kmalloc_loop) /\ WF_vars(kfree_loop)

-----------------------------------------------------------------------------
(* Properties.                                                              *)

\* The list consists of headers, and the cursors of the loops point to
\* headers on the list or are null.
TypeOK ==
    /\ DOMAIN hdr \subseteq Unit
    /\ hdr \in [DOMAIN hdr -> Header]
    /\ pc \in {"idle", "walk", "search", "stuck"}
    /\ {cur, last, block} \subseteq DOMAIN hdr \cup {Null}
    /\ size \in Sizes \cup {0}
    /\ ret \in Unit \cup {Null}
    /\ DOMAIN held \subseteq Unit
    /\ held \in [DOMAIN held -> Sizes]

\* The blocks on the list h lie end to end from unit 0 to the end of the heap.
Tiles(h) ==
    /\ 0 \in DOMAIN h
    /\ \A b \in DOMAIN h :
          /\ h[b].units > 0
          /\ h[b].next = b + h[b].units
          /\ h[b].next \in DOMAIN h \cup {Null}
          /\ \A c \in DOMAIN h : b < c => b + h[b].units <= c

\* However blocks have been split and merged, the list tiles the heap: it
\* starts at unit 0, every block ends where the next one starts, the last one
\* ends with the heap, and no block lies inside another.  No unit is ever lost
\* and none belongs to two blocks.
Tiling == Tiles(hdr)

\* kfree merges in both directions: two free blocks are neighbours only while
\* kfree is still looking for the predecessor of the block it has marked.
NoFreeNeighbours ==
    \A b, c \in DOMAIN hdr :
        hdr[b].next = c /\ hdr[b].free /\ hdr[c].free => pc = "search" /\ c = block

\* The blocks that are not free are the ones callers hold, and the payload of
\* each has the number of bytes its caller asked for.
HeldFits ==
    /\ DOMAIN held = {b \in DOMAIN hdr : ~hdr[b].free}
    /\ \A p \in DOMAIN held : held[p] + HEADER_SIZE <= hdr[p].units * UNIT_SIZE

\* Neither kmalloc's nor kfree's walk runs around a cycle or misses the block
\* it looks for: every call returns.
CallsReturn == /\ pc = "walk" ~> pc = "idle"
               /\ pc = "search" ~> pc = "idle"

\* The heap implements the pool.  In particular kmalloc answers with the null
\* pointer only when no run of free units anywhere in the heap is long enough,
\* which holds because kfree never leaves such a run split in two.
Pool == INSTANCE MemoryPool WITH
            Units   <- HEAP_TOTAL_UNITS,
            alloc   <- [b \in {x \in DOMAIN hdr : ~hdr[x].free} |-> hdr[b].units],
            pending <- IF pc = "walk" THEN bytes_to_units(size) ELSE 0

ImplementsPool == Pool!Spec

\* The request sizes whose unit count survives the two narrow integer types.
\* HeldFits, Tiling and what follows from them are claimed for these only.
SizesFit ==
    \A n \in Sizes : /\ n + HEADER_SIZE + UNIT_SIZE - 1 < BYTE_WIDTH
                     /\ (n + HEADER_SIZE + UNIT_SIZE - 1) \div UNIT_SIZE < UNIT_WIDTH

=============================================================================
