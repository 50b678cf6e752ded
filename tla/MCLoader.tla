------------------------------ MODULE MCLoader ------------------------------
(***************************************************************************)
(* Disks for checking Loader: the bees of the repository with the metadata *)
(* of their *_meta.asm, the sizes of the built *.bee files, and the calls  *)
(* their init functions make to other bees.                                *)
(***************************************************************************)
EXTENDS Loader

Bee(id, priority, exports, size, returns, needs) ==
    [id |-> id, named |-> TRUE, priority |-> priority, exports |-> exports,
     size |-> size, returns |-> returns, needs |-> needs]

display   == Bee(1, 0, <<1, 2, 3, 4>>, 3516, TRUE, {})
util      == Bee(2, 0, <<1, 2, 3, 4, 5, 6>>, 3332, TRUE, {})
start(p)  == Bee(3, p, <<>>, 1260, FALSE, {7, 1, 6})
interrupt == Bee(4, 0, <<1>>, 16344, TRUE, {})
keyboard  == Bee(5, 1, <<1, 2>>, 4236, TRUE, {4})
PIT       == Bee(6, 1, <<1, 2, 3, 4>>, 1380, TRUE, {4})
memory    == Bee(7, 0, <<1, 2>>, 2472, TRUE, {})

\* The bees of `order` one behind the other from byte `first` on, and blank
\* sectors behind the last one.
DiskOf(order, first, blank) ==
    LET size(k) == FoldLeft(LAMBDA n, b : n + b.size, first, SubSeq(order, 1, k))
    IN  [bees    |-> [k \in DOMAIN order |->
                         [at |-> size(k - 1), size |-> order[k].size, id |-> order[k].id,
                          named |-> order[k].named, priority |-> order[k].priority,
                          exports |-> order[k].exports, returns |-> order[k].returns,
                          needs |-> order[k].needs]],
         sectors |-> (size(Len(order)) + SECTOR - 1) \div SECTOR + blank,
         bad     |-> {}]

\* Where the kernel ends on the disk: two sectors and kernel.bin.
First == 1024 + 13496

\* Every order of system_start and the bees it depends on, with three
\* priorities in place of 0, 1 and 255; the same bees without system_start, so
\* that every init function returns; and all of them with the keyboard, which
\* fills the last name page exactly.
Four == {display, interrupt, PIT, memory}
Five == Four \cup {start(2)}
Six  == Five \cup {keyboard}

AnyOrder == {DiskOf(o, First, 1) : o \in SetToSeqs(Four) \cup SetToSeqs(Five) \cup SetToSeqs(Six)}

\* The order in which build.sh puts the bees on the disk (bees/*.bee).
Built == <<PIT, display, interrupt, keyboard, memory, start(2), util>>

\* floppy.img, with blank.bin behind the bees, and OS.img, without.
Floppy == {DiskOf(Built, First, 1)}
OS     == {DiskOf(Built, First, 0)}

\* floppy.img with a bad sector: the second one, and one in which a bee begins or
\* ends or that lies behind it.
Damaged ==
    UNION {{[d EXCEPT !.bad = {q}] :
               q \in {1} \cup UNION {{b.at \div SECTOR, (b.at + b.size) \div SECTOR,
                                       (b.at + b.size) \div SECTOR + 1} : b \in Range(d.bees)}}
           : d \in Floppy}

\* floppy.img with a bee that has no name.
Unnamed == {[d EXCEPT !.bees[k].named = FALSE] : d \in Floppy, k \in DOMAIN Built}

\* floppy.img with one bee and all behind it moved so far back that the gap is just
\* within the search limit, or just not.
Gapped ==
    {[d EXCEPT !.bees    = [j \in DOMAIN @ |-> IF j < k THEN @[j]
                                              ELSE [@[j] EXCEPT !.at = @ + gap * SECTOR]],
               !.sectors = @ + gap]
        : d \in Floppy, k \in DOMAIN Built, gap \in {SEARCH_LIMIT - 1, SEARCH_LIMIT}}

AnyDisk == AnyOrder \cup OS \cup Damaged \cup Unnamed \cup Gapped

\* The bees of the repository meet what the theorems about the boot ask of a disk.
ASSUME Instances == InDiskOrder /\ PrioritiesSuffice
=============================================================================
