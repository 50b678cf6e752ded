# Specifications of HiveRK

HiveRK is a small x86-32 kernel: a core, the *queen* (`queen/main.c`), finds
independently built modules, the *bees* (`bees/*`), on the boot disk, loads them
and lets them call one another through one dispatcher. This directory holds TLA+
models of the queen and the bees, the configurations TLC checks them with, and
proofs for TLAPS.

## 1. The system

| Part | State it keeps | Operations |
| --- | --- | --- |
| Boot chain (`queen/bootloader.asm`, `stage2.asm`, `kernel-entry.asm`) | none that survives | read the second stage and the kernel, enter protected mode with interrupts disabled, call `main` |
| Queen, loader (`queen/main.c`) | the bump pointer `MEMORY`, `last_end` of the disk scan, the chain of name pages, a data page per bee, the array `idNodes` | `BEE_SCAN_AND_LOAD`, `makeBeeData`, `addNameToPage`, `setupLookupArray`, `run_inits` |
| Queen, dispatcher (`core_interrupt_handler`) | per bee one `CoreData` (`count`, `ptr`) and `globalValues`; `MEMORY`; the function pointer `allocF` | module 0: CMD 1 allocate storage, 2 get storage, 3 get CoreData, 4 get `MEMORY`, 5 replace the allocator; any other module: call one of its exported commands |
| Memory manager, bee 7 (`bees/memory`) | a list of block headers in a 1 MB heap | init, `kmalloc`, `kfree`, `core_alloc` |
| Interrupt bee, bee 4 (`bees/interrupt`) | IDT, table of handlers; the state of the two 8259 controllers | `idt_init`, `registerInterrupt`, `isr_handler` (every interrupt), exception handlers that stop the machine |
| PIT bee, bee 6 (`bees/PIT`) | `ticks`, `tick_handler`, `freq_hz` | timer interrupt, `sleep`, `register_handler`, `get_ticks`, `set_frequency` |
| Keyboard bee, bee 5 (`bees/keyboard`) | ring of 64 key events, `head`, `tail`, `shift` | keyboard interrupt, `is_there_data`, `get_key` |
| Display bee, bee 1 (`bees/display`) | the VGA text buffer and cursor | `print`, `clear`, `cursor`, `putc` |
| Utility bee, bee 2 (`bees/util`) | none | number to text in bases 10, 16, 2; power; `memcpy`, `memset` |
| Start bee, bee 3 (`bees/start`) | a buffer it allocates and never reads | its init function never returns: it sleeps in a loop |

There is one processor. Code runs in three ways: the boot and the init functions
the queen calls one after the other; commands, which a bee calls through the
dispatcher and which may call further ones; and interrupt handlers, which may
begin between any two instructions while interrupts are enabled. They share the
storage of the bees and, for every bee, the one `CoreData` record through which a
command receives its arguments.

What is hard about this system, and hardly reached by starting it in an emulator:

- an interrupt between any two steps of a command, of the dispatcher or of an
  init function; interrupt handlers that call the dispatcher themselves;
- the order of init functions, of allocating storage, registering a handler and
  unmasking its line, and the moment at which the allocator is replaced;
- long sequences of requests and frees; arithmetic in 16 and 32 bits;
- boundaries: full pages of names, a full ring, a full heap, the last sector;
- waiting that must end: `sleep`, a masked line, a forgotten end of interrupt.

The list with the lines it is about is `hazards` in `PROJECT.json`.

## 2. Modules

| Module | Models | State and actions |
| --- | --- | --- |
| `Heap` | `memory.c`: `kmalloc`, `kfree`, `bytes_to_units`, one loop iteration per step | `hdr` is the header at each unit, `heap` the layout; `pc`, `cur`, `last`, `block`, `size` are where a call is and its locals; `held` records what callers own |
| `MemoryPool` | what the memory manager promises: a pool of intervals | `Heap` implements it |
| `Loader` | `main.c` from `BEE_SCAN_AND_LOAD` to the end of `run_inits`; a step per bee found, per node, per init call; a read of a bad sector stops the scan or the boot as in the code | `disk` with the sectors that are `bad`; `MEMORY`, `last_end`, `pages`, `idNodes`, and the memory regions handed out |
| `BootOrder` | the order in which the bees that can be reached are promised to start | `Loader` implements it |
| `Bees` | every function of the bees as a list of steps: calls, reads of the arguments, uses of storage, `cli`, `sti` | no state |
| `Core` | `core_interrupt_handler` and the machine that executes `Bees`, with interrupts | `stack` of frames, `node` (CoreData and globalValues), `MEMORY`, `allocF`, `handler`, `unmasked`, `IFlag`; `ready` records which storage a bee has filled in |
| `Interrupts` | `itr.c`, `isr.asm`, `basicInterrupts.h` and the two controllers | `gates`, `handler`, `base`, `mask`, `irr`, `isr`, `frames` of the interrupts being served with the words on the stack |
| `Keyboard` | `keyboard.c` | `buffer`, `head`, `tail`, `shift`; `port`, the bytes that wait at the controller; `pc` and `seen` for the command that runs |
| `KeyQueue` | what readers of keys are promised | `Keyboard` implements it |
| `Timer` | `PIT.c` | `ticks`, `freq_hz`, `tick_handler`, `divisor`; `target` of a sleep, the time that has passed |
| `Util` | `util.c` | the command that was called and its result |
| `Display` | `display.c`: a port access per step for the cursor, a turn of the loop of `print` per step | `vidmem`, the cursor registers `reg` and `select`; `cmd`, `pc` and the local variables of the command that runs; `typed` and `lost` record what has been typed and whether a tick has spoiled it |
| `Terminal` | a screen with one cursor, what the display bee promises | `Display` implements it |
| `MCLoader`, `MCCore`, `MCInterrupts`, `MCUtil`, `MCDisplay` | instances | disks, orders of init functions, calls, devices, widths |
| `HeapProofs`, `LoaderProofs`, `CoreProofs`, `InterruptsProofs`, `KeyboardProofs`, `TimerProofs`, `DisplayProofs`, `UtilProofs` | theorems about the module they are named after | `IInv` is the inductive invariant, with further ones where section 5 says so |

`Core` and `Interrupts` look at the same interrupts from two sides. `Core` has the
code of all bees and one rule for the controllers: a further interrupt must be more
urgent than those whose end has not been signalled. What keeps others out in its runs
is the interrupt flag, which no handler there sets before its `iret`. `Interrupts` has
the controllers, the vectors and the stack, and handlers that are only there or not,
some of which set the flag; nested interrupts are checked there. `Timer`,
`Keyboard` and `Display` go into what `Core` has as single steps; they take over
from `Core` that their handlers run with interrupts disabled and with their storage
present, and that at most one command runs outside interrupts (`OneAtATime`).
`Display` takes the text of a number from `Util` as a constant function.

Operators named after another one with a suffix (`FitsStrictly`,
`PIT_init_masked`, ...) are not part of a model: each is a plausible mistake that
a property must catch, see `mutants` in `PROJECT.json`.

External code: the processor (taking an interrupt, pushing an error code), the
8259 controllers, the keyboard controller, the interval timer and the disk are
modelled from the way the code drives them.

## 3. Runs

| Run | Instance | What it shows |
| --- | --- | --- |
| `Heap` | six units, requests of several sizes, as many calls as the state space has | `Tiling`: headers always tile the heap. `NoFreeNeighbours`: merging is complete. `HeldFits`: every caller's block is its own and large enough. `CallsReturn`: each call ends, unless a block is freed twice, where the code spins; the block may have been merged into another one since. `ImplementsPool`: refines `MemoryPool`, so a request is refused only when no gap is long enough |
| `HeapWidth` | the 16384 units of the code, a request of 4194300 bytes | violation of `HeldFits`, see 6 |
| `LoaderAnyOrder` | 902 disks: all orders of four, five and six bees, two names to a page; the two images as built; with bad sectors; with a bee without a name; with a gap as long as a search looks, and one sector shorter | `RegionsDisjoint`; `NoJunkRead` (the name pages are never read past their end); `LookupComplete`: the array the dispatcher uses has every bee that can be reached, those before the first bee that is not found or has no name (that those behind it are lost, see 6, is taken over from the code); `DependenciesMet`; `ImplementsBootOrder` |
| `LoaderCell` | the floppy image of `build.sh` | violation of `CellApart`, see 6 |
| `CoreBees` | seven bees, init functions in the 48 orders the priorities allow, further calls of every kind, a tick handler that calls the queen | `ArgsIntact`, `StorageApart`, `StorageReady`: storage a bee touches is the storage it has filled in, across a change of the allocator and in a handler that comes early; `OneAtATime`: a command is never entered while a call of the same bee is under way below it; `NeverNowhere`, `SleepsEnd` |
| `CoreTickHandler` | the same bees, a tick handler that calls the display | violation of `ArgsIntact`, see 6 |
| `Interrupts` | lines 0, 1 and 8, two handlers that enable interrupts, three exceptions, nesting up to `DEPTH` = 3 | `DeviceHandled`, `ServiceMatchesStack`, `StackBalanced`, `Delivered` |
| `Keyboard` | a ring of three, a letter that is held down and a shift key, two bytes waiting | `ImplementsQueue`, `ControllerDrained` |
| `Timer` | sleeps of 5, 19 and 30 ms at 50, 100 and 200 Hz, `TICKS` = 8 | `LessThanTwoTicksShort`; `NotTooLong`: `sleep` waits only for ticks that come before its time is over; `SleepEnds`. The first two say nothing of a sleep during which a tick handler sets the frequency |
| `Util` | all words of 12 bits, types of 12, 8 and 4 bits, exponents from -2 to 5, memory of 5 bytes | `DecimalReadsBack`, `BitsReadBack`, `PowersOfTwo`, `MemoryRight` |
| `Display` | a screen of two rows and two columns, five format strings, one call of `print`, one tick that prints | `FormatHonoured`: what `print` has typed is the meaning of its string, also when a tick types in between; strings with `%#$`, where the code and `doc` differ (see 6), are left out of it. `ImplementsTerminal`: the cells and the two byte registers refine one cursor, unless a tick prints inside an access to the cursor. `CursorRecovers`, `CallsEnd` |
| `UtilNarrow` | the same | violation of `NarrowReadsBack`, see 6 |

Bounds, and why they are enough:

- `Heap`: with six units there are blocks before, between and behind others, both
  kinds of merge and both at once, exact fits and splits. The proofs remove the
  bound.
- `Loader`: two names to a page instead of 14, so that five bees need three pages
  and six fill the last one exactly. Sizes are those of the built bees. A bad sector
  lies before, in and behind a bee and in the sector the scan looks ahead to. A search
  looks at 64 sectors in `LoaderAnyOrder` instead of 102400 (`SEARCH_LIMIT`), so that
  a gap on a small disk can be longer; `idNodes` has its 1024 places (`MAX_BEES`).
- `Core`: the heap has eight units of four words. Every kind of call of the
  dispatcher occurs, a block is given back and asked for again,  each of its error answers, and an interrupt at every point.
- `Interrupts`: one line before and one behind another on the first controller, one
  on the second; with three nested interrupts every pair nests.
- `Keyboard`: three slots fill, wrap and overflow; the two keys give all
  combinations of the shift state. Two bytes wait (`PortMax`), the least with which
  the handler, which reads its port twice, loses one; the letter is never let go
  (`Let`), since a release of it is handled as that of shift is, without the shift.
- `Timer`: eight ticks hold the longest sleep at the highest frequency and one
  that begins in the middle. `WIDTH` stands for 2^32, beyond the integers of TLC;
  nothing in the run comes near it.
- `Display`: two rows scroll, two columns wrap, and a move by a row differs from one
  by a column. A register holds three values (`BYTE`), so that both bytes of a
  position change on the screen and a negative one comes out as 8, far behind it, as
  it does with 256. The strings have a directive of each kind and end behind `%` and
  `%#`. One tick is one interruption at each point; a second one only adds to a
  terminal that is lost, or types where the first one could have.
- `Util`: the widths are scaled, the relation of the types to the word and to the
  digits of the three bases is that of the code.

## 4. Fairness

- `Heap`: weak fairness of the loop iterations: the processor goes on executing a
  call. Nothing makes callers call.
- `Core`: the interrupt handlers are executed (weak fairness), and so is the code
  they interrupt, which gets the processor again and again (strong fairness). The
  timer interrupt is periodic and the most urgent line, so it is taken whenever it
  can be taken again and again (strong fairness). The keyboard is not fair.
- `Interrupts`: innermost code is executed; init functions go on between
  interrupts; a line that can be delivered again and again is. `Delivered` does not
  claim that an urgent line cannot starve the others: it is about a line whose more
  urgent ones are quiet.
- `Keyboard`: a command that was called is executed; a waiting keyboard interrupt
  is taken if the flag is set again and again, since the controller keeps it.
- `Timer`: the timer is periodic and the loop of `sleep` is executed.
- `Display`: weak fairness of the command that was called: the code goes on executing
  it between ticks. `CursorRecovers` has a premise instead of a fairness: someone goes
  on printing characters other than new lines and does not send the cursor before the
  first cell for ever. TLC shows that neither part can be left out.
- `Loader`: weak fairness of the boot: the processor goes on executing it.
  `BootOrder` promises that the boot does not stop before the last bee is started.
- `Util` needs none: its properties are about the result of a call that is over.

No fairness is assumed of callers, of keys or of exceptions.

## 5. Proofs

TLC checks the instances of section 3; the theorems hold for every value of the
constants that satisfies the assumptions of the module (`HeapAssumption`,
`LoaderAssumption`, `DiskAssumption`, ...: TLC evaluates them on every run) and, where
a theorem has one, the hypothesis it states with `ASSUME`.

| Module | Theorem | Establishes | Hypothesis |
| --- | --- | --- | --- |
| `HeapProofs` | `TypeCorrect` | `TypeOK` | `SizesFit` |
| | `HeapTiled` | `Tiling` | `SizesFit` |
| | `FreeBlocksMerged` | `NoFreeNeighbours` | `SizesFit` |
| | `CallersHoldEnough` | `HeldFits` | `SizesFit` |
| | `HeapImplementsPool` | `ImplementsPool`, a refinement | `SizesFit` |
| | `LoopsGoOn` | the variant behind `CallsReturn` | `SizesFit` |
| `LoaderProofs` | `RegionsStayDisjoint` | `RegionsDisjoint` | `MarkersApart` |
| | `WalksEndInTime` | `NoJunkRead` | `MarkersApart` |
| | `LoaderStaysTyped` | `TypeOK` | `MarkersApart`, `InDiskOrder` |
| | `LookupStaysComplete` | `LookupComplete` | `MarkersApart`, `InDiskOrder` |
| | `CalledAreReady` | `DependenciesMet` | `MarkersApart`, `InDiskOrder`, `PrioritiesSuffice` |
| | `BootsInOrder` | the safety part of `ImplementsBootOrder`, a refinement | `MarkersApart`, `InDiskOrder` |
| | `AllAreStarted` | the boot ends only when all are started, or in an init function that does not return | `MarkersApart`, `InDiskOrder` |
| | `BootsWithoutCircle` | the variant behind the liveness part of `ImplementsBootOrder` | `MarkersApart`, `InDiskOrder` |
| `CoreProofs` | `TypeCorrect` | `TypeOK` | `Orderly` |
| | `ArgumentsIntact` | `ArgsIntact` | `Orderly` |
| | `AlwaysSomewhere` | `NeverNowhere` | `Orderly` |
| | `StorageIsApart` | `StorageApart` | `Orderly` |
| | `NotInsideEachOther` | `OneAtATime` | `Orderly` |
| | `StorageIsReady` | `StorageReady` | `Orderly`, `Prioritised`, `HeapSuffices` |
| `InterruptsProofs` | `TypeCorrect` | `TypeOK` | |
| | `DevicesHandled` | `DeviceHandled` | |
| | `ServiceIsStack` | `ServiceMatchesStack` | |
| | `IretFindsFrame` | `StackBalanced` | |
| `KeyboardProofs` | `TypeCorrect` | `TypeOK` | |
| | `KeyboardImplementsQueue` | `ImplementsQueue`, a refinement | |
| `TimerProofs` | `TypeCorrect` | `TypeOK` | `NothingCut` |
| | `SleepsNotTooLong` | `NotTooLong` | `NothingCut` |
| | `SleepsLongEnough` | `LessThanTwoTicksShort` | `NothingCut` |
| `DisplayProofs` | `DisplayImplementsTerminal` | `ImplementsTerminal`, a refinement | |
| | `DisplayStaysTyped` | `TypeOK` | `ArgumentsSuffice` |
| | `FormatStaysHonoured` | `FormatHonoured`, that is, for strings without `%#$` | `ArgumentsSuffice` |
| | `CommandsGoOn` | the variant behind `CallsEnd` | `ArgumentsSuffice` |
| `UtilProofs` | `DecimalRight` | `DecimalReadsBack` | |
| | `BitsRight` | `BitsReadBack` | |
| | `PowersRight` | `PowersOfTwo` | |
| | `MemoryStaysRight` | `MemoryRight` | |

The hypotheses, all defined in the modules they are about:

- `SizesFit`: the byte count and the unit count of every request fit their integer
  types. `HeapWidth` shows that it is needed.
- `MarkersApart`: what stands for an unwritten slot and for the end of the names is
  not the record of a bee; it is about the abstraction, not about the code.
- `InDiskOrder`: the bees of a disk are listed in the order in which they lie on it, one
  behind the other, as the build writes them.
- `PrioritiesSuffice`: a bee has a larger priority number than those its init function
  calls. The bees of the repository keep to it; the queen does not check it.
- `Orderly`, of `Core`: a tick handler asks the queen for storage and `CoreData` and
  calls no bee (`QuietHandler`; `CoreTickHandler` shows that it is needed), and what
  `system_start` calls before its loop is `Ordinary`: a bee's command that exists, no
  request for less storage than the bee uses, no CMD 4 or 5, which are for the memory
  manager, no registration of an interrupt, and no pointer for `kmalloc` to store. The
  code checks none of this. A call of `kfree` brings its
  one argument. The calls of the repository, which has no tick handler, and
  those of `CoreBees` satisfy it.
- `NothingCut`: the tick count does not wrap in a run, the products of `sleep` fit
  32 bits and every frequency, the 100 Hz of `bee_init` included, has a divisor that
  fits the counter. The code checks none of this, see 6.
- `Prioritised`: the queen calls the init functions of the more urgent bees first. That
  is what `Loader` shows of `run_inits`, taken over by `Core`.
- `HeapSuffices`: the heap has room for what the interrupt, the PIT and the keyboard bee
  ask for. Their init functions do not look whether the answer is an address.
- `ArgumentsSuffice`: a call of `print` has an argument for each directive of its string.
  As with every variable argument list, the code cannot check it.

TLC evaluates the last three and `InDiskOrder` and `PrioritiesSuffice` on its instances
(`Instances` in `MCLoader`, `MCCore` and `MCDisplay`).

The assumptions with content: in `DiskAssumption` no bee is shorter than its magic
numbers or lies in the first two sectors, its priority is below `PRIORITIES`, and a disk
has at most `MAX_BEES` bees, as many as `idNodes` has places, which the code does not check;
in `CoreAssumption` the queen calls each
init function once, and a disk with the PIT or the keyboard bee has the interrupt bee;
in `InterruptsAssumption` a device sits on
a line other than the cascade and its bee unmasks at most the cascade besides its own
line; in `DisplayAssumption` the registers can say every cell, a string ends at its first
zero and the text of an argument is a sequence of characters; in `UtilAssumption` every
width is a multiple of four, no type is wider than `U32`, and `I32` is as wide.

Why each needs an invariant of its own, `IInv` of the proof module unless another is named:

- `Heap`: that a split or a merge keeps the tiling depends on where the loops of
  `kmalloc` and `kfree` are. `IInv` adds that every unit lies in a block (`Covers`);
  that everything `kmalloc` has passed is too small or in use (`WalkInv`); and that,
  while `kfree` searches, the block it frees is free, has no free successor and still
  lies ahead, with `last` the block before `cur` (`SearchInv`). A request is refused
  only after the whole list has been seen: the refinement needs `Covers` and `WalkInv`.
- `Loader`: everything handed out lies below `MEMORY` (`Laid`); the chain of pages
  has been written up to the name that was added last, with an end mark behind it
  unless the page is full (`Chain`); a walk has not passed the end mark (`NotPast`),
  and the walk that fills the array has room for as many names as were counted.
  The rest takes `BootInv`, for disks in order: the names on the pages are those of the
  bees the scan has passed and can be got at (`Scanned`, `Written`), since a scan that goes
  from sector to sector meets the magic number of each bee once; the array holds a first
  part of them (`Nodes`), after the lookup up to the first that has no name; the bees
  started are those that `run_inits` has come past, by priority and then by place
  (`Started`), and the more urgent ones were started before each (`UrgentFirst`).
- `Core`: what a command finds behind `CoreData.ptr` depends on who else may call its
  bee. `InPlace` says where on the stack a code may be: init functions at the bottom,
  commands directly above one, or a conversion of the util bee above `print`; so two
  commands of one bee never meet. `Finds` says that before a command has read its array it is in
  `CoreData.ptr`. `Linked` ties a command to the call below it, from which follow what
  `kmalloc` and `registerInterrupt` are asked for. `Vectored` and `Serves` say that a
  line that is let through has the handler of its bee, also in the two steps between the
  call that registers it and the one that unmasks it. `Stored` says of each bee's storage
  that the bump allocator or `kmalloc` has given it away, and `Behind` that the heap
  starts at or after `MEMORY` once the memory manager has asked for it. That takes
  `Running`, by which its init function is the one at the bottom then and runs once: no
  other can allocate between CMD 4 and CMD 5.
  `StorageReady` takes `RInv` on top of it. A frame that uses storage knows the address
  its bee has filled in (`Knowing`), and that one stays (`Retained`). The init function at
  the bottom has got its storage and filled it in by given steps (`Prepared`), those before
  it in the order have (`Finished`), and a line is let through only after that (`Lines`).
  None of this would hold if `kmalloc` refused: `Packed` says that until the start bee runs
  it has given away only a first part of the heap, no longer than what was asked for.
- `Interrupts`: a non-specific end of interrupt ends the most urgent line in service.
  That this is the right one takes `Nested`: on the stack, each interrupt whose end
  has not been signalled is more urgent than those below it at every controller both
  have come through; and `InService`, which says that the lines in service are those
  of these interrupts. `Registered` says that a line is unmasked only after
  its handler is there, `Started` that nothing happens before `idt_init` has masked
  all of them.
- `Keyboard`: interrupts are off between the comparison of `get_key` and its `sti`, and
  the event it copies is still in the ring (`Closed`). The refinement mapping reads
  the queue off the ring between the indices; an overflow empties it.
- `Timer`: `OnTime` says how many whole periods lie between the call of `sleep` and
  now, counted from what is left of the first. `NotTooLong` follows from it and from
  the divisor being rounded down: a period is no longer than the frequency says.
- `Display`: `InStep` says, for each port access of a cursor operation, which register
  is selected and how much of the position is in the registers and how much in the
  local variable, as long as the terminal is not lost.
  `Typed` adds the cells, the registers also of a lost terminal (bytes, whatever a tick has
  mixed), and where `print` is in its string: `argsIndex` is at most one more than the
  number of directives passed, so it stays within the arguments. `Meant` says that what has
  been typed, what is about to be typed and what the rest of the string says are
  together what the string says, for a string without `%#$`. What the rest says is a recursive function of the place
  in the string, the next argument and the color, so one unfolding of it is one turn.
- `Util`: `IInv` says that the memory is as it was filled between calls, and that what a
  call has put out has the properties; the work is in the lemmas about the functions.

What a recursive function computes is shown by the least element of the set of numbers
for which it is wrong (`WFMin` of the library: a nonempty set of naturals has one), since
the induction theorems that take an operator cannot be used. That a function defined by
recursion exists is itself a lemma, `Recursion` in `UtilProofs` and `DisplayProofs`.

`LoopsGoOn`, `BootsWithoutCircle` and `CommandsGoOn` are action properties: each step of a
loop ends it or takes a measure down, in `Heap` the way to the end of the heap, in `Loader`
the bees to be found, the slots and the priorities left, in `Display` what is left of the
string (`ToRead`) and, at one place of it, of the characters and port accesses (`ToType`).
With weak fairness of the steps this is why the calls end.

The step lemmas follow the actions, and each has one step per conjunct it can disturb.

Every invariant of every passing run has its theorem. Two `CASE` expressions of `Display` turned
out to have overlapping guards when `FormatHonoured` was to be proved: TLC takes the first
that is true, the language leaves the choice open. They are exclusive now and say the
order of the tests in the code.

Only model-checked: liveness (`CallsReturn`, `SleepsEnd`, `SleepEnds`, `Delivered`,
`ControllerDrained`, `CursorRecovers`, `CallsEnd`, and the promise of `BootOrder` that the
boot goes on to the last bee), because fairness and `ENABLED` are out of reach of this prover.

## 6. Where the code and its documentation differ

Shown by a run of its own:

- `HeapWidth`: `bytes_to_units` cuts the number of units to 16 bits
  (`memory.c:27`). 4194300 bytes become one unit, and `kmalloc` returns a block of
  64 bytes out of a heap of 1 MB.
- `LoaderCell`: `main` stores the address of the dispatcher at 0x6000
  (`main.c:881`) after the bees have been loaded from 0x4000 upwards. On the
  image of `build.sh` the word lies in the interrupt bee.
- `CoreTickHandler`: the arguments of a command are found through one pointer per
  bee (`main.c:785`). If a tick handler calls the display just when the display is
  about to read its arguments, the interrupted call continues with those of the
  tick handler.
- `UtilNarrow`: -5 as `I16` is written as 65531 (`util.c:38`).

Seen while modelling; the models contain this behaviour or its cause, and no run is
devoted to it yet:

- storage is zeroed by the bump allocator only; a block of `kmalloc` is handed out as
  it is (`memory.c:81`), whereas `doc:18` and `doc:158` promise zeros;
- a bee that ends in the last sector of the disk is not found (`main.c:224`), which
  concerns the last bee of `OS.img`; nor is one that lies 102400 sectors or more behind
  the one before: the search counts sectors, where the comments have KB (`main.c:6`) and
  1MB (`main.c:264`); a sector behind a bee that cannot be read loses
  that bee and the rest; a bee without a name hides those behind it (`main.c:796`);
- `setupLookupArray` does not stop at the 1024 places of `idNodes` (`main.c:797`);
- CMD 1 reports no error when there is no room (`main.c:737`); CMD 0 of a bee
  without exports calls a word that is not a function (`main.c:775`);
- the keyboard interrupt reads its port twice and loses the first of two waiting
  bytes (`keyboard.c:182`), which may be the release of shift, after which letters
  stay capital until shift is pressed again;
- `sleep` may end up to two ticks early, at once for less than a tick
  (`PIT.c:67`). These are the ticks the timer makes: its divisor is rounded down
  (`PIT.c:50`), which at 100 Hz makes a long sleep short by another tick in 14600, so
  `LessThanTwoTicksShort` compares with the rounded clock. A sleep ends at once when the tick count or its product wraps; below 19 Hz
  the divisor does not fit and the timer runs faster than `freq_hz` (`PIT.c:84`);
- `pow` doubles instead of multiplying (`util.c:122`), which is right for base 2;
- after `%#$` the display prints the `$` (`display.c:132`), while `doc:46` has it as
  part of the directive. `FormatHonoured` makes no claim about strings with it: `Said`
  has the `$` as part of the directive, as `doc` does, and `TypeOK`, `CallsEnd` and
  `ImplementsTerminal` are checked of them, too. A backspace at the first position and a relative move to a
  negative one send the cursor behind the screen (`display.c:63`), where it stays
  until enough has been printed, `clear` or an absolute move; a tick that prints
  inside an access to the cursor can leave it on another cell (`display.c:168`);
- `%b` writes 33 bytes into `buf[32]` (`display.c`); the model has no layout of the
  stack;
- the heap of 1 MB (`memory.c:6`) begins behind the data of the bees, below 0x90000
  where the queen and its stack are, and so reaches over them and over the screen at
  0xB8000 once enough of it is in use. The addresses are those of the image and no
  definition of the models depends on them: nothing bounds `MEMORY` from above in `Loader`
  and `Core`, so that images, pages and storage stay below the queen is assumed;
- `alloc` clears `size` words of 32 bits for `size` bytes (`main.c:711`), three quarters of
  them behind what it gives away. `Core` has it as `Cleared`: nothing lies there yet;
- `stage2.asm` defines `KERNEL_LOAD_ADDRESS` as 0x10000 beside a comment that says
  0x90000; `linker-script.lds` and the committed `stage2.bin` have 0x90000.

## 7. Not modelled

The boot chain and the build scripts: straight-line code without state. The
queen's shell (`ControlComb`) and the conversions only it uses: unreachable behind
`0 &&`. `debug.h`: included by `memory.c`, none of it is called. Messages and their
layout, the text of the key maps, the contents of disk sectors other than magic
numbers and metadata. In `Core` and `Timer` a tick handler does not sleep: it would
wait for ever with interrupts disabled, and `SleepsEnd` and `SleepEnds` assume that
none does. In `Core` the init functions and `system_start` are the only code outside
interrupts, as in the repository. In `Display` the loops over all cells are one step:
a tick inside one of them makes the terminal lost whatever it does to the cells.
In `Heap` a block that was freed, given to a caller as part of another one, written to and
then freed again does no harm to the list; what the call does to the payload is left out.

## 8. Plan

Done, in this order: `Heap` with `MemoryPool` and the proofs, `Loader` with
`BootOrder`, `Bees` and `Core`, `Interrupts`, `Keyboard` with `KeyQueue`, `Timer`,
`Util`, `Display` with `Terminal`, bad sectors in `Loader`.

The proofs of all eight components.

Left, the most important first:

1. `Heap` with a second caller in an interrupt.
2. A composition of `Core` with the controllers of `Interrupts`, and a run of it with a
   handler that sets the interrupt flag.
3. Runs of their own for the differences listed last in 6, `%#$` first.
