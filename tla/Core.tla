-------------------------------- MODULE Core --------------------------------
(***************************************************************************)
(* The running system: one processor, the queen's dispatcher               *)
(* (core_interrupt_handler of queen/main.c), the bump allocator and its    *)
(* replacement, and the code of Bees, interrupted at any point at which    *)
(* interrupts are enabled.                                                 *)
(*                                                                         *)
(* The stack holds one frame per function that has been called and not     *)
(* returned, the last one running.  A step is one step of its code.        *)
(* Addresses count words.                                                  *)
(***************************************************************************)
EXTENDS Bees, FiniteSets, FiniteSetsExt, SequencesExt

CONSTANTS
    Orders,       \* orders in which the queen may call the init functions
    MEMORY_START, \* MEMORY when the first of them is called
    Units, UNIT, HEADER, \* the heap: its units, words per unit and per header
    NONE, NO_MODULE, NO_CMD, Unset \* what a call leaves in EAX

\* The queen calls each init function once, and a disk with the PIT or the keyboard
\* bee has the interrupt bee too.
ASSUME CoreAssumption ==
    /\ MEMORY_START \in Nat \ {0} /\ Units \in Nat \ {0}
    /\ HEADER \in Nat /\ UNIT \in Nat /\ HEADER < UNIT
    /\ Size \in [1 .. 7 -> Nat] /\ Comb \in Nat /\ Buf \in Nat
    /\ \A o \in Orders :
          /\ o \in Seq(1 .. 7)
          /\ \A j, k \in DOMAIN o : j # k => o[j] # o[k]
          /\ Range(o) \cap {5, 6} # {} => 4 \in Range(o)

VARIABLES
    order,    \* the order of this boot
    turn,     \* number of the init function to be called next
    stack,    \* the frames
    node,     \* of every bee its CoreData.ptr and globalValues
    MEMORY,   \* the bump pointer
    allocF,   \* the allocator in use, "alloc" or "core_alloc"
    heap,     \* global->heap of the memory manager
    blocks,   \* the blocks kmalloc has given away
    ready,    \* of every bee the storage its init function has filled in, or 0
    handler,  \* handler_functions: vector -> bee, 0 if there is none
    unmasked, \* vectors the controllers let through
    IFlag,    \* the interrupt flag
    ticked,   \* a tick has been counted since the last sleep began
    hooked    \* a tick handler is registered

queen == <<node, MEMORY, allocF>>
irqs  == <<handler, unmasked, IFlag>>
bees  == <<heap, blocks, ready, ticked, hooked>>
vars  == <<order, turn, stack, queen, irqs, bees>>

-----------------------------------------------------------------------------
(* Frames.                                                                  *)

\* An array of arguments: the frame it is in and its contents.
Array(k, args) == [frame |-> k, args |-> args]
NoArray == Array(0, <<>>)

\* A frame: the bee and the name of its code, the step it is at, the array its
\* caller has passed (want), the array core->ptr led to when it was read (saw),
\* the storage it knows, and EAX of its last call.
Frame(b, code, want, global) ==
    [bee |-> b, code |-> code, at |-> 1, want |-> want, saw |-> NoArray,
     global |-> global, eax |-> Unset]

top == stack[Len(stack)]
step == Code[top.code][top.at]

\* The running function is at a step with this operation.
At(op) == /\ stack # <<>>
          /\ top.at <= Len(Code[top.code])
          /\ step.op = op

\* The stack with the running function a step further.
Onward == [stack EXCEPT ![Len(stack)].at = @ + 1]

\* The running function has made its step; or it has been answered with e; or
\* it calls a function whose frame is f.
Step == stack' = Onward
Answer(e) == stack' = [Onward EXCEPT ![Len(stack)].eax = e]
Enter(f) == stack' = Append(Onward, f)
EnterAnswered(f, e) == stack' = Append([Onward EXCEPT ![Len(stack)].eax = e], f)

InISR == \E k \in DOMAIN stack : stack[k].code = "isr_handler"

Present(b) == \E k \in DOMAIN order : order[k] = b

-----------------------------------------------------------------------------
(* Memory.                                                                  *)

RoundUp(n) == ((n + UNIT - 1) \div UNIT) * UNIT

\* Units for n words and a header.
Need(n) == (n + HEADER + UNIT - 1) \div UNIT

Block(lo, n, to) == [lo |-> lo, hi |-> lo + n, to |-> to]

Apart(lo, hi, lo2, hi2) == hi <= lo2 \/ hi2 <= lo

\* The first words of the blocks that n units may be granted as.
Gaps(n) ==
    {lo \in {heap + u * UNIT : u \in 0 .. (Units - n)} :
        \A b \in blocks : Apart(lo, lo + n * UNIT, b.lo, b.hi)}

-----------------------------------------------------------------------------
(* The dispatcher.                                                          *)

Call(id, cmd) == At("syscall") /\ step.id = id /\ step.cmd = cmd

\* The array of arguments of the running function's call.
Passed == Array(Len(stack), step.args)

\* A mutant that leaves the array of the previous call.
SetCoreData_once(b, array) ==
    [node EXCEPT ![b].ptr = IF @ = NoArray THEN array ELSE @]

\* The call of a function of bee b: the queen leaves the array in the bee's
\* CoreData and passes its storage, if there is any.
SetCoreData(b, array) == [node EXCEPT ![b].ptr = array]

Callee(b, cmd, array) == Frame(b, Exports[b][cmd], array, node[b].global)

\* alloc: the words at MEMORY.  It clears as many 32-bit words as it was asked for
\* bytes, four times what it gives away, and with them what init functions had filled
\* in there, if anything.
alloc(n) == MEMORY + n
Cleared(n) ==
    [b \in 1 .. 7 |-> IF Apart(ready[b], ready[b] + Size[b], MEMORY, MEMORY + (4 * n))
                      THEN ready[b] ELSE 0]

\* The test of CMD 1 that keeps a second allocation out, and a mutant that
\* does not.
Refused_never(b) == FALSE
Refused(b) == node[b].global # 0

\* CMD 1 with the bump allocator.
Core_alloc_bump ==
    /\ Call(0, 1)
    /\ LET b == step.args[1]
       IN  /\ Present(b)
           /\ ~Refused(b)
           /\ allocF = "alloc"
           /\ node' = [node EXCEPT ![b].global = MEMORY]
           /\ MEMORY' = alloc(step.args[2])
           /\ ready' = Cleared(step.args[2])
    /\ Answer(NONE)
    /\ UNCHANGED <<order, turn, allocF, irqs, heap, blocks, ticked, hooked>>

\* CMD 1 with core_alloc, which calls kmalloc through the dispatcher and has it
\* store the pointer in globalValues.
Core_alloc_heap ==
    /\ Call(0, 1)
    /\ LET b == step.args[1]
           array == Array(Len(stack), <<step.args[2], b>>)
       IN  /\ Present(b)
           /\ ~Refused(b)
           /\ allocF = "core_alloc"
           /\ node' = SetCoreData(7, array)
           /\ EnterAnswered(Callee(7, 1, array), NONE)
    /\ UNCHANGED <<order, turn, MEMORY, allocF, irqs, bees>>

\* CMD 1 of a bee that has storage returns without an answer in EAX.
Core_alloc_again ==
    /\ Call(0, 1)
    /\ Present(step.args[1])
    /\ Refused(step.args[1])
    /\ Answer(Unset)
    /\ UNCHANGED <<order, turn, queen, irqs, bees>>

\* CMD 2, by which a bee gets hold of its own storage.
Core_storage ==
    /\ Call(0, 2)
    /\ Present(step.args[1])
    /\ stack' = [Onward EXCEPT ![Len(stack)].eax = NONE,
                               ![Len(stack)].global = node[step.args[1]].global]
    /\ UNCHANGED <<order, turn, queen, irqs, bees>>

\* CMD 3: the address of CoreData never changes.
Core_data ==
    /\ Call(0, 3)
    /\ Present(step.args[1])
    /\ Answer(NONE)
    /\ UNCHANGED <<order, turn, queen, irqs, bees>>

\* CMD 4, by which the memory manager asks where the free memory begins.
Core_end ==
    /\ Call(0, 4)
    /\ Answer(NONE)
    /\ heap' = MEMORY
    /\ UNCHANGED <<order, turn, queen, irqs, blocks, ready, ticked, hooked>>

\* CMD 5, by which it replaces the allocator.
Core_set_alloc ==
    /\ Call(0, 5)
    /\ Answer(NONE)
    /\ allocF' = "core_alloc"
    /\ UNCHANGED <<order, turn, node, MEMORY, irqs, bees>>

\* The id that CMD 1 to 3 are about, or else the module of the call.
Target == IF step.id = 0 THEN step.args[1] ELSE step.id

Core_no_module ==
    /\ At("syscall")
    /\ step.id # 0 \/ step.cmd \in 1 .. 3
    /\ ~Present(Target)
    /\ Answer(NO_MODULE)
    /\ UNCHANGED <<order, turn, queen, irqs, bees>>

\* A command the queen does not have, or a word of funcs that is 0: that of
\* CMD 0 of a bee with exports.
Core_no_cmd ==
    /\ At("syscall")
    /\ \/ step.id = 0 /\ step.cmd \notin 1 .. 5
       \/ step.id # 0 /\ Present(step.id) /\ step.cmd = 0 /\ Exports[step.id] # <<>>
    /\ Answer(NO_CMD)
    /\ UNCHANGED <<order, turn, queen, irqs, bees>>

\* A command of a bee.  Behind the last word of funcs lies whatever has been
\* put there: numFuncs is not looked at.
Core_dispatch ==
    /\ At("syscall")
    /\ step.id # 0
    /\ Present(step.id)
    /\ step.cmd > 0 \/ Exports[step.id] = <<>>
    /\ node' = SetCoreData(step.id, Passed)
    /\ IF step.cmd \in DOMAIN Exports[step.id]
       THEN EnterAnswered(Callee(step.id, step.cmd, Passed), NONE)
       ELSE EnterAnswered(Frame(step.id, "Nowhere", Passed, node[step.id].global), NONE)
    /\ UNCHANGED <<order, turn, MEMORY, allocF, irqs, bees>>

Core_interrupt_handler ==
    \/ Core_alloc_bump \/ Core_alloc_heap \/ Core_alloc_again
    \/ Core_storage \/ Core_data \/ Core_end \/ Core_set_alloc
    \/ Core_no_module \/ Core_no_cmd \/ Core_dispatch

-----------------------------------------------------------------------------
(* The other steps of the bees.                                             *)

\* The argument array is read through core->ptr.
ReadArgs ==
    /\ At("args")
    /\ stack' = [Onward EXCEPT ![Len(stack)].saw = node[top.bee].ptr]
    /\ UNCHANGED <<order, turn, queen, irqs, bees>>

Cli == At("cli") /\ Step /\ IFlag' = FALSE
       /\ UNCHANGED <<order, turn, queen, handler, unmasked, bees>>
Sti == At("sti") /\ Step /\ IFlag' = TRUE
       /\ UNCHANGED <<order, turn, queen, handler, unmasked, bees>>

\* The memory manager lays out the heap behind the bump allocator.
LayOutHeap ==
    /\ At("heap")
    /\ Step
    /\ heap' = RoundUp(heap + HEADER)
    /\ ready' = [ready EXCEPT ![7] = top.global]
    /\ UNCHANGED <<order, turn, queen, irqs, blocks, ticked, hooked>>

\* idt_init clears the table of handlers and masks every line.
IdtInit ==
    /\ At("idt")
    /\ Step
    /\ handler' = [v \in DOMAIN handler |-> 0]
    /\ unmasked' = {}
    /\ ready' = [ready EXCEPT ![4] = top.global]
    /\ UNCHANGED <<order, turn, queen, IFlag, heap, blocks, ticked, hooked>>

\* The fields of the PIT bee's or the keyboard bee's storage get their values.
FillIn ==
    /\ At("fields")
    /\ Step
    /\ ready' = [ready EXCEPT ![top.bee] = top.global]
    /\ UNCHANGED <<order, turn, queen, irqs, heap, blocks, ticked, hooked>>

pic_unmask_irq(n, op) ==
    /\ At(op)
    /\ Step
    /\ unmasked' = unmasked \cup {n}
    /\ UNCHANGED <<order, turn, queen, handler, IFlag, bees>>

\* A mutant that stores the number of the interrupt.
Install_id ==
    /\ At("install")
    /\ Step
    /\ handler' = [handler EXCEPT ![top.saw.args[1]] = top.saw.args[1]]
    /\ UNCHANGED <<order, turn, queen, unmasked, IFlag, bees>>

Install ==
    /\ At("install")
    /\ Step
    /\ handler' = [handler EXCEPT ![top.saw.args[1]] = top.saw.args[2]]
    /\ UNCHANGED <<order, turn, queen, unmasked, IFlag, bees>>

\* kmalloc takes the first gap that is large enough and stores a pointer to the
\* payload.  It leaves what was in the memory before.
Kmalloc ==
    /\ At("kmalloc")
    /\ Step
    /\ LET n  == Need(top.saw.args[1])
           to == top.saw.args[2]
       IN  /\ Gaps(n) # {}
           /\ blocks' = blocks \cup {Block(Min(Gaps(n)), n * UNIT, to)}
           /\ node' = IF to = 0 THEN node
                      ELSE [node EXCEPT ![to].global = Min(Gaps(n)) + HEADER]
    /\ UNCHANGED <<order, turn, MEMORY, allocF, irqs, heap, ready, ticked, hooked>>

\* There is no room: kmalloc stores the null pointer, which is what globalValues
\* held before.
KmallocFails ==
    /\ At("kmalloc")
    /\ Step
    /\ Gaps(Need(top.saw.args[1])) = {}
    /\ UNCHANGED <<order, turn, queen, irqs, bees>>

\* kfree gives back one of the blocks that callers have been given, and nothing when it
\* is called with the null pointer.
Kfree ==
    /\ At("kfree")
    /\ Step
    /\ \/ top.saw.args[1] = 0 /\ UNCHANGED blocks
       \/ /\ top.saw.args[1] # 0
          /\ \E e \in blocks : e.to = 0 /\ blocks' = blocks \ {e}
    /\ UNCHANGED <<order, turn, queen, irqs, heap, ready, ticked, hooked>>

\* A block that has been given back already keeps kfree in a loop.
FreedTwice == At("kfree") /\ top.saw.args[1] # 0 /\ \A e \in blocks : e.to # 0

\* Something is read from storage or hardware, or written to a local variable.
Look == /\ At("look") \/ At("put")
        /\ Step
        /\ UNCHANGED <<order, turn, queen, irqs, bees>>

\* sleep takes the tick count and then waits for it to change.
StartSleep == /\ At("start") /\ Step /\ ticked' = FALSE
              /\ UNCHANGED <<order, turn, queen, irqs, heap, blocks, ready, hooked>>
Tick == /\ At("tick") /\ Step /\ ticked' = TRUE
        /\ UNCHANGED <<order, turn, queen, irqs, heap, blocks, ready, hooked>>
SleepOver == /\ At("wait") /\ ticked /\ Step
             /\ UNCHANGED <<order, turn, queen, irqs, bees>>
Hook == /\ At("hook") /\ Step /\ hooked' = (top.saw.args[1] # 0)
        /\ UNCHANGED <<order, turn, queen, irqs, heap, blocks, ready, ticked>>

\* The timer interrupt calls the registered function.
Callback ==
    /\ At("callback")
    /\ IF hooked THEN Enter(Frame(0, "tick_handler", NoArray, 0)) ELSE Step
    /\ UNCHANGED <<order, turn, queen, irqs, bees>>

\* isr_handler calls the handler of the vector it was entered for.
Handle ==
    /\ At("handler")
    /\ LET b == handler[top.want.args[1]]
       IN Enter(Frame(b, IF b = 0 THEN "Nowhere" ELSE HandlerOf[b], NoArray, 0))
    /\ UNCHANGED <<order, turn, queen, irqs, bees>>

EndOfInterrupt == /\ At("eoi") /\ Step
                  /\ UNCHANGED <<order, turn, queen, irqs, bees>>

\* The loop of system_start.
Again ==
    /\ At("again")
    /\ stack' = [stack EXCEPT ![Len(stack)].at = @ - 1]
    /\ UNCHANGED <<order, turn, queen, irqs, bees>>

Halt == (At("halt") \/ (At("wait") /\ ~ticked) \/ FreedTwice) /\ UNCHANGED vars

\* A function returns; iret sets the interrupt flag again.
Return ==
    /\ stack # <<>>
    /\ top.at > Len(Code[top.code])
    /\ stack' = Front(stack)
    /\ IFlag' = (IFlag \/ top.code = "isr_handler")
    /\ UNCHANGED <<order, turn, queen, handler, unmasked, bees>>

\* run_inits calls the next init function.
RunInit ==
    /\ stack = <<>>
    /\ turn <= Len(order)
    /\ stack' = <<Frame(order[turn], InitOf[order[turn]], NoArray, 0)>>
    /\ turn' = turn + 1
    /\ UNCHANGED <<order, queen, irqs, bees>>

Execute ==
    \/ Core_interrupt_handler
    \/ ReadArgs \/ Cli \/ Sti
    \/ LayOutHeap \/ IdtInit \/ FillIn
    \/ pic_unmask_irq(32, "unmask0") \/ pic_unmask_irq(33, "unmask1") \/ Install
    \/ Kmalloc \/ KmallocFails \/ Kfree \/ Look
    \/ StartSleep \/ Tick \/ SleepOver \/ Hook \/ Callback \/ Handle \/ EndOfInterrupt
    \/ Again \/ Return \/ RunInit

\* The interrupts that are served, whose end has not been signalled yet.
InService ==
    {stack[k].want.args[1] : k \in {j \in DOMAIN stack :
        stack[j].code = "isr_handler" /\ stack[j].at <= Len(isr_handler)}}

\* An interrupt of vector v.  The controller lets it through when it is more urgent
\* than all that are served; what keeps it out besides is the interrupt flag, which
\* stays clear until iret unless a handler sets it.
Interrupt(v) ==
    /\ IFlag
    /\ v \in unmasked
    /\ \A u \in InService : v < u
    /\ stack' = Append(stack, Frame(4, "isr_handler", Array(0, <<v>>), 0))
    /\ IFlag' = FALSE
    /\ UNCHANGED <<order, turn, queen, handler, unmasked, bees>>

-----------------------------------------------------------------------------

Init ==
    /\ order \in Orders
    /\ turn = 1
    /\ stack = <<>>
    /\ node = [b \in 1 .. 7 |-> [ptr |-> NoArray, global |-> 0]]
    /\ MEMORY = MEMORY_START
    /\ allocF = "alloc"
    /\ heap = 0
    /\ blocks = {}
    /\ ready = [b \in 1 .. 7 |-> 0]
    /\ handler = [v \in {13, 32, 33} |-> 0]
    /\ unmasked = {}
    /\ IFlag = FALSE
    /\ ticked = FALSE
    /\ hooked = FALSE

Next == Execute \/ Halt \/ \E v \in {32, 33} : Interrupt(v)

Spec == Init /\ [][Next]_vars

\* The processor executes instructions, also of the code that is interrupted:
\* interrupts take a part of its time.  The timer is periodic, and first among
\* the lines.
FairSpec == /\ Spec
            /\ WF_vars(InISR /\ Execute)
            /\ SF_vars(~InISR /\ Execute)
            /\ SF_vars(Interrupt(32))

-----------------------------------------------------------------------------
(* Properties.                                                              *)

Words == [frame : Nat, args : Seq(Nat)]

\* Frames run code that exists, at one of its steps or at its end, and the
\* tables hold bees and addresses.
TypeOK ==
    /\ turn \in 1 .. (Len(order) + 1)
    /\ \A k \in DOMAIN stack :
          LET f == stack[k]
          IN  /\ f.bee \in 0 .. 7
              /\ f.code \in DOMAIN Code
              /\ f.at \in 1 .. (Len(Code[f.code]) + 1)
              /\ f.want \in Words /\ f.saw \in Words
              /\ f.global \in Nat
              /\ f.eax \in {NONE, NO_MODULE, NO_CMD, Unset}
    /\ node \in [1 .. 7 -> [ptr : Words, global : Nat]]
    /\ MEMORY \in Nat /\ heap \in Nat
    /\ allocF \in {"alloc", "core_alloc"}
    /\ \A b \in blocks : b.lo \in Nat /\ b.hi \in Nat /\ b.to \in 0 .. 7
    /\ ready \in [1 .. 7 -> Nat]
    /\ handler \in [{13, 32, 33} -> 0 .. 7]
    /\ unmasked \subseteq {32, 33}
    /\ {IFlag, ticked, hooked} \subseteq BOOLEAN

\* Whatever calls and interrupts come between the moment the queen stores the
\* array of arguments in a bee's CoreData and the moment the command reads it
\* from there, the command reads the array of its own caller.
ArgsIntact ==
    \A k \in DOMAIN stack : stack[k].saw # NoArray => stack[k].saw = stack[k].want

\* The words of the storage of b.
Lo(b) == node[b].global
Hi(b) == node[b].global + Size[b]

\* The storage of every bee is its own: it shares no word with that of another,
\* and it is not in the heap unless kmalloc has given it a block there.  The
\* memory manager takes everything behind MEMORY for its heap and only then
\* replaces the allocator.
StorageApart ==
    \A b \in 1 .. 7 : node[b].global # 0 =>
        /\ \A c \in 1 .. 7 \ {b} : node[c].global # 0 => Apart(Lo(b), Hi(b), Lo(c), Hi(c))
        /\ ready[7] # 0 =>
              \/ Apart(Lo(b), Hi(b), heap, heap + Units * UNIT)
              \/ \E e \in blocks : e.to = b /\ e.lo + HEADER <= Lo(b) /\ Hi(b) <= e.hi

\* The steps that go through the storage of the running function's bee.
Touches == {"install", "look", "put", "kmalloc", "kfree", "start", "tick", "wait", "hook",
            "callback", "handler"}

\* No function and no interrupt handler goes through any storage of its bee but
\* the one that the bee's init function has obtained and filled in: the order in
\* which init functions run, allocate, register and unmask is right, and a later
\* allocation replaces nothing.
StorageReady ==
    stack # <<>> /\ top.at <= Len(Code[top.code]) =>
        /\ step.op \in Touches => top.global # 0 /\ top.global = ready[top.bee]
        /\ step.op \in {"fields", "heap", "idt"} => top.global # 0

\* No interrupt comes for which no handler is registered, and no call goes
\* anywhere but to a function.
NeverNowhere == \A k \in DOMAIN stack : stack[k].code # "Nowhere"

\* The init functions that return have all returned, and system_start's loop
\* goes round for ever: its sleep always ends.
Looping == stack # <<>> /\ Len(stack) = 1 /\ top.code = "start_init" /\ At("again")
SleepsEnd == []<>Looping

\* Commands of the memory manager and of the display never run inside each other:
\* no handler calls them, and their callers do not.  Their code relies on it, for
\* it keeps nobody out; Heap takes it over from here.
OneAtATime ==
    \A b \in {1, 7} :
        Cardinality({k \in DOMAIN stack : stack[k].bee = b /\ stack[k].code \in Range(Exports[b])}) <= 1

-----------------------------------------------------------------------------
(* What the theorem about StorageReady supposes.                            *)

\* The queen calls the init functions as Loader says: the urgent ones first.
Prioritised ==
    \A o \in Orders : \A j, k \in DOMAIN o : j < k => Priority[o[j]] <= Priority[o[k]]

\* The heap is no smaller than what the bees that interrupts call ask for at their start.
HeapSuffices == Need(Size[4]) + Need(Size[5]) + Need(Size[6]) <= Units
=============================================================================
