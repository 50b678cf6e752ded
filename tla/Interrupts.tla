----------------------------- MODULE Interrupts -----------------------------
(***************************************************************************)
(* The interrupt bee (bees/interrupt): the interrupt descriptor table, the *)
(* two 8259 controllers, the common stub and isr_handler, and              *)
(* registerInterrupt as the bees with a device call it from their init     *)
(* functions.  The processor and the controllers are modelled from how the *)
(* code uses them.                                                         *)
(***************************************************************************)
EXTENDS Naturals, Sequences, SequencesExt

CONSTANTS
    Devices,    \* the lines with a device, each with a bee that serves it
    Cascade,    \* whether a bee unmasks line 2 with its own: line -> {} or {2}
    Enabling,   \* the lines whose handler enables interrupts while it runs
    Exceptions, \* the vectors of exceptions the running code may cause
    Returning,  \* those of them for which a bee registers a handler that returns
    DEPTH       \* a bound on the interrupts served inside each other

Lines   == 0 .. 15
Vectors == 0 .. 255

ASSUME InterruptsAssumption ==
    /\ Devices \subseteq Lines \ {2}
    /\ Cascade \in [Devices -> SUBSET {2}]
    /\ Enabling \subseteq Devices
    /\ Exceptions \subseteq 0 .. 31 /\ Returning \subseteq Exceptions
    /\ DEPTH \in Nat

VARIABLES
    gates,    \* the table the processor uses: vector -> int_no its stub pushes
    handler,  \* handler_functions: "none", or what kind of function it is
    base,     \* the vectors of the first line of each controller
    mask,     \* the lines masked at their controller
    irr, isr, \* the lines waiting and in service
    IFlag,    \* the interrupt flag
    boot,     \* how far the bees' init functions are: "reset", "idt", "on"
    todo,     \* the devices whose bee has not been started
    bee,      \* the device whose bee is in its init function, and its next step
    frames,   \* the interrupts being served, the innermost last
    halted    \* the processor is in a hlt with interrupts disabled

pic  == <<base, mask, irr, isr>>
vars == <<gates, handler, pic, IFlag, boot, todo, bee, frames, halted>>

NoBee == [line |-> 16, at |-> "none"]

-----------------------------------------------------------------------------
(* The controllers (external).                                              *)

\* Lines 8 to 15 come in through line 2 of the first controller.
Upstream(l) == IF l >= 8 THEN {2, l} ELSE {l}

\* k comes before l: the lines of the second controller take the place of line 2.
Urgent(k, l) == LET First(n) == IF n >= 8 THEN 2 ELSE n
                IN First(k) < First(l) \/ (k >= 8 /\ l >= 8 /\ k < l)

\* The line the controllers would deliver: the first of those that wait
\* unmasked, if it comes before those in service at each controller it passes.
Deliverable ==
    LET Waiting == {l \in irr : Upstream(l) \cap mask = {}}
    IN {l \in Waiting : /\ \A k \in Waiting : ~Urgent(k, l)
                        /\ \A k \in isr, n \in Upstream(l) :
                              k \div 8 = n \div 8 => n < k}

VectorOf(l) == base[l \div 8] + (l % 8)

\* A line is asserted.  Asserting it again before it is delivered is lost.
Raise(l) ==
    /\ l \notin irr
    /\ irr' = irr \cup {l}
    /\ UNCHANGED <<gates, handler, base, mask, isr, IFlag, boot, todo, bee, frames, halted>>

\* The first of the lines of a controller that are in service.
FirstOf(c) ==
    {l \in isr : l \div 8 = c /\ \A k \in isr : k \div 8 = c => l <= k}

-----------------------------------------------------------------------------
(* Entering and leaving an interrupt.                                       *)

\* The exceptions for which the processor pushes an error code, and the
\* vectors whose stub (ISR_ERR) counts on that.
PushesError(v) == v \in {8, 10, 11, 12, 13, 14, 17}

StubExpectsError_page(v) == v \in {8, 10, 11, 12, 13, 17}
StubExpectsError(v) == v \in {8, 10, 11, 12, 13, 14, 17}

\* What the processor and the stub of v have pushed when isr_common_stub runs.
Pushed(v, external) ==
    <<"eflags", "cs", "eip">>
    \o (IF PushesError(v) /\ ~external THEN <<"error">> ELSE <<>>)
    \o (IF StubExpectsError(v) THEN <<>> ELSE <<"zero">>)
    \o <<"int_no">>

Frame(v, line) ==
    [int_no |-> gates[v], line |-> line, at |-> "call", words |-> Pushed(v, line < 16),
     flag |-> IFlag]

top == frames[Len(frames)]

At(a) == ~halted /\ frames # <<>> /\ top.at = a

\* Interrupt gates clear the flag, as does the cli of the stub.
Deliver(l) ==
    /\ IFlag
    /\ ~halted
    /\ l \in Deliverable
    /\ VectorOf(l) \in DOMAIN gates
    /\ Len(frames) < DEPTH
    /\ irr' = irr \ {l}
    /\ isr' = isr \cup Upstream(l)
    /\ frames' = Append(frames, Frame(VectorOf(l), l))
    /\ IFlag' = FALSE
    /\ UNCHANGED <<gates, handler, base, mask, boot, todo, bee, halted>>

\* The code of a bee causes an exception.
Fault(v) ==
    /\ boot = "on"
    /\ ~halted
    /\ frames = <<>>
    /\ v \in DOMAIN gates
    /\ frames' = Append(frames, Frame(v, 16))
    /\ IFlag' = FALSE
    /\ UNCHANGED <<gates, handler, pic, boot, todo, bee, halted>>

\* isr_handler calls the function registered for int_no.
isr_handler ==
    /\ At("call")
    /\ handler[top.int_no] \notin {"none", "stops"}
    /\ frames' = [frames EXCEPT ![Len(frames)].at = "handler"]
    /\ UNCHANGED <<gates, handler, pic, IFlag, boot, todo, bee, halted>>

\* The functions of registerBASIC print a message and stop the processor.
handle_exception ==
    /\ At("call")
    /\ handler[top.int_no] = "stops"
    /\ halted' = TRUE
    /\ UNCHANGED <<gates, handler, pic, IFlag, boot, todo, bee, frames>>

\* So does isr_handler when no function is registered.
UNHANDLED_INTERRUPT ==
    /\ At("call")
    /\ handler[top.int_no] = "none"
    /\ halted' = TRUE
    /\ UNCHANGED <<gates, handler, pic, IFlag, boot, todo, bee, frames>>

\* The function calls get_key or registerInterrupt, which end with sti.
HandlerEnables ==
    /\ At("handler")
    /\ top.line \in Enabling
    /\ ~IFlag
    /\ IFlag' = TRUE
    /\ UNCHANGED <<gates, handler, pic, boot, todo, bee, frames, halted>>

\* A mutant that signals the end before the handler has run.
HandlerReturns_skip ==
    /\ At("handler")
    /\ frames' = [frames EXCEPT ![Len(frames)].at = "iret"]
    /\ UNCHANGED <<gates, handler, pic, IFlag, boot, todo, bee, halted>>

HandlerReturns ==
    /\ At("handler")
    /\ frames' = [frames EXCEPT ![Len(frames)].at = "eoi"]
    /\ UNCHANGED <<gates, handler, pic, IFlag, boot, todo, bee, halted>>

\* The lines whose service PIC_EOI ends: of the second controller from vector
\* 40 on, and of the first one for every hardware interrupt.  A mutant leaves
\* the second controller out.
Ended_first(v) == IF v \in 32 .. 47 THEN FirstOf(0) ELSE {}
Ended(v) == (IF v \in 40 .. 47 THEN FirstOf(1) ELSE {})
            \cup (IF v \in 32 .. 47 THEN FirstOf(0) ELSE {})

EndOfInterrupt ==
    /\ At("eoi")
    /\ isr' = isr \ Ended(top.int_no)
    /\ frames' = [frames EXCEPT ![Len(frames)].at = "iret"]
    /\ UNCHANGED <<gates, handler, base, mask, irr, IFlag, boot, todo, bee, halted>>

\* isr_common_stub drops int_no and the word below it, and returns.
iret ==
    /\ At("iret")
    /\ frames' = Front(frames)
    /\ IFlag' = top.flag
    /\ UNCHANGED <<gates, handler, pic, boot, todo, bee, halted>>

-----------------------------------------------------------------------------
(* The init functions, while no interrupt is being served.                  *)

Main == frames = <<>> /\ ~halted

\* A mutant that leaves the second controller where the firmware put it.
pic_remap_first == [c \in {0, 1} |-> IF c = 0 THEN 32 ELSE base[c]]
pic_remap == [c \in {0, 1} |-> IF c = 0 THEN 32 ELSE 40]

\* The gates and what the stubs they lead to push.
isr_install       == [v \in 0 .. 31 |-> v]
irq_install       == [v \in 32 .. 47 |-> 32 + (v - 32)]
install_extra_isr == [v \in 48 .. 255 |-> v]

idt_init ==
    /\ Main
    /\ boot = "reset"
    /\ gates' = [v \in Vectors |-> IF v < 32 THEN isr_install[v]
                                   ELSE IF v < 48 THEN irq_install[v] ELSE install_extra_isr[v]]
    /\ handler' = [v \in Vectors |-> "none"]
    /\ base' = pic_remap
    /\ mask' = Lines
    /\ boot' = "idt"
    /\ UNCHANGED <<irr, isr, IFlag, todo, bee, frames, halted>>

\* The exceptions with a function of their own.
registerBASIC == {0, 3, 6, 8, 13}

\* Interrupts are enabled, with every line masked, and then the basic functions
\* registered.  Other bees register theirs for exceptions later; here at once.
bee_init ==
    /\ Main
    /\ boot = "idt"
    /\ IFlag' = TRUE
    /\ handler' = [v \in Vectors |-> IF v \in Returning THEN "returns"
                                     ELSE IF v \in registerBASIC THEN "stops" ELSE handler[v]]
    /\ boot' = "on"
    /\ UNCHANGED <<gates, pic, todo, bee, frames, halted>>

\* The queen starts the bee of a device.
StartBee(l) ==
    /\ Main
    /\ boot = "on"
    /\ bee = NoBee
    /\ l \in todo
    /\ todo' = todo \ {l}
    /\ bee' = [line |-> l, at |-> "register"]
    /\ UNCHANGED <<gates, handler, pic, IFlag, boot, frames, halted>>

\* The number a bee registers the handler of a line under.
Slot(l) == 32 + l

\* A mutant that takes the second argument for the function.
registerInterrupt_second ==
    /\ Main
    /\ bee.at = "register"
    /\ handler' = [handler EXCEPT ![Slot(bee.line)] = "flags"]
    /\ IFlag' = TRUE
    /\ bee' = [bee EXCEPT !.at = "unmask"]
    /\ UNCHANGED <<gates, pic, boot, todo, frames, halted>>

\* Between its cli and its sti nothing comes.  The flags it is given are those
\* the gate already has.
registerInterrupt ==
    /\ Main
    /\ bee.at = "register"
    /\ handler' = [handler EXCEPT ![Slot(bee.line)] = "returns"]
    /\ IFlag' = TRUE
    /\ bee' = [bee EXCEPT !.at = "unmask"]
    /\ UNCHANGED <<gates, pic, boot, todo, frames, halted>>

pic_unmask_irq ==
    /\ Main
    /\ bee.at = "unmask"
    /\ mask' = mask \ ({bee.line} \cup Cascade[bee.line])
    /\ bee' = NoBee
    /\ UNCHANGED <<gates, handler, base, irr, isr, IFlag, boot, todo, frames, halted>>

-----------------------------------------------------------------------------

\* The state the second stage leaves: interrupts disabled, the controllers as
\* the firmware has set them up.
Init ==
    /\ gates = <<>>
    /\ handler = [v \in Vectors |-> "none"]
    /\ base = [c \in {0, 1} |-> IF c = 0 THEN 8 ELSE 112]
    /\ mask = {} /\ irr = {} /\ isr = {}
    /\ IFlag = FALSE
    /\ boot = "reset"
    /\ todo = Devices
    /\ bee = NoBee
    /\ frames = <<>>
    /\ halted = FALSE

Serve == isr_handler \/ handle_exception \/ UNHANDLED_INTERRUPT \/ HandlerReturns \/ EndOfInterrupt \/ iret

InitBees == \/ idt_init \/ bee_init \/ registerInterrupt \/ pic_unmask_irq
            \/ \E l \in Devices : StartBee(l)

Stay == halted /\ UNCHANGED vars

Next == \/ \E l \in Devices : Raise(l) \/ Deliver(l)
        \/ \E v \in Exceptions : Fault(v)
        \/ Serve \/ HandlerEnables
        \/ InitBees
        \/ Stay

Spec == Init /\ [][Next]_vars

\* The processor executes the innermost code, gets to the init functions
\* between interrupts, and takes an interrupt that is deliverable again and
\* again.
FairSpec == /\ Spec
            /\ WF_vars(Serve)
            /\ SF_vars(InitBees)
            /\ \A l \in Devices : SF_vars(Deliver(l))

-----------------------------------------------------------------------------
(* Properties.                                                              *)

TypeOK ==
    /\ DOMAIN gates \subseteq Vectors /\ \A v \in DOMAIN gates : gates[v] \in Vectors
    /\ handler \in [Vectors -> {"none", "stops", "returns"}]
    /\ base \in [{0, 1} -> Vectors]
    /\ mask \subseteq Lines /\ irr \subseteq Devices /\ isr \subseteq Devices \cup {2}
    /\ IFlag \in BOOLEAN /\ halted \in BOOLEAN
    /\ boot \in {"reset", "idt", "on"}
    /\ todo \subseteq Devices
    /\ bee.line \in Devices \cup {16} /\ bee.at \in {"none", "register", "unmask"}
    /\ \A k \in DOMAIN frames : frames[k].int_no \in Vectors /\ frames[k].line \in 0 .. 16

\* A line the controllers deliver always has a gate and a handler: every bee
\* registers before it unmasks, and nothing is delivered while the controllers
\* still use the firmware's vectors.
DeviceHandled ==
    /\ \A k \in DOMAIN frames :
          frames[k].line < 16 => handler[frames[k].int_no] = "returns"
    /\ IFlag /\ ~halted => \A l \in Deliverable : VectorOf(l) \in DOMAIN gates

\* The lines in service are those of the hardware interrupts on the stack that
\* have not yet signalled their end, each once: the end of an interrupt is
\* signalled for the line it came from, at every controller it came through,
\* also when a handler enables interrupts and is interrupted itself.
ServiceMatchesStack ==
    LET Unended == {k \in DOMAIN frames : frames[k].line < 16 /\ frames[k].at # "iret"}
    IN /\ isr = UNION {Upstream(frames[k].line) : k \in Unended}
       /\ \A j, k \in Unended : j # k => frames[j].line # frames[k].line

\* When the common stub has dropped two words, what iret takes from the stack
\* is what the processor pushed.
StackBalanced ==
    frames # <<>> /\ top.at = "iret" =>
        SubSeq(top.words, 1, Len(top.words) - 2) = <<"eflags", "cs", "eip">>

\* An interrupt of a line that a bee has unmasked is delivered, unless the
\* machine has been stopped or more urgent lines keep coming: no end of
\* interrupt is forgotten, and no path leaves the interrupt flag cleared.
Delivered ==
    \A l \in Devices :
        <>[](\A k \in irr : ~Urgent(k, l)) =>
            ((boot = "on" /\ l \in irr \ mask) ~> (l \notin irr \/ halted))
=============================================================================
