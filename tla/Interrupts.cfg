\* The timer, the keyboard and the clock; the handlers of the keyboard and of
\* the clock enable interrupts; an invalid opcode, a missing coprocessor and a
\* page fault occur, and a bee handles the page fault.
CONSTANTS
    Devices <- D
    Cascade <- C
    Enabling = {1, 8}
    Exceptions = {6, 7, 14}
    Returning = {14}
    DEPTH = 3
SPECIFICATION FairSpec
INVARIANTS
    TypeOK
    DeviceHandled
    ServiceMatchesStack
    StackBalanced
PROPERTIES
    Delivered
