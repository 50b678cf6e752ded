\* The bees of the repository and a tick handler that calls the display.
CONSTANTS
    Orders <- Built
    MEMORY_START = 10
    Units = 8
    UNIT = 4
    HEADER = 1
    Size <- Sizes
    Comb = 5
    Buf = 9
    Extra <- PrintingCalls
    tick_handler <- PrintingHandler
    NONE = NONE
    NO_MODULE = NO_MODULE
    NO_CMD = NO_CMD
    Unset = Unset
SPECIFICATION FairSpec
INVARIANTS
    ArgsIntact
