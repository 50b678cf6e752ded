\* The init functions in every order the priorities allow, with further calls.
CONSTANTS
    Orders <- ByPriority
    MEMORY_START = 10
    Units = 8
    UNIT = 4
    HEADER = 1
    Size <- Sizes
    Comb = 5
    Buf = 9
    Extra <- Calls
    tick_handler <- QueenHandler
    NONE = NONE
    NO_MODULE = NO_MODULE
    NO_CMD = NO_CMD
    Unset = Unset
SPECIFICATION FairSpec
INVARIANTS
    TypeOK
    ArgsIntact
    StorageApart
    StorageReady
    NeverNowhere
    OneAtATime
PROPERTIES
    SleepsEnd
