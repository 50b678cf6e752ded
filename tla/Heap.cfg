\* A heap of 6 units of 4 bytes; the sizes take 1, 2, 3 and 5 units, the first
\* and the third of them exactly.
CONSTANTS
    HEAP_TOTAL_UNITS = 6
    UNIT_SIZE = 4
    HEADER_SIZE = 2
    UNIT_WIDTH = 16
    BYTE_WIDTH = 64
    Sizes = {0, 2, 3, 10, 15}
SPECIFICATION FairSpec
INVARIANTS
    TypeOK
    Tiling
    NoFreeNeighbours
    HeldFits
PROPERTIES
    CallsReturn
    ImplementsPool
