\* The heap of the code and one request, whose unit count is 65537.
\* BYTE_WIDTH stands for the 2^32 of the code, beyond the integers of TLC; no
\* sum here comes near either.
CONSTANTS
    HEAP_TOTAL_UNITS = 16384
    UNIT_SIZE = 64
    HEADER_SIZE = 8
    UNIT_WIDTH = 65536
    BYTE_WIDTH = 1073741824
    Sizes = {4194300}
SPECIFICATION Spec
INVARIANTS
    HeldFits
