\* The floppy image as it is built.
CONSTANTS
    SECTOR = 512
    MAGIC = 4
    MEMORY_START = 16384
    CELL = 24576
    NAMES_PER_PAGE = 14
    PRIORITIES = 3
    SEARCH_LIMIT = 102400
    MAX_BEES = 1024
    Junk = Junk
    Empty = Empty
    Disks <- Floppy
SPECIFICATION FairSpec
INVARIANTS
    CellApart
