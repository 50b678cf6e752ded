\* Four to six bees of the repository in every order; the disk images as built,
\* with bad sectors, with unnamed bees and with gaps as long as a search (64 sectors
\* here in place of 102400); two names to a page.
CONSTANTS
    SECTOR = 512
    MAGIC = 4
    MEMORY_START = 16384
    CELL = 24576
    NAMES_PER_PAGE = 2
    PRIORITIES = 3
    SEARCH_LIMIT = 64
    MAX_BEES = 1024
    Junk = Junk
    Empty = Empty
    Disks <- AnyDisk
SPECIFICATION FairSpec
INVARIANTS
    TypeOK
    RegionsDisjoint
    NoJunkRead
    LookupComplete
    DependenciesMet
PROPERTIES
    ImplementsBootOrder
