\* Every command with every word as its argument.
CONSTANTS
    Bits <- Widths
    Exponents <- Powers
    ADDRESSES = 5
SPECIFICATION Spec
INVARIANTS
    DecimalReadsBack
    BitsReadBack
    PowersOfTwo
    MemoryRight
