\* Decimal text of the signed types narrower than a word.
CONSTANTS
    Bits <- Widths
    Exponents <- Powers
    ADDRESSES = 5
SPECIFICATION Spec
INVARIANTS
    NarrowReadsBack
