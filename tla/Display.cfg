\* A screen of two rows and two columns, one call of print, one tick that prints.
CONSTANTS
    ROWS = 2
    COLS = 2
    BYTE = 3
    DEFAULT_COLOR = 2
    Hex <- MCHex
    Text <- MCText
    Characters = {"z", "nl"}
    TickCharacters = {"z"}
    Formats <- MCFormats
    Moves <- MCMoves
    PRINTS = 1
    TICKS = 1
SPECIFICATION FairSpec
INVARIANTS
    TypeOK
    FormatHonoured
PROPERTIES
    ImplementsTerminal
    CursorRecovers
    CallsEnd
