\* A ring of three events, a letter that is held down and a shift key, up to two
\* bytes at the controller.
CONSTANTS
    SIZE = 3
    Codes = {30, 42}
    Shifts = {42}
    Let = {42}
    PortMax = 2
    None = None
    Junk = Junk
SPECIFICATION FairSpec
INVARIANTS
    TypeOK
PROPERTIES
    ImplementsQueue
    ControllerDrained
