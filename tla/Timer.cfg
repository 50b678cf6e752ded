\* Short and long sleeps at three frequencies.  WIDTH stands for 2^32, beyond the
\* integers of TLC; nothing comes near either.
CONSTANTS
    PIT_FREQUENCY = 1193182
    WIDTH = 1073741824
    COUNTER = 65536
    Durations = {5, 19, 30}
    Frequencies = {50, 100, 200}
    Handlers = {"keep", "once", "retune"}
    START = 0
    TICKS = 8
SPECIFICATION FairSpec
INVARIANTS
    TypeOK
    NotTooLong
PROPERTIES
    LessThanTwoTicksShort
    SleepEnds
