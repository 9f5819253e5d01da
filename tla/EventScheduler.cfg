SPECIFICATION FairSpec
CONSTANTS
    Delays = {0, 1}
    Deltas = {500, 1500}
    MaxEntries = 4
    MaxTimer = 3000
CHECK_DEADLOCK FALSE
INVARIANTS
    ExecutedOnceOnTime
    FifoPerTimestamp
PROPERTIES
    ImplementsTimerService
    UpdateEnds
