CONSTANTS
    Creations = 3
    Word = 7
    HZ = 3
    Waits = {0, 1, 4}
    Starts = TRUE
SPECIFICATION FairSpec
INVARIANTS
    OneRing
    SleepInTime
    SecondsInTime
PROPERTIES
    SleepReturns
