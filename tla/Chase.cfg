CONSTANTS
    WiggleTime = 1
    WakeTime = 2
    SleepAfter = 3
    Axes = {"horizontal", "vertical"}
    Desktop = {0, 2, 5, 9}
    Home = 5
    Speed = 3
    IdleDistance = 1
    MaxPush = 3
SPECIFICATION FairSpec
INVARIANTS
    TypeOK
    RestIsCounted
    StaysUntilStirred
PROPERTIES
    CatchesStillCursor
