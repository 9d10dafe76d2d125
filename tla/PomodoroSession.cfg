CONSTANTS
    Study = 3
    ShortBreak = 1
    LongerBreak = 2
    Sessions = 2
    SkipBack = 3
    Second = 2
    MaxAge = 8
    MaxCompleted = 5
SPECIFICATION FairSpec
INVARIANTS
    TypeOK
    PauseRemembersItsPhase
    StatusIsHonest
PROPERTIES
    PauseIsFree
    BarSurvivesPause
    ImplementsCycle
    LeftAloneReachesLongBreak
