CONSTANTS
    Daemons = {d1, d2}
    Clients = {c1, c2}
    MaxNumeral = 3
    CommandLines <- TypedLines
    Files <- TwoFiles
    Screens <- TwoScreens
    Arguments <- MixedArguments
    Lines <- MixedLines
    MaxArguments = 3
    MaxLines = 2
SPECIFICATION FairSpec
INVARIANTS
    TypeOK
    LaunchesAsMeant
    AloneIsReachable
    ExitTellsTheTruth
PROPERTIES
    UnservedLeavesSocket
    GetsOn
CHECK_DEADLOCK FALSE
