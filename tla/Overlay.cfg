CONSTANTS
    Outputs = {o1}
    Sizes <- LandscapeOrTurned
    MaxConfigures = 3
SPECIFICATION FairSpec
INVARIANTS
    TypeOK
    ChainsCounted
PROPERTIES
    PaintsWithinBuffer
    NeverStalls
