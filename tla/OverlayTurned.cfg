CONSTANTS
    Outputs = {o1}
    Sizes <- LandscapeOrTurned
    MaxConfigures = 3
SPECIFICATION Spec
PROPERTIES
    CoversOutput
