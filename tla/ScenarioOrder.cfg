SPECIFICATION Spec
CONSTANTS
    first = first
    second = second
    Markers <- BothMarkers
    Unknown = Unknown
    Malformed = Malformed
    Kinds <- SomeKinds
    MaxTests = 3
    MaxSteps = 2
INVARIANTS
    RunsInOrder
    GreenCameToAll
CHECK_DEADLOCK FALSE
