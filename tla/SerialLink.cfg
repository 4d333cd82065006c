SPECIFICATION FairSpec
CONSTANTS
    MaxSessions = 2
    MaxCommands = 2
    MaxTimeouts = 1
    Size <- SameSize
INVARIANTS
    OutputIsComplete
    OutputIsClean
    BoardOrder
PROPERTIES
    ReturnsInStep
    DeviceReleased
    CallsReturn
CHECK_DEADLOCK FALSE
