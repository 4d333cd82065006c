SPECIFICATION FairSpec
CONSTANTS
    MaxConnects = 2
    MaxCommands = 1
INVARIANTS
    CommandsReachShell
    RefusalIsReal
    AnswerUnderWay
PROPERTIES
    DeviceIsFreed
CHECK_DEADLOCK FALSE
