SPECIFICATION Spec
CONSTANTS
    MaxConnects = 1
    MaxCommands = 1
INVARIANTS
    PromptEstablished
CHECK_DEADLOCK FALSE
