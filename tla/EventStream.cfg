SPECIFICATION EventSpec
CONSTANTS
    MaxOps = 3
    MaxLines = 2
    Readers = {r1}
INVARIANTS
    MixedStreamIsReset
PROPERTIES
    StatusIsComplete
    StreamEnds
