SPECIFICATION Spec
CONSTANTS
    MaxOps = 2
    Requests = {"build_image", "run_tests"}
    Clients = {c1, c2}
    NoClient = NoClient
    AllureEnabled = FALSE
    ReportPortalEnabled = FALSE
    MaxLines = 1
    MaxFaults = 0
INVARIANTS
    SingleOperation
    LogOfRecord
    SignalsAreAimed
PROPERTIES
    TerminalIsFinal
    ImplementsSlot
SYMMETRY ClientSymmetry
