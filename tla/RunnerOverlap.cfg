SPECIFICATION Spec
CONSTANTS
    MaxOps = 2
    Requests = {"build_image", "run_tests"}
    Clients = {c1}
    NoClient = NoClient
    AllureEnabled = FALSE
    ReportPortalEnabled = FALSE
    MaxLines = 0
    MaxFaults = 0
INVARIANTS
    OneTestContainer
