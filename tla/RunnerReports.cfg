SPECIFICATION FairSpec
CONSTANTS
    MaxOps = 1
    Requests = {"build_image", "pull_image", "run_tests"}
    Clients = {c1, c2}
    NoClient = NoClient
    AllureEnabled = TRUE
    ReportPortalEnabled = TRUE
    MaxLines = 1
    MaxFaults = 1
INVARIANTS
    TypeOK
    RecordOfTask
    CancelledRunHasNoVerdict
    NothingLeftBehind
    VerdictOfProcess
    NoPhantomOperation
PROPERTIES
    NoPublicationAfterCancel
    EveryOperationEnds
    EveryCancelIsAnswered
