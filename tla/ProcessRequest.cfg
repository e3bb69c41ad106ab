\* One request of each kind; the system stops when both are answered and logged.
SPECIFICATION FairSpec
CONSTANTS
    process = process
    upload = upload
    NoFile = NoFile
    Processes = {process}
    Uploads = {upload}
    Requests0 <- MCRequests0
    BatchSize = 2
    MaxAmount = 100
    Now = 5
    Deployments = {{"csv", "json"}, {"txt", "json"}}
    MaxFileSize = 8
    MulterLimit = 9
INVARIANTS
    TypeOK
    LogTellsOutcome
    FailureLeaves
    PaymentsOnly
    OnlyStrayHeaderCosts
PROPERTIES
    ImplementsLedger
    RequestsEnd
CHECK_DEADLOCK FALSE
