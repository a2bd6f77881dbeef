SPECIFICATION Spec
CONSTANTS
    a = a
    b = b
    r1 = r1
    r2 = r2
    Jobs = {a, b}
    Runs = {r1, r2}
    JobOf <- OneJob
    ExitCodes = {0, 1}
    Outputs <- Texts
    OkCriteria <- MixedOk
    WarnCriteria <- MixedWarn
    Keep <- KeepOne
    DisableFiles = {7}
    Managed = {}
    Modes = {}
    MaxTime = 2
    PerSecond = 1
INVARIANT TypeOK
INVARIANT RecordsComplete
INVARIANT OutputFollowsRecord
PROPERTY RecordsImmutable
PROPERTY ImplementsLog
PROPERTY OnlyNewsImproves
