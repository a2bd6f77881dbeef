SPECIFICATION FairSpec
CONSTANTS
    a = a
    b = b
    r1 = r1
    r2 = r2
    Jobs = {a}
    Runs = {r1}
    JobOf <- OneJob
    ExitCodes = {0, 1}
    Outputs <- NoText
    OkCriteria <- ExampleOk
    WarnCriteria <- ExampleWarn
    Keep <- KeepOne
    DisableFiles = {}
    Managed = {a}
    Modes = {"check", "lastlog", "lastfaillog"}
    MaxTime = 3
    PerSecond = 2
INVARIANT CrashOnlyByCleanup
INVARIANT OkIsRecent
INVARIANT FailedIsCritical
PROPERTY FinishedIsSaved
PROPERTY ReaderEnds
PROPERTY FilesExpire
