SPECIFICATION Spec
CONSTANTS
    a = a
    b = b
    r1 = r1
    r2 = r2
    Jobs = {a, b}
    Runs = {r1, r2}
    JobOf <- OneJob
    ExitCodes = {0, 1}
    Outputs <- NoText
    OkCriteria <- RacedOk
    WarnCriteria <- RacedWarn
    Keep <- KeepOne
    DisableFiles = {}
    Managed = {}
    Modes = {"check"}
    MaxTime = 2
    PerSecond = 1
SYMMETRY SameRuns
INVARIANT FailedIsCritical
INVARIANT NoFalseAlarm
INVARIANT NoJobOverlooked
