SPECIFICATION Spec
CONSTANTS
    N = 1
    OldPorts = {}
    MaxChanges = 1
INVARIANT WarningsReported
CHECK_DEADLOCK FALSE
