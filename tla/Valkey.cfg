SPECIFICATION FairSpec
CONSTANTS
    N = 2
    OldPorts <- SecondIsOld
    MaxChanges = 3
INVARIANTS TypeOK TroubleReported AlarmHasCause
PROPERTIES CheckEnds
\* A check that has reported stops, and so does one that waits for the rest of
\* an answer.
CHECK_DEADLOCK FALSE
