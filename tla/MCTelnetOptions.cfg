\* The two options "mode" switches, and the timing mark; up to three answers
\* are awaited when the user acts.
SPECIFICATION MCSpec
CONSTANTS
    Option = {"LINEMODE", "SGA", "TM"}
    MaxAwaited = 3
\* A closed client may stay closed.
CHECK_DEADLOCK FALSE
INVARIANTS
    ClientTypeOK
    AllSettled
