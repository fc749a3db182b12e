\* The options with a special case in the start-up dialogue or in a handler,
\* for a peer that may send anything.
SPECIFICATION MCSpec
CONSTANTS
    Option = {"TTYPE", "NAWS", "ECHO", "SGA", "TM", "LOGOUT"}
CHECK_DEADLOCK FALSE
INVARIANTS
    TypeOK
    MySettled
    HisWantHonest
    FewOutstanding
