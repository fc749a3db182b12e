\* The user asks for and withdraws options faster than they are answered (one
\* that both programs want, one that the client refuses, and the timing mark,
\* for which he flushes output as well), closes, reconnects.
SPECIFICATION Spec
CONSTANTS
    Option = {"NAWS", "SGA", "ECHO", "TM"}
    SendOption = {"SGA", "ECHO", "TM"}
    Request = {"flush"}
    MaxRequest = 3
    MaxSession = 2
\* A session ends with both sides waiting for input.
CHECK_DEADLOCK FALSE
INVARIANT Agreement
PROPERTIES
    Terminates
    OutputResumes
