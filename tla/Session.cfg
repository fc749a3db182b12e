\* A whole session, start-up included, and a user who switches modes, flushes
\* output or logs out at any moment.  TSPEED and ENVIRON are handled as TTYPE
\* is, LFLOW as NAWS.
SPECIFICATION Spec
CONSTANTS
    Option = {"TTYPE", "XDISPLOC", "NAWS", "LINEMODE", "SGA", "ECHO",
              "STATUS", "BINARY", "TM", "LOGOUT"}
    SendOption = {}
    Request = {"flush", "line", "char", "kludge", "binary", "ascii", "logout", "unset DISPLAY"}
    MaxRequest = 2
    MaxSession = 1
\* A session ends with both sides waiting for input.
CHECK_DEADLOCK FALSE
INVARIANTS
    Agreement
    NothingForgotten
PROPERTIES
    StartupEnds
    Terminates
