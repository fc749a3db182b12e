\* "send wont ttype" while telnetd logs in.
SPECIFICATION Spec
CONSTANTS
    Option = {"TTYPE"}
    SendOption = {"TTYPE"}
    Request = {}
    MaxRequest = 1
    MaxSession = 1
\* A session ends with both sides waiting for input.
CHECK_DEADLOCK FALSE
PROPERTY StartupEnds
