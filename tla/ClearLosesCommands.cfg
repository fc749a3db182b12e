SPECIFICATION Spec
CONSTANTS
    FileSize = 5
    MaxUnits = 3
PROPERTY
    CommandsKept
CHECK_DEADLOCK FALSE
