\* Every state of a four-byte ring.
SPECIFICATION Spec
CONSTANTS
    Size = 4
    Byte = {a, b}
    NoByte = NoByte
\* An assertion that fails stops the program.
CHECK_DEADLOCK FALSE
INVARIANTS
    TypeOK
    AbortsOnlyIfFull
    InputNeverFull
PROPERTY
    ImplementsFifo
