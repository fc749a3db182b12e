\* Four kinds of session, in each of which up to three things happen.
SPECIFICATION Spec
CONSTANTS
    NetInSize = 3
    NetOutSize = 9
    TtyInSize = 4
    TtyOutSize = 4
    LineSize = 1
    Modes <- MCModes
    Unit <- MCUnit
    Key <- MCKey
    Budgets <- MCBudgets
    SignalAnywhere = FALSE
INVARIANTS
    TtyNeverFull
    WireMeans
    ChunkingInvisible
    OnlyBeforeSynch
PROPERTY
    Quiesces
\* A session may be closed, and nothing more need happen in it.
CHECK_DEADLOCK FALSE
