\* One DO that is answered, and one interrupt.
SPECIFICATION Spec
CONSTANTS
    NetInSize = 4
    NetOutSize = 16
    TtyInSize = 4
    TtyOutSize = 4
    LineSize = 1
    Modes <- MCPlain
    Unit <- MCDo
    Key <- MCNoKey
    Budgets <- MCBudget
    SignalAnywhere = TRUE
INVARIANT InterruptIsSent
\* Nothing more need happen in a session.
CHECK_DEADLOCK FALSE
