\* Up to two things in either direction, start-up included.
SPECIFICATION Spec
CONSTANTS
    FileSize = 5
    NetSize = 3
    PtySize = 3
    SubSize = 6
    Unit <- MCUnit
    Packet <- MCPacket
    Budgets <- MCBudgets
INVARIANTS
    UrgentIsSynch
    InOrder
    OutputDecodes
    PtyBufferHolds
    CommandsCarriedOut
    InputArrives
    HangupLosesNoInput
PROPERTY
    Quiesces
\* A session ends, or waits for input on both sides.
CHECK_DEADLOCK FALSE
