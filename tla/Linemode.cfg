\* Three changes, two by the user or all by the programs.
SPECIFICATION Spec
CONSTANTS
    Func = {"EC", "EW"}
    Char = {"del"}
    Local = "del"
    Remote = "bs"
    Bit = {"EDIT"}
    Budgets <- MCBudgets
INVARIANTS
    CharsAgree
    CharsInUse
    ModesFollow
PROPERTY
    Settles
\* The negotiation comes to rest.
CHECK_DEADLOCK FALSE
