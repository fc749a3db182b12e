SPECIFICATION FairSpec
CONSTANTS
    Octet <- MCOctet
    SubSize = 17
    Start <- MCStart
    Command <- MCCommand
    Garbage <- MCGarbage
    MaxSize = 2
    Budget = 3
INVARIANTS TypeOK TermIsBest EnvironCarried OnlyExported WindowKept
PROPERTY LoginStarts
CHECK_DEADLOCK FALSE
