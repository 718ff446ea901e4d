SPECIFICATION PeriodSpec
CONSTANTS
    UintSize = 64
    ByteSize = 4
    Caps = {2, 7, 10}
    Totals = {1, 4, 9}
    Requested = {0, 2}
    Released = {0, 1, 3}
    GreedyLists <- MCGreedyLists
    Allocated = {0}
INVARIANTS
    GrantsFitCap
    ReductionIsExact
    NewGreedyFirst
    LoopsAgree
CHECK_DEADLOCK FALSE
