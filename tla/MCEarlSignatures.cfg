CONSTANTS
    N = 2
    Pstates = {1, 2}
    def = 1
    MaxTries = 1
    MaxEvents = 1
SPECIFICATION Spec
INVARIANTS SameRound StopOrder 
PROPERTIES RoundsEnd AllReturn
CHECK_DEADLOCK FALSE
