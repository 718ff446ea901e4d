SPECIFICATION Spec
CONSTANTS
    N = 7
    NUM_PROPS = 2
    MAX_PROP_DEPTH = 3
    MAX_HISTORIC_COMM = 50
    MaxRequests = 2
    Scripts <- MCScripts
    MaxEvents = 3
INVARIANTS AllReached AnswerComplete InOrder
 
CHECK_DEADLOCK FALSE
