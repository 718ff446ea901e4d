CONSTANTS
    time_insr = 2
    time_aggr = 1
    SyncOffset = 1
    MaxMetrics = 2
    Types <- MCTypes
    TypesOf <- MCTypesOf
    Energy = "energy"
    Alloc <- MCAlloc
    ReconnectWait = 1
    MaxStops = 1
    MaxFaults = 1
SPECIFICATION Spec
INVARIANTS NeverLost ServerFits CountedOnce TimersMeet
CHECK_DEADLOCK FALSE
PROPERTY HeldNotForever
