SPECIFICATION FairSoftSpec
CONSTANTS
    n1 = n1
    n2 = n2
    UintSize = 16
    ByteSize = 4
    Nodes <- MCNodes
    Loads = {1, 3}
    max_powercap = 2
    DefaultCap = 5
    PcSteps = {1, 7}
    DefconLimit = 80
    DefconLower = 60
    MaxLosses = 1
    MaxRestarts = 2
    MaxCommands = 1
INVARIANTS
    UnlimitedWithoutRisk
PROPERTIES
    LimitReachesAll
    UnlimitedIfReached
