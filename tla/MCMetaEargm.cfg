SPECIFICATION MetaSpec
CONSTANTS
    UintSize = 10
    ByteSize = 4
    Subs = 3
    Def = 3
    MinPower <- MCMinPower
    Wishes = {0, 2}
    Spare = {0, 1}
    DefaultPower = 9
    MaxFaults = 1
INVARIANTS
    OneDirection
    NoExtraFirst
    
