SPECIFICATION Spec
CONSTANTS
    UintSize = 5
    ByteSize = 4
    Confs = {0, 3}
    MaxPowercap = 4
    SetLimits = {0, 1, 4}
    DefSteps = {2}
    Extras <- MCExtras
    Percs = {95}
    Domains <- MCDomains
    Messages <- MCMessages
    MaxJobs = 2

    
PROPERTY
    PollsOnlyRelease
