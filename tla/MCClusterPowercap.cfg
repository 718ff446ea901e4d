SPECIFICATION Spec
CONSTANTS
    n1 = n1
    n2 = n2
    Nodes <- MCNodes
    UintSize = 64
    ByteSize = 4
    Conf = 3
    MaxPowercap = 5
    DefaultCap = 6
    PcSteps = {1}
    DefconLimit = 90
    DefconLower = 70
    Answers <- MCAnswers
    DefStep = 2
    Lossy = {"poll", "release", "send"}
    MaxLosses = 2
    MaxCommands = 1
    Mixed = FALSE
SYMMETRY
    MCSymmetry
INVARIANTS
    
    DefaultKept
    
    
