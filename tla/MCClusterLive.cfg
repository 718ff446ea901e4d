SPECIFICATION FairSpec
CONSTANTS
    n1 = n1
    n2 = n2
    Nodes <- MCNodes
    UintSize = 64
    ByteSize = 4
    Conf = 2
    MaxPowercap = 3
    DefaultCap = 3
    PcSteps = {}
    DefconLimit = 90
    DefconLower = 70
    Answers <- MCFewAnswers
    DefStep = 2
    Lossy = {"send"}
    MaxLosses = 1
    MaxCommands = 0
    Mixed = FALSE
PROPERTY
    AskDefServed
