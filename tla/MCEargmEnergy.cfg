SPECIFICATION Spec
CONSTANTS
    Confs <- MCConfs
    Energies = {4}
    Totals = {12}
    NewActions = 1
    MaxEvents = 2
INVARIANTS
    WindowExact
    WindowFollows
PROPERTIES
    ActsOnWarning
    ActionsSpaced
    RiskFollows
