SPECIFICATION Spec
CONSTANTS
  Apps <- MCApps
  Scenarios <- MCScenarios
  MAX_NESTED_LEVELS = 4
  MAX_CPUS_SUPPORTED = 3
  num_local_con = 3
  UINT = 4
INVARIANTS   ModeFollows 
CHECK_DEADLOCK FALSE
