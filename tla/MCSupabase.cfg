SPECIFICATION Spec
CONSTANTS
  Worker = {w1, w2}
  Instance = {i1, i2}
  Migrations = 2
  Given = {{"MANAGEMENT_API_URL", "RATE_LIMIT"}}
  MaxObjects = 2
  MaxVersion = 1
  MaxCalls = 2
  MaxHooks = 2
  MaxFaults = 2
SYMMETRY Symmetry
INVARIANTS
    CheckpointHasRows
    CallsKeepPromises
CHECK_DEADLOCK FALSE
