SPECIFICATION FairSpec
CONSTANTS
  Worker = {w1, w2}
  Instance = {i1, i2}
  Migrations = 2
  Given = {{}}
  MaxObjects = 1
  MaxVersion = 2
  MaxCalls = 1
  MaxHooks = 1
  MaxFaults = 0
PROPERTY UpdatesArrive
CHECK_DEADLOCK FALSE
