SPECIFICATION FairSpec
CONSTANTS
  Cmd = {c1}
  MaxQueue = 2
  Ops <- LiveOps
  MaxIssued = 2
  StatMod = 4
PROPERTIES QueueDrains
CHECK_DEADLOCK FALSE
