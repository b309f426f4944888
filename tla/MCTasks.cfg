SPECIFICATION MCSpec
CONSTANTS
  Terms = {"t1"}
  CdcChannels = {"c1", "c2"}
  MaxOutput = 3
  MaxCdcChunks = 3
  JigReqs = {"j1", "j2"}
  JigConfs = {"a", "neg"}
  Patient = {"neg"}
  Window = 2
  Threshold = 3
  Settle = 3
  BackoffBase = 1
  BackoffMax = 4
  MaxPerTick = 2
  MaxHpdFaults = 5
  MaxDials = 3
  DisconnectedTicks = 3
  MaxRestFaults = 2
INVARIANTS RelockInv TasksInv
PROPERTIES ReplugsAreRare 
CHECK_DEADLOCK FALSE
