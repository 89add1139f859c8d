SPECIFICATION FairFleetSpec
CONSTANTS
  Job = {j1}
  Resource = {r1}
  None = None
  RequeueOnLost = TRUE
  MaxQueued = 2
  MaxAttempt = 2
  Happens = {"cancel", "lock", "silence", "loss", "crash", "restart"}
PROPERTIES
  BenchComesBack
  JobEnds
