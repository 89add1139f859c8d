SPECIFICATION FleetSpec
CONSTANTS
  Job = {j1}
  Resource = {r1}
  None = None
  RequeueOnLost = TRUE
  MaxQueued = 2
  MaxAttempt = 2
  Happens = {"silence"}
INVARIANTS
  LostJobWasRetried
