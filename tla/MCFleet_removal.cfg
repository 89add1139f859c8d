SPECIFICATION FairFleetSpec
CONSTANTS
  Job = {j1}
  Resource = {r1}
  None = None
  RequeueOnLost = TRUE
  MaxQueued = 2
  MaxAttempt = 2
  Happens = {"maintenance", "reboot", "removal", "reset", "purge", "silence", "crash", "restart"}
PROPERTIES
  RemovalIsDone
