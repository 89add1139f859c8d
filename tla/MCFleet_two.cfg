SPECIFICATION FleetSpec
CONSTANTS
  Job = {j1}
  Resource = {r1, r2}
  None = None
  RequeueOnLost = TRUE
  MaxQueued = 2
  MaxAttempt = 2
  Happens = {"silence", "crash", "restart", "removal"}
SYMMETRY Symmetry
INVARIANTS
  PinnedJobsServable
PROPERTIES
  VerdictFromTheBench
