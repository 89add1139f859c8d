SPECIFICATION FleetSpec
CONSTANTS
  Job = {j1, j2}
  Resource = {r1}
  None = None
  RequeueOnLost = TRUE
  MaxQueued = 2
  MaxAttempt = 2
  Happens = {}
SYMMETRY Symmetry
INVARIANTS
  OneJobPerBench
