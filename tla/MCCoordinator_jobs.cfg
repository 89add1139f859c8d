SPECIFICATION Spec
CONSTANTS
  Job = {j1, j2}
  Resource = {r1}
  None = None
  RequeueOnLost = TRUE
  MaxQueued = 2
  MaxAttempt = 2
VIEW WithoutCommands
SYMMETRY Symmetry
INVARIANTS
  BenchIntegrity
  FinishedJobForgetsSecrets
  LostRetriedAtMostOnce
PROPERTIES
  OneFreeBenchPerHandOut
  RemovalTakesNoNewWork
  StoppedBenchIsTold
