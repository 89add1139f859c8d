SPECIFICATION Spec
CONSTANTS
  Version = {1, 2}
  Schedule = {nightly}
  MaxScans = 0
  NoSchedule = NoSchedule
  Tab = {1, 2}
  MaxData = 1
  Nobody = Nobody
  Release = {1, 2, 3}
  PickupTimeout = 1
  InstallTimeout = 2
  MaxLines = 5
  MaxBatch = 2
  PageSize = 2
  MaxLosses = 1
CHECK_DEADLOCK FALSE
INVARIANTS
  ArrivesTypeOK InfoNotShort
PROPERTIES
  UpdateArrives ScheduleArrives ChangeIsShown WaitIsOver ReaderSeesTheLog
