SPECIFICATION Spec
CONSTANTS
  Row = {1, 2, 3}
  Client = {c1, c2, c3}
  Name = {n1, n2}
  NoName = NoName
  NowKeys = {"default", "max"}
  RestartKeys = {"tick", "public"}
  EnvKeys = {"public"}
  SettingValues = {1, 2, 3}
  Obsolete = 3
  Unset = Unset
  Intervals = {1, 2, 6}
  MissedLimit = 2
  User = {u1, u2}
  AgentRow = {a1}
  MaxTokens = 3
  NoUser = NoUser
  Timeouts = {1, 2}
  NoRequest = NoRequest
  Ip = {i1, i2}
  Username = {m1}
  LockAfter <- LocksAfter
  MaxWait <- WaitsUpTo
  Forget = 4
  Idle = Idle
  MaxConcurrent = 2
  MaxFailures = 4
  Caller = {k1, k2, k3}
  Limits = {0, 1, 2}
  Minute = 2
  MaxBuckets = 2
  Version = {1, 2}
  Schedule = {nightly}
  MaxScans = 2
  NoSchedule = NoSchedule
  QueuedJob = {1, 2, 3}
  Priority = {1, 2}
  Bench = {r1, r2}
  NoBench = NoBench
  Target <- Targets
  FinishTime = {0, 1}
CHECK_DEADLOCK FALSE
VIEW Running
INVARIANTS
  HoldsTypeOK NamesAreUnique OverrideSticks PageTellsTheTruth TimeoutsInOrder
  TemporaryIsMarked IdleSessionEnds ActiveStaysSignedIn LockHolds LazyIsExact
  ScanAnswerIsCurrent
PROPERTIES
  LiveRowsKeepTheirs OnTimeIsNeverSwept LastWayIn TokensStayTheirs
  NobodyOvertaken PassIsRunPass
