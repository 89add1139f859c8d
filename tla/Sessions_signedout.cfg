SPECIFICATION SessionsSpec
CONSTANTS
  Timeouts = {1, 2}
  NoRequest = NoRequest
INVARIANTS
  SurvivesWhileActive
