SPECIFICATION LimiterSpec
CONSTANTS
  Requests = {r1, r2}
  UserLimit = 2
  GlobalLimit = 2
  Window = 1
  TransientThreshold = 3
  ConfigCooldown = 2
  TransientCooldown = 1
INVARIANTS ConfigErrorsOpenBreaker WindowsLimit
PROPERTY WidgetRecovers
CHECK_DEADLOCK FALSE
