SPECIFICATION FairSpec
CONSTANTS
  Loops = {l1}
  Operators = {o1}
  Pace = 4
  Jitter = {3, 5}
  BaseBackoff = 1
  MaxBackoff = 4
  RateLimitBackoff = 3
  DailyLimit = 3
  HourlyLimit = 2
  Day = 7
  Hour = 4
  MaxCrashes = 1
INVARIANTS TypeOK LockHeld CapsKept
PROPERTIES TakenWhenReady LockReleased
