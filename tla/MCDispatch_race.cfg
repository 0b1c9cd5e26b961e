SPECIFICATION Spec
CONSTANTS
  Campaigns = {c1, c2}
  Operators = {}
  Endpoints = {e1}
  SharedLane = TRUE
  LaneOf <- MCLaneOf
  Ids = {a1, a2}
  QuotaEach = 5
  Quota <- MCQuota
  MaxExceptions = 0
  MaxCrashes = 0
INVARIANT AutomaticAtMostOnce
CHECK_DEADLOCK FALSE
