SPECIFICATION Spec
CONSTANTS
  Campaigns = {}
  Operators = {o1}
  Endpoints = {e1}
  SharedLane = TRUE
  LaneOf <- MCLaneOf
  Ids = {a1, a2, a3}
  QuotaEach = 5
  Quota <- MCQuota
  MaxExceptions = 0
  MaxCrashes = 0
INVARIANT ManualSentOnce
CHECK_DEADLOCK FALSE
