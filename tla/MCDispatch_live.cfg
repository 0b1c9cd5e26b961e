SPECIFICATION FairSpec
CONSTANTS
  Campaigns = {c1}
  Operators = {o1}
  Endpoints = {e1}
  SharedLane = TRUE
  LaneOf <- MCLaneOf
  Ids = {a1, a2}
  QuotaEach = 5
  Quota <- MCQuota
  MaxExceptions = 0
  MaxCrashes = 1
PROPERTY InFlightSettles
CHECK_DEADLOCK FALSE
