SPECIFICATION Spec
CONSTANTS
  Campaigns = {c1}
  Operators = {}
  Endpoints = {e1, e2}
  SharedLane = TRUE
  LaneOf <- MCLaneOf
  Ids = {a1, a2, a3, a4}
  QuotaEach = 5
  Quota <- MCQuota
  MaxExceptions = 0
  MaxCrashes = 2
SYMMETRY MCSymmetry
INVARIANT AutomaticAtMostOnce
PROPERTY KeepsLedger
CHECK_DEADLOCK FALSE
