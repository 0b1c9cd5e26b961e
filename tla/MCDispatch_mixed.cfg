SPECIFICATION Spec
CONSTANTS
  Campaigns = {c1, c2}
  Operators = {o1}
  Endpoints = {e1}
  SharedLane = TRUE
  LaneOf <- MCLaneOf
  Ids = {a1, a2}
  QuotaEach = 5
  Quota <- MCQuota
  MaxExceptions = 2
  MaxCrashes = 1
SYMMETRY MCSymmetry
INVARIANTS TypeOK DeliveredNeverLost UsedMatchesSent NoOrphans
PROPERTY SentIsFinal
CHECK_DEADLOCK FALSE
