SPECIFICATION Spec
CONSTANTS
  k1 = k1
  k2 = k2
  k3 = k3
  k4 = k4
  x = x
  y = y
  xLtd = xLtd
  p = p
  q = q
  n = n
  e = e
  Ids = {k1, k2, k3, k4}
  Names = {x, y, xLtd}
  CompanyOf <- MCCompanyOf
  Phones = {p, q, n}
  Emails = {e}
  Files <- MCFiles
  Imported <- MCImported
  Requests = {r1, r2}
  MaxTime = 1
  MaxCalls = 3
SYMMETRY MCSymmetry
INVARIANTS TypeOK RemindersMatch RemindersBounded
PROPERTIES OptOutKept SyncPreserves FreshMeansNew
\* When every request has been made the system rests.
CHECK_DEADLOCK FALSE
