SPECIFICATION Spec
CONSTANTS
  k1 = k1
  k2 = k2
  k3 = k3
  k4 = k4
  x = x
  y = y
  xLtd = xLtd
  p = p
  q = q
  n = n
  e = e
  Ids = {k1, k2}
  Names = {x, y, xLtd}
  CompanyOf <- MCCompanyOf
  Phones = {p, q}
  Emails = {e}
  Files <- MCTwoNumbers
  Imported <- MCOneContact
  Requests = {r1}
  MaxTime = 1
  MaxCalls = 2
INVARIANT NeverResurrected
CHECK_DEADLOCK FALSE
