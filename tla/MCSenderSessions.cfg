SPECIFICATION FairSpec
CONSTANTS
  p1 = p1
  p2 = p2
  Phones = {p1, p2}
  Slots = {s1}
  Temps = {t1}
  Typed <- MCTyped
  Requests = {r1, r2}
  MaxFaults = 1
  MaxCrashes = 1
  MaxCalls = 3
INVARIANTS TypeOK ProfileBeforeRow OwnNumber TempLeavesNoTrace
PROPERTIES AuthenticationSettles
\* When every call has been made and every thread has ended the system rests.
CHECK_DEADLOCK FALSE
