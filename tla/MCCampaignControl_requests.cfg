SPECIFICATION Spec
CONSTANTS
  Loops = {l1, l2, l3}
  Requests = {r1, r2}
  MaxExceptions = 2
SYMMETRY MCSymmetry
INVARIANTS TypeOK OneLoop PauseHolds FlagMatchesStatus
