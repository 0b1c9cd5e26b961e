SPECIFICATION Spec
CONSTANTS
  Publishers = {t1, t2}
  Streams = {s1}
  Listeners = {l1, l2}
  Types = {a}
  Capacity = 1
  History = 2
  MaxEvents = 3
  MaxListening = 2
SYMMETRY MCSymmetry
INVARIANTS TypeOK InOrder NewestKept HistoryComplete EveryListenerTold
\* When everything is published and every client is gone the bus rests.
CHECK_DEADLOCK FALSE
