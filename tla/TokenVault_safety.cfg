SPECIFICATION Spec
CONSTANTS
  Proc = {p1, p2}
  State = {s1, s2}
  Token = {1, 2, 3, 4, 5}
  MaxKey = 2
  MaxFaults = 1
SYMMETRY Symmetry
INVARIANTS
  TypeOK
  RefreshAlone
  LockReturned
  NeverSpendsTwice
  StateOnce
  Accounted
CHECK_DEADLOCK FALSE
