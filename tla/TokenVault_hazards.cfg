SPECIFICATION Spec
CONSTANTS
  Proc = {p1, p2}
  State = {s1, s2}
  Token = {1, 2, 3, 4, 5}
  MaxKey = 1
  MaxFaults = 0
PROPERTIES
  RevokedIsDead
  DropsOnlyDead
CHECK_DEADLOCK FALSE
