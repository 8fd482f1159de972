SPECIFICATION FairSpec
CONSTANTS
  Proc = {p1, p2}
  State = {s1}
  Token = {1, 2, 3, 4, 5}
  MaxKey = 2
  MaxFaults = 1
PROPERTY UsableAgain
CHECK_DEADLOCK FALSE
