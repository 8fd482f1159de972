SPECIFICATION Spec
CONSTANTS
  Id = {1, 2}
  Worker = {w1, w2}
  NoWorker = NoWorker
  MaxStalls = 1
  Horizon = 1
  Inbound = {1, 2}
  Risky = {1}
  Enough = 2
  Cap = 1
  Attempts = 2
  Choices <- OnlyOn
  MaxBody = 1
  MaxForces = 0
  Faulty = {}
  MaxFaults = 0
INVARIANT BannerStands
PROPERTY FlaggedAtCap
