SPECIFICATION Spec
CONSTANTS
  Id = {1, 2}
  Worker = {w1, w2}
  NoWorker = NoWorker
  MaxStalls = 1
  Horizon = 1
  Inbound = {2}
  Risky = {1}
  Enough = 2
  Cap = 2
  Attempts = 2
  Choices <- OnOff
  MaxBody = 1
  MaxForces = 1
  Faulty = {}
  MaxFaults = 0
SYMMETRY Symmetry
INVARIANTS
  CapHolds
  NothingPaidTwice
