SPECIFICATION FairSpec
CONSTANTS
  Id = {1, 2}
  Worker = {w1}
  NoWorker = NoWorker
  MaxStalls = 1
  Horizon = 1
  Inbound = {2}
  Risky = {1}
  Enough = 2
  Cap = 2
  Attempts = 2
  Choices <- OnOff
  MaxBody = 1
  MaxForces = 0
  Faulty = {"throw", "abort", "crash", "stall", "slow", "lose"}
  MaxFaults = 1
INVARIANT TypeOK
PROPERTY NoPermanentHole
