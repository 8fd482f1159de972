SPECIFICATION FairSpec
CONSTANTS
  Attempt = {1}
  Lane = {l1, l2}
  Sender = {s1}
  Items = 2
  Get = 1
  Send = 2
  Capacity = 2
  Rate = 1
  Full = 2
  Tries = 2
  MinDelay = 1
  MaxDelay = 2
  MaxAfter = 2
  After = {2}
  MaxAge = 0
  MaxFaults = 1
PROPERTIES Settles
