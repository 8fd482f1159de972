SPECIFICATION FairSpec
CONSTANTS
  Reminder = {r1}
  Thread = {t1}
  NoThread = NoThread
  Sender = {s1}
  Checker = {c1}
  Days = {1}
  SnoozeDays = {1}
  Grace = 1
  Batch = 5
  Items = 5
  Horizon = 2
  MaxFaults = 1
PROPERTIES
  AnsweredCloses
  DueSurfaces
