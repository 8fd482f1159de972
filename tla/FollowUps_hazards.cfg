SPECIFICATION Spec
CONSTANTS
  Reminder = {r1, r2}
  Thread = {t1}
  NoThread = NoThread
  Sender = {s1, s2}
  Checker = {c1, c2}
  Days = {1}
  SnoozeDays = {1}
  Grace = 0
  Batch = 5
  Items = 5
  Horizon = 1
  MaxFaults = 0
INVARIANTS
  OneOpenPerThread
  MailedOnce
PROPERTIES
  DismissedIsTerminal
