SPECIFICATION Spec
CONSTANTS
  Reminder = {r1}
  Thread = {t1}
  NoThread = NoThread
  Sender = {s1}
  Checker = {c1, c2}
  Days = {1}
  SnoozeDays = {1}
  Grace = 0
  Batch = 5
  Items = 5
  Horizon = 1
  MaxFaults = 1
SYMMETRY Symmetry
INVARIANTS
  ReminderInv
  ResolvedByReply
  NoNagging
  RepeatsBounded
PROPERTIES
  DecisionsStand
