SPECIFICATION Spec
CONSTANTS
  Mailbox = "me"
  Unreadable = "unreadable"
  Absent = "absent"
  Nobody = Nobody
  Words = {w}
  Batch = {1}
  Choice = {"a", "b"}
  First = "a"
  Letter <- Others
  Request <- Sends
  MaxFaults = 1
  Nothing = Nothing
  None = None
CHECK_DEADLOCK FALSE
INVARIANTS
  SentOnce
  TextsWereConfirmed
PROPERTIES
  PickKeepsWords
  ClearedWasSent
  ToWhomShown
