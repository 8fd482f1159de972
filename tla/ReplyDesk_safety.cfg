SPECIFICATION Spec
CONSTANTS
  Mailbox = "me"
  Unreadable = "unreadable"
  Absent = "absent"
  Nobody = Nobody
  Words = {w}
  Batch <- Generations
  Choice = {"a", "b"}
  First = "a"
  Letter <- Letters
  Request = {1}
  MaxFaults = 2
  Nothing = Nothing
  None = None
INVARIANTS TypeOK RuleOne FailureIsTrue RecordsAreTrue WordsWereConfirmed
CHECK_DEADLOCK FALSE
