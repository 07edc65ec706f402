SPECIFICATION Spec
CONSTANTS
  Null = Null
  Workers = {w1}
  MaxAttempts = 3
  Idempotent = FALSE
  Outcomes = {"ACCEPTED"}
  Policies = {TRUE}
  MaxEvents = 1
  MaxDeaths = 0
  MaxChanges = 2
CHECK_DEADLOCK FALSE
INVARIANT MailedOnce
