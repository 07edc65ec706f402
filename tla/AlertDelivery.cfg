SPECIFICATION FairSpec
CONSTANTS
  Null = Null
  Workers = {w1, w2}
  MaxAttempts = 2
  Idempotent = FALSE
  Outcomes = {"ACCEPTED", "TRANSIENT_FAILURE", "PERMANENT_FAILURE", "BOUNCE", "COMPLAINT"}
  Policies = {TRUE, FALSE}
  MaxEvents = 1
  MaxDeaths = 1
  MaxChanges = 1
CHECK_DEADLOCK FALSE
INVARIANTS BoundedSends BouncesAreSuppressed
PROPERTY EveryAlertResolved
