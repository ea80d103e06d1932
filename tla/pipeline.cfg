SPECIFICATION PipelineSpec
CONSTANTS
  q1 = q1  q2 = q2  r1 = r1  w1 = w1  d1 = d1
  None = None
  MaxEvents = 2
  Valid = {1}
  Relays = {r1}
  BatchSize = 1
  MaxOutboxRetries = 1
  MaxCrashes = 1
  Workers = {w1}
  Admins = {d1}
  MaxEntries = 2
  MaxLetters = 2
  PageSize = 1
  MaxRetries = 1
  MaxFaults = 1
  Requests = {q1, q2}
INVARIANTS PathInv AnswerIsTrue FailedForCauseOnly
PROPERTIES NotificationKept
CHECK_DEADLOCK FALSE
SYMMETRY Interchangeable
