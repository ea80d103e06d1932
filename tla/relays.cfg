SPECIFICATION OutboxFairSpec
CONSTANTS
  r1 = r1  r2 = r2
  MaxEvents = 2
  Valid = {1}
  Relays = {r1, r2}
  BatchSize = 2
  MaxRetries = 2
  MaxCrashes = 1
INVARIANTS OutboxInv PublishedIsSent FailedForCause SentOnce
PROPERTIES Final EventsEnd
CHECK_DEADLOCK FALSE
