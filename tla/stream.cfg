SPECIFICATION StreamFairSpec
CONSTANTS
  p1 = p1  p2 = p2  w1 = w1  d1 = d1  d2 = d2
  None = None
  Payloads = {p1, p2}
  NoAmount = {p2}
  Workers = {w1}
  Admins = {d1, d2}
  MaxEntries = 2
  MaxLetters = 4
  PageSize = 2
  MaxRetries = 3
  MaxFaults = 1
INVARIANTS NothingLost StreamInv HandledOnce
PROPERTIES BuriedAfterRetries EntriesEnd
CHECK_DEADLOCK FALSE
