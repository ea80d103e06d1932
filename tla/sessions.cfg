SPECIFICATION TokensFairSpec
CONSTANTS
  c1 = c1  c2 = c2
  None = None
  Calls = {c1, c2}
  MaxTokens = 3
  MaxEnded = 1
  MaxFaults = 1
INVARIANTS TokensInv OneLive SamePair GivenIsStored SessionKept AlarmCloses
PROPERTIES AlarmForCause CallsEnd
CHECK_DEADLOCK FALSE
