SPECIFICATION TokensSpec
CONSTANTS
  c1 = c1  c2 = c2
  None = None
  Calls = {c1, c2}
  MaxTokens = 3
  MaxEnded = 0
  MaxFaults = 0
INVARIANTS FamilyInvalidated
CHECK_DEADLOCK FALSE
