SPECIFICATION TokensSpec
CONSTANTS
  c1 = c1  c2 = c2
  None = None
  Calls = {c1, c2}
  MaxTokens = 2
  MaxEnded = 0
  MaxFaults = 0
PROPERTIES NoFalseAlarm
CHECK_DEADLOCK FALSE
