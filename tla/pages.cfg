SPECIFICATION PagesSpec
CONSTANTS
  Kinds = {"users", "orders", "letters"}
  MaxRows = 5
  Limits = {0, 1, 2}
  LastCursor = 4
INVARIANTS PagesInv PagesComplete NoRepeat
CHECK_DEADLOCK FALSE
