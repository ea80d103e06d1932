SPECIFICATION FairSpec
CONSTANTS
  c1 = c1  c2 = c2  w1 = w1  w2 = w2  d1 = d1  s1 = s1  s2 = s2
  None = None
  MaxIntents = 2
  Amounts = {1, 2}
  Pool = {1}
  Sms = {s1, s2}
  SmsAmount <- SameAmount
  Creators = {c1, c2}
  Workers = {w1, w2}
  Admins = {d1}
  MaxAttempts = 3
  Batches <- OneBatch
  PageSize = 1
  BufferSize = 2
  Budget <- StoresFail
INVARIANTS IInv FreeNotHeld
PROPERTIES LedgerSpec RequestsAnswered DeliveriesEnd
CHECK_DEADLOCK FALSE
