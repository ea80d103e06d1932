SPECIFICATION Spec
CONSTANTS
  c1 = c1  c2 = c2  w1 = w1  w2 = w2  d1 = d1  s1 = s1  s2 = s2
  None = None
  MaxIntents = 3
  Amounts = {1, 2, 3}
  Pool = {1, 2}
  Sms = {s1, s2}
  SmsAmount <- SameAmount
  Creators = {c1, c2}
  Workers = {w1, w2}
  Admins = {}
  MaxAttempts = 3
  Batches <- TwoBatches
  PageSize = 1
  BufferSize = 2
  Budget <- OneOfEach
INVARIANTS TypeOK UniquePending OneIntentPerSms RightOrder PayerInv PoolInv
PROPERTIES NotFoundOnlyIfSettled LedgerSpec BootRebuild
CHECK_DEADLOCK FALSE
SYMMETRY Interchangeable
