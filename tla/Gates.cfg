SPECIFICATION Spec
CONSTANTS
  tA = tA  tB = tB  bA = bA  bB = bB  Empty = Empty
  Readers = {r1}
  EPCs = {e1}
  Tokens = {tA, tB}
  Booths = {bA, bB}
  BoothOf <- MCBoothOf
  Cooldowns = {0, 1}
  Debounce = 1  MinKeep = 2  MaxAge = 2  MaxIdle = 2  ErrWait = 1
  Backoff1 = 1  Backoff2 = 2  Backoff3 = 3
  MaxClock = 0  LastScan = 0  MaxId = 1
  Budgets <- GateFaults
INVARIANTS
  TypeOK
  PostOnlyWhenOpen
  PostOnlyVerifiedToken
  RebindGuarded
  VerdictDurable
PROPERTIES
  ImplementsDelivery
  SuspensionSticks
  StoredSuspensionNeedsResume
  LiftNeedsTokenEdit
CHECK_DEADLOCK FALSE
