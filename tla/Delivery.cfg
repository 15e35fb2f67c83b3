SPECIFICATION LiveSpec
CONSTANTS
  tA = tA  tB = tB  bA = bA  bB = bB  Empty = Empty
  Readers = {r1}
  EPCs = {e1}
  Tokens = {tA}
  Booths = {bA}
  BoothOf <- MCBoothOf
  Cooldowns = {1}
  Debounce = 1  MinKeep = 2  MaxAge = 2  MaxIdle = 2  ErrWait = 1
  Backoff1 = 2  Backoff2 = 3  Backoff3 = 4
  MaxClock = 1  LastScan = 0  MaxId = 1
  Budgets <- DeliveryFaults
INVARIANTS
  NoSilentLoss
  DuplicateOnlyAfterFault
  RowIdentity
PROPERTIES
  EventuallySettled
  GateSettles
CHECK_DEADLOCK FALSE
