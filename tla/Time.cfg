SPECIFICATION Spec
CONSTANTS
  tA = tA  tB = tB  bA = bA  bB = bB  Empty = Empty
  Readers = {r1}
  EPCs = {e1}
  Tokens = {tA}
  Booths = {bA}
  BoothOf <- MCBoothOf
  Cooldowns = {1}
  Debounce = 1  MinKeep = 1  MaxAge = 6  MaxIdle = 2  ErrWait = 1
  Backoff1 = 1  Backoff2 = 2  Backoff3 = 3
  MaxClock = 3  LastScan = 1  MaxId = 2
  Budgets <- TimeFaults
INVARIANTS
  DebounceSpacing
  NoLostWakeup
CHECK_DEADLOCK FALSE
