SPECIFICATION HostLiveSpec
CONSTANTS
    g1 = g1
    g2 = g2
    t1 = t1
    Handlers = {1, 2}
    Readers = {g1, g2}
    Tokens = {t1, t2}
    Zero = zero
    NoFile = nofile
    Blank = blank
    Torn = torn
    InitTokens <- FirstTokens
    MaxReqs = 2
    MaxFaults = 1
    MaxEnds = 1
INVARIANTS
    DiskValid
    ViewIsDisk
    RunningMatchesDisk
    RolledBackMeansOld
PROPERTY
    RequestsEnd
CHECK_DEADLOCK FALSE
