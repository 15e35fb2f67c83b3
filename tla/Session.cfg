SPECIFICATION SessionLiveSpec
CONSTANTS
    CfgPower = p1
    GoodPowers = {p1, p2}
    BadPower = bad
    NoPower = none
    ChunkCap = 2
    WireCap = 2
    AttemptCap = 2
    Budget <- OneOfEach
INVARIANTS
    OnlyFreshTags
    InventoryMeansRunning
    SettingsNotIgnored
PROPERTY
    SessionSettles
CHECK_DEADLOCK FALSE
