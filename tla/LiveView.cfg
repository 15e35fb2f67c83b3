SPECIFICATION ViewSpec

CONSTANTS
    Cap = 1
    MaxLines = 2
    Browsers = {b1}
    SubCap = 1
    StaleAfter = 1
    Facts <- Conditions
    Budgets <- Mix

INVARIANTS
    NoStrandedLines
    NothingMissedOnConnect

PROPERTIES
    EventsKeepOrder
    PageCatchesUp
    DeadCoreNotGreen
