SPECIFICATION WizardSpec

CONSTANTS
    StepLists <- FieldLists
    WatchCap = 1
    PageCap = 1
    MaxRuns = 2
    MaxLines = 2
    Budgets <- Mix

CHECK_DEADLOCK FALSE

INVARIANTS
    ConfirmedFirst
    FinishedIsSettled
    ViewCurrent

PROPERTIES
    WizardEnds
