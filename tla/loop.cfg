SPECIFICATION FairSpec
CONSTANTS
    None = None
    RateUnit = 1
    Programs <- ThreePrograms
    Backlogs = {0, 3}
    Rates = {0, 1}
    RamBudget = None
    RamHeadroom = 1
    MemoryTotal = 7
    NonWorker = {1, 3}
    Paging = {TRUE, FALSE}
    MaxLeaving = 1
    MaxExits = 1
    MaxRefusals = 1
CHECK_DEADLOCK FALSE
INVARIANTS TypeOK WithinCeiling InterferenceIsExit
PROPERTIES GrowthFitsBudget NoGrowthWhilePaging FloorHolds ShutdownEmpties
