SPECIFICATION Spec
CONSTANTS
    None = None
    RateUnit = 1
    Programs <- OneProgram
    Backlogs = {0, 3}
    Rates = {0, 1}
    RamBudget = 2
    RamHeadroom = 1
    MemoryTotal = 5
    NonWorker = {2}
    Paging = {FALSE}
    MaxLeaving = 1
    MaxExits = 0
    MaxRefusals = 0
CHECK_DEADLOCK FALSE
PROPERTY GrowthFitsHeldRam
