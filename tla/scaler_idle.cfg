SPECIFICATION FairSpec
CONSTANTS
    None = None
    RateUnit = 2
    Horizons = {0, 2}
    Floors = {0, 1}
    Ceilings = {1, 3}
    Margins = {1}
    Cooldowns = {1}
    Backlogs = {0, 1, 4}
    Rates = {0, 1, 2}
    Sizes = {2}
    Budgets = {1, 5}
    Pools = {0, 3}
    MaxExits = 1
PROPERTY ScalesToZero
