SPECIFICATION FairSpec
CONSTANTS
    None = None
    Bad = Bad
    U64 = 100000
    Kilo = 4
    Commands <- SomeCommands
    Labels <- TabOrder
    Series <- SomeSeries
    Readings <- TwoReadings
    Paths = {"/metrics", "/", "/health"}
    MaxStarts = 2
    MaxFaults = 1
INVARIANTS TypeOK LoadedIsRunnable HostSettingsAgree
PROPERTIES ViewFollowsDaemon ViewerCatchesUp
