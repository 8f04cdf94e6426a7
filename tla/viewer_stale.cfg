SPECIFICATION Spec
CONSTANTS
    None = None
    Bad = Bad
    U64 = 100000
    Kilo = 4
    Commands <- SomeCommands
    Labels <- TabOrder
    Series <- SomeSeries
    Readings <- TwoReadings
    Paths = {"/metrics"}
    MaxStarts = 2
    MaxFaults = 0
PROPERTIES EmptyAnswerIsError
