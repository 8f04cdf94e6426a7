SPECIFICATION Spec
CONSTANTS
    Pid = {w1, w2}
    MinHealthyUptime = 2
    CrashesBeforeBackoff = 2
    MaxExponent = 1
    MaxSpawnBackoff = 3
    DrainTimeout = 2
    PollInterval = 2
PROPERTY ShortLivesAreCrashes
