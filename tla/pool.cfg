SPECIFICATION FairSpec
CONSTANTS
    Pid = {w1, w2}
    MinHealthyUptime = 2
    CrashesBeforeBackoff = 2
    MaxExponent = 1
    MaxSpawnBackoff = 3
    DrainTimeout = 2
    PollInterval = 1
INVARIANTS TypeOK OneKeeper BackoffIsEarned ResidentIsCounted RegisteredAreDrained
PROPERTIES SignalsOwnChild CrashesAreShortLives KeepsCustody DrainCompletes ShutdownCompletes ZombiesAreReaped
