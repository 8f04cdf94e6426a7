SPECIFICATION FairSpec
CONSTANTS
    HasManagement = TRUE
    FailuresBeforeBackoff = 3
    MaxBackoff = 60
    MaxShift = 6
INVARIANTS TypeOK HandlesFit BackoffFollowsFailures TwoMissesAtMost
PROPERTIES ReturnsToManagement ReadsRecover
