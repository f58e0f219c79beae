SPECIFICATION FairSpec
CONSTANTS
    MIN = 3
    MAX = 6
    CHUNK = 3
    LENGTH = 2
    SignalSize = 1
    MaxLines = 3
    MaxSignals = 1
    Sizes <- MCSizes
CHECK_DEADLOCK FALSE
INVARIANTS LoggerTypeOK NothingIsLost DamageIsContained CutNeedsFullBuffer PendingIsAwaited
PROPERTIES ClosingGoesOn Drains
