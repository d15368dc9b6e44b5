SPECIFICATION Spec
CONSTANTS
    Stages = 1
    MaxAttempts = 2
INVARIANTS
    TypeOK
    NoInventedProgress
    SettledViewIsWhole
    OneStepLive
PROPERTIES
    ShownNeverRegresses
    ShownCatchesUp
CHECK_DEADLOCK FALSE
