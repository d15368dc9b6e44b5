SPECIFICATION Spec
CONSTANTS
    MaxAttempts = 3
    ChaosSpecs <- MCChaosSpecs
INVARIANTS
    PermanentErrorFails
CHECK_DEADLOCK FALSE
