SPECIFICATION Spec
CONSTANTS
    Orders = {1, 2, 3}
    Gated = {2}
    Clicks = {1, 2}
    Keep = 2
    MaxReloads = 2
    MaxRestarts = 1
    None = none
INVARIANTS
    OneDecisionCounts
PROPERTIES
    FeedbackIsTrue
    StoreKeepsNewest
CHECK_DEADLOCK FALSE
