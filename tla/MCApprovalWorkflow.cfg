SPECIFICATION Spec
CONSTANTS
    Calls = {c1, c2, c3}
    NoCall = NoCall
INVARIANTS
    TypeOK
    ConfirmedIsDecision
PROPERTIES
    DecisionReturned
    ImplementsGate
CHECK_DEADLOCK FALSE
