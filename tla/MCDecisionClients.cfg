SPECIFICATION ClientsSpec
CONSTANTS
    Requests <- MCRequests
    Pipeline <- MCPipeline
    OrderCalls <- MCOrderCalls
    GateCalls <- MCGateCalls
    NoCall = NoCall
    Uis = {ui}
    Clis = {cli}
    Signals = {sig}
INVARIANTS
    AgreedIsOutcome
    RefusedHasNoEffect
    ConfirmedIsOutcome
    RightAuthority
    OneGate
PROPERTIES
    ImplementsGate
    OrderCloses
CHECK_DEADLOCK FALSE
