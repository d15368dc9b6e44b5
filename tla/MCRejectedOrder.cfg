SPECIFICATION ClientsSpec
CONSTANTS
    Requests <- MCRequests
    Pipeline <- MCPipeline
    OrderCalls <- MCOrderCalls
    GateCalls <- MCGateCalls
    NoCall = NoCall
    Uis = {ui}
    Clis = {cli}
    Signals = {sig}
INVARIANTS
    RejectedSkipsServiceNow
CHECK_DEADLOCK FALSE
