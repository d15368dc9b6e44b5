SPECIFICATION Spec
CONSTANTS
    Orders = {o}
    Runs = {r}
    MaxAttempts = 3
    MaxRestarts = 1
INVARIANTS
    OneTicketPerOrder
    ReportedIsOwn
CHECK_DEADLOCK FALSE
