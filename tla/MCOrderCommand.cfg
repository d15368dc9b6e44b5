SPECIFICATION CommandSpec
CONSTANTS
    Executions = {3, 5, 6}
    Approvals = {1, 2, 4}
    Overrides = {7}
    ChildSlack = 2
    Looks = 3
INVARIANTS
    TypeOK
    KilledOnlyIfItDoesNotFit
    ChildWaitsItsWindow
    OperatorIsTold
PROPERTIES
    CommandEnds
CHECK_DEADLOCK FALSE
