SPECIFICATION Spec
CONSTANTS
    Roles = {intake, pricing}
    Ids = {a1, a2, a3}
    MaxRuns = 2
    None = none
    Pids = {p1, p2}
    AutoStart = TRUE
SYMMETRY Alike
INVARIANTS
    OneWorker
    StoppedIsStopped
    ServesWholeRoster
    CreatedOnce
