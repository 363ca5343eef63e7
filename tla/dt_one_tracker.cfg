SPECIFICATION Spec
CONSTANTS
    Desktops = {1}
    Requests = {r1, r2, r3}
    Provisions = {p1}
    Connects = {c1}
    Trackers = {t1}
    Persistent = FALSE
    Overlap = 1
    MaxTasks = 5
    MaxCrashes = 0
    Faults = {"provider", "task", "slow", "pool"}
SYMMETRY Symmetry
INVARIANTS TypeOK VMsAccounted
CHECK_DEADLOCK FALSE
