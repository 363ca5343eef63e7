SPECIFICATION FairSpec
CONSTANTS
    Desktops = {1}
    Requests = {r1}
    Provisions = {p1}
    Connects = {c1}
    Trackers = {t1}
    Persistent = TRUE
    Overlap = 1
    MaxTasks = 3
    MaxCrashes = 1
    Faults = {"task", "provider", "slow", "pool"}
PROPERTIES WorkEnds TasksFollowed
CHECK_DEADLOCK FALSE
