SPECIFICATION FairSpec
CONSTANTS
    Desktops = {1, 2}
    Users = {u1, u2}
    NoUser = NoUser
    MaxSessions = 2
    Enders = {}
    Monitors = {m1}
    Threshold = 2
    Policy = "none"
    Faults = {"vmStops", "provider"}
INVARIANTS ExclusiveUse NeverStranded LogoffDebounced
PROPERTIES LeaseSpec GhostSessionsEnd
CHECK_DEADLOCK FALSE
