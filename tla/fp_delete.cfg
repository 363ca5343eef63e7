SPECIFICATION Spec
CONSTANTS
    Desktops = {1}
    Users = {u1, u2}
    NoUser = NoUser
    MaxSessions = 3
    Enders = {e1}
    Monitors = {m1}
    Threshold = 2
    Policy = "delete"
    Faults = {"vmGone", "provider", "crash"}
SYMMETRY Symmetry
INVARIANT ClaimHolds
INVARIANT NoForgottenVM
CHECK_DEADLOCK FALSE
