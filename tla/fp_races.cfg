SPECIFICATION Spec
CONSTANTS
    Desktops = {1}
    Users = {u1, u2}
    NoUser = NoUser
    MaxSessions = 3
    Enders = {e1, e2}
    Monitors = {m1}
    Threshold = 1
    Policy = "refresh"
    Faults = {"crash"}
SYMMETRY Symmetry
INVARIANT TypeOK
INVARIANT AssignmentBacked
CHECK_DEADLOCK FALSE
