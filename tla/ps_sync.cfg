SPECIFICATION FairSpec
CONSTANTS
    Brokers = {b1, b2}
    Creds = {k1, k2}
    Good = {k1}
    NoCred = NoCred
    Admins = {a1, a2}
    MaxChanges = 2
    Faults = {"construct", "crash", "conflict", "maintenance"}
INVARIANT TypeOK
PROPERTIES DeletedForgotten UpdatesSeen StatusSettles
CHECK_DEADLOCK FALSE
