SPECIFICATION FairSpec
CONSTANTS
    Brokers = {b1, b2, b3}
    Free = Free
    Orphaned = Orphaned
    Faults = {"drop", "crash", "stop"}
    MaxFaults = 3
INVARIANTS TypeOK NoLockLeftBehind OneConnectedRunner
PROPERTIES TickBeginsUnderLock WorkerKeepsRunning
