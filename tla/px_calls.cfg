SPECIFICATION FairSpec
CONSTANTS
    Calls = {c1, c2}
    NoOp = NoOp
    Ops = {"clone", "start", "stop", "destroy", "status", "agent_ping", "agent_users", "spice"}
    Attempts = 2
    MaxPolls = 1
    MaxFaults = 1
    MaxAsks = 2
    Faults = {"timeout", "auth", "garbled"}
INVARIANT TypeOK
PROPERTIES ContractSpec EveryCallEnds
CHECK_DEADLOCK FALSE
