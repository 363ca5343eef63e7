SPECIFICATION FairSpec
CONSTANTS
    Agents = {a1, a2}
    NoAgent = NoAgent
    Deadline = 1
    MaxRows = 2
    MaxSecret = 2
    Faults = {"lost", "expire", "broker"}
INVARIANTS TypeOK OkMeansDone HintNamesPool
PROPERTIES RefreshHonoured ToolsReturn
CHECK_DEADLOCK FALSE
