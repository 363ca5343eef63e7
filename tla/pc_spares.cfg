SPECIFICATION FairSpec
CONSTANTS
    Pools = {1, 2}
    VMIDs = {1, 2, 3}
    Ranges = {{1, 2}, {2, 3}}
    Desktops = {1, 2, 3}
    Sizes = {1, 2}
    MinSpare = 1
    Requests = {}
    Cascades = {}
    MaxCount = 1
    Faults = {"clone", "foreign", "node"}
PROPERTIES SpaceSpec SparesFilled
CHECK_DEADLOCK FALSE
