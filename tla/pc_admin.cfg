SPECIFICATION Spec
CONSTANTS
    Pools = {1}
    VMIDs = {1, 2}
    Ranges = {{1, 2}}
    Desktops = {1, 2, 3}
    Sizes = {1, 2}
    MinSpare = 1
    Requests = {r1}
    Cascades = {c1}
    MaxCount = 1
    Faults = {"clone", "provider", "crash"}
SYMMETRY Symmetry
INVARIANTS TypeOK MachinesAccounted ChoiceHolds
CHECK_DEADLOCK FALSE
