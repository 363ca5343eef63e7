SPECIFICATION FairSpec
CONSTANTS
    Tabs = {t1, t2}
    Forms = {t1}
    Consoles = {t1}
    MaxRows = 1
    MaxSecret = 2
    Faults = {"lost", "gone", "broker", "expire"}
INVARIANTS TypeOK CookieCurrent PerformedOnce
PROPERTIES GrantsCurrent PagesSettle
CHECK_DEADLOCK FALSE
