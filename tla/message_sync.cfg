SPECIFICATION Spec
CONSTANTS
    None = None
    Threads = {a}
    Messages = {m1, m2}
    ThreadOf <- AllInOne
    MaxBreaks = 1
    MaxOpens = 1
CHECK_DEADLOCK FALSE
INVARIANTS
    TypeOK NothingMissing
PROPERTIES
    OnlyDeletedIsRemoved EveryMessageArrives
