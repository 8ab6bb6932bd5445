SPECIFICATION Spec
CONSTANTS
    None = None
    Threads = {t1, t2}
    MaxRequests = 1
    MaxEvents = 1
    MaxSessions = 2
    QueriesFail = TRUE
    ThreadsClose = TRUE
    Aborts = TRUE
    Pauses = TRUE
    Replaced = TRUE
    Resyncs = TRUE
CHECK_DEADLOCK FALSE
INVARIANT
    DisconnectedIsQuiet
