SPECIFICATION Spec
CONSTANTS
    None = None
    Threads = {t1, t2}
    MaxRequests = 1
    MaxEvents = 0
    MaxSessions = 1
    QueriesFail = FALSE
    ThreadsClose = FALSE
    Aborts = FALSE
    Pauses = FALSE
    Replaced = FALSE
    Resyncs = FALSE
CHECK_DEADLOCK FALSE
INVARIANT BatchResumes
