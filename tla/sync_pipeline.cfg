SPECIFICATION Spec
CONSTANTS
    None = None
    Threads = {t1, t2}
    MaxRequests = 1
    MaxEvents = 1
    MaxSessions = 2
    QueriesFail = TRUE
    ThreadsClose = FALSE
    Aborts = FALSE
    Pauses = FALSE
    Replaced = FALSE
    Resyncs = FALSE
CHECK_DEADLOCK FALSE
INVARIANTS
    TypeOK QueueIsSound
PROPERTIES
    MarkIsEarned PipelineSettles
