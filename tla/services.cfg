CONSTANTS
 f1 = f1
 f2 = f2
 t1 = t1
 t2 = t2
 m1 = m1
 m2 = m2
 None = None
 Threads = {t1, t2}
 Base <- MCBase
 Atts <- MCAtts
 Media = {m1, m2}
 Path <- MCPath
 Size <- MCSize
 MaxRuns = 2
 MaxViews = 2
 Paths = {f1, f2}
 Chunks = 2
 MaxRequests = 2
 MaxFileCuts = 1
 Folder = {f1}
 Pictures = {m1}
 MediaChunks = 1
 MaxLoads = 2
 MaxMediaCuts = 1
 Uids = {f1, f2}
 MaxChanges = 2
 MaxSyncs = 2
 MaxAsks = 1
 MaxCalls = 4
 MaxEvents = 2
 MaxCuts = 2
 MaxChoices = 3
 MaxFaults = 2
 Msgs = {1, 2}
 MaxStoreEvents = 3
 MaxKills = 1
SPECIFICATION Spec
SYMMETRY MCSymmetry
INVARIANTS TypeOK NothingIsForgotten
PROPERTIES CopiesAreTrue
CHECK_DEADLOCK FALSE
