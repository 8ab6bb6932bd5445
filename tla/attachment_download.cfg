CONSTANTS
    c1 = c1
    c2 = c2
    c3 = c3
    picture = picture
    video = video
    None = None
    Callers = {c1, c2, c3}
    Attachments = {picture, video}
    Videos = {video}
    MaxBreaks = 1
SPECIFICATION Spec
INVARIANTS TypeOK OneRequestAtATime QueueIsServed
PROPERTIES OwnersSettle
CHECK_DEADLOCK FALSE
