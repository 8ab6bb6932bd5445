CONSTANTS
    None = None
    MaxSends = 2
    Contents = {text, picture}
    Texts = {text}
    MaxConnects = 1
SPECIFICATION Spec
INVARIANTS TypeOK NothingSilentlyLost
PROPERTIES OutboxIsKept EverySendSettles
CHECK_DEADLOCK FALSE
