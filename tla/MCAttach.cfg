SPECIFICATION Spec
CONSTANTS
    Viewers = {v1}
    NotifyCap = 1
    FanoutCap = 1
    ReplayCap = 2
    SignalCap = 1
    MaxSessions = 2
    MaxUpdates = 3
    MaxSignals = 2
INVARIANTS
    TypeOK
    ViewerInOrder
    AttachComplete
    NoSilentGap
    OneTurnAtATime
PROPERTIES
    AcceptedSignalsHandled
    ImplementsAttachStream
CHECK_DEADLOCK FALSE
