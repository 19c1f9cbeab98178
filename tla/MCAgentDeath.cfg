SPECIFICATION Spec
CONSTANTS
    Viewers = {v1}
    NotifyCap = 2
    FanoutCap = 1
    ReplayCap = 1
    SignalCap = 1
    MaxSessions = 2
    MaxUpdates = 1
    MaxSignals = 1
PROPERTIES
    DeathEndsSession
CHECK_DEADLOCK FALSE
