SPECIFICATION PartsSpec
INVARIANTS Attended
PROPERTIES FarewellIsOwn  SilenceIsShown
CHECK_DEADLOCK FALSE
CONSTANTS
    d1 = d1  s1 = s1  s2 = s2
    Devices = {d1}
    Sessions = {s1, s2}
    Serial <- Reconnecting
    Views = {}
    QueueDepth = 1
    FarewellDepth = 1
    MaxConnections = 1
    Bridge = Bridge
    None = None
