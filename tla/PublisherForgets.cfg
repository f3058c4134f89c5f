SPECIFICATION Spec
INVARIANTS EverythingRestored
CHECK_DEADLOCK FALSE
CONSTANTS
    d1 = d1  s1 = s1  s2 = s2
    Devices = {d1}
    Sessions = {s1}
    Serial <- Reconnecting
    Views = {"frame", "identity"}
    QueueDepth = 3
    FarewellDepth = 1
    MaxConnections = 2
    Bridge = Bridge
    None = None
