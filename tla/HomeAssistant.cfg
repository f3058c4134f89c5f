SPECIFICATION PartsSpec
INVARIANTS NothingLeftBehind ControlsAreHonoured SettingsAreShown RetainedIsTrue
CHECK_DEADLOCK FALSE
CONSTANTS
    d1 = d1  s1 = s1
    Configurations <- TheConfigurations
    Frames <- TheFrames
    Watched <- TheWatched
    Nothing = Nothing
    Devices = {d1}
    Sessions = {s1}
    Serial <- SessionOf
    Views = {"frame", "identity"}
    QueueDepth = 2
    FarewellDepth = 1
    MaxConnections = 2
    Bridge = Bridge
    None = None
