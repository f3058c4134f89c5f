SPECIFICATION FairSpec
PROPERTIES EveryRequestAnswered ReadsDrain
CHECK_DEADLOCK FALSE
CONSTANTS
    pp = pp  op = op  v1 = v1  v2 = v2  c1 = c1  c2 = c2
    Registers = {pp, op}
    Values = {v1}
    PowerPlus = pp
    OutputPower = op
    ResyncOrder <- ResyncOne
    Callers = {c1, c2}
    Requests <- SettingRequests
    QueueDepth = 1
    ReadTimeout = 1
    AckTimeout = 1
    MaxReports = 0
    None = None
