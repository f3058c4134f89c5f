SPECIFICATION Spec
 
PROPERTIES ReadsGoAlone
CHECK_DEADLOCK FALSE
CONSTANTS
    pp = pp  op = op  v1 = v1  v2 = v2  c1 = c1  c2 = c2
    Registers = {pp, op}
    Values = {v1, v2}
    PowerPlus = pp
    OutputPower = op
    ResyncOrder <- ResyncBoth
    Callers = {c1}
    Requests <- WriteRequests
    QueueDepth = 1
    ReadTimeout = 2
    AckTimeout = 1
    MaxReports = 1
    None = None
