SPECIFICATION PartsSpec
SYMMETRY Perms
INVARIANTS PartsTypeOK AnswersWereAsked CloudNeverShort StreamsWithinWindow 
 
CHECK_DEADLOCK FALSE
CONSTANTS
    Registers = {1, 2, 3}
    CloudSpans <- Apart
    LocalSpans <- Shares
    AccessoryList = 1
    Clock = 2
    Policies <- Relaying
    TTL = 2
    MaxCommands = 3
    MaxLocal = 2
    Callers = {c1, c2}
    Asking <- Requests
    Serials = {a}
    Nearby <- Near
    Window = 2
    MaxCalls = 2
    MaxReports = 1
    MaxFaults = 1
    a = a  t = t  u = u  c1 = c1  c2 = c2
