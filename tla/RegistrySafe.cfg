SPECIFICATION PartsSpec
INVARIANTS AddressableOrTold NoGhostEntry ChangesInOrder
PROPERTIES SupersededEnds CommandsSettle
CHECK_DEADLOCK FALSE
CONSTANTS
    d1 = d1  d2 = d2  s1 = s1  s2 = s2
    Devices = {d1, d2}
    Sessions = {s1, s2}
    Limit = 3
    None = None
    Payloads <- Commands
    AlsoRead = {"power-plus"}
    EventsDepth = 1  MailboxDepth = 1
    MaxMessages = 2  MaxSessions = 2
