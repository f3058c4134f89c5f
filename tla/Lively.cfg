SPECIFICATION PartsSpec
INVARIANTS LastWordsSaid AcknowledgedIsPassed
PROPERTIES UplinkKeepsOrder RelayStops TheLivingIsServed EveryCallEnds
CHECK_DEADLOCK FALSE
CONSTANTS
    Sessions = {1, 2}
    QueueDepth = 1
    MaxUp <- Reconnects
    MaxDown = 1
    a = a  t = t  u = u  c1 = c1
