SPECIFICATION Spec
CONSTANTS
    Conns = {g1}
    Emitters = {"main", "event", "qr"}
    SockCap = 1
    MaxCodes = 2
    MaxChanges = 3
    MaxOpens = 2
INVARIANT TypeOK
INVARIANT StateHeard
INVARIANT LatestQRReceived
CHECK_DEADLOCK FALSE
