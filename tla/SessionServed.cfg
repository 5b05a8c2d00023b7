SPECIFICATION FairSpec
CONSTANTS
    Conns = {g1, g2}
    Emitters = {"main", "event", "qr"}
    SockCap = 1
    MaxCodes = 0
    MaxChanges = 1
    MaxOpens = 2
INVARIANT StateHeard
PROPERTY ConnectedIsServed
CHECK_DEADLOCK FALSE
