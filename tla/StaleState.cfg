SPECIFICATION Spec
CONSTANTS
    Conns = {g1}
    Emitters = {"main", "event", "qr"}
    SockCap = 1
    MaxCodes = 0
    MaxChanges = 1
    MaxOpens = 1
INVARIANT SettledStateShown
CHECK_DEADLOCK FALSE
