SPECIFICATION Spec
CONSTANTS
    People = {p}
    Fetchers = {f1}
    SockCap = 2
    MaxReqs = 2
    MaxActs = 3
    MaxRestarts = 0
INVARIANT HiddenIsUnseen
CHECK_DEADLOCK FALSE
