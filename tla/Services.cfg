SPECIFICATION Spec
CONSTANTS
    People = {p}
    Fetchers = {f1, f2}
    SockCap = 2
    MaxReqs = 2
    MaxActs = 3
    MaxRestarts = 1
INVARIANT FlagsAgree
INVARIANT ReceiptsRespected
INVARIANT PicturesShown
CHECK_DEADLOCK FALSE
