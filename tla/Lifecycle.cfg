SPECIFICATION FairSpec
CONSTANTS
    Procs = {p1, p2, p3}
    NoProc = NoProc
    Stale = Stale
    Broken = Broken
    MaxStops = 3
    MaxStarts = 1
INVARIANT HolderInv
PROPERTY SingleOwner
PROPERTY Reconnects
CHECK_DEADLOCK FALSE
