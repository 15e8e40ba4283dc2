SPECIFICATION FairSpec
CONSTANTS
    Callers = {a, b}
    Loops = {l1, l2}
    Chans = {d1, d2, d3}
    None = None
PROPERTIES StopReturns
CHECK_DEADLOCK FALSE
