SPECIFICATION FairSpec
CONSTANTS
    Callers = {a}
    Loops = {l1, l2}
    Chans = {d1, d2, d3}
    None = None
INVARIANTS OneLoop QuietAfterStop DoneClosedOnce
PROPERTIES StopReturns RecoversFromOutage
