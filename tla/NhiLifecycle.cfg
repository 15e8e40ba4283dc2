SPECIFICATION Spec
CONSTANTS
    Callers = {c1, c2}
    Loops = {g1, g2}
    Chans = {d1, d2}
    Keys = {k1, k2}
    PkgIds = {p1, p2}
    HwKeys = {h1, h2}
    Nonces = {n1, n2}
    MaxAttempts = 2
    MaxCirculating = 1
    Configs <- LifecycleConfigs
    Qualities <- GoodOnly
    Healths = {FALSE}
    None = None
SYMMETRY Symmetry
INVARIANTS QuietAfterStop OneLoop DoneClosedOnce OneExchange NoPackageTwice RetryAnswersChallenge
