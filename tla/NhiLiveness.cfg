SPECIFICATION FairSpec
CONSTANTS
    Callers = {c1, c2}
    Loops = {g1}
    Chans = {d1}
    Keys = {k1}
    PkgIds = {p1}
    HwKeys = {h1}
    Nonces = {n1, n2}
    MaxAttempts = 2
    MaxCirculating = 0
    Configs <- RecoveryConfigs
    Qualities <- GoodOnly
    Healths = {TRUE, FALSE}
    None = None
PROPERTIES CallsReturn RecoversFromOutage
