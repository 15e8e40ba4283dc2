SPECIFICATION Spec
CONSTANTS
    Callers = {c1}
    Loops = {g1}
    Chans = {d1}
    Keys = {k1}
    PkgIds = {p1}
    HwKeys = {h1, h2}
    Nonces = {n1}
    MaxAttempts = 1
    MaxCirculating = 0
    Configs <- AllConfigs
    Qualities <- OneFault
    Healths = {FALSE}
    None = None
SYMMETRY Symmetry
INVARIANTS StoredIsVetted HardwareBinding
