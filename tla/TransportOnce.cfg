SPECIFICATION Spec
CONSTANTS
    Goroutines = {r1}
    Ids = {i1, i2}
    Keys = {k1, k2}
    Tokens = {t1}
    RTokens = {u1}
    Nonces = {n1, n2}
    MaxRetries = 1
    MaxLate = 1
    HasDPoP = TRUE
    HasEndpoint = FALSE
    ClientCreds = FALSE
    TokenFirst = TRUE
    Calms = {FALSE}
    SafeCalls = TRUE
    None = None
INVARIANTS AtMostOnce
PROPERTIES ImplementsOnceCall
