SPECIFICATION Spec
CONSTANTS
    Goroutines = {r1}
    Ids = {i1}
    Keys = {k1}
    Tokens = {t1}
    RTokens = {u1}
    Nonces = {n1}
    MaxRetries = 1
    MaxLate = 0
    HasDPoP = TRUE
    HasEndpoint = FALSE
    ClientCreds = FALSE
    TokenFirst = TRUE
    Calms = {FALSE}
    SafeCalls = TRUE
    None = None
INVARIANTS RetryableIsRetried
