SPECIFICATION FairSpec
CONSTANTS
    Goroutines = {r1, r2}
    Ids = {}
    Keys = {}
    Tokens = {t1}
    RTokens = {u1, u2}
    Nonces = {n1}
    MaxRetries = 0
    MaxLate = 0
    HasDPoP = FALSE
    HasEndpoint = TRUE
    ClientCreds = FALSE
    TokenFirst = TRUE
    Calms = {TRUE, FALSE}
    SafeCalls = TRUE
    None = None
PROPERTIES CallsReturn
