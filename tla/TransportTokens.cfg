SPECIFICATION Spec
CONSTANTS
    Goroutines = {r1, r2}
    Ids = {}
    Keys = {}
    Tokens = {t1, t2}
    RTokens = {u1, u2, u3}
    Nonces = {n1}
    MaxRetries = 0
    MaxLate = 0
    HasDPoP = TRUE
    HasEndpoint = TRUE
    ClientCreds = TRUE
    TokenFirst = FALSE
    Calms = {FALSE}
    SafeCalls = TRUE
    None = None
INVARIANTS NoStaleRefresh AuthFailureIsReal
SYMMETRY Symmetry
