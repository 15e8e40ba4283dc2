SPECIFICATION StoresSpec
CONSTANTS
    Procs = {p1, p2}
    Keys = {k1, k2}
    Values = {v1, v2}
    Bufs = {b1, b2, b3, b4}
    Zero = Zero
    None = None
    Readers = {r1, r2}
    Creds = {c1, c2, c3}
    Complete = {c1, c2}
    Maps = {m1, m2, m3, m4}
    NoCred = NoCred
    Missing = Missing
    Gone = Gone
INVARIANTS NoPlaintextBehind ServesCurrent
PROPERTY ImplementsSecretMap
