SPECIFICATION FairSpec
CONSTANTS
    Chains = {c1, c2}
    Configs <- SomeConfigs
    Packages <- OneFault
    MaxAttempts = 2
    None = None
INVARIANTS StoredIsVetted HardwareBinding EmptiedIsTransient
PROPERTIES Quiesces StartReturns RenewsAfterShortOutage
