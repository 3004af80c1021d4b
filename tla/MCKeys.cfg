\* Two tabs; registration, a legacy vault that is upgraded, kits and recoveries.
SPECIFICATION Spec
CONSTANTS
    Tabs = {t1, t2}
    Masters = {m1}
    Veks = {v1, v2}
    Kits = {k1}
    Zeroed = Zeroed
    NoKey = NoKey
    MaxVersion = 2
    MaxJobs = 2
    MaxFaults = 1
    RetryRewrap = FALSE
    RepeatUpgrade = FALSE
CHECK_DEADLOCK FALSE
SYMMETRY SecretSymmetry
INVARIANTS
    TypeOK
    NewestOpens
    KitOpens
    CurrentTabHoldsKey
PROPERTIES
    VaultKeyIsForever
