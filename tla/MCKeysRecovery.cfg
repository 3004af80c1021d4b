\* A recovery with the kit whose new master password is never set.
SPECIFICATION Spec
CONSTANTS
    Tabs = {t1}
    Masters = {m1}
    Veks = {v1, v2}
    Kits = {k1, k2}
    Zeroed = Zeroed
    NoKey = NoKey
    MaxVersion = 3
    MaxJobs = 2
    MaxFaults = 1
    RetryRewrap = FALSE
    RepeatUpgrade = FALSE
CHECK_DEADLOCK FALSE
SYMMETRY SecretSymmetry
PROPERTIES
    ReplacementBeforeVault
