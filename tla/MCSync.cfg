\* Two tabs, two locks, a lost answer or reload; unlocks wait for the old upload.
SPECIFICATION FairSpec
CONSTANTS
    Tabs = {c1, c2}
    Items = {i1}
    MaxEdits = 3
    MaxFaults = 1
    MaxLocks = 2
    ReopenDuringUpload = FALSE
CHECK_DEADLOCK FALSE
INVARIANTS
    TypeOK
    LastSentIsStored
    NoEditForgotten
PROPERTIES
    NoSilentOverwrite
    VersionAdvances
    EveryEditSettles
