\* An unlock completes while the old upload is unanswered.
SPECIFICATION Spec
CONSTANTS
    Tabs = {c1}
    Items = {i1}
    MaxEdits = 1
    MaxFaults = 0
    MaxLocks = 1
    ReopenDuringUpload = TRUE
CHECK_DEADLOCK FALSE
PROPERTIES
    NoSilentOverwrite
