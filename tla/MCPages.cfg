\* Each page in turn: three rows, two of them changed; exports and imports of
\* two items beside edits, locks and adoptions.
SPECIFICATION PagesSpec
CONSTANTS
    Timeouts = {0, 1, 3}
    Default = 3
    Period = 2
    Horizon = 6
    Ids = {i1, i2, i3}
    NewId = i3
    Folders = {f1}
    MaxItems = 4
    MaxSteps = 5
    Emails = {me, other}
    MaxMounts = 2
    Rows = {r1, r2, r3}
    Self = r1
    Filters = {all, logins}
    MaxOffset = 1
    MaxClicks = 3
    MaxFaults = 1
    MaxOthers = 1
SYMMETRY OthersAlike
CHECK_DEADLOCK FALSE
INVARIANTS
    PagesTypeOK
    LocksInTime
    ExportIsWhole
    ShowsOwnActions
    NothingHangs
    NothingUncheckedIsClean
PROPERTIES
    ImportKeepsItems
