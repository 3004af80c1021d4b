\* Three uploads race for three versions of two accounts, with one reader,
\* retention 1, the deletion of the accounts and crashes.
SPECIFICATION Spec
CONSTANTS
    Users = {u1, u2}
    Requests = {r1, r2, r3}
    Reads = {g1}
    Blobs = {b1, b2}
    Wraps = {}
    NoBlob = NoBlob
    NoWrap = NoWrap
    Retention = 1
    MaxVersion = 3
SYMMETRY Symmetry
INVARIANTS
    TypeOK
    HistoryLinear
    TornReadIsBehind
    AnsweredIsDurable
PROPERTIES
    OnlyExpiredRemoved
