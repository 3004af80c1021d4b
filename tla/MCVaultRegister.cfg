\* Both PUT handlers, with wraps: the compare-and-set register is implemented,
\* and under fairness every request is answered.
SPECIFICATION FairSpec
CONSTANTS
    Users = {u1}
    Requests = {r1, r2}
    Reads = {}
    Blobs = {b1}
    Wraps = {w1}
    NoBlob = NoBlob
    NoWrap = NoWrap
    Retention = 1
    MaxVersion = 2
PROPERTIES
    ImplementsRegister
    EveryRequestAnswered
