\* Four executions on the accounts of two admins.
SPECIFICATION Spec
CONSTANTS
    Users = {u1, u2}
    Admins = {u1, u2}
    Executions = {x1, x2, x3, x4}
    Enrolled = Enrolled
    NoSecret = NoSecret
    NoSession = NoSession
CHECK_DEADLOCK FALSE
SYMMETRY IdSymmetry
INVARIANTS
    TypeOK
    SecondFactorFirst
    EnabledSecretConfirmed
    SignedOutStaysOut
PROPERTIES
    ImplementsSignIns
