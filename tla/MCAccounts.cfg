\* Three registrations for two addresses, two other requests, no tombstone target.
SPECIFICATION Spec
CONSTANTS
    Accounts = {a1, a2, a3}
    Tombstone = Tombstone
    Emails = {e1, e2}
    Requests = {r1, r2}
    Targets = {a1, a2, a3}
    AdminEmails = {e1}
    Bootstrap = FALSE
CHECK_DEADLOCK FALSE
SYMMETRY IdSymmetry
INVARIANTS
    TypeOK
    RegistrationComplete
    DeletionRecorded
PROPERTIES
    EarlyEventsSurvive
