\* Two configured admins, two admin requests.
SPECIFICATION Spec
CONSTANTS
    Accounts = {a1, a2}
    Tombstone = Tombstone
    Emails = {e1, e2}
    Requests = {r1, r2}
    Targets = {a1, a2}
    AdminEmails = {e1, e2}
    Bootstrap = FALSE
CHECK_DEADLOCK FALSE
PROPERTIES
    AdminRemains
