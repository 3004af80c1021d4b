\* Two accounts; a passkey registered before, or now; responses sent again.
SPECIFICATION PasskeysSpec
CONSTANTS
    Users = {ann, bob}
    Credentials = {c1}
    Counting = {c1}
    Ceremonies = {i1, i2}
    Requests = {x1, x2, x3}
    Addresses = {a1, a2}
    NoUser = NoUser
    Anyone = Anyone
    Lifetime = 2
    Window = 1
    MaxRequests = 1
    MaxTime = 2
    MaxCount = 1
    MaxRestarts = 1
CHECK_DEADLOCK FALSE
SYMMETRY PasskeySymmetry
INVARIANTS
    PasskeysTypeOK
    SignInsAreEarned
    BudgetIsKept
