\* Two people at two windows, in any order: two sign-ins, each by
\* a password and a second factor, or by a passkey, which asks for none.
SPECIFICATION BrowserSpec
CONSTANTS
    People = {ann, bob}
    Windows = {w1, w2}
    Sessions = {s1, s2}
    TwoFactor = {ann, bob}
    NoOne = NoOne
    NoCookie = NoCookie
    MaxVersion = 2
    MaxFaults = 1
    MaxCalls = 2
CHECK_DEADLOCK FALSE
SYMMETRY BrowserSymmetry
INVARIANTS
    BrowserTypeOK
    SavesFindTheirVault
    OpenVaultOwnsTheJar
