----------------------------- MODULE MCPasskeys -----------------------------
(***************************************************************************)
(* Instances of Passkeys for TLC.                                          *)
(***************************************************************************)
EXTENDS Passkeys, TLC

PasskeySymmetry ==
    Permutations(Users) \cup Permutations(Ceremonies) \cup Permutations(Requests)
        \cup Permutations(Addresses)

=============================================================================
