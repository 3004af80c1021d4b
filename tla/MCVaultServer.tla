--------------------------- MODULE MCVaultServer ---------------------------
(***************************************************************************)
(* Instances of VaultServer for TLC.  Every definition lives in            *)
(* VaultServer; this module only names the symmetric model values.         *)
(***************************************************************************)
EXTENDS VaultServer, TLC

Symmetry == Permutations(Users) \cup Permutations(Requests)

=============================================================================
