---------------------------- MODULE MCVaultSync ----------------------------
(***************************************************************************)
(* Instances of VaultSync for TLC.                                         *)
(***************************************************************************)
EXTENDS VaultSync, TLC

TabSymmetry == Permutations(Tabs)

=============================================================================
