---------------------------- MODULE MCAccounts ----------------------------
(***************************************************************************)
(* Instances of Accounts for TLC.                                          *)
(***************************************************************************)
EXTENDS Accounts, TLC

IdSymmetry == Permutations(Accounts) \cup Permutations(Requests)

=============================================================================
