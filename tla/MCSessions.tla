---------------------------- MODULE MCSessions ----------------------------
(***************************************************************************)
(* Instances of Sessions for TLC.                                          *)
(***************************************************************************)
EXTENDS Sessions, TLC

\* Sound where every user is an admin, or none.
IdSymmetry == Permutations(Users) \cup Permutations(Executions)

=============================================================================
