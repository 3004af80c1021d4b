------------------------------ MODULE MCPages ------------------------------
(***************************************************************************)
(* Instances of Pages for TLC.                                             *)
(***************************************************************************)
EXTENDS Pages

\* Nothing tells one row of another from the next.
OthersAlike == Permutations(Rows \ {Self})

=============================================================================
