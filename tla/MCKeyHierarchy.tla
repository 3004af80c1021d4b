--------------------------- MODULE MCKeyHierarchy ---------------------------
(***************************************************************************)
(* Instances of KeyHierarchy for TLC.                                      *)
(***************************************************************************)
EXTENDS KeyHierarchy, TLC

SecretSymmetry == Permutations(Tabs) \cup Permutations(Masters) \cup Permutations(Veks)
                  \cup Permutations(Kits)

=============================================================================
