----------------------------- MODULE MCBrowser -----------------------------
(***************************************************************************)
(* Instances of Browser for TLC.                                           *)
(***************************************************************************)
EXTENDS Browser, TLC

\* Nothing tells two people with two factors apart.
BrowserSymmetry == Permutations(Windows) \cup Permutations(Sessions) \cup Permutations(People)

=============================================================================
