--------------------------- MODULE MCAccessControl ---------------------------
(* Instances of AccessControl for TLC. *)
EXTENDS AccessControl, TLC

MCNormal(e) == e

MCSymmetry == Permutations(Callers) \cup Permutations(Emails)
=============================================================================
