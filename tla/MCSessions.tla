----------------------------- MODULE MCSessions -----------------------------
(* Instances of Sessions for TLC. *)
EXTENDS Sessions, TLC

\* Safe for safety only.
MCSymmetry == Permutations(Slots) \cup Permutations(Users)
=============================================================================
