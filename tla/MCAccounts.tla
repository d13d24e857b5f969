----------------------------- MODULE MCAccounts -----------------------------
(* Instances of Accounts for TLC: two addresses, one of them in two spellings. *)
EXTENDS Accounts, TLC

MCEmails == {"ann", "Ann", "bob"}
MCNormal(e) == IF e = "Ann" THEN "ann" ELSE e

MCSymmetry == Permutations(Callers) \cup Permutations(Passwords)
=============================================================================
