--------------------------- MODULE MCLeadCatalogue ---------------------------
(* Instances of LeadCatalogue for TLC. *)
EXTENDS LeadCatalogue

MCScores == 0 .. 1
MCStamps == 1 .. 2
MCAsked == {0, 3}
=============================================================================
