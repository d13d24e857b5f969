----------------------------- MODULE MCScoring -----------------------------
(* An instance of Scoring for TLC.  With a rent of 1 the yield crosses its     *)
(* thresholds at prices of 150 (8%), 171 (7%), 200 (6%), 240 (5%), 266 (4.5%)  *)
(* and 300 (4%); with a market price of 200 the discount crosses its own at    *)
(* 170 (15%), 184 (8%) and 194 (3%).                                           *)
EXTENDS Scoring

MCPrices == {-1, 0, 150, 170, 171, 184, 200, 240, 300, 301}
MCRents == {-1, 0, 1}
MCMarkets == {0, 200}
MCBedrooms == {0, 3, 4}
MCAges == {0, 60, 90, 120}
=============================================================================
