------------------------ MODULE MCSourceAcquisition ------------------------
(* Model-checking instances of SourceAcquisition.  Tokens: one for every    *)
(* row that can carry one, one per client and a spare.                      *)
EXTENDS SourceAcquisition, TLC

CONSTANTS c1, c2

MCTokens   == 1 .. Cardinality(Keys) + Cardinality(Clients) + 1
MCSymmetry == Permutations(Clients)
============================================================================
