------------------------- MODULE MCProviderFallback -------------------------
(* ProviderFallback for TLC: two models of p, one of q, two keys.             *)
EXTENDS ProviderFallback, TLC

CONSTANTS t1, t2, p, q, k1, k2

MCCandidates == <<p, p, q>>
MCKeys       == <<k1, k2>>
MCStandard   == <<1, 2>>
MCBilling    == <<3>>
TurnSymmetry == Permutations(Turns)
=============================================================================
