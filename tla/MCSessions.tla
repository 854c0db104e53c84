----------------------------- MODULE MCSessions -----------------------------
(* Sessions with two requests at once and a term of a few ticks.            *)
EXTENDS Sessions, TLC

CONSTANTS s1, s2, h1, h2

MCTokens == {s1, s2}
MCHandlers == {h1, h2}
MCSymmetry == Permutations(MCTokens) \cup Permutations(MCHandlers)
=============================================================================
