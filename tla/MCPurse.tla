------------------------------ MODULE MCPurse ------------------------------
(* Purse with two requests under way; a drift of one is left alone, one of    *)
(* two is corrected.                                                          *)
EXTENDS Purse, TLC

CONSTANTS l1, l2

MCSlots == {l1, l2}
MCAmounts == {3}
MCDrifts == {-2, 0, 1}
SlotsAlike == Permutations(MCSlots)
=============================================================================
