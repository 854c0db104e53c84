----------------------------- MODULE MCTrading -----------------------------
(* Trading on a classic LMSR market with two outcomes and b = 2 shares; the *)
(* sensitive market beside it starts with eight shares of each.             *)
EXTENDS Makers, TLC

CONSTANTS alice, bob, yes, no, h1, h2

TwoUsers == {alice, bob}
TwoOutcomes == {yes, no}
TwoHandlers == {h1, h2}
MCLots == {1, 2}
MCBudgets == {60}

MCAlpha == <<1, 8>>
LmsrCost(v) == InHundredths(Classic, v)

\* The proofs about both makers take this as a hypothesis.
ASSUME MCComparable == Comparable

HandlerSymmetry == Permutations(Handlers)
=============================================================================
