----------------------------- MODULE MCAccounts -----------------------------
(* Accounts with three people whose addresses give the same handle; accounts  *)
(* without a credential come from visits.                                     *)
EXTENDS Accounts, TLC

CONSTANTS alice, bob, carol, ali, ali2, h1, h2

MCPeople == {alice, bob, carol}
MCHandles == {ali, ali2}
MCSeeded == {}
MCHandlers == {h1, h2}
MCBase == [p \in MCPeople |-> ali]
MCSymmetry == Permutations(MCHandlers) \cup Permutations(MCPeople)
=============================================================================
