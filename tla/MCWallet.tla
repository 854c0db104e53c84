------------------------------ MODULE MCWallet ------------------------------
(* Wallet with one account that holds two winning positions and one handle   *)
(* that has no account yet.                                                  *)
EXTENDS Wallet, TLC

CONSTANTS alice, bob, m1, m2, h1, h2

TwoUsers == {alice, bob}
HasAccount == {alice}
TwoMarkets == {m1, m2}
TwoHandlers == {h1, h2}
MCStakes == {7}

\* Alice holds 3 winning shares of the first market and 2 of the second.
MCShares == [p \in TwoUsers \X TwoMarkets |->
                CASE p = <<alice, m1>> -> 3 [] p = <<alice, m2>> -> 2 [] OTHER -> 0]

HandlerSymmetry == Permutations(Handlers)
=============================================================================
