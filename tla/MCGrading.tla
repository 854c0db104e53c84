----------------------------- MODULE MCGrading -----------------------------
(* Grading and reports of four trades on two markets.  The first is one        *)
(* user's, who wins it with a purchase and a sale; the second, which two       *)
(* requests may finalize to different outcomes, both users win or both lose.   *)
(* Two trades were made at one price, one at the price 1.                      *)
EXTENDS Reports, TLC

CONSTANTS alice, bob, m1, m2, h1, h2

TwoUsers == {alice, bob}
TwoMarkets == {m1, m2}
TwoHandlers == {h1, h2}

MCTrades == 1..4
MCUserOf == <<alice, alice, alice, bob>>
MCMarketOf == <<m1, m2, m1, m2>>
MCOutcomes == {0, 1}
MCOutcomeOf == <<0, 0, 0, 0>>
MCVerdicts == [m \in TwoMarkets |-> IF m = m1 THEN {0} ELSE {0, 1}]
MCPrice == <<60, 20, 60, 100>>
MCStake == <<100, 400, -25, 100>>
MCGain ==
    [t \in MCTrades |-> [won \in BOOLEAN |-> pasDelta(MCPrice[t], won, MCStake[t])]]
MCBinCounts == {2, 10}

\* One badge of each kind, in the order they are seeded in.
MCBadges == 1..5
MCKind == <<"STREAK", "PAS", "VOLUME", "CALIBRATION", "SPECIAL">>
MCThreshold == <<1, 1520000, 500, 30, 0>>
MCStaked == [u \in TwoUsers |-> IF u = alice THEN 500 ELSE 100]
MCLongShots == {2}
MCCalibrated(T, right) ==
    calibrationReport(T, MCPrice, right, 10).ece <= MCThreshold[4] * Cardinality(T)

HandlerSymmetry == Permutations(Handlers)
=============================================================================
