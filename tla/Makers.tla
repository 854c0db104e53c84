------------------------------- MODULE Makers -------------------------------
(***************************************************************************)
(* The market of Trading, which is a classic one, next to a market that is *)
(* liquidity-sensitive, was created with the same liquidity and has seen   *)
(* the same trades.                                                        *)
(***************************************************************************)
EXTENDS Trading, MarketMath

CONSTANTS
    Liquidity,   \* liquidityB of both
    Alpha        \* lsAlpha of the sensitive one

Classic == [useLsLmsr |-> FALSE, liquidityB |-> Liquidity, lsAlpha |-> Alpha]
Sensitive == [useLsLmsr |-> TRUE, liquidityB |-> Liquidity, lsAlpha |-> Alpha]

ASSUME MakersAssumption == Classic \in MarketRow /\ Sensitive \in MarketRow

\* MarketMath is for two outcomes.  The two markets can be compared if both start with
\* whole shares, of which the classic one has none.
Binary == Payout = 100 /\ IsFiniteSet(Outcomes) /\ Cardinality(Outcomes) = 2
Comparable ==
    /\ Binary /\ Seed = seedPerOutcome(Classic, Cardinality(Outcomes))
    /\ (Liquidity * Alpha[2]) % (Alpha[1] * Cardinality(Outcomes)) = 0

\* The quantities of a market whose outcomes have traded v above what they were created
\* with, and its C(q) above theirs, which for the sensitive maker is over Alpha[2].
Seeded(m, v) == [i \in Outcomes |-> v[i] + seedPerOutcome(m, Cardinality(Outcomes))]
CostAbove(m, v) ==
    cost(m, Seeded(m, v)) - PayoutOf(m) * seedPerOutcome(m, Cardinality(Outcomes))

\* What a holder is told that a sale would bring: nothing where the market cannot take the
\* shares back.
previewSell(m, v, i, s) == IF Refundable(v, i, s) THEN refundForSelling(m, v, i, s) ELSE 0

\* However trades interleave, as long as no outcome is short (a request may be abandoned
\* anywhere, so it is enough to look at the market between requests): the sensitive maker would
\* have collected for the same shares at least what the classic one does, the spread it
\* adds, and risked no more to begin with; a set of all outcomes, which pays 1 for sure,
\* never costs less than 1 from either; either is covered for any outcome (lslmsr.js: the
\* sum of prices exceeds 1, the loss is paid out of the spread); and either takes shares
\* back for no more than the next ones cost, and for no less than nothing.
SpreadKept ==
    (\A h \in Handlers : pc[h] = "idle") /\ (\A i \in Outcomes : q[i] >= 0) =>
        LET Collected(m) == CostAbove(m, q) - CostAbove(m, InitialQ) IN
        /\ Collected(Sensitive) >= Alpha[2] * Collected(Classic)
        /\ CostAbove(Sensitive, InitialQ) <= Alpha[2] * CostAbove(Classic, InitialQ)
        /\ \A m \in {Classic, Sensitive} :
              /\ CostAbove(m, [i \in Outcomes |-> q[i] + 1]) - CostAbove(m, q) >= PayoutOf(m)
              /\ \A i \in Outcomes : CostAbove(m, q) >= PayoutOf(m) * q[i]
              /\ \A i \in Outcomes, s \in Lots :
                    LET refund == previewSell(m, Seeded(m, q), i, s) IN
                    refund >= 0 /\ refund <= costOfBuying(m, Seeded(m, q), i, s)
=============================================================================
