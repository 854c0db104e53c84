----------------------------- MODULE MarketMath -----------------------------
(***************************************************************************)
(* The two market makers of a market with two outcomes: classic LMSR       *)
(* (server/lmsr.js) and its liquidity-sensitive variant (lslmsr.js), as    *)
(* marketMath.js chooses between them.                                     *)
(*                                                                         *)
(* Shares are whole.  With two outcomes b ln(sum exp(q/b)) is              *)
(* max(q) + b softplus(|q1 - q2| / b); softplus is interpolated between    *)
(* quarters, which leaves it convex and decreasing.  A maker's costs are   *)
(* exact, over a denominator of its own.                                   *)
(***************************************************************************)
EXTENDS Integers, Sequences, FiniteSets, FiniteSetsExt

\* A fraction <<n, d>> is n / d: lsAlpha, and the liquidity b.
Fraction == (Nat \ {0}) \X (Nat \ {0})
MarketRow == [useLsLmsr : BOOLEAN, liquidityB : Nat \ {0}, lsAlpha : Fraction]

sumQ(v) == MapThenSumSet(LAMBDA i : v[i], DOMAIN v)

\* Liquidity grows with the outstanding shares.
bOf(v, alpha) == <<alpha[1] * sumQ(v), alpha[2]>>

\* forMarket: the liquidity a market is priced with.
effectiveB(m, v) == IF m.useLsLmsr THEN bOf(v, m.lsAlpha) ELSE <<m.liquidityB, 1>>

\* What a share pays, in the units softplus is tabulated in.
Whole == 100000

\* softplus(k / 4) = ln(1 + exp(-k / 4)), in those units; the last few are rounded
\* so that they fall ever less, like the rest.
Softplus ==
    <<69315, 57594, 47408, 38687, 31326, 25193, 20141, 16022, 12693, 10021, 7889, 6197, 4859,
      3804, 2975, 2325, 1815, 1416, 1105, 861, 672, 523, 408, 318, 248, 193, 150, 117, 91,
      71, 55, 43, 34, 26, 20, 15, 11, 8, 6, 4, 3, 2, 1>>
SoftplusAt(k) == IF k < Len(Softplus) THEN Softplus[k + 1] ELSE 0

\* What a share pays, in the unit of the maker's costs.
PayoutOf(m) == Whole * (IF m.useLsLmsr THEN m.lsAlpha[2] ELSE 1)

\* Before the maximum is added back, b ln(sum exp((q - max(q)) / b)).  The code throws
\* for b <= 0 (lslmsr.js:60), and nothing is said of such a b: a classic market's is
\* positive, a sensitive one's shares are at least its seed unless racing sales went short.
logSumExp(v, b) ==
    LET quarters == 4 * b[2] * (Max({v[i] : i \in DOMAIN v}) - Min({v[i] : i \in DOMAIN v}))
        k == quarters \div b[1]
        rest == quarters % b[1]
    IN  SoftplusAt(k) * (b[1] - rest) + SoftplusAt(k + 1) * rest

cost(m, v) == PayoutOf(m) * Max({v[i] : i \in DOMAIN v}) + logSumExp(v, effectiveB(m, v))

\* The cost in hundredths of what a share pays, to the nearest one.
InHundredths(m, v) == (200 * cost(m, v) + PayoutOf(m)) \div (2 * PayoutOf(m))

\* What s shares of outcome i cost, and what they are taken back for when the market has
\* given out as many; otherwise there is no refund.
costOfBuying(m, v, i, s) == cost(m, [v EXCEPT ![i] = @ + s]) - cost(m, v)
Refundable(v, i, s) == s <= v[i]
refundForSelling(m, v, i, s) == cost(m, v) - cost(m, [v EXCEPT ![i] = @ - s])

\* The inventory that gives a new liquidity-sensitive market the liquidity b0.
seedPerBudget(b0, alpha, numOutcomes) == (b0 * alpha[2]) \div alpha[1]     \* variant: for one outcome
seedSharesForBudget(b0, alpha, numOutcomes) == (b0 * alpha[2]) \div (alpha[1] * numOutcomes)

seedPerOutcome(m, numOutcomes) ==
    IF m.useLsLmsr THEN seedSharesForBudget(m.liquidityB, m.lsAlpha, numOutcomes) ELSE 0
=============================================================================
