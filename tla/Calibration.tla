---------------------------- MODULE Calibration ----------------------------
(***************************************************************************)
(* Reliability bins, calibration errors and Murphy's decomposition of the  *)
(* Brier score: server/calibration.js.                                     *)
(*                                                                         *)
(* The trades of a report are a set T with their probabilities, given in   *)
(* percent by Price[t], and their outcomes, by membership in Won.  Every   *)
(* fraction of the code is kept as the integer that it is in hundredths    *)
(* of a trade, or over the named denominator.                              *)
(***************************************************************************)
EXTENDS Scoring, FiniteSets, FiniteSetsExt

\* A trade at probability 1 is of the top bin.
pastTheTop(p, numBins) == (clampProb(p) * numBins) \div 100    \* variant: it is of none
binIndex(p, numBins) ==
    LET index == (clampProb(p) * numBins) \div 100 IN
    IF index = numBins THEN numBins - 1 ELSE index

\* A bin of a set of trades: how many, and the sums of their probabilities and outcomes.
Bin == [count : Nat, predicted : Nat, happened : Nat]
BinOf(T, Price, Won) ==
    [count |-> Cardinality(T),
     predicted |-> MapThenSumSet(LAMBDA t : clampProb(Price[t]), T),
     happened |-> Cardinality(T \cap Won)]

bin(T, Price, Won, numBins) ==
    [i \in 0..(numBins - 1) |-> BinOf({t \in T : binIndex(Price[t], numBins) = i}, Price, Won)]

Filled(bins) == {i \in DOMAIN bins : bins[i].count > 0}

\* The distance between what a bin said and what happened, summed over its trades.
Gap(b) == LET d == b.predicted - 100 * b.happened IN IF d < 0 THEN -d ELSE d

\* The calibration error in percent, times the number of trades.
ece(bins) == MapThenSumSet(LAMBDA i : Gap(bins[i]), Filled(bins))

\* The bins that are furthest off: theirs is the maximum calibration error.
furthest(bins) ==
    {i \in Filled(bins) : \A j \in Filled(bins) :
        Gap(bins[j]) * bins[i].count <= Gap(bins[i]) * bins[j].count}

\* What a report says of some trades; it has Murphy's terms too, below.
calibrationReport(T, Price, Won, numBins) ==
    LET bins == bin(T, Price, Won, numBins) IN
    [total |-> Cardinality(T), bins |-> bins, ece |-> ece(bins), furthest |-> furthest(bins)]

(* Murphy's terms for N trades, in percent squared times N * N * N * Unit,     *)
(* where every number of trades up to N divides Unit.                          *)

Squared(d) == d * d

\* Variant: bins weigh the same, however many trades they hold.
evenly(bins, N, Unit) ==
    MapThenSumSet(LAMBDA i : Unit * N * N * Squared(Gap(bins[i])), Filled(bins))

reliability(bins, N, Unit) ==
    MapThenSumSet(LAMBDA i : (Unit \div bins[i].count) * N * N * Squared(Gap(bins[i])), Filled(bins))

\* How far a bin's frequency is from the base rate, times its trades and times N.
Lift(b, N, happened) == 100 * (b.happened * N - happened * b.count)

resolution(bins, N, Unit, happened) ==
    MapThenSumSet(LAMBDA i : (Unit \div bins[i].count) * Squared(Lift(bins[i], N, happened)), Filled(bins))

uncertainty(N, Unit, happened) == 10000 * Unit * N * happened * (N - happened)

decomposition(bins, N, Unit, happened) ==
    reliability(bins, N, Unit) - resolution(bins, N, Unit, happened) + uncertainty(N, Unit, happened)

\* The Brier score itself, over the same denominator.
brier(T, Price, Won, N, Unit) ==
    Unit * N * N * MapThenSumSet(LAMBDA t : Squared(Truth(t \in Won) - Price[t]), T)
=============================================================================
