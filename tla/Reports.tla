------------------------------ MODULE Reports ------------------------------
(***************************************************************************)
(* What is made of the graded trades: the score that gradeAllTrades enters *)
(* on a user's record, and the two reports that are read off it while      *)
(* graders work: getScoringReport, from the counters of the user row, and  *)
(* getCalibrationReport, from the trades themselves.                       *)
(***************************************************************************)
EXTENDS Grading, Calibration

CONSTANTS
    Price,      \* avgFillPrice of each trade, in percent
    Stake,      \* chipsDelta of each trade, negative for a sale
    BinCounts,  \* the numbers of bins asked for
    Unit        \* what Murphy's terms are measured in, so that they are whole

\* The change of PAS that a trade is graded with.
Grade(t, won) == pasDelta(Price[t], won, Stake[t])

\* What a trade adds to totalStaked: a sale adds nothing.
Bought(stake) == IF stake > 0 THEN stake ELSE 0

ASSUME ReportsAssumption ==
    /\ Price \in [Trades -> Percent] /\ Stake \in [Trades -> Int]
    /\ BinCounts \subseteq 2..50
    /\ Unit \in Nat \ {0} /\ \A k \in 1..Cardinality(Trades) : Unit % k = 0
    /\ Gain = [t \in Trades |-> [won \in BOOLEAN |-> Grade(t, won)]]
    /\ LongShots = {t \in Trades : Price[t] < 25}
    /\ Staked = [u \in Users |-> MapThenSumSet(LAMBDA t : Bought(Stake[t]), TradesOf(Trades, u))]

\* The counters.
getScoringReport(u) == [gradedTrades |-> counted[u], correctTrades |-> correct[u]]

\* The report on a user's graded trades, with as many bins as the query asks for.
getCalibrationReport(u, numBins) ==
    calibrationReport(TradesOf(graded, u), Price, isCorrect, numBins)

-----------------------------------------------------------------------------
(* Properties.  A grader may die anywhere, so whatever a report can find    *)
(* while graders work it can find when none does.                           *)

Resting == \A h \in Handlers : pc[h] = "idle"

\* The two reports of a user tell one story, though one is kept up by increments and the
\* other computed from the trades: the same number of trades, each in one bin, and the
\* same accuracy; and the mean calibration error is no more than the maximum one, which
\* is a probability.
ReportsAgree ==
    Resting => \A u \in Alone, n \in BinCounts :
        LET report == getCalibrationReport(u, n)
            bins == report.bins
            counters == getScoringReport(u) IN
        /\ DOMAIN bins = 0..(n - 1)
        /\ counters.gradedTrades = report.total
        /\ counters.gradedTrades = MapThenSumSet(LAMBDA i : bins[i].count, DOMAIN bins)
        /\ counters.correctTrades = MapThenSumSet(LAMBDA i : bins[i].happened, DOMAIN bins)
        /\ \A i \in report.furthest :
              /\ report.ece * bins[i].count <= Gap(bins[i]) * report.total
              /\ Gap(bins[i]) <= 100 * bins[i].count

\* Murphy's decomposition of any graded trades a user may have is their Brier score when
\* no bin mixes probabilities, and otherwise off by no more than what a bin of that width
\* can hide (calibration.js: brier ~ reliability - resolution + uncertainty).
MurphyDecomposes ==
    Resting => \A T \in (SUBSET graded) \ {{}}, n \in BinCounts :
        LET N == Cardinality(T)
            bins == bin(T, Price, isCorrect, n)
            direct == brier(T, Price, isCorrect, N, Unit)
            split == decomposition(bins, N, Unit, Cardinality(T \cap isCorrect))
            error == IF direct < split THEN split - direct ELSE direct - split
            pure == \A t, s \in T : binIndex(Price[t], n) = binIndex(Price[s], n) => Price[t] = Price[s]
            scale == Unit * N * N * N IN
        IF pure THEN error = 0
        ELSE error <= scale * (5000 \div n + 2500 \div (n * n) + 1)
=============================================================================
