------------------------------ MODULE Grading ------------------------------
(***************************************************************************)
(* What the resolution of a market does to the forecasters' records:       *)
(* gradeAllTrades of server/marketService.js and evaluateBadges of         *)
(* server/badges.js.                                                       *)
(*                                                                         *)
(* A grader reads the market's ungraded trades once, then takes their      *)
(* users one by one: it reads the user row, goes through the user's trades *)
(* in memory, and commits the trades and the row in one transaction.       *)
(* Counters are written as increments; rating, peak and streaks as the     *)
(* values computed from the row that was read.  Then it awards badges.     *)
(*                                                                         *)
(* Several graders run when several markets resolve, or when two requests  *)
(* finalize the same market at once, be it to different outcomes: a grader *)
(* goes by the outcome its own request named.                              *)
(*                                                                         *)
(* Left out: the Brier, log-loss and experience sums, which are increments *)
(* like the counters.  All trades have been made, so what a user has       *)
(* staked in all is given.  No badge has the ACCURACY condition.           *)
(***************************************************************************)
EXTENDS Integers, FiniteSets, FiniteSetsExt

CONSTANTS
    Users, Markets,
    Handlers,      \* requests that can be in flight at once
    Trades,        \* trade ids, in the order of createdAt
    Outcomes,
    UserOf, MarketOf, OutcomeOf,
    Verdicts,      \* the outcomes that a market's finalizers may name
    Gain,          \* pasDelta of each trade, lost or won
    StartRating,   \* pasRating and pasPeak of a new user
    Badges,        \* the Badge rows by id, in which order they are gone through
    Kind,          \* Badge.conditionType
    Threshold,     \* Badge.threshold
    Sample,        \* graded trades it takes to be called calibrated
    Staked,        \* User.totalStaked
    LongShots,     \* the trades with a price below a quarter
    Calibrated(_, _)  \* whether the calibration error of trades, some correct, is low

ASSUME GradingAssumption ==
    /\ Trades \subseteq Nat /\ IsFiniteSet(Trades) /\ Trades # {}
    /\ UserOf \in [Trades -> Users] /\ MarketOf \in [Trades -> Markets]
    /\ OutcomeOf \in [Trades -> Outcomes] /\ Verdicts \in [Markets -> SUBSET Outcomes]
    /\ Gain \in [Trades -> [BOOLEAN -> Int]]
    /\ \A t \in Trades : Gain[t][FALSE] <= 0 /\ Gain[t][TRUE] >= 0
    /\ StartRating \in Int
    /\ Badges \subseteq Nat
    /\ Kind \in [Badges -> {"STREAK", "PAS", "VOLUME", "CALIBRATION", "SPECIAL"}]
    /\ Threshold \in [Badges -> Int] /\ Sample \in Nat
    /\ Staked \in [Users -> Nat]
    /\ LongShots \subseteq Trades
    /\ IsFiniteSet(Handlers) /\ Users # {}

VARIABLES
    graded,     \* the trades with Trade.graded
    isCorrect,  \* those of them with Trade.isCorrect
    counted,    \* User.gradedTrades
    correct,    \* User.correctTrades
    pas,        \* User.pasRating
    peak,       \* User.pasPeak
    streak,     \* User.streak
    longest,    \* User.longestStreak
    badges,     \* the UserBadge rows of each user
    pc,         \* where each handler is
    job,        \* what each handler has read and computed
    rivals,     \* history: users whose trades were in two graders' hands at once
    cutShort    \* history: users with an evaluation of badges that was broken off

records == <<graded, isCorrect, counted, correct, pas, peak, streak, longest>>
vars == <<graded, isCorrect, counted, correct, pas, peak, streak, longest, badges, pc, job,
          rivals, cutShort>>

BadgeStages == {"badgeUser", "badgeOwned", "awarding", "creating"}
Stages == {"idle", "nextUser", "grading"} \cup BadgeStages

Job == [outcome : Outcomes,       \* the outcome the market was finalized to
        batch : SUBSET Trades,    \* trades read, of users not finished yet
        user : Users,             \* the user being worked on
        done : SUBSET Trades,     \* the user's trades graded in memory
        hits : Nat,               \* how many of them were correct
        pas : Int, peak : Int, streak : Nat, longest : Nat,
        awards : SUBSET Badges]   \* badges that may be due

JobOf(outcome, batch, u, done, hits, p, k, s, l, awards) ==
    [outcome |-> outcome, batch |-> batch, user |-> u, done |-> done, hits |-> hits,
     pas |-> p, peak |-> k, streak |-> s, longest |-> l, awards |-> awards]

AnyUser == CHOOSE u \in Users : TRUE
AnyOutcome == CHOOSE o \in Outcomes : TRUE
\* A job that has trades to grade, or a user to look at, and has read no row.
Blank(outcome, batch, u, awards) == JobOf(outcome, batch, u, {}, 0, 0, 0, 0, 0, awards)
NoJob == Blank(AnyOutcome, {}, AnyUser, {})

Init ==
    /\ graded = {}
    /\ isCorrect = {}
    /\ counted = [u \in Users |-> 0]
    /\ correct = [u \in Users |-> 0]
    /\ pas = [u \in Users |-> StartRating]
    /\ peak = [u \in Users |-> StartRating]
    /\ streak = [u \in Users |-> 0]
    /\ longest = [u \in Users |-> 0]
    /\ badges = [u \in Users |-> {}]
    /\ pc = [h \in Handlers |-> "idle"]
    /\ job = [h \in Handlers |-> NoJob]
    /\ rivals = {}
    /\ cutShort = {}

Goto(h, stage, j) ==
    /\ pc' = [pc EXCEPT ![h] = stage]
    /\ job' = [job EXCEPT ![h] = j]

Finish(h) == Goto(h, "idle", NoJob)

\* A user's part of a set of trades.
TradesOf(S, u) == {t \in S : UserOf[t] = u}

\* The first trade of a set, in the order of createdAt, or the first badge.
First(S) == {t \in S : \A s \in S : t <= s}

-----------------------------------------------------------------------------
(* gradeAllTrades *)

Ungraded == Trades \ graded

\* A grader takes on a batch: whose trades does another grader hold too?
Meets(batch) ==
    rivals' = rivals \cup {u \in Users : /\ TradesOf(batch, u) # {}
                                        /\ \E g \in Handlers : TradesOf(job[g].batch, u) # {}}

\* The ungraded trades of a market that has just been finalized.
GradeStart(h) ==
    /\ pc[h] = "idle"
    /\ \E m \in Markets, o \in Outcomes :
          LET batch == {t \in Ungraded : MarketOf[t] = m} IN
          /\ o \in Verdicts[m]
          /\ batch # {}
          /\ Goto(h, "nextUser", Blank(o, batch, AnyUser, {}))
          /\ Meets(batch)
    /\ UNCHANGED <<records, badges, cutShort>>

\* The users come in the order of their first trade; the row is read.
ReadUser(h) ==
    LET j == job[h] IN
    /\ pc[h] = "nextUser"
    /\ \E t \in First(j.batch) :
          LET u == UserOf[t] IN
          Goto(h, "grading",
               JobOf(j.outcome, j.batch, u, {}, 0, pas[u], peak[u], streak[u], longest[u], {}))
    /\ UNCHANGED <<records, badges, rivals, cutShort>>

LaterOf(a, b) == b                             \* variant: the peak follows the rating
HigherOf(a, b) == IF b > a THEN b ELSE a

EndRun(s) == 0

\* One trade of the loop in memory, in temporal order.
Graded(j, t) ==
    LET won == OutcomeOf[t] = j.outcome
        p == j.pas + Gain[t][won]
        s == IF won THEN j.streak + 1 ELSE EndRun(j.streak) IN
    JobOf(j.outcome, j.batch, j.user, j.done \cup {t}, j.hits + (IF won THEN 1 ELSE 0),
          p, HigherOf(j.peak, p), s, HigherOf(j.longest, s), {})

GradeTrade(h) ==
    LET j == job[h] IN
    /\ pc[h] = "grading"
    /\ \E t \in First(TradesOf(j.batch, j.user) \ j.done) : Goto(h, "grading", Graded(j, t))
    /\ UNCHANGED <<records, badges, rivals, cutShort>>

\* The trades gone through that won.
Right(j) == {t \in j.done : OutcomeOf[t] = j.outcome}

\* User.gradedTrades and User.correctTrades are increments.
Increment(f, u, d) == [f EXCEPT ![u] = @ + d]

\* User.longestStreak and User.pasPeak.
SetStreak(f, u, j) == [f EXCEPT ![u] = j.streak]  \* variant: the current streak
SetLongest(f, u, j) == [f EXCEPT ![u] = j.longest]

\* User.pasRating.
AddRating(f, u, j) == [f EXCEPT ![u] = @ + j.pas] \* variant: added instead of set
SetRating(f, u, j) == [f EXCEPT ![u] = j.pas]

\* The transaction: the user's trades and the user row.
CommitUser(h) ==
    LET j == job[h]
        u == j.user IN
    /\ pc[h] = "grading"
    /\ j.done = TradesOf(j.batch, u)
    /\ graded' = graded \cup j.done
    /\ isCorrect' = (isCorrect \ j.done) \cup Right(j)
    /\ counted' = Increment(counted, u, Cardinality(j.done))
    /\ correct' = Increment(correct, u, j.hits)
    /\ pas' = SetRating(pas, u, j)
    /\ peak' = [peak EXCEPT ![u] = j.peak]
    /\ streak' = [streak EXCEPT ![u] = j.streak]
    /\ longest' = SetLongest(longest, u, j)
    /\ Goto(h, "badgeUser", Blank(j.outcome, j.batch \ j.done, u, {}))
    /\ UNCHANGED <<badges, rivals, cutShort>>

-----------------------------------------------------------------------------
(* evaluateBadges *)

\* A buy and the daily bonus look for badges too.
BadgesElsewhere(h) ==
    /\ pc[h] = "idle"
    /\ \E u \in Users : Goto(h, "badgeUser", Blank(AnyOutcome, {}, u, {}))
    /\ UNCHANGED <<records, badges, rivals, cutShort>>

\* The conditions on the user row.
Earned(b, u) ==
    CASE Kind[b] = "STREAK"      -> streak[u] >= Threshold[b]
      [] Kind[b] = "PAS"         -> pas[u] >= Threshold[b]
      [] Kind[b] = "VOLUME"      -> Staked[u] >= Threshold[b]
      [] Kind[b] = "CALIBRATION" -> counted[u] >= Sample
      [] OTHER                   -> TRUE

\* Two conditions are on the user's trades.
OfTrades == {b \in Badges : Kind[b] \in {"CALIBRATION", "SPECIAL"}}

WonLongShots(u) == TradesOf(graded, u) \cap isCorrect \cap LongShots
Shown(b, u) ==
    IF Kind[b] = "SPECIAL" THEN WonLongShots(u) # {}
    ELSE Calibrated(TradesOf(graded, u), TradesOf(graded, u) \cap isCorrect)

\* The user row is read; it decides which badges may be due ...
BadgeUser(h) ==
    LET j == job[h] IN
    /\ pc[h] = "badgeUser"
    /\ Goto(h, "badgeOwned", Blank(j.outcome, j.batch, j.user, {b \in Badges : Earned(b, j.user)}))
    /\ UNCHANGED <<records, badges, rivals, cutShort>>

\* ... and then the rows the user has already.
BadgeOwned(h) ==
    LET j == job[h] IN
    /\ pc[h] = "badgeOwned"
    /\ Goto(h, "awarding", Blank(j.outcome, j.batch, j.user, j.awards \ badges[j.user]))
    /\ UNCHANGED <<records, badges, rivals, cutShort>>

\* The grader goes on with the users that are left, or returns.
NextUser(h) ==
    LET j == job[h] IN
    IF j.batch = {} THEN Finish(h) ELSE Goto(h, "nextUser", Blank(j.outcome, j.batch, AnyUser, {}))

\* The badges that are left once b has been looked at.
OnlyTheFirst(awards, b) == {}                  \* variant: one badge at a time
Rest(awards, b) == awards \ {b}

CutShort(u) == cutShort' = cutShort \cup {u}

\* Badges are taken in their order; for some the graded trades are read.
CheckTrades(h) ==
    LET j == job[h] IN
    /\ pc[h] = "awarding"
    /\ \E b \in First(j.awards) \cap OfTrades :
          IF Shown(b, j.user)
          THEN Goto(h, "creating", Blank(j.outcome, j.batch, j.user, j.awards))
          ELSE Goto(h, "awarding", Blank(j.outcome, j.batch, j.user, Rest(j.awards, b)))
    /\ UNCHANGED <<records, badges, rivals, cutShort>>

\* A row is created, unless another request was faster: then the unique
\* constraint throws, the caller logs it, and the other badges are not looked at.
Award(h) ==
    LET j == job[h] IN
    /\ \E b \in First(j.awards) :
          /\ pc[h] = "creating" \/ (pc[h] = "awarding" /\ b \notin OfTrades)
          /\ IF b \in badges[j.user]
             THEN NextUser(h) /\ CutShort(j.user) /\ UNCHANGED badges
             ELSE /\ UNCHANGED cutShort
                  /\ badges' = [badges EXCEPT ![j.user] = @ \cup {b}]
                  /\ Goto(h, "awarding", Blank(j.outcome, j.batch, j.user, Rest(j.awards, b)))
    /\ UNCHANGED <<records, rivals>>

BadgesDone(h) ==
    /\ pc[h] = "awarding"
    /\ job[h].awards = {}
    /\ NextUser(h)
    /\ UNCHANGED <<records, badges, rivals, cutShort>>

\* Another of its database calls throws: that is logged, and the grading goes on.
BadgesBreak(h) ==
    /\ pc[h] \in BadgeStages
    /\ CutShort(job[h].user)
    /\ NextUser(h)
    /\ UNCHANGED <<records, badges, rivals>>

-----------------------------------------------------------------------------
\* A database call of the grading throws, or the worker dies: the rest of it is lost.
Fail(h) ==
    /\ pc[h] # "idle"
    /\ cutShort' = cutShort \cup {u \in {job[h].user} : pc[h] \in BadgeStages}
    /\ Finish(h)
    /\ UNCHANGED <<records, badges, rivals>>

Step(h) ==
    \/ GradeStart(h) \/ ReadUser(h) \/ GradeTrade(h) \/ CommitUser(h)
    \/ BadgesElsewhere(h) \/ BadgeUser(h) \/ BadgeOwned(h)
    \/ CheckTrades(h) \/ Award(h) \/ BadgesDone(h) \/ BadgesBreak(h) \/ Fail(h)

Next == \E h \in Handlers : Step(h)

Spec == Init /\ [][Next]_vars

-----------------------------------------------------------------------------
(* Properties *)

\* Every variable keeps its type.
TypeOK ==
    /\ graded \subseteq Trades /\ isCorrect \subseteq graded
    /\ counted \in [Users -> Nat]
    /\ correct \in [Users -> Nat]
    /\ pas \in [Users -> Int]
    /\ peak \in [Users -> Int]
    /\ streak \in [Users -> Nat]
    /\ longest \in [Users -> Nat]
    /\ badges \in [Users -> SUBSET Badges]
    /\ pc \in [Handlers -> Stages]
    /\ job \in [Handlers -> Job]
    /\ rivals \subseteq Users /\ cutShort \subseteq Users

\* However graders overlap and wherever they die, a user's record is coherent:
\* the run is no longer than the longest one, that one no longer than the
\* correct trades, these no more than the graded ones, and the peak is a peak.
RecordCoherent ==
    \A u \in Users :
        /\ streak[u] <= longest[u]
        /\ longest[u] <= correct[u]
        /\ correct[u] <= counted[u]
        /\ pas[u] <= peak[u]
        /\ StartRating <= peak[u]

\* However graders overlap, no graded trade is missing from its user's count.
GradedIsCounted ==
    \A u \in Users : Cardinality(TradesOf(graded, u)) <= counted[u]

(* The rest is kept for a user whose trades two graders never hold at once. *)

Alone == Users \ rivals

\* The record made anew from some trades.
aggregate(T) ==
    [n |-> Cardinality(T), correct |-> Cardinality(T \cap isCorrect),
     pasRating |-> StartRating + MapThenSumSet(LAMBDA t : Gain[t][(t \in isCorrect)], T)]

\* Grading is idempotent, and the record reproducible from the trades: the counters and
\* the sum of pasDelta over the graded ones (scoring.js aggregate), however often the
\* grading was cut off and tried again, and whichever outcome finished it.
PasReproducible ==
    \A u \in Alone :
        [n |-> counted[u], correct |-> correct[u], pasRating |-> pas[u]]
            = aggregate(TradesOf(graded, u))

\* That the condition of a badge was once met, as the record and the trades tell.
Reached(b, u) ==
    CASE Kind[b] = "STREAK"      -> longest[u] >= Threshold[b]
      [] Kind[b] = "PAS"         -> peak[u] >= Threshold[b]
      [] Kind[b] = "VOLUME"      -> Staked[u] >= Threshold[b]
      [] Kind[b] = "CALIBRATION" -> counted[u] >= Sample
      [] OTHER                   -> WonLongShots(u) # {}

\* A badge is backed, whichever requests raced to award it and whatever was graded
\* between its check and its row: the run, the rating or the sample was reached, the
\* long shot won.
BadgesBacked == \A u \in Alone : \A b \in badges[u] : Reached(b, u)

Due(b, u) == Earned(b, u) /\ (b \in OfTrades => Shown(b, u))

\* No badge is forgotten: once the trades of a user have been graded, by however many
\* graders at once, and nobody looks at his badges, he has every badge that his record
\* and trades earn him; but for an evaluation that was broken off, by a failure or by the
\* unique constraint.
DueAreAwarded ==
    \A u \in Users \ cutShort :
        counted[u] > 0 /\ (\A h \in Handlers : pc[h] \in BadgeStages => job[h].user # u)
            => \A b \in Badges : Due(b, u) => b \in badges[u]
=============================================================================
