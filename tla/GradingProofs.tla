--------------------------- MODULE GradingProofs ---------------------------
(***************************************************************************)
(* Proofs about Grading, for every set of users, trades and graders.       *)
(*                                                                         *)
(* Inv is what overlapping graders cannot break.  The counters are         *)
(* increments and the other columns are written together from one row, so  *)
(* the order between them survives although their values may be lost.      *)
(* UserInv adds what holds of a user whose trades two graders never hold   *)
(* at once: what a grader holds is not graded yet, and no badge is due     *)
(* that the record does not back.                                          *)
(***************************************************************************)
EXTENDS Reports, Sums, TLAPS

-----------------------------------------------------------------------------
(* Trades *)

LEMMA TradesFinite ==
    ASSUME NEW S, S \subseteq Trades PROVE IsFiniteSet(S) /\ Cardinality(S) \in Nat
BY GradingAssumption, FS_Subset, FS_CardinalityType

\* A batch that is graded adds no more than its size to a user's graded trades.
LEMMA GradedGrows ==
    ASSUME NEW S, S \subseteq Trades, NEW D, D \subseteq Trades, NEW u \in Users,
           D = TradesOf(D, u)
    PROVE  Cardinality(TradesOf(S \cup D, u))
               <= Cardinality(TradesOf(S, u)) + Cardinality(D)
<1>1. TradesOf(S \cup D, u) = TradesOf(S, u) \cup D
  BY DEF TradesOf
<1>2. TradesOf(S, u) \subseteq Trades /\ TradesOf(S, u) \cap D \subseteq Trades
  BY DEF TradesOf
<1>3. /\ IsFiniteSet(TradesOf(S, u)) /\ IsFiniteSet(D)
      /\ Cardinality(TradesOf(S, u)) \in Nat /\ Cardinality(D) \in Nat
      /\ Cardinality(TradesOf(S, u) \cap D) \in Nat
  BY <1>2, TradesFinite
<1>4. Cardinality(TradesOf(S, u) \cup D) =
          Cardinality(TradesOf(S, u)) + Cardinality(D) - Cardinality(TradesOf(S, u) \cap D)
  BY <1>3, FS_Union
<1>5. Cardinality(TradesOf(S, u) \cup D) <= Cardinality(TradesOf(S, u)) + Cardinality(D)
  BY <1>3, <1>4
<1> QED BY <1>1, <1>5

LEMMA GradedOfOthers ==
    ASSUME NEW S, NEW D, NEW u \in Users, NEW v \in Users, v # u, D = TradesOf(D, u)
    PROVE  TradesOf(S \cup D, v) = TradesOf(S, v)
BY DEF TradesOf

-----------------------------------------------------------------------------
(* The invariant *)

\* The row a grader is computing is coherent, taken with the increments it
\* will make.
JobsSound ==
    \A h \in Handlers : pc[h] = "grading" =>
        /\ job[h].done \subseteq TradesOf(job[h].batch, job[h].user)
        /\ job[h].hits <= Cardinality(job[h].done)
        /\ job[h].streak <= job[h].longest
        /\ job[h].longest <= correct[job[h].user] + job[h].hits
        /\ job[h].pas <= job[h].peak
        /\ StartRating <= job[h].peak

Inv == TypeOK /\ JobsSound /\ RecordCoherent /\ GradedIsCounted

LEMMA BlankIsJob ==
    ASSUME NEW o \in Outcomes, NEW batch \in SUBSET Trades, NEW u \in Users,
           NEW awards \in SUBSET Badges
    PROVE  Blank(o, batch, u, awards) \in Job
BY DEF Blank, JobOf, Job

LEMMA NoUser == AnyUser \in Users
BY GradingAssumption DEF AnyUser

LEMMA NoOutcome == AnyOutcome \in Outcomes
<1>1. PICK t \in Trades : OutcomeOf[t] \in Outcomes
  BY GradingAssumption
<1> QED BY <1>1 DEF AnyOutcome

LEMMA NoJobIsJob == NoJob \in Job
BY BlankIsJob, NoUser, NoOutcome DEF NoJob

LEMMA InitInv == ASSUME Init PROVE Inv
<1>1. TypeOK
  BY NoJobIsJob, GradingAssumption DEF Init, TypeOK, Stages, BadgeStages
<1>2. JobsSound
  BY DEF Init, JobsSound
<1>3. RecordCoherent
  BY GradingAssumption DEF Init, RecordCoherent
<1>4. ASSUME NEW u \in Users PROVE Cardinality(TradesOf(graded, u)) <= counted[u]
  <2>1. TradesOf(graded, u) = {}
    BY DEF Init, TradesOf
  <2> QED BY <2>1, FS_EmptySet DEF Init
<1> QED BY <1>1, <1>2, <1>3, <1>4 DEF Inv, GradedIsCounted

\* A step that changes no record and does not enter the loop keeps Inv.
LEMMA QuietStep ==
    ASSUME Inv, NEW h \in Handlers, NEW s \in Stages, s # "grading", NEW j \in Job,
           Goto(h, s, j), UNCHANGED records, badges' \in [Users -> SUBSET Badges],
           rivals' \subseteq Users, cutShort' \subseteq Users
    PROVE  Inv'
<1>1. TypeOK'
  BY DEF Inv, TypeOK, Goto, records
<1>2. JobsSound'
  BY DEF Inv, TypeOK, JobsSound, Goto, records
<1> QED BY <1>1, <1>2 DEF Inv, RecordCoherent, GradedIsCounted, records

LEMMA ReadUserInv == ASSUME Inv, NEW h \in Handlers, ReadUser(h) PROVE Inv'
<1> DEFINE batch == job[h].batch
           r(u) == JobOf(job[h].outcome, batch, u, {}, 0, pas[u], peak[u], streak[u], longest[u], {})
<1>1. batch \in SUBSET Trades /\ job[h].outcome \in Outcomes
  BY DEF Inv, TypeOK, Job
<1>2. PICK t \in First(batch) : Goto(h, "grading", r(UserOf[t]))
  BY DEF ReadUser
<1>3. UserOf[t] \in Users
  BY <1>1, GradingAssumption DEF First
<1>4. PICK u \in Users : Goto(h, "grading", r(u))
  BY <1>2, <1>3
<1>5. UNCHANGED <<graded, isCorrect, counted, correct, pas, peak, streak, longest,
                badges, rivals, cutShort>>
  BY DEF ReadUser, records
<1>6. /\ r(u).batch = batch /\ r(u).user = u /\ r(u).done = {} /\ r(u).hits = 0
      /\ r(u).pas = pas[u] /\ r(u).peak = peak[u]
      /\ r(u).streak = streak[u] /\ r(u).longest = longest[u]
  BY DEF JobOf
<1>7. r(u) \in Job
  BY <1>1 DEF Inv, TypeOK, JobOf, Job
<1> HIDE DEF batch, r
<1>8. TypeOK'
  BY <1>4, <1>5, <1>7 DEF Inv, TypeOK, Goto, Stages, BadgeStages
<1>9. /\ streak[u] <= longest[u] /\ longest[u] <= correct[u] + 0
      /\ pas[u] <= peak[u] /\ StartRating <= peak[u]
  BY DEF Inv, TypeOK, RecordCoherent
<1>10. JobsSound'
  <2>1. job'[h] = r(u)
    BY <1>4 DEF Goto, Inv, TypeOK
  <2>2. ASSUME NEW g \in Handlers, g # h PROVE job'[g] = job[g] /\ pc'[g] = pc[g]
    BY <1>4, <2>2 DEF Goto, Inv, TypeOK
  <2>3. 0 <= Cardinality({})
    BY FS_EmptySet
  <2> QED BY <1>5, <1>6, <1>9, <2>1, <2>2, <2>3 DEF Inv, JobsSound
<1> QED BY <1>5, <1>8, <1>10 DEF Inv, RecordCoherent, GradedIsCounted

\* One turn of the loop keeps the row coherent; c stands for correctTrades.
LEMMA GradedCoherent ==
    ASSUME NEW j \in Job, NEW t \in Trades, NEW c \in Nat,
           t \in TradesOf(j.batch, j.user) \ j.done,
           j.done \subseteq TradesOf(j.batch, j.user),
           j.hits <= Cardinality(j.done),
           j.streak <= j.longest, j.longest <= c + j.hits,
           j.pas <= j.peak, StartRating <= j.peak
    PROVE  LET r == Graded(j, t) IN
           /\ r \in Job
           /\ r.user = j.user
           /\ r.done \subseteq TradesOf(r.batch, r.user)
           /\ r.hits <= Cardinality(r.done)
           /\ r.streak <= r.longest /\ r.longest <= c + r.hits
           /\ r.pas <= r.peak /\ StartRating <= r.peak
<1> DEFINE won == OutcomeOf[t] = j.outcome
           p == j.pas + Gain[t][won]
           s == IF won THEN j.streak + 1 ELSE 0
           hit == IF won THEN 1 ELSE 0
           k == HigherOf(j.peak, p)
           l == HigherOf(j.longest, s)
           d == j.done \cup {t}
           r == JobOf(j.outcome, j.batch, j.user, d, j.hits + hit, p, k, s, l, {})
<1>1. Graded(j, t) = r
  BY DEF Graded, EndRun
<1>2. /\ j.outcome \in Outcomes
      /\ j.batch \in SUBSET Trades /\ j.user \in Users /\ j.done \in SUBSET Trades
      /\ j.hits \in Nat /\ j.pas \in Int /\ j.peak \in Int
      /\ j.streak \in Nat /\ j.longest \in Nat
  BY DEF Job
<1>3. Gain[t][won] \in Int /\ StartRating \in Int
  <2>1. won \in BOOLEAN
    OBVIOUS
  <2> HIDE DEF won
  <2> QED BY <2>1, GradingAssumption
<1>4. p \in Int /\ s \in Nat /\ hit \in Nat /\ d \in SUBSET Trades
  BY <1>2, <1>3
<1>5. k \in Int /\ j.peak <= k /\ p <= k
  <2> HIDE DEF p
  <2> QED BY <1>2, <1>4 DEF HigherOf
<1>6. l \in Nat /\ s <= l /\ (l = j.longest \/ l = s)
  <2> HIDE DEF s
  <2> QED BY <1>2, <1>4 DEF HigherOf
<1>7. Cardinality(d) = Cardinality(j.done) + 1 /\ Cardinality(j.done) \in Nat
  BY <1>2, TradesFinite, FS_AddElement
<1>8. s <= j.streak + hit /\ hit <= 1
  BY <1>2
<1>9. d \subseteq TradesOf(j.batch, j.user)
  OBVIOUS
<1> HIDE DEF won, p, s, hit, k, l, d
<1>10. l <= c + (j.hits + hit)
  BY <1>2, <1>4, <1>6, <1>8
<1>11. j.hits + hit <= Cardinality(d) /\ j.hits + hit \in Nat
  BY <1>2, <1>4, <1>7, <1>8
<1>12. StartRating <= k
  BY <1>2, <1>3, <1>5
<1>13. /\ r.batch = j.batch /\ r.user = j.user /\ r.done = d /\ r.hits = j.hits + hit
       /\ r.pas = p /\ r.peak = k /\ r.streak = s /\ r.longest = l
  BY DEF JobOf
<1>14. r \in Job
  BY <1>2, <1>4, <1>5, <1>6, <1>11 DEF JobOf, Job
<1> HIDE DEF r
<1> QED BY <1>1, <1>5, <1>6, <1>9, <1>10, <1>11, <1>12, <1>13, <1>14

LEMMA GradeTradeInv == ASSUME Inv, NEW h \in Handlers, GradeTrade(h) PROVE Inv'
<1>1. /\ pc[h] = "grading"
      /\ job[h] \in Job /\ job[h].user \in Users /\ correct[job[h].user] \in Nat
  BY DEF Inv, TypeOK, Job, GradeTrade
<1>2. PICK t \in TradesOf(job[h].batch, job[h].user) \ job[h].done :
           Goto(h, "grading", Graded(job[h], t))
  BY DEF GradeTrade, First
<1>3. t \in Trades
  BY <1>1 DEF TradesOf, Job
<1> DEFINE r == Graded(job[h], t)
<1>4. /\ r \in Job
      /\ r.user = job[h].user
      /\ r.done \subseteq TradesOf(r.batch, r.user)
      /\ r.hits <= Cardinality(r.done)
      /\ r.streak <= r.longest /\ r.longest <= correct[job[h].user] + r.hits
      /\ r.pas <= r.peak /\ StartRating <= r.peak
  BY <1>1, <1>2, <1>3, GradedCoherent DEF Inv, JobsSound
<1>5. UNCHANGED <<graded, isCorrect, counted, correct, pas, peak, streak, longest,
                badges, rivals, cutShort>>
  BY DEF GradeTrade, records
<1> HIDE DEF r
<1>6. TypeOK'
  BY <1>2, <1>4, <1>5 DEF r, Inv, TypeOK, Goto, Stages, BadgeStages
<1>7. job'[h] = r
  BY <1>2 DEF r, Goto, Inv, TypeOK
<1>8. ASSUME NEW g \in Handlers, g # h PROVE job'[g] = job[g] /\ pc'[g] = pc[g]
  BY <1>2, <1>8 DEF Goto, Inv, TypeOK
<1>9. JobsSound'
  BY <1>4, <1>5, <1>7, <1>8 DEF Inv, JobsSound
<1> QED BY <1>5, <1>6, <1>9 DEF Inv, RecordCoherent, GradedIsCounted

LEMMA CommitUserInv == ASSUME Inv, NEW h \in Handlers, CommitUser(h) PROVE Inv'
<1> DEFINE j == job[h]
           u == j.user
           r == Blank(j.outcome, j.batch \ j.done, u, {})
<1>1. /\ j.outcome \in Outcomes /\ Right(j) \subseteq j.done
      /\ j.batch \in SUBSET Trades /\ u \in Users /\ j.done \in SUBSET Trades
      /\ j.hits \in Nat /\ j.pas \in Int /\ j.peak \in Int
      /\ j.streak \in Nat /\ j.longest \in Nat
  BY DEF Inv, TypeOK, Job, Right
<1>2. /\ j.hits <= Cardinality(j.done)
      /\ j.streak <= j.longest
      /\ j.longest <= correct[u] + j.hits
      /\ j.pas <= j.peak /\ StartRating <= j.peak
  BY DEF Inv, JobsSound, CommitUser
<1>3. /\ graded' = graded \cup j.done
      /\ isCorrect' = (isCorrect \ j.done) \cup Right(j)
      /\ counted' = [counted EXCEPT ![u] = @ + Cardinality(j.done)]
      /\ correct' = [correct EXCEPT ![u] = @ + j.hits]
      /\ pas' = [pas EXCEPT ![u] = j.pas]
      /\ peak' = [peak EXCEPT ![u] = j.peak]
      /\ streak' = [streak EXCEPT ![u] = j.streak]
      /\ longest' = [longest EXCEPT ![u] = j.longest]
      /\ Goto(h, "badgeUser", r)
      /\ badges' = badges /\ rivals' = rivals /\ cutShort' = cutShort
  BY DEF CommitUser, Increment, SetRating, SetLongest
<1>4. j.done = TradesOf(j.done, u)
  BY DEF CommitUser, TradesOf
<1>5. Cardinality(j.done) \in Nat
  BY <1>1, TradesFinite
<1>6. r \in Job
  BY <1>1, BlankIsJob
<1> HIDE DEF r, u, j
<1>7. TypeOK'
  BY <1>1, <1>3, <1>5, <1>6 DEF Inv, TypeOK, Goto, Stages, BadgeStages
<1>8. RecordCoherent'
  BY <1>1, <1>2, <1>3, <1>5 DEF Inv, TypeOK, RecordCoherent
<1>9. ASSUME NEW g \in Handlers, pc'[g] = "grading"
      PROVE  /\ pc[g] = "grading" /\ job'[g] = job[g]
             /\ correct[job[g].user] <= correct'[job[g].user]
             /\ correct[job[g].user] \in Nat /\ correct'[job[g].user] \in Nat
             /\ job[g].longest \in Nat /\ job[g].hits \in Nat
  <2>1. job[g].user \in Users /\ job[g].longest \in Nat /\ job[g].hits \in Nat
    BY DEF Inv, TypeOK, Job
  <2> QED BY <1>1, <1>3, <1>9, <2>1 DEF Inv, TypeOK, Goto
<1>10. JobsSound'
  <2> SUFFICES ASSUME NEW g \in Handlers, pc'[g] = "grading"
               PROVE  /\ job[g].done \subseteq TradesOf(job[g].batch, job[g].user)
                      /\ job[g].hits <= Cardinality(job[g].done)
                      /\ job[g].streak <= job[g].longest
                      /\ job[g].longest <= correct'[job[g].user] + job[g].hits
                      /\ job[g].pas <= job[g].peak
                      /\ StartRating <= job[g].peak
    BY <1>9 DEF JobsSound
  <2> QED BY <1>9 DEF Inv, JobsSound
<1>11. ASSUME NEW v \in Users PROVE Cardinality(TradesOf(graded', v)) <= counted'[v]
  <2>1. graded \subseteq Trades /\ TradesOf(graded, v) \subseteq Trades
    BY DEF Inv, TypeOK, TradesOf
  <2>2. Cardinality(TradesOf(graded, v)) <= counted[v] /\ counted[v] \in Nat
    BY DEF Inv, TypeOK, GradedIsCounted
  <2>3. CASE v = u
    <3>1. Cardinality(TradesOf(graded \cup j.done, u))
              <= Cardinality(TradesOf(graded, u)) + Cardinality(j.done)
      BY <1>1, <1>4, <2>1, GradedGrows
    <3>2. TradesOf(graded \cup j.done, u) \subseteq Trades
      BY <1>1, <2>1 DEF TradesOf
    <3>3. /\ Cardinality(TradesOf(graded \cup j.done, u)) \in Nat
          /\ Cardinality(TradesOf(graded, u)) \in Nat
      BY <2>1, <2>3, <3>2, TradesFinite
    <3>4. counted'[u] = counted[u] + Cardinality(j.done)
      BY <1>1, <1>3 DEF Inv, TypeOK
    <3> QED BY <1>3, <1>5, <2>2, <2>3, <3>1, <3>3, <3>4
  <2>4. CASE v # u
    BY <1>1, <1>3, <1>4, <2>2, <2>4, GradedOfOthers DEF Inv, TypeOK
  <2> QED BY <2>3, <2>4
<1> QED BY <1>7, <1>8, <1>10, <1>11 DEF Inv, GradedIsCounted

LEMMA AwardInv == ASSUME Inv, NEW h \in Handlers, Award(h) PROVE Inv'
<1> DEFINE j == job[h]
<1>1. /\ j.batch \in SUBSET Trades /\ j.user \in Users /\ j.awards \in SUBSET Badges
      /\ j.outcome \in Outcomes
  BY DEF Inv, TypeOK, Job
<1>2. UNCHANGED records /\ rivals' \subseteq Users /\ cutShort' \subseteq Users
  BY <1>1 DEF Award, CutShort, Inv, TypeOK
<1>3. PICK b \in j.awards :
        \/ NextUser(h) /\ UNCHANGED badges
        \/ /\ badges' = [badges EXCEPT ![j.user] = @ \cup {b}]
           /\ Goto(h, "awarding", Blank(j.outcome, j.batch, j.user, j.awards \ {b}))
  BY DEF Award, First, Rest
<1>4. badges' \in [Users -> SUBSET Badges]
  BY <1>1, <1>3 DEF Inv, TypeOK
<1>5. /\ Blank(j.outcome, j.batch, j.user, j.awards \ {b}) \in Job
      /\ Blank(j.outcome, j.batch, AnyUser, {}) \in Job /\ NoJob \in Job
  BY <1>1, BlankIsJob, NoUser, NoJobIsJob
<1>6. \E s \in {"idle", "nextUser", "awarding"}, r \in Job : Goto(h, s, r)
  BY <1>3, <1>5 DEF NextUser, Finish
<1> QED BY <1>2, <1>4, <1>6, QuietStep DEF Stages, BadgeStages

LEMMA QuietInv ==
    ASSUME Inv, NEW h \in Handlers,
           \/ GradeStart(h) \/ BadgesElsewhere(h) \/ BadgeUser(h) \/ BadgeOwned(h)
           \/ CheckTrades(h) \/ BadgesDone(h) \/ BadgesBreak(h) \/ Fail(h)
    PROVE  Inv'
<1> DEFINE j == job[h]
<1>1. /\ j.batch \in SUBSET Trades /\ j.user \in Users /\ j.awards \in SUBSET Badges
      /\ j.outcome \in Outcomes
  BY DEF Inv, TypeOK, Job
<1>2. /\ UNCHANGED records /\ UNCHANGED badges
      /\ rivals' \subseteq Users /\ cutShort' \subseteq Users
  BY <1>1 DEF GradeStart, Meets, BadgesElsewhere, BadgeUser, BadgeOwned, CheckTrades,
         BadgesDone, BadgesBreak, CutShort, Fail, Inv, TypeOK
<1>3. badges' \in [Users -> SUBSET Badges]
  BY <1>2 DEF Inv, TypeOK
<1>4. /\ Blank(j.outcome, j.batch, AnyUser, {}) \in Job /\ NoJob \in Job
      /\ \A S \in SUBSET Badges : Blank(j.outcome, j.batch, j.user, S) \in Job
      /\ \A o \in Outcomes, B \in SUBSET Trades : Blank(o, B, AnyUser, {}) \in Job
      /\ \A u \in Users : Blank(AnyOutcome, {}, u, {}) \in Job
  BY <1>1, BlankIsJob, NoUser, NoOutcome, NoJobIsJob
<1> DEFINE Quiet == \E s \in Stages \ {"grading"}, r \in Job : Goto(h, s, r)
<1>5. CASE GradeStart(h)
  <2>1. \A m : {t \in Ungraded : MarketOf[t] = m} \in SUBSET Trades
    BY DEF Ungraded
  <2>2. Quiet
    BY <1>4, <1>5, <2>1 DEF GradeStart, Stages, BadgeStages
  <2> QED BY <1>2, <1>3, <2>2, QuietStep
<1>6. CASE BadgesElsewhere(h)
  <2>1. Quiet
    BY <1>4, <1>6 DEF BadgesElsewhere, Stages, BadgeStages
  <2> QED BY <1>2, <1>3, <2>1, QuietStep
<1>7. CASE BadgeUser(h)
  <2>1. {b \in Badges : Earned(b, j.user)} \in SUBSET Badges
    OBVIOUS
  <2>2. Quiet
    BY <1>4, <1>7, <2>1 DEF BadgeUser, Stages, BadgeStages
  <2> QED BY <1>2, <1>3, <2>2, QuietStep
<1>8. CASE BadgeOwned(h)
  <2>1. j.awards \ badges[j.user] \in SUBSET Badges
    BY <1>1
  <2>2. Quiet
    BY <1>4, <1>8, <2>1 DEF BadgeOwned, Stages, BadgeStages
  <2> QED BY <1>2, <1>3, <2>2, QuietStep
<1>9. CASE BadgesDone(h) \/ BadgesBreak(h) \/ Fail(h)
  <2>1. Quiet
    BY <1>4, <1>9 DEF BadgesDone, BadgesBreak, Fail, NextUser, Finish, Stages, BadgeStages
  <2> QED BY <1>2, <1>3, <2>1, QuietStep
<1>10. CASE CheckTrades(h)
  <2>1. \A b : j.awards \ {b} \in SUBSET Badges
    BY <1>1
  <2>2. Quiet
    BY <1>1, <1>4, <1>10, <2>1 DEF CheckTrades, Rest, Stages, BadgeStages
  <2> QED BY <1>2, <1>3, <2>2, QuietStep
<1> QED BY <1>5, <1>6, <1>7, <1>8, <1>9, <1>10

THEOREM Invariance == Spec => []Inv
<1>1. Init => Inv
  BY InitInv
<1>2. Inv /\ [Next]_vars => Inv'
  <2> SUFFICES ASSUME Inv, [Next]_vars PROVE Inv'
    OBVIOUS
  <2>1. CASE UNCHANGED vars
    BY <2>1 DEF vars, Inv, TypeOK, JobsSound, RecordCoherent, GradedIsCounted
  <2>2. ASSUME NEW h \in Handlers, Step(h) PROVE Inv'
    BY <2>2, ReadUserInv, GradeTradeInv, CommitUserInv, AwardInv, QuietInv DEF Step
  <2> QED BY <2>1, <2>2 DEF Next
<1> QED BY <1>1, <1>2, PTL DEF Spec

\* Every variable keeps its type, whatever the number of graders.
THEOREM TypeCorrect == Spec => []TypeOK
<1>1. Inv => TypeOK
  BY DEF Inv
<1> QED BY <1>1, Invariance, PTL

\* However many graders overlap, for one market or for several, and wherever
\* they die, every user's record stays coherent.
THEOREM Coherent == Spec => []RecordCoherent
<1>1. Inv => RecordCoherent
  BY DEF Inv
<1> QED BY <1>1, Invariance, PTL

\* No interleaving of graders drops a graded trade from its user's count.
THEOREM Counted == Spec => []GradedIsCounted
<1>1. Inv => GradedIsCounted
  BY DEF Inv
<1> QED BY <1>1, Invariance, PTL

-----------------------------------------------------------------------------
(* A user whose trades two graders never hold at once *)

OneEach ==
    \A u \in Alone : \A g, h \in Handlers :
        g # h => TradesOf(job[g].batch, u) = {} \/ TradesOf(job[h].batch, u) = {}

\* What a grader holds is still to be graded.
Fresh == \A u \in Alone : \A h \in Handlers : TradesOf(job[h].batch, u) \cap graded = {}

\* The row in memory counts the trades gone through, and tops the one stored.
Loop ==
    \A h \in Handlers : pc[h] = "grading" =>
        /\ TradesOf(job[h].batch, job[h].user) # {}
        /\ job[h].hits = Cardinality(Right(job[h]))
        /\ job[h].user \in Alone => /\ longest[job[h].user] <= job[h].longest
                                    /\ peak[job[h].user] <= job[h].peak

\* Every graded trade is counted once, and every win.
CountedOnce ==
    \A u \in Alone : /\ counted[u] = Cardinality(TradesOf(graded, u))
                     /\ correct[u] = Cardinality(TradesOf(graded, u) \cap isCorrect)

\* Of the badges a job holds, the row has met its part of the condition, and the trades
\* theirs when the row of the first one is about to be created.
AwardsSound(s, j) ==
    s \in {"badgeOwned", "awarding", "creating"} /\ j.user \in Alone =>
        \A b \in j.awards :
            /\ Kind[b] # "SPECIAL" => Reached(b, j.user)
            /\ s = "creating" /\ b \in First(j.awards) => Reached(b, j.user)

AwardsBacked == \A h \in Handlers : AwardsSound(pc[h], job[h])

UserInv == OneEach /\ Fresh /\ Loop /\ CountedOnce /\ AwardsBacked /\ BadgesBacked

LEMMA InitUser == ASSUME Init PROVE UserInv
<1>1. OneEach /\ Fresh
  BY DEF Init, OneEach, Fresh, NoJob, Blank, JobOf, TradesOf
<1>2. Loop /\ AwardsBacked
  BY DEF Init, Loop, AwardsBacked, AwardsSound
<1>3. BadgesBacked
  BY DEF Init, BadgesBacked, Alone
<1>4. ASSUME NEW u \in Users
      PROVE  /\ counted[u] = Cardinality(TradesOf(graded, u))
             /\ correct[u] = Cardinality(TradesOf(graded, u) \cap isCorrect)
  <2>1. TradesOf(graded, u) = {} /\ TradesOf(graded, u) \cap isCorrect = {}
    BY DEF Init, TradesOf
  <2> QED BY <2>1, FS_EmptySet DEF Init
<1> QED BY <1>1, <1>2, <1>3, <1>4 DEF UserInv, CountedOnce, Alone

\* A handler that keeps part of its batch, or none, while nothing is graded.
LEMMA BatchKept ==
    ASSUME Inv, UserInv, NEW h \in Handlers, NEW s, NEW j, Goto(h, s, j),
           j.batch \subseteq job[h].batch, graded' = graded, rivals' = rivals
    PROVE  OneEach' /\ Fresh'
<1>1. job'[h] = j /\ \A g \in Handlers \ {h} : job'[g] = job[g]
  BY DEF Inv, TypeOK, Goto
<1>2. \A u : TradesOf(j.batch, u) \subseteq TradesOf(job[h].batch, u)
  BY DEF TradesOf
<1>3. \A g \in Handlers, u \in Users :
          TradesOf(job'[g].batch, u) \subseteq TradesOf(job[g].batch, u)
  BY <1>1, <1>2
<1>4. Alone' = Alone /\ Alone \subseteq Users
  BY DEF Alone
<1>5. OneEach'
  <2> SUFFICES ASSUME NEW u \in Alone, NEW g \in Handlers, NEW k \in Handlers, g # k
               PROVE  TradesOf(job'[g].batch, u) = {} \/ TradesOf(job'[k].batch, u) = {}
    BY <1>4 DEF OneEach, TradesOf
  <2>1. TradesOf(job[g].batch, u) = {} \/ TradesOf(job[k].batch, u) = {}
    BY DEF UserInv, OneEach
  <2> QED BY <1>3, <1>4, <2>1
<1>6. Fresh'
  <2> SUFFICES ASSUME NEW u \in Alone, NEW g \in Handlers
               PROVE  TradesOf(job'[g].batch, u) \cap graded = {}
    BY <1>4 DEF Fresh, TradesOf
  <2>1. TradesOf(job[g].batch, u) \cap graded = {}
    BY DEF UserInv, Fresh
  <2> QED BY <1>3, <1>4, <2>1
<1> QED BY <1>5, <1>6

\* A step that changes no record and does not enter the loop keeps UserInv if
\* the awards and the badges it leaves are backed.
LEMMA QuietUser ==
    ASSUME Inv, UserInv, NEW h \in Handlers, NEW s, s # "grading", NEW j, Goto(h, s, j),
           UNCHANGED records, rivals \subseteq rivals', OneEach', Fresh',
           AwardsSound(s, j),
           \A u \in Alone : \A b \in badges'[u] : Reached(b, u)
    PROVE  UserInv'
<1>1. job'[h] = j /\ pc'[h] = s
  BY DEF Inv, TypeOK, Goto
<1>2. \A g \in Handlers \ {h} : job'[g] = job[g] /\ pc'[g] = pc[g]
  BY DEF Inv, TypeOK, Goto
<1>3. Alone' \subseteq Alone
  BY DEF Alone
<1>4. UNCHANGED <<graded, isCorrect, counted, correct, longest, peak>>
  BY DEF records
<1>5. Loop'
  BY <1>1, <1>2, <1>3, <1>4 DEF UserInv, Loop, TradesOf, Right
<1>6. CountedOnce'
  BY <1>3, <1>4 DEF UserInv, CountedOnce, TradesOf
<1>7. AwardsBacked'
  BY <1>1, <1>2, <1>3, <1>4 DEF UserInv, AwardsBacked, AwardsSound, Reached, WonLongShots, TradesOf
<1>8. BadgesBacked'
  BY <1>3, <1>4 DEF BadgesBacked, Reached, WonLongShots, TradesOf
<1> QED BY <1>5, <1>6, <1>7, <1>8 DEF UserInv

LEMMA GradeStartUser == ASSUME Inv, UserInv, NEW h \in Handlers, GradeStart(h) PROVE UserInv'
<1>1. PICK m \in Markets, o \in Outcomes :
        LET batch == {t \in Ungraded : MarketOf[t] = m} IN
        Goto(h, "nextUser", Blank(o, batch, AnyUser, {})) /\ Meets(batch)
  BY DEF GradeStart
<1> DEFINE batch == {t \in Ungraded : MarketOf[t] = m}
           j == Blank(o, batch, AnyUser, {})
<1>2. Goto(h, "nextUser", j) /\ Meets(batch)
  BY <1>1
<1>3. batch \cap graded = {} /\ j.batch = batch /\ j.awards = {}
  BY DEF Ungraded, Blank, JobOf
<1>4. UNCHANGED records /\ UNCHANGED badges
  BY DEF GradeStart
<1> HIDE DEF batch, j
<1>5. job'[h] = j /\ \A g \in Handlers \ {h} : job'[g] = job[g]
  BY <1>2 DEF Inv, TypeOK, Goto
<1>6. rivals \subseteq rivals' /\ Alone' \subseteq Alone
  BY <1>2 DEF Meets, Alone
<1>7. \A u \in Alone', g \in Handlers : TradesOf(batch, u) = {} \/ TradesOf(job[g].batch, u) = {}
  BY <1>2 DEF Meets, Alone
<1>8. OneEach'
  <2> SUFFICES ASSUME NEW u \in Alone', NEW g \in Handlers, NEW k \in Handlers, g # k
               PROVE  TradesOf(job'[g].batch, u) = {} \/ TradesOf(job'[k].batch, u) = {}
    BY DEF OneEach, TradesOf
  <2>1. TradesOf(job[g].batch, u) = {} \/ TradesOf(job[k].batch, u) = {}
    BY <1>6 DEF UserInv, OneEach
  <2> QED BY <1>3, <1>5, <1>7, <2>1
<1>9. Fresh'
  <2> SUFFICES ASSUME NEW u \in Alone', NEW g \in Handlers
               PROVE  TradesOf(job'[g].batch, u) \cap graded = {}
    BY <1>4 DEF Fresh, TradesOf, records
  <2>1. TradesOf(job[g].batch, u) \cap graded = {}
    BY <1>6 DEF UserInv, Fresh
  <2>2. TradesOf(batch, u) \cap graded = {}
    BY <1>3 DEF TradesOf
  <2> QED BY <1>3, <1>5, <2>1, <2>2
<1>10. \A u \in Alone : \A b \in badges'[u] : Reached(b, u)
  BY <1>4 DEF UserInv, BadgesBacked
<1>11. AwardsSound("nextUser", j)
  BY DEF AwardsSound
<1> QED BY <1>2, <1>4, <1>6, <1>8, <1>9, <1>10, <1>11, QuietUser

\* A badge whose condition is on the row, and holds, is backed by it.
LEMMA EarnedIsReached ==
    ASSUME Inv, NEW u \in Users, NEW b \in Badges, Earned(b, u), Kind[b] # "SPECIAL"
    PROVE  Reached(b, u)
<1>1. /\ streak[u] <= longest[u] /\ pas[u] <= peak[u]
      /\ streak[u] \in Nat /\ longest[u] \in Nat /\ pas[u] \in Int /\ peak[u] \in Int
  BY DEF Inv, TypeOK, RecordCoherent
<1>2. Threshold[b] \in Int
  BY GradingAssumption
<1>3. CASE Kind[b] = "STREAK"
  BY <1>1, <1>2, <1>3 DEF Earned, Reached
<1>4. CASE Kind[b] = "PAS"
  BY <1>1, <1>2, <1>4 DEF Earned, Reached
<1>5. CASE Kind[b] = "VOLUME"
  BY <1>5 DEF Earned, Reached
<1>6. CASE Kind[b] = "CALIBRATION"
  BY <1>6 DEF Earned, Reached
<1> QED BY <1>3, <1>4, <1>5, <1>6, GradingAssumption

LEMMA BadgeStepsUser ==
    ASSUME Inv, UserInv, NEW h \in Handlers,
           \/ BadgesElsewhere(h) \/ BadgeUser(h) \/ BadgeOwned(h) \/ CheckTrades(h)
           \/ BadgesDone(h) \/ BadgesBreak(h) \/ Fail(h)
    PROVE  UserInv'
<1> DEFINE j == job[h]
           Quiet(s, r) ==
               /\ Goto(h, s, r) /\ s # "grading" /\ r.batch \subseteq j.batch
               /\ AwardsSound(s, r)
<1>1. UNCHANGED records /\ badges' = badges /\ rivals' = rivals /\ graded' = graded
  BY DEF BadgesElsewhere, BadgeUser, BadgeOwned, CheckTrades, BadgesDone, BadgesBreak, Fail,
         records
<1>2. j.user \in Users /\ j.awards \in SUBSET Badges
  BY DEF Inv, TypeOK, Job
<1>3. \A o, B, u, A :
          LET r == Blank(o, B, u, A) IN r.batch = B /\ r.user = u /\ r.awards = A
  BY DEF Blank, JobOf
<1>4. \E s, r : Quiet(s, r)
  <2>1. CASE BadgesElsewhere(h)
    <3>1. PICK u \in Users : Goto(h, "badgeUser", Blank(AnyOutcome, {}, u, {}))
      BY <2>1 DEF BadgesElsewhere
    <3>2. Quiet("badgeUser", Blank(AnyOutcome, {}, u, {}))
      BY <1>3, <3>1 DEF AwardsSound
    <3> QED BY <3>2
  <2>2. CASE BadgeUser(h)
    <3> DEFINE A == {b \in Badges : Earned(b, j.user)}
    <3>1. Goto(h, "badgeOwned", Blank(j.outcome, j.batch, j.user, A))
      BY <2>2 DEF BadgeUser
    <3>2. \A b \in A : Kind[b] # "SPECIAL" => Reached(b, j.user)
      BY <1>2, EarnedIsReached
    <3> HIDE DEF A
    <3>3. Quiet("badgeOwned", Blank(j.outcome, j.batch, j.user, A))
      BY <1>3, <3>1, <3>2 DEF AwardsSound
    <3> QED BY <3>3
  <2>3. CASE BadgeOwned(h)
    <3> DEFINE A == j.awards \ badges[j.user]
    <3>1. Goto(h, "awarding", Blank(j.outcome, j.batch, j.user, A))
      BY <2>3 DEF BadgeOwned
    <3>2. j.user \in Alone => \A b \in A : Kind[b] # "SPECIAL" => Reached(b, j.user)
      BY <2>3 DEF BadgeOwned, UserInv, AwardsBacked, AwardsSound
    <3> HIDE DEF A
    <3>3. Quiet("awarding", Blank(j.outcome, j.batch, j.user, A))
      BY <1>3, <3>1, <3>2 DEF AwardsSound
    <3> QED BY <3>3
  <2>4. CASE BadgesDone(h) \/ BadgesBreak(h) \/ Fail(h)
    <3>1. \/ Goto(h, "idle", Blank(AnyOutcome, {}, AnyUser, {}))
          \/ Goto(h, "nextUser", Blank(j.outcome, j.batch, AnyUser, {}))
      BY <2>4 DEF BadgesDone, BadgesBreak, Fail, NextUser, Finish, NoJob
    <3>2. \/ Quiet("idle", Blank(AnyOutcome, {}, AnyUser, {}))
          \/ Quiet("nextUser", Blank(j.outcome, j.batch, AnyUser, {}))
      BY <1>3, <3>1 DEF AwardsSound
    <3> QED BY <3>2
  <2>5. CASE CheckTrades(h)
    <3>1. PICK b \in First(j.awards) \cap OfTrades :
            IF Shown(b, j.user)
            THEN Goto(h, "creating", Blank(j.outcome, j.batch, j.user, j.awards))
            ELSE Goto(h, "awarding", Blank(j.outcome, j.batch, j.user, j.awards \ {b}))
      BY <2>5 DEF CheckTrades, Rest
    <3>2. j.user \in Alone => \A a \in j.awards : Kind[a] # "SPECIAL" => Reached(a, j.user)
      BY <2>5 DEF CheckTrades, UserInv, AwardsBacked, AwardsSound
    <3>3. CASE Shown(b, j.user)
      <4>1. \A a \in First(j.awards) : a = b
        <5> SUFFICES ASSUME NEW a \in First(j.awards) PROVE a = b
          OBVIOUS
        <5>1. a \in Nat /\ b \in Nat /\ a <= b /\ b <= a
          BY <1>2, <3>1, GradingAssumption DEF First
        <5> QED BY <5>1
      <4>2. j.user \in Alone => Reached(b, j.user)
        BY <3>1, <3>2, <3>3 DEF First, OfTrades, Shown, Reached
      <4>3. AwardsSound("creating", Blank(j.outcome, j.batch, j.user, j.awards))
        BY <1>3, <3>2, <4>1, <4>2 DEF AwardsSound
      <4>4. Quiet("creating", Blank(j.outcome, j.batch, j.user, j.awards))
        BY <1>3, <3>1, <3>3, <4>3
      <4> QED BY <4>4
    <3>4. CASE ~Shown(b, j.user)
      <4>1. AwardsSound("awarding", Blank(j.outcome, j.batch, j.user, j.awards \ {b}))
        BY <1>3, <3>2 DEF AwardsSound
      <4>2. Quiet("awarding", Blank(j.outcome, j.batch, j.user, j.awards \ {b}))
        BY <1>3, <3>1, <3>4, <4>1
      <4> QED BY <4>2
    <3> QED BY <3>3, <3>4
  <2> QED BY <2>1, <2>2, <2>3, <2>4, <2>5
<1>5. PICK s, r : Quiet(s, r)
  BY <1>4
<1>6. OneEach' /\ Fresh'
  BY <1>1, <1>5, BatchKept
<1>7. \A u \in Alone : \A b \in badges'[u] : Reached(b, u)
  BY <1>1 DEF UserInv, BadgesBacked
<1> QED BY <1>1, <1>5, <1>6, <1>7, QuietUser

LEMMA AwardUser == ASSUME Inv, UserInv, NEW h \in Handlers, Award(h) PROVE UserInv'
<1> DEFINE j == job[h]
<1>1. UNCHANGED records /\ rivals' = rivals /\ graded' = graded
  BY DEF Award, records
<1>2. j.user \in Users /\ j.awards \in SUBSET Badges /\ pc[h] \in {"awarding", "creating"}
  BY DEF Inv, TypeOK, Job, Award
<1>3. \A o, B, u, A :
          LET r == Blank(o, B, u, A) IN r.batch = B /\ r.user = u /\ r.awards = A
  BY DEF Blank, JobOf
<1>4. PICK b \in First(j.awards) :
        /\ pc[h] = "creating" \/ (pc[h] = "awarding" /\ b \notin OfTrades)
        /\ \/ NextUser(h) /\ badges' = badges
           \/ /\ badges' = [badges EXCEPT ![j.user] = @ \cup {b}]
              /\ Goto(h, "awarding", Blank(j.outcome, j.batch, j.user, j.awards \ {b}))
  BY DEF Award, Rest
<1>5. /\ j.user \in Alone => \A a \in j.awards : Kind[a] # "SPECIAL" => Reached(a, j.user)
      /\ j.user \in Alone => Reached(b, j.user)
  BY <1>2, <1>4 DEF UserInv, AwardsBacked, AwardsSound, First, OfTrades
<1>6. \A u \in Alone : \A a \in badges'[u] : Reached(a, u)
  <2> SUFFICES ASSUME NEW u \in Alone, NEW a \in badges'[u] PROVE Reached(a, u)
    OBVIOUS
  <2>1. a \in badges[u] \/ (u = j.user /\ a = b)
    BY <1>4 DEF Inv, TypeOK, Alone
  <2> QED BY <1>5, <2>1 DEF UserInv, BadgesBacked
<1>7. CASE NextUser(h)
  <2>1. ASSUME NEW s \in {"idle", "nextUser"}, NEW r, Goto(h, s, r), r.batch \subseteq j.batch
        PROVE  UserInv'
    <3>1. OneEach' /\ Fresh'
      BY <1>1, <2>1, BatchKept
    <3>2. AwardsSound(s, r)
      BY DEF AwardsSound
    <3> QED BY <1>1, <1>6, <2>1, <3>1, <3>2, QuietUser
  <2>2. \/ Goto(h, "idle", Blank(AnyOutcome, {}, AnyUser, {}))
        \/ Goto(h, "nextUser", Blank(j.outcome, j.batch, AnyUser, {}))
    BY <1>7 DEF NextUser, Finish, NoJob
  <2> QED BY <1>3, <2>1, <2>2
<1>8. CASE Goto(h, "awarding", Blank(j.outcome, j.batch, j.user, j.awards \ {b}))
  <2> DEFINE r == Blank(j.outcome, j.batch, j.user, j.awards \ {b})
  <2>1. Goto(h, "awarding", r) /\ r.batch = j.batch /\ r.user = j.user
        /\ r.awards \subseteq j.awards
    BY <1>3, <1>8
  <2> HIDE DEF r
  <2>2. OneEach' /\ Fresh'
    BY <1>1, <2>1, BatchKept
  <2>3. AwardsSound("awarding", r)
    BY <1>5, <2>1 DEF AwardsSound
  <2> QED BY <1>1, <1>6, <2>1, <2>2, <2>3, QuietUser
<1> QED BY <1>4, <1>7, <1>8

\* A step within the loop: the row in memory is all that changes.
LEMMA LoopUser ==
    ASSUME Inv, UserInv, NEW h \in Handlers, NEW r, Goto(h, "grading", r),
           UNCHANGED records, badges' = badges, rivals' = rivals,
           r.batch = job[h].batch, TradesOf(r.batch, r.user) # {},
           r.hits = Cardinality(Right(r)),
           r.user \in Alone => longest[r.user] <= r.longest /\ peak[r.user] <= r.peak
    PROVE  UserInv'
<1>1. job'[h] = r /\ pc'[h] = "grading"
  BY DEF Inv, TypeOK, Goto
<1>2. \A g \in Handlers \ {h} : job'[g] = job[g] /\ pc'[g] = pc[g]
  BY DEF Inv, TypeOK, Goto
<1>3. Alone' = Alone /\ UNCHANGED <<graded, isCorrect, counted, correct, longest, peak>>
  BY DEF Alone, records
<1>4. OneEach' /\ Fresh'
  BY <1>3, BatchKept
<1>5. Loop'
  <2> SUFFICES ASSUME NEW g \in Handlers, pc'[g] = "grading"
               PROVE  /\ TradesOf(job'[g].batch, job'[g].user) # {}
                      /\ job'[g].hits = Cardinality(Right(job'[g]))
                      /\ job'[g].user \in Alone => /\ longest[job'[g].user] <= job'[g].longest
                                                   /\ peak[job'[g].user] <= job'[g].peak
    BY <1>3 DEF Loop, TradesOf, Right
  <2>1. CASE g = h
    BY <1>1, <2>1
  <2>2. CASE g # h
    BY <1>2, <2>2 DEF UserInv, Loop
  <2> QED BY <2>1, <2>2
<1>6. CountedOnce'
  BY <1>3 DEF UserInv, CountedOnce, TradesOf
<1>7. AwardsBacked' /\ BadgesBacked'
  BY <1>1, <1>2, <1>3 DEF UserInv, AwardsBacked, AwardsSound, BadgesBacked, Reached, WonLongShots, TradesOf
<1> QED BY <1>4, <1>5, <1>6, <1>7 DEF UserInv

LEMMA ReadUserUser == ASSUME Inv, UserInv, NEW h \in Handlers, ReadUser(h) PROVE UserInv'
<1> DEFINE batch == job[h].batch
           row(u) == JobOf(job[h].outcome, batch, u, {}, 0, pas[u], peak[u], streak[u], longest[u], {})
<1>1. PICK t \in First(batch) : Goto(h, "grading", row(UserOf[t]))
  BY DEF ReadUser
<1> DEFINE u == UserOf[t]
<1>2. t \in TradesOf(batch, u) /\ u \in Users
  BY GradingAssumption DEF First, TradesOf, Inv, TypeOK, Job
<1>3. /\ row(u).batch = batch /\ row(u).user = u /\ row(u).done = {} /\ row(u).hits = 0
      /\ row(u).longest = longest[u] /\ row(u).peak = peak[u]
  BY DEF JobOf
<1>4. Goto(h, "grading", row(u))
  BY <1>1
<1>5. UNCHANGED records /\ badges' = badges /\ rivals' = rivals
  BY DEF ReadUser
<1> HIDE DEF row, u
<1>6. row(u).hits = Cardinality(Right(row(u)))
  <2>1. Right(row(u)) = {}
    BY <1>3 DEF Right
  <2> QED BY <1>3, <2>1, FS_EmptySet
<1>7. longest[u] <= row(u).longest /\ peak[u] <= row(u).peak
  BY <1>2, <1>3 DEF Inv, TypeOK
<1> QED BY <1>2, <1>3, <1>4, <1>5, <1>6, <1>7, LoopUser

LEMMA GradeTradeUser == ASSUME Inv, UserInv, NEW h \in Handlers, GradeTrade(h) PROVE UserInv'
<1> DEFINE j == job[h]
<1>1. PICK t \in TradesOf(j.batch, j.user) \ j.done : Goto(h, "grading", Graded(j, t))
  BY DEF GradeTrade, First
<1>2. /\ pc[h] = "grading" /\ UNCHANGED records /\ badges' = badges /\ rivals' = rivals
      /\ j \in Job /\ t \in Trades
  BY <1>1 DEF GradeTrade, Inv, TypeOK, Job, TradesOf
<1> DEFINE r == Graded(j, t)
           won == OutcomeOf[t] = j.outcome
           p == j.pas + Gain[t][won]
           s == IF won THEN j.streak + 1 ELSE 0
           hit == IF won THEN 1 ELSE 0
<1>3. /\ r.batch = j.batch /\ r.user = j.user /\ r.done = j.done \cup {t}
      /\ r.outcome = j.outcome
      /\ r.hits = j.hits + hit /\ r.peak = HigherOf(j.peak, p)
      /\ r.longest = HigherOf(j.longest, s)
  BY DEF Graded, JobOf, EndRun
<1>4. /\ j.done \in SUBSET Trades /\ j.hits \in Nat /\ j.pas \in Int /\ j.peak \in Int
      /\ j.streak \in Nat /\ j.longest \in Nat /\ j.user \in Users /\ Gain[t][won] \in Int
      /\ longest[j.user] \in Nat /\ peak[j.user] \in Int
  <2>1. won \in BOOLEAN
    OBVIOUS
  <2> HIDE DEF won
  <2> QED BY <1>2, <2>1, GradingAssumption DEF Job, Inv, TypeOK
<1>5. j.peak <= HigherOf(j.peak, p) /\ HigherOf(j.peak, p) \in Int
  BY <1>4 DEF HigherOf
<1>6. j.longest <= HigherOf(j.longest, s) /\ HigherOf(j.longest, s) \in Int
  BY <1>4 DEF HigherOf
<1>7. /\ j.hits = Cardinality(Right(j))
      /\ j.user \in Alone => longest[j.user] <= j.longest /\ peak[j.user] <= j.peak
      /\ TradesOf(j.batch, j.user) # {}
  BY <1>2 DEF UserInv, Loop
<1>8. r.hits = Cardinality(Right(r))
  <2>1. IsFiniteSet(Right(j)) /\ t \notin Right(j)
    <3>1. Right(j) \subseteq Trades
      BY <1>4 DEF Right
    <3> QED BY <1>1, <3>1, TradesFinite DEF Right
  <2>2. CASE won
    <3>1. Right(r) = Right(j) \cup {t}
      BY <1>3, <2>2 DEF Right
    <3>2. hit = 1
      BY <2>2
    <3>3. Cardinality(Right(j) \cup {t}) = Cardinality(Right(j)) + 1
      BY <2>1, FS_AddElement
    <3> QED BY <1>3, <1>7, <3>1, <3>2, <3>3
  <2>3. CASE ~won
    <3>1. Right(r) = Right(j)
      BY <1>3, <2>3 DEF Right
    <3>2. hit = 0 /\ j.hits + 0 = j.hits
      BY <1>4, <2>3
    <3> QED BY <1>3, <1>7, <3>1, <3>2
  <2> QED BY <2>2, <2>3
<1>9. Goto(h, "grading", r)
  BY <1>1
<1> HIDE DEF r, won, p, s, hit
<1>10. r.user \in Alone => longest[r.user] <= r.longest /\ peak[r.user] <= r.peak
  BY <1>3, <1>4, <1>5, <1>6, <1>7
<1> QED BY <1>2, <1>3, <1>7, <1>8, <1>9, <1>10, LoopUser

\* Counting trades that were not graded before ...
LEMMA NewlyGraded ==
    ASSUME NEW S \in SUBSET Trades, NEW D \in SUBSET Trades, NEW u,
           D = TradesOf(D, u), D \cap S = {}
    PROVE  Cardinality(TradesOf(S \cup D, u)) = Cardinality(TradesOf(S, u)) + Cardinality(D)
<1> DEFINE T == TradesOf(S, u)
<1>1. TradesOf(S \cup D, u) = T \cup D /\ T \cap D = {} /\ T \subseteq Trades
  BY DEF TradesOf
<1>2. /\ IsFiniteSet(T) /\ IsFiniteSet(D)
      /\ Cardinality(T) \in Nat /\ Cardinality(D) \in Nat /\ Cardinality(T \cap D) = 0
  BY <1>1, TradesFinite, FS_EmptySet
<1> HIDE DEF T
<1>3. Cardinality(T \cup D) = Cardinality(T) + Cardinality(D) - Cardinality(T \cap D)
  BY <1>2, FS_Union
<1>4. Cardinality(T \cup D) = Cardinality(T) + Cardinality(D)
  BY <1>2, <1>3
<1> QED BY <1>1, <1>4 DEF T

\* ... and the wins among them.
LEMMA NewlyWon ==
    ASSUME NEW W \in SUBSET Trades, NEW R \in SUBSET Trades, R \cap W = {}
    PROVE  Cardinality(W \cup R) = Cardinality(W) + Cardinality(R)
<1>1. /\ IsFiniteSet(W) /\ IsFiniteSet(R)
      /\ Cardinality(W) \in Nat /\ Cardinality(R) \in Nat /\ Cardinality(W \cap R) = 0
  <2>1. W \cap R = {}
    OBVIOUS
  <2> QED BY <2>1, TradesFinite, FS_EmptySet
<1>2. Cardinality(W \cup R) = Cardinality(W) + Cardinality(R) - Cardinality(W \cap R)
  BY <1>1, FS_Union
<1> QED BY <1>1, <1>2

LEMMA CommitUserUser == ASSUME Inv, UserInv, NEW h \in Handlers, CommitUser(h) PROVE UserInv'
<1> DEFINE j == job[h]
           u == j.user
           r == Blank(j.outcome, j.batch \ j.done, u, {})
<1>1. /\ j.batch \in SUBSET Trades /\ u \in Users /\ j.done \in SUBSET Trades
      /\ pc[h] = "grading" /\ j.done = TradesOf(j.batch, u)
      /\ j.longest \in Nat /\ j.peak \in Int /\ j.hits \in Nat
      /\ Right(j) \subseteq j.done /\ isCorrect \subseteq graded
  BY DEF Inv, TypeOK, Job, CommitUser, Right
<1>2. /\ graded' = graded \cup j.done
      /\ isCorrect' = (isCorrect \ j.done) \cup Right(j)
      /\ counted' = [counted EXCEPT ![u] = @ + Cardinality(j.done)]
      /\ correct' = [correct EXCEPT ![u] = @ + j.hits]
      /\ peak' = [peak EXCEPT ![u] = j.peak]
      /\ longest' = [longest EXCEPT ![u] = j.longest]
      /\ Goto(h, "badgeUser", r)
      /\ badges' = badges /\ rivals' = rivals
  BY DEF CommitUser, Increment, SetLongest
<1>3. /\ TradesOf(j.batch, u) # {} /\ j.hits = Cardinality(Right(j))
      /\ u \in Alone => longest[u] <= j.longest /\ peak[u] <= j.peak
  BY <1>1 DEF UserInv, Loop
<1>4. r.batch = j.batch \ j.done
  BY DEF Blank, JobOf
<1>5. j.done = TradesOf(j.done, u) /\ \A v \in Users : v # u => TradesOf(j.done, v) = {}
  BY <1>1 DEF TradesOf
<1>6. graded \subseteq Trades /\ Alone' = Alone /\ Alone \subseteq Users
  BY <1>2 DEF Inv, TypeOK, Alone
<1> HIDE DEF j, u, r
<1>7. job'[h] = r /\ pc'[h] = "badgeUser"
  BY <1>2 DEF Inv, TypeOK, Goto
<1>8. \A g \in Handlers \ {h} : job'[g] = job[g] /\ pc'[g] = pc[g]
  BY <1>2 DEF Inv, TypeOK, Goto
<1>9. u \in Alone => \A g \in Handlers \ {h} : TradesOf(job[g].batch, u) = {}
  BY <1>3 DEF UserInv, OneEach, j
<1>10. \A v \in Users : /\ TradesOf(r.batch, v) \subseteq TradesOf(j.batch, v)
                        /\ v # u => TradesOf(graded', v) = TradesOf(graded, v)
                        /\ v # u => TradesOf(graded', v) \cap isCorrect'
                                        = TradesOf(graded, v) \cap isCorrect
                        /\ v # u => /\ counted'[v] = counted[v] /\ correct'[v] = correct[v]
                                    /\ peak'[v] = peak[v] /\ longest'[v] = longest[v]
  BY <1>1, <1>2, <1>4, <1>5 DEF TradesOf, Inv, TypeOK
<1>11. OneEach'
  <2> SUFFICES ASSUME NEW v \in Alone, NEW g \in Handlers, NEW k \in Handlers, g # k
               PROVE  TradesOf(job'[g].batch, v) = {} \/ TradesOf(job'[k].batch, v) = {}
    BY <1>6 DEF OneEach, TradesOf
  <2>1. TradesOf(job[g].batch, v) = {} \/ TradesOf(job[k].batch, v) = {}
    BY DEF UserInv, OneEach
  <2> QED BY <1>6, <1>7, <1>8, <1>10, <2>1 DEF j
<1>12. Fresh'
  <2> SUFFICES ASSUME NEW v \in Alone, NEW g \in Handlers
               PROVE  TradesOf(job'[g].batch, v) \cap graded' = {}
    BY <1>6 DEF Fresh, TradesOf
  <2>1. TradesOf(job[g].batch, v) \cap graded = {}
    BY DEF UserInv, Fresh
  <2>2. CASE g = h
    <3>1. TradesOf(r.batch, v) \cap j.done = {} /\ TradesOf(r.batch, v) \cap graded = {}
      BY <1>4, <1>6, <1>10, <2>1, <2>2 DEF TradesOf, j
    <3> QED BY <1>2, <1>7, <2>2, <3>1
  <2>3. CASE g # h
    <3>1. TradesOf(job[g].batch, v) \cap j.done = {}
      BY <1>5, <1>6, <1>9, <2>3 DEF TradesOf
    <3> QED BY <1>2, <1>8, <2>1, <2>3, <3>1
  <2> QED BY <2>2, <2>3
<1>13. Loop'
  <2> SUFFICES ASSUME NEW g \in Handlers, pc'[g] = "grading"
               PROVE  /\ TradesOf(job'[g].batch, job'[g].user) # {}
                      /\ job'[g].hits = Cardinality(Right(job'[g]))
                      /\ job'[g].user \in Alone => /\ longest'[job'[g].user] <= job'[g].longest
                                                   /\ peak'[job'[g].user] <= job'[g].peak
    BY <1>6 DEF Loop, TradesOf, Right
  <2>1. g # h /\ pc[g] = "grading" /\ job'[g] = job[g] /\ job[g].user \in Users
    BY <1>7, <1>8 DEF Inv, TypeOK, Job
  <2>2. /\ TradesOf(job[g].batch, job[g].user) # {}
        /\ job[g].hits = Cardinality(Right(job[g]))
        /\ job[g].user \in Alone => /\ longest[job[g].user] <= job[g].longest
                                    /\ peak[job[g].user] <= job[g].peak
    BY <2>1 DEF UserInv, Loop
  <2>3. job[g].user \in Alone => job[g].user # u
    BY <1>9, <2>1, <2>2
  <2> QED BY <1>10, <2>1, <2>2, <2>3
<1>14. CountedOnce'
  <2> SUFFICES ASSUME NEW v \in Alone
               PROVE  /\ counted'[v] = Cardinality(TradesOf(graded', v))
                      /\ correct'[v] = Cardinality(TradesOf(graded', v) \cap isCorrect')
    BY <1>6 DEF CountedOnce, TradesOf
  <2>1. /\ counted[v] = Cardinality(TradesOf(graded, v))
        /\ correct[v] = Cardinality(TradesOf(graded, v) \cap isCorrect)
    BY DEF UserInv, CountedOnce
  <2>2. CASE v # u
    BY <1>6, <1>10, <2>1, <2>2
  <2>3. CASE v = u
    <3>1. j.done \cap graded = {}
      BY <1>1, <2>3 DEF UserInv, Fresh, j
    <3>2. /\ Cardinality(TradesOf(graded', u))
                 = Cardinality(TradesOf(graded, u)) + Cardinality(j.done)
          /\ Cardinality(TradesOf(graded', u) \cap isCorrect')
                 = Cardinality(TradesOf(graded, u) \cap isCorrect) + Cardinality(Right(j))
      <4> DEFINE D == j.done
                 R == Right(j)
      <4>1. /\ D \in SUBSET Trades /\ D = TradesOf(D, u) /\ D \cap graded = {}
            /\ graded \in SUBSET Trades /\ u \in Users /\ graded' = graded \cup D
            /\ isCorrect' = (isCorrect \ D) \cup R
            /\ isCorrect \in SUBSET graded /\ R \in SUBSET D
        BY <1>1, <1>2, <1>5, <1>6, <3>1
      <4> HIDE DEF D, R
      <4>2. TradesOf(graded', u) \cap isCorrect' = (TradesOf(graded, u) \cap isCorrect) \cup R
        BY <4>1 DEF TradesOf
      <4>3. Cardinality(TradesOf(graded \cup D, u))
                = Cardinality(TradesOf(graded, u)) + Cardinality(D)
        BY <4>1, NewlyGraded
      <4>4. Cardinality((TradesOf(graded, u) \cap isCorrect) \cup R)
                = Cardinality(TradesOf(graded, u) \cap isCorrect) + Cardinality(R)
        <5>1. PICK W \in SUBSET Trades : W = TradesOf(graded, u) \cap isCorrect
          BY <4>1 DEF TradesOf
        <5>2. R \in SUBSET Trades /\ R \cap W = {}
          BY <4>1, <5>1 DEF TradesOf
        <5>3. Cardinality(W \cup R) = Cardinality(W) + Cardinality(R)
          BY <5>2, NewlyWon
        <5> QED BY <5>1, <5>3
      <4> QED BY <4>1, <4>2, <4>3, <4>4 DEF D, R
    <3>3. counted'[u] = counted[u] + Cardinality(j.done) /\ correct'[u] = correct[u] + j.hits
      BY <1>1, <1>2 DEF Inv, TypeOK
    <3> QED BY <1>3, <2>1, <2>3, <3>2, <3>3
  <2> QED BY <2>2, <2>3
<1>15. \A v \in Alone : \A b \in Badges : Reached(b, v) => Reached(b, v)'
  <2> SUFFICES ASSUME NEW v \in Alone, NEW b \in Badges, Reached(b, v) PROVE Reached(b, v)'
    OBVIOUS
  <2>1. /\ longest[v] <= longest'[v] /\ peak[v] <= peak'[v]
        /\ longest[v] \in Nat /\ longest'[v] \in Nat /\ peak[v] \in Int /\ peak'[v] \in Int
    BY <1>1, <1>2, <1>3, <1>6 DEF Inv, TypeOK
  <2>2. counted[v] <= counted'[v] /\ counted[v] \in Nat /\ counted'[v] \in Nat
    <3>1. Cardinality(j.done) \in Nat
      BY <1>1, TradesFinite
    <3> QED BY <1>1, <1>2, <1>6, <3>1 DEF Inv, TypeOK
  <2>3. WonLongShots(v) \subseteq WonLongShots(v)'
    <3>1. v = u => j.done \cap graded = {}
      BY <1>1, <1>6 DEF UserInv, Fresh, j
    <3>2. v = u => TradesOf(graded, v) \cap isCorrect \subseteq TradesOf(graded', v) \cap isCorrect'
      BY <1>1, <1>2, <3>1 DEF TradesOf
    <3>3. TradesOf(graded, v) \cap isCorrect \subseteq TradesOf(graded', v) \cap isCorrect'
      BY <1>6, <1>10, <3>2
    <3> QED BY <3>3 DEF WonLongShots, TradesOf
  <2>4. Threshold[b] \in Int /\ Sample \in Nat
    BY GradingAssumption
  <2>5. /\ longest[v] >= Threshold[b] => longest'[v] >= Threshold[b]
        /\ peak[v] >= Threshold[b] => peak'[v] >= Threshold[b]
        /\ counted[v] >= Sample => counted'[v] >= Sample
    BY <2>1, <2>2, <2>4
  <2> QED BY <2>3, <2>5 DEF Reached
<1>16. AwardsBacked' /\ BadgesBacked'
  <2>1. BadgesBacked'
    <3>1. \A v \in Alone : badges[v] \subseteq Badges
      BY DEF Inv, TypeOK, Alone
    <3> QED BY <1>2, <1>6, <1>15, <3>1 DEF UserInv, BadgesBacked
  <2>2. AwardsBacked'
    <3>1. \A g \in Handlers : job[g].awards \subseteq Badges
      BY DEF Inv, TypeOK, Job
    <3> QED BY <1>6, <1>7, <1>8, <1>15, <3>1 DEF UserInv, AwardsBacked, AwardsSound
  <2> QED BY <2>1, <2>2
<1> QED BY <1>11, <1>12, <1>13, <1>14, <1>16 DEF UserInv

LEMMA SpecUser == Spec => [](Inv /\ UserInv)
<1>1. Init => UserInv
  BY InitUser
<1>2. Inv /\ UserInv /\ [Next]_vars => UserInv'
  <2> SUFFICES ASSUME Inv, UserInv, [Next]_vars PROVE UserInv'
    OBVIOUS
  <2>1. CASE UNCHANGED vars
    <3>1. OneEach' /\ Fresh' /\ Loop' /\ CountedOnce'
      BY <2>1 DEF vars, UserInv, OneEach, Fresh, Loop, CountedOnce, Alone, TradesOf, Right
    <3>2. \A u : WonLongShots(u)' = WonLongShots(u)
      BY <2>1 DEF vars, WonLongShots, TradesOf
    <3>3. \A b, u : Reached(b, u)' = Reached(b, u)
      BY <2>1, <3>2 DEF vars, Reached
    <3>4. AwardsBacked' /\ BadgesBacked'
      BY <2>1, <3>3 DEF vars, UserInv, AwardsBacked, AwardsSound, BadgesBacked, Alone
    <3> QED BY <3>1, <3>4 DEF UserInv
  <2>2. ASSUME NEW h \in Handlers, Step(h) PROVE UserInv'
    BY <2>2, GradeStartUser, ReadUserUser, GradeTradeUser, CommitUserUser, AwardUser,
       BadgeStepsUser DEF Step
  <2> QED BY <2>1, <2>2 DEF Next
<1> QED BY <1>1, <1>2, Invariance, PTL DEF Spec

\* Such a user holds no badge that the record does not back, whichever of the
\* requests that evaluate badges created its row.
THEOREM BadgesHold == Spec => []BadgesBacked
<1>1. UserInv => BadgesBacked
  BY DEF UserInv
<1> QED BY <1>1, SpecUser, PTL

-----------------------------------------------------------------------------
(* No badge is forgotten *)

\* A handler is going to look at a badge of a user.
Looking(s, j, b, u) ==
    s \in BadgeStages /\ j.user = u /\ (s = "badgeUser" \/ b \in j.awards)

\* Of a badge that is due and missing somebody will find out: a commit, which alone
\* changes what is due, is followed by the look.
Awaited ==
    \A u \in Users \ cutShort : counted[u] > 0 =>
        \A b \in Badges : Due(b, u) /\ b \notin badges[u] =>
            \E h \in Handlers : Looking(pc[h], job[h], b, u)

LEMMA InitAwaited == ASSUME Init PROVE Awaited
BY DEF Init, Awaited

\* What is due depends on the user's record and graded trades alone.
LEMMA DueSame ==
    ASSUME NEW u, NEW b, streak'[u] = streak[u], pas'[u] = pas[u], counted'[u] = counted[u],
           TradesOf(graded', u) = TradesOf(graded, u),
           TradesOf(graded, u) \cap isCorrect' = TradesOf(graded, u) \cap isCorrect
    PROVE  Due(b, u)' <=> Due(b, u)
<1>1. Earned(b, u)' <=> Earned(b, u)
  BY DEF Earned
<1>2. Shown(b, u)' <=> Shown(b, u)
  BY DEF Shown, WonLongShots, TradesOf
<1> QED BY <1>1, <1>2 DEF Due

\* A step that changes no record, after which the handler still looks for what it did.
LEMMA QuietAwaited ==
    ASSUME Inv, Awaited, NEW h \in Handlers, NEW s, NEW j, Goto(h, s, j), UNCHANGED records,
           cutShort \subseteq cutShort', \A u \in Users : badges[u] \subseteq badges'[u],
           \A u \in Users \ cutShort', b \in Badges :
               Looking(pc[h], job[h], b, u) /\ Due(b, u) /\ b \notin badges'[u]
                   => Looking(s, j, b, u)
    PROVE  Awaited'
<1>1. pc'[h] = s /\ job'[h] = j /\ \A g \in Handlers \ {h} : pc'[g] = pc[g] /\ job'[g] = job[g]
  BY DEF Goto, Inv, TypeOK
<1>2. ASSUME NEW u, NEW b PROVE (Due(b, u)' <=> Due(b, u)) /\ counted'[u] = counted[u]
  BY DueSame DEF records
<1> SUFFICES ASSUME NEW u \in Users \ cutShort', counted[u] > 0, NEW b \in Badges, Due(b, u),
                    b \notin badges'[u]
             PROVE  \E g \in Handlers : Looking(pc'[g], job'[g], b, u)
  BY <1>2 DEF Awaited, Looking
<1>3. PICK g \in Handlers : Looking(pc[g], job[g], b, u)
  BY DEF Awaited
<1>4. CASE g = h
  BY <1>1, <1>3, <1>4
<1>5. CASE g # h
  BY <1>1, <1>3, <1>5
<1> QED BY <1>4, <1>5

LEMMA CommitUserAwaited ==
    ASSUME Inv, Awaited, NEW h \in Handlers, CommitUser(h) PROVE Awaited'
<1> DEFINE v == job[h].user
           r == Blank(job[h].outcome, job[h].batch \ job[h].done, v, {})
<1>1. /\ v \in Users /\ pc[h] = "grading" /\ Goto(h, "badgeUser", r)
      /\ UNCHANGED badges /\ UNCHANGED cutShort
      /\ job[h].done = TradesOf(job[h].batch, v) /\ Right(job[h]) \subseteq job[h].done
  BY DEF CommitUser, Inv, TypeOK, Job, Right
<1>2. r.user = v
  BY DEF Blank, JobOf
<1>3. ASSUME NEW u \in Users \ {v}
      PROVE  /\ streak'[u] = streak[u] /\ pas'[u] = pas[u] /\ counted'[u] = counted[u]
             /\ TradesOf(graded', u) = TradesOf(graded, u)
             /\ TradesOf(graded, u) \cap isCorrect' = TradesOf(graded, u) \cap isCorrect
  <2>1. streak'[u] = streak[u] /\ pas'[u] = pas[u] /\ counted'[u] = counted[u]
    BY <1>1 DEF CommitUser, Increment, SetRating, Inv, TypeOK
  <2>2. graded' = graded \cup job[h].done /\ isCorrect' = (isCorrect \ job[h].done) \cup Right(job[h])
    BY DEF CommitUser
  <2>3. \A t \in job[h].done : UserOf[t] = v
    BY <1>1 DEF TradesOf
  <2>4. TradesOf(graded', u) = TradesOf(graded, u)
    BY <2>2, <2>3 DEF TradesOf
  <2>5. TradesOf(graded, u) \cap isCorrect' = TradesOf(graded, u) \cap isCorrect
    BY <1>1, <2>2, <2>3 DEF TradesOf
  <2> QED BY <2>1, <2>4, <2>5
<1> HIDE DEF v, r
<1>4. /\ pc'[h] = "badgeUser" /\ job'[h] = r
      /\ \A g \in Handlers \ {h} : pc'[g] = pc[g] /\ job'[g] = job[g]
  BY <1>1 DEF Goto, Inv, TypeOK
<1> SUFFICES ASSUME NEW u \in Users \ cutShort, counted'[u] > 0, NEW b \in Badges, Due(b, u)',
                    b \notin badges[u]
             PROVE  \E g \in Handlers : Looking(pc'[g], job'[g], b, u)
  BY <1>1 DEF Awaited, Looking
<1>5. CASE u = v
  BY <1>2, <1>4, <1>5 DEF Looking, BadgeStages
<1>6. CASE u # v
  <2>1. Due(b, u) /\ counted[u] > 0
    BY <1>3, <1>6, DueSame
  <2>2. PICK g \in Handlers : Looking(pc[g], job[g], b, u)
    BY <2>1 DEF Awaited
  <2>3. g # h
    BY <1>1, <2>2 DEF Looking, BadgeStages
  <2> QED BY <1>4, <2>2, <2>3
<1> QED BY <1>5, <1>6

LEMMA AwardAwaited ==
    ASSUME Inv, Awaited, NEW h \in Handlers, Award(h) PROVE Awaited'
<1> DEFINE j == job[h]
<1>1. /\ UNCHANGED records /\ j.user \in Users /\ j.awards \subseteq Badges
      /\ pc[h] \in {"awarding", "creating"}
  BY DEF Award, Inv, TypeOK, Job
<1>2. PICK b \in First(j.awards) :
        \/ NextUser(h) /\ CutShort(j.user) /\ UNCHANGED badges
        \/ /\ UNCHANGED cutShort /\ badges' = [badges EXCEPT ![j.user] = @ \cup {b}]
           /\ Goto(h, "awarding", Blank(j.outcome, j.batch, j.user, j.awards \ {b}))
  BY DEF Award, Rest
<1>3. CASE NextUser(h) /\ CutShort(j.user) /\ UNCHANGED badges
  <2>1. PICK s, r : Goto(h, s, r)
    BY <1>3 DEF NextUser, Finish
  <2>2. cutShort' = cutShort \cup {j.user}
    BY <1>3 DEF CutShort
  <2>3. \A u \in Users \ cutShort', a \in Badges : ~Looking(pc[h], j, a, u)
    BY <2>2 DEF Looking
  <2> QED BY <1>1, <1>3, <2>1, <2>2, <2>3, QuietAwaited
<1>4. CASE /\ UNCHANGED cutShort /\ badges' = [badges EXCEPT ![j.user] = @ \cup {b}]
           /\ Goto(h, "awarding", Blank(j.outcome, j.batch, j.user, j.awards \ {b}))
  <2> DEFINE r == Blank(j.outcome, j.batch, j.user, j.awards \ {b})
  <2>1. r.user = j.user /\ r.awards = j.awards \ {b}
    BY DEF Blank, JobOf
  <2>2. \A u \in Users : badges[u] \subseteq badges'[u]
    BY <1>4 DEF Inv, TypeOK
  <2>3. b \in badges'[j.user]
    BY <1>1, <1>4 DEF Inv, TypeOK
  <2>4. Goto(h, "awarding", r)
    BY <1>4
  <2> HIDE DEF r
  <2>5. \A u \in Users \ cutShort', a \in Badges :
            Looking(pc[h], j, a, u) /\ a \notin badges'[u] => Looking("awarding", r, a, u)
    BY <1>1, <2>1, <2>3 DEF Looking, BadgeStages
  <2> QED BY <1>1, <1>4, <2>2, <2>4, <2>5, QuietAwaited
<1> QED BY <1>2, <1>3, <1>4

LEMMA StepsAwaited ==
    ASSUME Inv, Awaited, NEW h \in Handlers,
           \/ GradeStart(h) \/ ReadUser(h) \/ GradeTrade(h) \/ BadgesElsewhere(h)
           \/ BadgeUser(h) \/ BadgeOwned(h) \/ CheckTrades(h) \/ BadgesDone(h)
           \/ BadgesBreak(h) \/ Fail(h)
    PROVE  Awaited'
<1> DEFINE j == job[h]
           Keeps(s, r) ==
               /\ Goto(h, s, r)
               /\ \A u \in Users \ cutShort', b \in Badges :
                      Looking(pc[h], j, b, u) /\ Due(b, u) /\ b \notin badges[u]
                          => Looking(s, r, b, u)
<1>1. UNCHANGED records /\ badges' = badges /\ cutShort \subseteq cutShort'
  BY DEF GradeStart, ReadUser, GradeTrade, BadgesElsewhere, BadgeUser, BadgeOwned,
         CheckTrades, BadgesDone, BadgesBreak, CutShort, Fail
<1>2. \A o, B, u, A : LET r == Blank(o, B, u, A) IN r.user = u /\ r.awards = A
  BY DEF Blank, JobOf
<1>3. \E s, r : Keeps(s, r)
  <2>1. CASE GradeStart(h) \/ ReadUser(h) \/ GradeTrade(h) \/ BadgesElsewhere(h)
    <3>1. pc[h] \notin BadgeStages /\ \E s, r : Goto(h, s, r)
      BY <2>1 DEF GradeStart, ReadUser, GradeTrade, BadgesElsewhere, BadgeStages
    <3>2. \A u, b : ~Looking(pc[h], j, b, u)
      BY <3>1 DEF Looking
    <3> QED BY <3>1, <3>2
  <2>2. CASE BadgeUser(h)
    <3> DEFINE A == {b \in Badges : Earned(b, j.user)}
               r == Blank(j.outcome, j.batch, j.user, A)
    <3>1. Goto(h, "badgeOwned", r) /\ r.user = j.user /\ r.awards = A
      BY <1>2, <2>2 DEF BadgeUser
    <3>2. \A u \in Users, b \in Badges : j.user = u /\ Due(b, u) => b \in A
      BY DEF Due
    <3> HIDE DEF A, r
    <3>3. Keeps("badgeOwned", r)
      BY <3>1, <3>2 DEF Looking, BadgeStages
    <3> QED BY <3>3
  <2>3. CASE BadgeOwned(h)
    <3>1. PICK r : /\ Goto(h, "awarding", r) /\ r.user = j.user
                   /\ r.awards = j.awards \ badges[j.user]
      BY <1>2, <2>3 DEF BadgeOwned
    <3>2. Keeps("awarding", r)
      BY <2>3, <3>1 DEF Looking, BadgeStages, BadgeOwned
    <3> QED BY <3>2
  <2>4. CASE CheckTrades(h)
    <3>1. PICK a \in First(j.awards) \cap OfTrades :
            IF Shown(a, j.user)
            THEN Goto(h, "creating", Blank(j.outcome, j.batch, j.user, j.awards))
            ELSE Goto(h, "awarding", Blank(j.outcome, j.batch, j.user, j.awards \ {a}))
      BY <2>4 DEF CheckTrades, Rest
    <3>2. pc[h] = "awarding"
      BY <2>4 DEF CheckTrades
    <3>3. CASE Shown(a, j.user)
      <4>1. PICK r : Goto(h, "creating", r) /\ r.user = j.user /\ r.awards = j.awards
        BY <1>2, <3>1, <3>3
      <4>2. Keeps("creating", r)
        BY <3>2, <4>1 DEF Looking, BadgeStages
      <4> QED BY <4>2
    <3>4. CASE ~Shown(a, j.user)
      <4>1. PICK r : Goto(h, "awarding", r) /\ r.user = j.user /\ r.awards = j.awards \ {a}
        BY <1>2, <3>1, <3>4
      <4>2. ~Due(a, j.user)
        BY <3>1, <3>4 DEF Due
      <4>3. Keeps("awarding", r)
        BY <3>2, <4>1, <4>2 DEF Looking, BadgeStages
      <4> QED BY <4>3
    <3> QED BY <3>3, <3>4
  <2>5. CASE BadgesDone(h)
    <3>1. (\E s, r : Goto(h, s, r)) /\ pc[h] = "awarding" /\ j.awards = {}
      BY <2>5 DEF BadgesDone, NextUser, Finish
    <3>2. \A u, b : ~Looking(pc[h], j, b, u)
      BY <3>1 DEF Looking
    <3> QED BY <3>1, <3>2
  <2>6. CASE BadgesBreak(h) \/ Fail(h)
    <3>1. (\E s, r : Goto(h, s, r)) /\ (pc[h] \in BadgeStages => j.user \in cutShort')
      BY <2>6 DEF BadgesBreak, CutShort, Fail, NextUser, Finish
    <3>2. \A u \in Users \ cutShort', b \in Badges : ~Looking(pc[h], j, b, u)
      BY <3>1 DEF Looking
    <3> QED BY <3>1, <3>2
  <2> QED BY <2>1, <2>2, <2>3, <2>4, <2>5, <2>6
<1>4. PICK s, r : Keeps(s, r)
  BY <1>3
<1> QED BY <1>1, <1>4, QuietAwaited

\* However many graders overlap, whoever else looks for badges, and wherever graders of
\* other users die: a user whose evaluations were not broken off is not owed a badge once
\* nobody looks at his.
THEOREM NothingForgotten == Spec => []DueAreAwarded
<1>1. Init => Awaited
  BY InitAwaited
<1>2. Inv /\ Awaited /\ [Next]_vars => Awaited'
  <2> SUFFICES ASSUME Inv, Awaited, [Next]_vars PROVE Awaited'
    OBVIOUS
  <2>1. CASE UNCHANGED vars
    <3>1. \A u, b : Due(b, u)' <=> Due(b, u)
      BY <2>1, DueSame DEF vars
    <3> QED BY <2>1, <3>1 DEF vars, Awaited, Looking
  <2>2. ASSUME NEW h \in Handlers, Step(h) PROVE Awaited'
    BY <2>2, CommitUserAwaited, AwardAwaited, StepsAwaited DEF Step
  <2> QED BY <2>1, <2>2 DEF Next
<1>3. Awaited => DueAreAwarded
  BY DEF Awaited, DueAreAwarded, Looking
<1> QED BY <1>1, <1>2, <1>3, Invariance, PTL DEF Spec

-----------------------------------------------------------------------------
(* The rating of such a user is the sum over the trades. *)

\* What trades have gained when those of W won.
GainIn(W) == [t \in Trades |-> Gain[t][(t \in W)]]
Gains(T, W) == SumFunctionOnSet(GainIn(W), T)

\* The rating in memory is the row's and what the trades gone through gained.
RatingLoop ==
    \A h \in Handlers : pc[h] = "grading" /\ job[h].user \in Alone =>
        job[h].pas = pas[job[h].user] + Gains(job[h].done, Right(job[h]))

Rated == \A u \in Alone : pas[u] = StartRating + Gains(TradesOf(graded, u), isCorrect)

RatingInv == RatingLoop /\ Rated

LEMMA GainsInt ==
    ASSUME NEW T, T \subseteq Trades, NEW W
    PROVE  /\ IsFiniteSet(T) /\ \A t \in T : GainIn(W)[t] \in Int
           /\ Gains(T, W) \in Int
<1>1. IsFiniteSet(T)
  BY TradesFinite
<1>2. ASSUME NEW t \in T PROVE GainIn(W)[t] \in Int
  <2>1. (t \in W) \in BOOLEAN
    OBVIOUS
  <2>2. PICK won \in BOOLEAN : won = (t \in W)
    BY <2>1
  <2>3. GainIn(W)[t] = Gain[t][won]
    BY <2>2 DEF GainIn
  <2> QED BY <2>3, GradingAssumption
<1> QED BY <1>1, <1>2, SumInt DEF Gains

\* Only which of the trades themselves won matters.
LEMMA GainsSame ==
    ASSUME NEW T, T \subseteq Trades, NEW W, NEW V, T \cap W = T \cap V
    PROVE  Gains(T, W) = Gains(T, V)
<1>1. \A t \in T : (t \in W) = (t \in V)
  OBVIOUS
<1>2. \A t \in T : GainIn(W)[t] = GainIn(V)[t]
  BY <1>1 DEF GainIn
<1> QED BY <1>2, TradesFinite, SumSame DEF Gains

\* A trade more, and the trades of two sets.
LEMMA GainsAdd ==
    ASSUME NEW T, T \subseteq Trades, NEW W, NEW t \in Trades \ T
    PROVE  Gains(T \cup {t}, W) = GainIn(W)[t] + Gains(T, W)
<1>1. IsFiniteSet(T) /\ \A s \in T : GainIn(W)[s] \in Int
  BY GainsInt
<1>2. GainIn(W)[t] \in Int
  <2>1. {t} \subseteq Trades
    OBVIOUS
  <2> QED BY <2>1, GainsInt
<1> QED BY <1>1, <1>2, SumAdd DEF Gains

LEMMA GainsUnion ==
    ASSUME NEW T, T \subseteq Trades, NEW S, S \subseteq Trades, S \cap T = {}, NEW W
    PROVE  Gains(T \cup S, W) = Gains(T, W) + Gains(S, W)
<1>1. /\ IsFiniteSet(S) /\ IsFiniteSet(T)
      /\ \A s \in T \cup S : GainIn(W)[s] \in Int
  BY GainsInt
<1>2. \A s \in S \cup T : GainIn(W)[s] \in Int
  BY <1>1
<1> QED BY <1>1, <1>2, SumUnion DEF Gains

LEMMA InitRating == ASSUME Init PROVE RatingInv
<1>1. RatingLoop
  BY DEF Init, RatingLoop
<1>2. \A u \in Users : TradesOf(graded, u) = {}
  BY DEF Init, TradesOf
<1>3. \A u \in Users : pas[u] = StartRating /\ Gains(TradesOf(graded, u), isCorrect) = 0
  BY <1>2, SumEmpty DEF Init, Gains
<1>4. Rated
  BY <1>3, GradingAssumption DEF Rated, Alone
<1> QED BY <1>1, <1>4 DEF RatingInv

\* A step that changes no record and does not enter the loop.
LEMMA QuietRating ==
    ASSUME Inv, RatingInv, NEW h \in Handlers, NEW s, s # "grading", NEW j, Goto(h, s, j),
           UNCHANGED records, rivals \subseteq rivals'
    PROVE  RatingInv'
<1>1. \A g \in Handlers : pc'[g] = "grading" => pc[g] = "grading" /\ job'[g] = job[g]
  BY DEF Inv, TypeOK, Goto
<1>2. Alone' \subseteq Alone /\ pas' = pas /\ graded' = graded /\ isCorrect' = isCorrect
  BY DEF Alone, records
<1> QED BY <1>1, <1>2 DEF RatingInv, RatingLoop, Rated, TradesOf, Gains, GainIn, Right

\* A step of the loop.
LEMMA LoopRating ==
    ASSUME Inv, RatingInv, NEW h \in Handlers, NEW j, Goto(h, "grading", j),
           UNCHANGED records, rivals' = rivals,
           j.user \in Alone => j.pas = pas[j.user] + Gains(j.done, Right(j))
    PROVE  RatingInv'
<1>1. job'[h] = j /\ \A g \in Handlers \ {h} : pc'[g] = pc[g] /\ job'[g] = job[g]
  BY DEF Inv, TypeOK, Goto
<1>2. Alone' = Alone /\ pas' = pas /\ graded' = graded /\ isCorrect' = isCorrect
  BY DEF Alone, records
<1> QED BY <1>1, <1>2 DEF RatingInv, RatingLoop, Rated, TradesOf, Gains, GainIn, Right

LEMMA ReadUserRating == ASSUME Inv, RatingInv, NEW h \in Handlers, ReadUser(h) PROVE RatingInv'
<1> DEFINE row(u) == JobOf(job[h].outcome, job[h].batch, u, {}, 0, pas[u], peak[u], streak[u], longest[u], {})
<1>1. PICK t \in First(job[h].batch) : Goto(h, "grading", row(UserOf[t]))
  BY DEF ReadUser
<1>2. PICK j : j = row(UserOf[t])
  OBVIOUS
<1>3. j.user = UserOf[t] /\ j.pas = pas[UserOf[t]] /\ j.done = {} /\ UserOf[t] \in Users
  BY <1>1, <1>2, GradingAssumption DEF JobOf, First, Inv, TypeOK, Job
<1>4. j.pas = pas[j.user] + Gains(j.done, Right(j))
  <2>1. Gains({}, Right(j)) = 0 /\ pas[UserOf[t]] \in Int
    BY <1>3, SumEmpty DEF Gains, Inv, TypeOK
  <2> QED BY <1>3, <2>1
<1>5. Goto(h, "grading", j) /\ UNCHANGED records /\ rivals' = rivals
  BY <1>1, <1>2 DEF ReadUser
<1> HIDE DEF row
<1> QED BY <1>4, <1>5, LoopRating

LEMMA GradeTradeRating ==
    ASSUME Inv, RatingInv, NEW h \in Handlers, GradeTrade(h) PROVE RatingInv'
<1>1. PICK t \in TradesOf(job[h].batch, job[h].user) \ job[h].done :
          Goto(h, "grading", Graded(job[h], t))
  BY DEF GradeTrade, First
<1>2. /\ pc[h] = "grading" /\ UNCHANGED records /\ rivals' = rivals
      /\ job[h] \in Job /\ t \in Trades
  BY <1>1 DEF GradeTrade, Inv, TypeOK, Job, TradesOf
<1>3. PICK j : j = Graded(job[h], t)
  OBVIOUS
<1>4. /\ j.user = job[h].user /\ j.done = job[h].done \cup {t} /\ j.outcome = job[h].outcome
      /\ j.pas = job[h].pas + Gain[t][OutcomeOf[t] = job[h].outcome]
      /\ job[h].done \subseteq Trades /\ job[h].user \in Users
  BY <1>2, <1>3 DEF Graded, JobOf, Job
<1>5. /\ Gains(j.done, Right(j)) = GainIn(Right(j))[t] + Gains(job[h].done, Right(job[h]))
      /\ GainIn(Right(j))[t] \in Int /\ Gains(job[h].done, Right(job[h])) \in Int
  <2>1. t \in Trades \ job[h].done /\ {t} \subseteq Trades
    BY <1>1, <1>2
  <2>2. Gains(j.done, Right(j)) = GainIn(Right(j))[t] + Gains(job[h].done, Right(j))
    BY <1>4, <2>1, GainsAdd
  <2>3. job[h].done \cap Right(j) = job[h].done \cap Right(job[h])
    BY <1>4 DEF Right
  <2>4. Gains(job[h].done, Right(j)) = Gains(job[h].done, Right(job[h]))
    BY <1>4, <2>3, GainsSame
  <2>5. GainIn(Right(j))[t] \in Int
    BY <2>1, GainsInt
  <2> QED BY <1>4, <2>2, <2>4, <2>5, GainsInt
<1>6. GainIn(Right(j))[t] = Gain[t][OutcomeOf[t] = job[h].outcome]
  <2>1. (t \in Right(j)) = (OutcomeOf[t] = job[h].outcome)
    BY <1>4 DEF Right
  <2> QED BY <1>2, <2>1 DEF GainIn
<1>7. ASSUME j.user \in Alone PROVE j.pas = pas[j.user] + Gains(j.done, Right(j))
  <2>1. job[h].pas = pas[j.user] + Gains(job[h].done, Right(job[h])) /\ pas[j.user] \in Int
    BY <1>2, <1>4, <1>7 DEF RatingInv, RatingLoop, Inv, TypeOK
  <2>2. j.pas = job[h].pas + GainIn(Right(j))[t]
    BY <1>4, <1>6
  <2> QED BY <1>5, <2>1, <2>2
<1>8. Goto(h, "grading", j)
  BY <1>1, <1>3
<1> QED BY <1>2, <1>7, <1>8, LoopRating

LEMMA CommitUserRating ==
    ASSUME Inv, UserInv, RatingInv, NEW h \in Handlers, CommitUser(h) PROVE RatingInv'
<1> DEFINE j == job[h]
           u == j.user
<1>1. /\ u \in Users /\ pc[h] = "grading" /\ j.done = TradesOf(j.batch, u)
      /\ j.done \subseteq Trades /\ graded \subseteq Trades
      /\ j.pas \in Int /\ pas \in [Users -> Int]
      /\ Right(j) \subseteq j.done /\ isCorrect \subseteq graded
  BY DEF Inv, TypeOK, Job, CommitUser, Right
<1>2. /\ isCorrect' = (isCorrect \ j.done) \cup Right(j)
      /\ graded' = graded \cup j.done /\ pas' = [pas EXCEPT ![u] = j.pas]
      /\ Goto(h, "badgeUser", Blank(j.outcome, j.batch \ j.done, u, {})) /\ rivals' = rivals
  BY DEF CommitUser, SetRating
<1>3. \A g \in Handlers : pc'[g] = "grading" => g # h /\ pc[g] = "grading" /\ job'[g] = job[g]
  BY <1>2 DEF Inv, TypeOK, Goto
<1>4. Alone' = Alone /\ Alone \subseteq Users
  BY <1>2 DEF Alone
<1>5. ASSUME NEW g \in Handlers, g # h, pc[g] = "grading", job[g].user \in Alone
      PROVE  job[g].user # u
  BY <1>1, <1>5 DEF UserInv, OneEach, Loop
<1>6. RatingLoop'
  <2> SUFFICES ASSUME NEW g \in Handlers, pc'[g] = "grading", job'[g].user \in Alone
               PROVE  job'[g].pas = pas'[job'[g].user] + Gains(job'[g].done, Right(job'[g]))
    BY <1>4 DEF RatingLoop, Gains, GainIn, Right
  <2>1. pc[g] = "grading" /\ job'[g] = job[g] /\ job[g].user \in Users \ {u}
    BY <1>3, <1>4, <1>5
  <2>2. pas'[job[g].user] = pas[job[g].user]
    BY <1>1, <1>2, <2>1
  <2> QED BY <2>1, <2>2 DEF RatingInv, RatingLoop
<1>7. Rated'
  <2> SUFFICES ASSUME NEW v \in Alone
               PROVE  pas'[v] = StartRating + Gains(TradesOf(graded', v), isCorrect')
    BY <1>4 DEF Rated, TradesOf, Gains, GainIn
  <2>1. pas[v] = StartRating + Gains(TradesOf(graded, v), isCorrect)
    BY DEF RatingInv, Rated
  <2>2. CASE v # u
    <3>1. /\ TradesOf(graded', v) = TradesOf(graded, v)
          /\ TradesOf(graded, v) \cap isCorrect' = TradesOf(graded, v) \cap isCorrect
          /\ TradesOf(graded, v) \subseteq Trades
      BY <1>1, <1>2, <2>2 DEF TradesOf
    <3>2. pas'[v] = pas[v]
      BY <1>1, <1>2, <1>4, <2>2
    <3>3. Gains(TradesOf(graded, v), isCorrect') = Gains(TradesOf(graded, v), isCorrect)
      BY <3>1, GainsSame
    <3> QED BY <2>1, <3>1, <3>2, <3>3
  <2>3. CASE v = u
    <3>1. j.pas = pas[u] + Gains(j.done, Right(j))
      BY <1>1, <2>3 DEF RatingInv, RatingLoop
    <3>2. j.done \cap graded = {}
      BY <1>1, <2>3 DEF UserInv, Fresh, TradesOf
    <3>3. /\ TradesOf(graded', u) = TradesOf(graded, u) \cup j.done
          /\ TradesOf(graded, u) \subseteq Trades /\ j.done \cap TradesOf(graded, u) = {}
          /\ TradesOf(graded, u) \cap isCorrect' = TradesOf(graded, u) \cap isCorrect
          /\ j.done \cap isCorrect' = j.done \cap Right(j)
      BY <1>1, <1>2, <3>2 DEF TradesOf
    <3> HIDE DEF j, u
    <3>4. Gains(TradesOf(graded, u) \cup j.done, isCorrect')
              = Gains(TradesOf(graded, u), isCorrect') + Gains(j.done, isCorrect')
      BY <1>1, <3>3, GainsUnion
    <3>5. Gains(TradesOf(graded, u), isCorrect') = Gains(TradesOf(graded, u), isCorrect)
      BY <3>3, GainsSame
    <3>6. Gains(j.done, isCorrect') = Gains(j.done, Right(j))
      BY <1>1, <3>3, GainsSame
    <3>7. Gains(TradesOf(graded, u), isCorrect) \in Int /\ Gains(j.done, Right(j)) \in Int
      BY <1>1, <3>3, GainsInt
    <3>8. pas'[u] = j.pas
      BY <1>1, <1>2
    <3> QED BY <2>1, <2>3, <3>1, <3>3, <3>4, <3>5, <3>6, <3>7, <3>8, GradingAssumption
  <2> QED BY <2>2, <2>3
<1> QED BY <1>6, <1>7 DEF RatingInv

LEMMA NextRating ==
    ASSUME Inv, UserInv, RatingInv, [Next]_vars PROVE RatingInv'
<1>1. ASSUME NEW h \in Handlers,
             \/ BadgesElsewhere(h) \/ BadgeUser(h) \/ BadgeOwned(h) \/ CheckTrades(h)
             \/ BadgesDone(h) \/ BadgesBreak(h) \/ Fail(h) \/ Award(h) \/ GradeStart(h)
      PROVE  RatingInv'
  <2>1. UNCHANGED records /\ rivals \subseteq rivals'
    BY <1>1 DEF BadgesElsewhere, BadgeUser, BadgeOwned, CheckTrades, BadgesDone, BadgesBreak,
                Fail, Award, GradeStart, Meets
  <2>2. \E s, j : s # "grading" /\ Goto(h, s, j)
    BY <1>1 DEF BadgesElsewhere, BadgeUser, BadgeOwned, CheckTrades, BadgesDone, BadgesBreak,
                Fail, Award, GradeStart, NextUser, Finish
  <2> QED BY <2>1, <2>2, QuietRating
<1>2. CASE UNCHANGED vars
  BY <1>2 DEF vars, RatingInv, RatingLoop, Rated, TradesOf, Alone, Gains, GainIn, Right
<1> QED
  BY <1>1, <1>2, ReadUserRating, GradeTradeRating, CommitUserRating DEF Next, Step

LEMMA SpecRating == Spec => [](Inv /\ UserInv /\ RatingInv)
<1>1. Init => RatingInv
  BY InitRating
<1>2. Inv /\ UserInv /\ RatingInv /\ [Next]_vars => RatingInv'
  BY NextRating
<1> QED BY <1>1, <1>2, SpecUser, PTL DEF Spec

\* The fold of the record made anew is the sum.
LEMMA MappedSum ==
    ASSUME NEW T, T \subseteq Trades, NEW W
    PROVE  MapThenSumSet(LAMBDA t : Gain[t][(t \in W)], T) = Gains(T, W)
<1> DEFINE Sums(h) == h = [s \in SUBSET T |->
                             IF s = {} THEN 0 ELSE Gain[Pick(s)][(Pick(s) \in W)] + h[s \ {Pick(s)}]]
           f == GainIn(W)
<1>1. \A h : Sums(h) <=> SumsUp(h, f, T)
  <2>1. \A s \in SUBSET T : s # {} => f[Pick(s)] = Gain[Pick(s)][(Pick(s) \in W)]
    BY PickIn DEF GainIn
  <2> HIDE DEF f
  <2> QED BY <2>1 DEF SumsUp
<1>2. MapThenSumSet(LAMBDA t : Gain[t][(t \in W)], T) = (CHOOSE h : Sums(h))[T]
  BY DEF MapThenSumSet, MapThenFoldSet, Pick
<1>3. \E h : Sums(h)
  BY <1>1, TradesFinite, SumsExist
<1> HIDE DEF Sums
<1>4. PICK g : g = (CHOOSE h : Sums(h)) /\ Sums(g)
  BY <1>3
<1> QED BY <1>1, <1>2, <1>4, TradesFinite, SumChosen DEF Gains

\* For a user whose trades two graders never hold at once the whole record, counters and
\* PAS rating, is the one made anew from the graded trades.
THEOREM Reproducible == Spec => []PasReproducible
<1>1. ASSUME Inv, UserInv, RatingInv PROVE PasReproducible
  <2> SUFFICES ASSUME NEW u \in Alone
               PROVE  [n |-> counted[u], correct |-> correct[u], pasRating |-> pas[u]]
                          = aggregate(TradesOf(graded, u))
    BY DEF PasReproducible
  <2>1. /\ counted[u] = Cardinality(TradesOf(graded, u))
        /\ correct[u] = Cardinality(TradesOf(graded, u) \cap isCorrect)
        /\ pas[u] = StartRating + Gains(TradesOf(graded, u), isCorrect)
        /\ TradesOf(graded, u) \subseteq Trades
    BY <1>1 DEF UserInv, CountedOnce, RatingInv, Rated, Inv, TypeOK, TradesOf
  <2> QED BY <2>1, MappedSum DEF aggregate
<1> QED BY <1>1, SpecRating, PTL

-----------------------------------------------------------------------------
(* The reports *)

\* The bin of a probability.
LEMMA BinIndexType ==
    ASSUME NEW p \in Percent, NEW n \in Nat \ {0}
    PROVE  binIndex(p, n) \in 0..(n - 1) /\ clampProb(p) \in 0..100
<1>1. clampProb(p) = p /\ p \in Nat /\ p <= 100
  BY DEF clampProb, Percent
<1>2. p * n \in Nat /\ p * n <= 100 * n
  BY <1>1, Z3
<1>3. PICK x \in Nat : x = p * n /\ x <= 100 * n
  BY <1>2
<1>4. x \div 100 \in Nat /\ x \div 100 <= n
  BY <1>3
<1> QED BY <1>1, <1>3, <1>4 DEF binIndex

\* The trades in the bins of a report, and those of them that happened.
CountTotal(bins) == MapThenSumSet(LAMBDA i : bins[i].count, DOMAIN bins)
HappenedTotal(bins) == MapThenSumSet(LAMBDA i : bins[i].happened, DOMAIN bins)

\* Sums over the bins of a report, as sums of functions.
LEMMA CountsSum ==
    ASSUME NEW bins, IsFiniteSet(DOMAIN bins), NEW f, \A i \in DOMAIN bins : f[i] = bins[i].count
    PROVE  CountTotal(bins) = SumFunctionOnSet(f, DOMAIN bins)
<1> DEFINE I == DOMAIN bins
           Sums(h) == h = [s \in SUBSET I |->
                             IF s = {} THEN 0 ELSE bins[Pick(s)].count + h[s \ {Pick(s)}]]
<1>1. \A h : Sums(h) <=> SumsUp(h, f, I)
  BY PickIn DEF SumsUp
<1>2. MapThenSumSet(LAMBDA i : bins[i].count, I) = (CHOOSE h : Sums(h))[I]
  BY DEF MapThenSumSet, MapThenFoldSet, Pick
<1>3. \E h : Sums(h)
  BY <1>1, SumsExist
<1>4. CountTotal(bins) = (CHOOSE h : Sums(h))[I]
  BY <1>2 DEF CountTotal
<1> HIDE DEF Sums, I
<1>5. PICK g : g = (CHOOSE h : Sums(h)) /\ Sums(g)
  BY <1>3
<1> QED BY <1>1, <1>4, <1>5, SumChosen DEF I

LEMMA HappenedSum ==
    ASSUME NEW bins, IsFiniteSet(DOMAIN bins), NEW f,
           \A i \in DOMAIN bins : f[i] = bins[i].happened
    PROVE  HappenedTotal(bins) = SumFunctionOnSet(f, DOMAIN bins)
<1> DEFINE I == DOMAIN bins
           Sums(h) == h = [s \in SUBSET I |->
                             IF s = {} THEN 0 ELSE bins[Pick(s)].happened + h[s \ {Pick(s)}]]
<1>1. \A h : Sums(h) <=> SumsUp(h, f, I)
  BY PickIn DEF SumsUp
<1>2. MapThenSumSet(LAMBDA i : bins[i].happened, I) = (CHOOSE h : Sums(h))[I]
  BY DEF MapThenSumSet, MapThenFoldSet, Pick
<1>3. \E h : Sums(h)
  BY <1>1, SumsExist
<1>4. HappenedTotal(bins) = (CHOOSE h : Sums(h))[I]
  BY <1>2 DEF HappenedTotal
<1> HIDE DEF Sums, I
<1>5. PICK g : g = (CHOOSE h : Sums(h)) /\ Sums(g)
  BY <1>3
<1> QED BY <1>1, <1>4, <1>5, SumChosen DEF I

LEMMA GapsSum ==
    ASSUME NEW bins, NEW I, I = Filled(bins), IsFiniteSet(I),
           NEW f, \A i \in I : f[i] = Gap(bins[i])
    PROVE  ece(bins) = SumFunctionOnSet(f, I)
<1> DEFINE Sums(h) == h = [s \in SUBSET I |->
                             IF s = {} THEN 0 ELSE Gap(bins[Pick(s)]) + h[s \ {Pick(s)}]]
<1>1. \A h : Sums(h) <=> SumsUp(h, f, I)
  BY PickIn DEF SumsUp
<1>2. ece(bins) = (CHOOSE h : Sums(h))[I]
  BY DEF ece, MapThenSumSet, MapThenFoldSet, Pick
<1>3. \E h : Sums(h)
  BY <1>1, SumsExist
<1> HIDE DEF Sums
<1>4. PICK g : g = (CHOOSE h : Sums(h)) /\ Sums(g)
  BY <1>3
<1> QED BY <1>1, <1>2, <1>4, SumChosen

LEMMA PredictedSum ==
    ASSUME NEW T, IsFiniteSet(T), NEW f, \A t \in T : f[t] = clampProb(Price[t])
    PROVE  MapThenSumSet(LAMBDA t : clampProb(Price[t]), T) = SumFunctionOnSet(f, T)
<1> DEFINE Sums(h) == h = [s \in SUBSET T |->
                             IF s = {} THEN 0 ELSE clampProb(Price[Pick(s)]) + h[s \ {Pick(s)}]]
<1>1. \A h : Sums(h) <=> SumsUp(h, f, T)
  BY PickIn DEF SumsUp
<1>2. MapThenSumSet(LAMBDA t : clampProb(Price[t]), T) = (CHOOSE h : Sums(h))[T]
  BY DEF MapThenSumSet, MapThenFoldSet, Pick
<1>3. \E h : Sums(h)
  BY <1>1, SumsExist
<1> HIDE DEF Sums
<1>4. PICK g : g = (CHOOSE h : Sums(h)) /\ Sums(g)
  BY <1>3
<1> QED BY <1>1, <1>2, <1>4, SumChosen

\* A bin of any trades: what it predicted is a probability of each of them, and no more
\* of them happened than there are.
LEMMA BinSound ==
    ASSUME NEW T, T \subseteq Trades, NEW b, b = BinOf(T, Price, isCorrect)
    PROVE  /\ b.count = Cardinality(T) /\ b.count \in Nat
           /\ b.predicted \in Int /\ b.happened \in Nat
           /\ 0 <= b.predicted /\ b.predicted <= 100 * b.count
           /\ b.happened <= b.count
           /\ Gap(b) \in Int /\ Gap(b) <= 100 * b.count
<1>1. /\ b.count = Cardinality(T) /\ b.happened = Cardinality(T \cap isCorrect)
      /\ b.predicted = MapThenSumSet(LAMBDA t : clampProb(Price[t]), T)
  BY DEF BinOf
<1>2. IsFiniteSet(T) /\ b.count \in Nat
  BY <1>1, TradesFinite
<1>3. b.happened \in Nat /\ b.happened <= b.count
  <2>1. T \cap isCorrect \subseteq T
    OBVIOUS
  <2> QED BY <1>1, <1>2, <2>1, FS_Subset, FS_CardinalityType
<1>4. PICK f : f = [t \in T |-> clampProb(Price[t])]
  OBVIOUS
<1>5. \A t \in T : f[t] = clampProb(Price[t]) /\ f[t] \in Int /\ 0 <= f[t] /\ f[t] <= 100
  <2>1. \A t \in T : Price[t] \in Percent
    BY ReportsAssumption
  <2> QED BY <1>4, <2>1 DEF clampProb, Percent
<1>6. b.predicted = SumFunctionOnSet(f, T)
  BY <1>1, <1>2, <1>5, PredictedSum
<1>7. /\ b.predicted \in Int /\ 0 * Cardinality(T) <= b.predicted
      /\ b.predicted <= 100 * Cardinality(T)
  BY <1>2, <1>5, <1>6, SumBetween
<1>8. 0 <= b.predicted /\ b.predicted <= 100 * b.count
  BY <1>1, <1>2, <1>7
<1>9. Gap(b) \in Int /\ Gap(b) <= 100 * b.count
  BY <1>2, <1>3, <1>7, <1>8 DEF Gap
<1> QED BY <1>1, <1>2, <1>3, <1>7, <1>8, <1>9

\* What the report on any trades says of their number, their accuracy and its errors.
LEMMA ReportSound ==
    ASSUME NEW T, T \subseteq Trades, NEW n \in BinCounts,
           NEW bins, bins = bin(T, Price, isCorrect, n)
    PROVE  /\ DOMAIN bins = 0..(n - 1)
           /\ Cardinality(T) = CountTotal(bins)
           /\ Cardinality(T \cap isCorrect) = HappenedTotal(bins)
           /\ \A i \in furthest(bins) :
                 /\ ece(bins) * bins[i].count <= Gap(bins[i]) * Cardinality(T)
                 /\ Gap(bins[i]) <= 100 * bins[i].count
<1> DEFINE I == 0..(n - 1)
           In(i) == {t \in T : binIndex(Price[t], n) = i}
<1>1. n \in Nat \ {0} /\ IsFiniteSet(T) /\ IsFiniteSet(T \cap isCorrect) /\ IsFiniteSet(I)
  <2>1. T \cap isCorrect \subseteq Trades
    OBVIOUS
  <2>2. n \in Nat \ {0}
    BY ReportsAssumption
  <2> QED BY <2>1, <2>2, TradesFinite, FS_Interval
<1>2. DOMAIN bins = I /\ \A i \in I : bins[i] = BinOf(In(i), Price, isCorrect)
  BY DEF bin
<1>3. PICK at : at = [t \in Trades |-> binIndex(Price[t], n)]
  OBVIOUS
<1>4. \A t \in T : at[t] = binIndex(Price[t], n) /\ at[t] \in I
  <2>1. \A t \in T : Price[t] \in Percent
    BY ReportsAssumption
  <2> QED BY <1>1, <1>3, <2>1, BinIndexType
<1>5. \A i \in I : In(i) = {t \in T : at[t] = i} /\ In(i) \cap isCorrect = {t \in T \cap isCorrect : at[t] = i}
  BY <1>4
<1>6. \A i \in I : /\ bins[i].count = Cardinality({t \in T : at[t] = i})
                   /\ bins[i].happened = Cardinality({t \in T \cap isCorrect : at[t] = i})
  <2>1. \A P : /\ BinOf(P, Price, isCorrect).count = Cardinality(P)
               /\ BinOf(P, Price, isCorrect).happened = Cardinality(P \cap isCorrect)
    BY DEF BinOf
  <2> HIDE DEF In
  <2> QED BY <1>2, <1>5, <2>1
<1>7. \A i \in I : /\ bins[i].count \in Nat /\ Gap(bins[i]) \in Int
                   /\ Gap(bins[i]) <= 100 * bins[i].count
  <2>1. \A i : In(i) \subseteq Trades
    OBVIOUS
  <2> HIDE DEF In
  <2> QED BY <1>2, <2>1, BinSound
<1> HIDE DEF In, I
<1>8. Cardinality(T) = CountTotal(bins)
  <2>1. PICK c : c = PartsOf(T, at, I)
    OBVIOUS
  <2>2. SumFunctionOnSet(c, I) = Cardinality(T)
    BY <1>1, <1>4, <2>1, SumOfParts
  <2>3. \A i \in DOMAIN bins : c[i] = bins[i].count
    BY <1>2, <1>6, <2>1 DEF PartsOf
  <2>4. IsFiniteSet(DOMAIN bins)
    BY <1>1, <1>2
  <2> QED BY <1>2, <2>2, <2>3, <2>4, CountsSum
<1>9. Cardinality(T \cap isCorrect) = HappenedTotal(bins)
  <2>1. PICK c : c = PartsOf(T \cap isCorrect, at, I)
    OBVIOUS
  <2>2. \A t \in T \cap isCorrect : at[t] \in I
    BY <1>4
  <2>3. SumFunctionOnSet(c, I) = Cardinality(T \cap isCorrect)
    BY <1>1, <2>1, <2>2, SumOfParts
  <2>4. \A i \in DOMAIN bins : c[i] = bins[i].happened
    BY <1>2, <1>6, <2>1 DEF PartsOf
  <2>5. IsFiniteSet(DOMAIN bins)
    BY <1>1, <1>2
  <2> QED BY <1>2, <2>3, <2>4, <2>5, HappenedSum
<1>10. ASSUME NEW i \in furthest(bins)
       PROVE  /\ ece(bins) * bins[i].count <= Gap(bins[i]) * Cardinality(T)
              /\ Gap(bins[i]) <= 100 * bins[i].count
  <2> DEFINE F == Filled(bins)
  <2>1. F \subseteq I /\ IsFiniteSet(F) /\ i \in I
    BY <1>1, <1>2, FS_Subset DEF Filled, furthest
  <2>2. \A t \in T : at[t] \in F
    <3> SUFFICES ASSUME NEW t \in T PROVE bins[at[t]].count > 0
      BY <1>2, <1>4 DEF Filled
    <3>1. PICK P : P = {s \in T : at[s] = at[t]} /\ t \in P
      OBVIOUS
    <3>2. IsFiniteSet(P) /\ P # {} /\ bins[at[t]].count = Cardinality(P)
      BY <1>1, <1>4, <1>6, <3>1, FS_Subset
    <3> QED BY <3>2, FS_EmptySet, FS_CardinalityType
  <2>3. PICK g : g = [k \in F |-> Gap(bins[k])]
    OBVIOUS
  <2>4. PICK c : c = PartsOf(T, at, F)
    OBVIOUS
  <2>5. \A k \in F : g[k] = Gap(bins[k]) /\ c[k] = bins[k].count
    BY <1>6, <2>1, <2>3, <2>4 DEF PartsOf
  <2> HIDE DEF F
  <2>6. SumFunctionOnSet(c, F) = Cardinality(T)
    BY <1>1, <2>1, <2>2, <2>4, SumOfParts
  <2>7. ece(bins) = SumFunctionOnSet(g, F)
    <3>1. F = Filled(bins)
      BY DEF F
    <3> QED BY <2>1, <2>5, <3>1, GapsSum
  <2>8. \A k \in F : g[k] * bins[i].count <= Gap(bins[i]) * c[k]
    BY <2>5 DEF furthest, F
  <2>9. \A k \in F : g[k] \in Int /\ c[k] \in Int
    BY <1>7, <2>1, <2>5
  <2>10. SumFunctionOnSet(g, F) * bins[i].count <= Gap(bins[i]) * SumFunctionOnSet(c, F)
    <3>1. PICK m, d : m = bins[i].count /\ d = Gap(bins[i]) /\ m \in Int /\ d \in Int
      BY <1>7, <2>1
    <3>2. \A k \in F : g[k] * m <= d * c[k]
      BY <2>8, <3>1
    <3>3. SumFunctionOnSet(g, F) * m <= d * SumFunctionOnSet(c, F)
      BY <2>1, <2>9, <3>1, <3>2, SumRatio
    <3> QED BY <3>1, <3>3
  <2> QED BY <1>7, <2>1, <2>6, <2>7, <2>10
<1> QED BY <1>2, <1>8, <1>9, <1>10 DEF I

\* For a user whose trades two graders never hold at once, the report from the counters and
\* the one from the trades agree, for every number of bins, and the calibration errors are
\* in order.
THEOREM ReportsConsistent == Spec => []ReportsAgree
<1>1. ASSUME Inv, UserInv PROVE ReportsAgree
  <2> SUFFICES ASSUME NEW u \in Alone, NEW n \in BinCounts
               PROVE  LET report == getCalibrationReport(u, n)
                          bins == report.bins
                          counters == getScoringReport(u) IN
                      /\ DOMAIN bins = 0..(n - 1)
                      /\ counters.gradedTrades = report.total
                      /\ counters.gradedTrades = MapThenSumSet(LAMBDA i : bins[i].count, DOMAIN bins)
                      /\ counters.correctTrades = MapThenSumSet(LAMBDA i : bins[i].happened, DOMAIN bins)
                      /\ \A i \in report.furthest :
                            /\ report.ece * bins[i].count <= Gap(bins[i]) * report.total
                            /\ Gap(bins[i]) <= 100 * bins[i].count
    BY DEF ReportsAgree
  <2> DEFINE T == TradesOf(graded, u)
             bins == bin(T, Price, isCorrect, n)
             report == getCalibrationReport(u, n)
             counters == getScoringReport(u)
  <2>1. /\ report.total = Cardinality(T) /\ report.bins = bins
        /\ report.ece = ece(bins) /\ report.furthest = furthest(bins)
    BY DEF getCalibrationReport, calibrationReport
  <2>2. counters.gradedTrades = Cardinality(T) /\ counters.correctTrades = Cardinality(T \cap isCorrect)
    BY <1>1 DEF UserInv, CountedOnce, getScoringReport
  <2>3. T \subseteq Trades
    BY <1>1 DEF Inv, TypeOK, TradesOf
  <2> HIDE DEF T, report, counters
  <2>4. /\ DOMAIN bins = 0..(n - 1)
        /\ Cardinality(T) = CountTotal(bins)
        /\ Cardinality(T \cap isCorrect) = HappenedTotal(bins)
        /\ \A i \in furthest(bins) :
              /\ ece(bins) * bins[i].count <= Gap(bins[i]) * Cardinality(T)
              /\ Gap(bins[i]) <= 100 * bins[i].count
    <3> HIDE DEF bins
    <3> QED BY <2>3, ReportSound DEF bins
  <2> HIDE DEF bins
  <2>5. /\ DOMAIN report.bins = 0..(n - 1)
        /\ counters.gradedTrades = report.total
        /\ counters.gradedTrades = CountTotal(report.bins)
        /\ counters.correctTrades = HappenedTotal(report.bins)
        /\ \A i \in report.furthest :
              /\ report.ece * report.bins[i].count <= Gap(report.bins[i]) * report.total
              /\ Gap(report.bins[i]) <= 100 * report.bins[i].count
    BY <2>1, <2>2, <2>4
  <2> QED BY <2>5, Zenon DEF report, counters, CountTotal, HappenedTotal
<1>2. Inv /\ UserInv => ReportsAgree
  BY <1>1
<1> QED BY <1>2, SpecUser, PTL

-----------------------------------------------------------------------------
(* Murphy's decomposition *)

\* Murphy's sums, as sums of functions.
LEMMA ReliabilitySum ==
    ASSUME NEW bins, NEW I, I = Filled(bins), IsFiniteSet(I), NEW N,
           NEW f, \A i \in I : f[i] = (Unit \div bins[i].count) * N * N * Squared(Gap(bins[i]))
    PROVE  reliability(bins, N, Unit) = SumFunctionOnSet(f, I)
<1> DEFINE Term(i) == (Unit \div bins[i].count) * N * N * Squared(Gap(bins[i]))
           Sums(h) == h = [s \in SUBSET I |->
                             IF s = {} THEN 0 ELSE Term(Pick(s)) + h[s \ {Pick(s)}]]
<1>1. \A h : Sums(h) <=> SumsUp(h, f, I)
  <2> HIDE DEF Term
  <2>1. \A i \in I : f[i] = Term(i)
    BY DEF Term
  <2> QED BY <2>1, PickIn DEF SumsUp
<1>2. reliability(bins, N, Unit) = (CHOOSE h : Sums(h))[I]
  BY DEF reliability, MapThenSumSet, MapThenFoldSet, Pick
<1>3. \E h : Sums(h)
  BY <1>1, SumsExist
<1> HIDE DEF Sums
<1>4. PICK g : g = (CHOOSE h : Sums(h)) /\ Sums(g)
  BY <1>3
<1> QED BY <1>1, <1>2, <1>4, SumChosen

LEMMA ResolutionSum ==
    ASSUME NEW bins, NEW I, I = Filled(bins), IsFiniteSet(I), NEW N, NEW H,
           NEW f, \A i \in I : f[i] = (Unit \div bins[i].count) * Squared(Lift(bins[i], N, H))
    PROVE  resolution(bins, N, Unit, H) = SumFunctionOnSet(f, I)
<1> DEFINE Term(i) == (Unit \div bins[i].count) * Squared(Lift(bins[i], N, H))
           Sums(h) == h = [s \in SUBSET I |->
                             IF s = {} THEN 0 ELSE Term(Pick(s)) + h[s \ {Pick(s)}]]
<1>1. \A h : Sums(h) <=> SumsUp(h, f, I)
  <2> HIDE DEF Term
  <2>1. \A i \in I : f[i] = Term(i)
    BY DEF Term
  <2> QED BY <2>1, PickIn DEF SumsUp
<1>2. resolution(bins, N, Unit, H) = (CHOOSE h : Sums(h))[I]
  BY DEF resolution, MapThenSumSet, MapThenFoldSet, Pick
<1>3. \E h : Sums(h)
  BY <1>1, SumsExist
<1> HIDE DEF Sums
<1>4. PICK g : g = (CHOOSE h : Sums(h)) /\ Sums(g)
  BY <1>3
<1> QED BY <1>1, <1>2, <1>4, SumChosen

\* The loss of a trade, as brier adds it up.
Loss(t) == Squared(Truth(t \in isCorrect) - Price[t])

LEMMA BrierSum ==
    ASSUME NEW T, IsFiniteSet(T), NEW N, NEW f, \A t \in T : f[t] = Loss(t)
    PROVE  brier(T, Price, isCorrect, N, Unit) = Unit * N * N * SumFunctionOnSet(f, T)
<1> DEFINE Sums(h) == h = [s \in SUBSET T |->
                             IF s = {} THEN 0 ELSE Squared(Truth(Pick(s) \in isCorrect) - Price[Pick(s)])
                                                       + h[s \ {Pick(s)}]]
<1>1. \A h : Sums(h) <=> SumsUp(h, f, T)
  BY PickIn DEF SumsUp, Loss
<1>2. brier(T, Price, isCorrect, N, Unit) = Unit * N * N * (CHOOSE h : Sums(h))[T]
  BY DEF brier, MapThenSumSet, MapThenFoldSet, Pick
<1>3. \E h : Sums(h)
  BY <1>1, SumsExist
<1> HIDE DEF Sums
<1>4. PICK g : g = (CHOOSE h : Sums(h)) /\ Sums(g)
  BY <1>3
<1>5. g[T] = SumFunctionOnSet(f, T)
  BY <1>1, <1>4, SumChosen
<1> QED BY <1>2, <1>4, <1>5

(* A bin holds c trades, h of them won; their probabilities, between lo and hi, *)
(* add up to p, those of the winners to x, and their squares to q.              *)

LEMMA SquaresFromBelow ==
    ASSUME NEW a \in Int, NEW b \in Int
    PROVE  0 <= a * a /\ 4 * a * b <= (a + b) * (a + b)
<1>1. \A d \in Int : 0 <= d * d
  OBVIOUS
<1>2. 0 <= (a - b) * (a - b)
  BY <1>1
<1>3. (a + b) * (a + b) - 4 * a * b = (a - b) * (a - b)
  OBVIOUS
<1> QED BY <1>1, <1>2, <1>3

\* The spread of the probabilities of a bin.
LEMMA VarianceBound ==
    ASSUME NEW c \in Nat, NEW p \in Int, NEW q \in Int, NEW lo \in Nat, NEW hi \in Nat,
           q <= (lo + hi) * p - lo * hi * c
    PROVE  4 * (c * q - p * p) <= c * c * ((hi - lo) * (hi - lo))
<1>1. PICK r \in Int : r = (lo + hi) * p - lo * hi * c
  OBVIOUS
<1>2. c * q <= c * r
  BY <1>1
<1>3. 0 <= (2 * p - c * (lo + hi)) * (2 * p - c * (lo + hi))
  BY SquaresFromBelow
<1>4. c * c * ((hi - lo) * (hi - lo)) - 4 * (c * ((lo + hi) * p - lo * hi * c) - p * p)
          = (2 * p - c * (lo + hi)) * (2 * p - c * (lo + hi))
  OBVIOUS
<1>5. 4 * (c * r - p * p) <= c * c * ((hi - lo) * (hi - lo))
  BY <1>1, <1>3, <1>4
<1>6. c * q - p * p <= c * r - p * p
  BY <1>2
<1> QED BY <1>5, <1>6

\* How far the winners' probabilities can be from those of all.
LEMMA CovarianceBound ==
    ASSUME NEW c \in Nat, NEW h \in Nat, h <= c, NEW p \in Int, NEW x \in Int,
           NEW lo \in Nat, NEW hi \in Nat, lo <= hi,
           lo * h <= x, x <= hi * h, lo * (c - h) <= p - x, p - x <= hi * (c - h)
    PROVE  /\ 4 * (c * x - h * p) <= c * c * (hi - lo)
           /\ -(c * c * (hi - lo)) <= 4 * (c * x - h * p)
<1>1. PICK w \in Nat, z \in Int, d \in Nat : w = c - h /\ z = p - x /\ d = hi - lo
  OBVIOUS
<1>2. lo * h <= x /\ x <= hi * h /\ lo * w <= z /\ z <= hi * w
  BY <1>1
<1>3. w * (lo * h) <= w * x /\ w * x <= w * (hi * h) /\ h * (lo * w) <= h * z /\ h * z <= h * (hi * w)
  BY <1>2
<1>4. c * x - h * p = w * x - h * z
  BY <1>1
<1>5. w * (hi * h) - h * (lo * w) = (h * w) * d /\ w * (lo * h) - h * (hi * w) = -((h * w) * d)
  BY <1>1
<1>6. w * x - h * z <= (h * w) * d /\ -((h * w) * d) <= w * x - h * z
  BY <1>3, <1>5
<1>7. 4 * ((h * w) * d) <= c * c * d
  <2>1. 4 * h * w <= (h + w) * (h + w)
    BY SquaresFromBelow
  <2>2. h + w = c
    BY <1>1
  <2>3. 4 * h * w <= c * c
    BY <2>1, <2>2
  <2>4. PICK k \in Int, m \in Int : k = 4 * h * w /\ m = c * c
    OBVIOUS
  <2>5. k * d <= m * d
    BY <2>3, <2>4
  <2>6. 4 * ((h * w) * d) = k * d
    BY <2>4
  <2> QED BY <2>4, <2>5, <2>6
<1> QED BY <1>1, <1>4, <1>6, <1>7

\* What a bin contributes to the error of the decomposition, when m bounds its width.
LEMMA BinErrorBound ==
    ASSUME NEW c \in Nat, NEW h \in Nat, h <= c, NEW p \in Int, NEW x \in Int, NEW q \in Int,
           NEW lo \in Nat, NEW hi \in Nat, lo <= hi, NEW m \in Nat,
           lo * h <= x, x <= hi * h, lo * (c - h) <= p - x, p - x <= hi * (c - h),
           q <= (lo + hi) * p - lo * hi * c, 0 <= c * q - p * p,
           (hi - lo) * (hi - lo) + 200 * (hi - lo) <= 4 * m
    PROVE  /\ (c * q - p * p) - 200 * (c * x - h * p) <= c * c * m
           /\ -(c * c * m) <= (c * q - p * p) - 200 * (c * x - h * p)
<1>1. PICK v \in Int, w \in Int, d \in Nat, s \in Nat :
          v = c * q - p * p /\ w = c * x - h * p /\ d = hi - lo /\ s = c * c
  OBVIOUS
<1>2. 4 * v <= s * (d * d) /\ 0 <= v
  BY <1>1, VarianceBound
<1>3. 4 * w <= s * d /\ -(s * d) <= 4 * w
  BY <1>1, CovarianceBound
<1>4. d * d + 200 * d <= 4 * m
  BY <1>1
<1>5. s * (d * d + 200 * d) <= s * (4 * m)
  <2>1. PICK k \in Int : k = d * d + 200 * d
    OBVIOUS
  <2>2. s * k <= s * (4 * m)
    BY <1>4, <2>1
  <2> QED BY <2>1, <2>2
<1>6. s * (d * d + 200 * d) = s * (d * d) + 200 * (s * d) /\ s * (4 * m) = 4 * (s * m)
  OBVIOUS
<1>7. 0 <= s * (d * d) /\ s * (d * d) \in Int /\ s * d \in Int /\ s * m \in Int
  <2>1. d * d \in Nat
    OBVIOUS
  <2>2. PICK k \in Nat : k = d * d
    BY <2>1
  <2>3. 0 <= s * k
    OBVIOUS
  <2> QED BY <2>2, <2>3
<1>8. PICK a \in Nat, b \in Int, e \in Int : a = s * (d * d) /\ b = s * d /\ e = s * m
  BY <1>7
<1>9. 4 * v <= a /\ 4 * w <= b /\ -b <= 4 * w /\ a + 200 * b <= 4 * e
  BY <1>2, <1>3, <1>5, <1>6, <1>8
<1>10. v - 200 * w <= e /\ -e <= v - 200 * w
  BY <1>2, <1>8, <1>9
<1> QED BY <1>1, <1>8, <1>10

\* The sums over the trades of a bin that those bounds are about.
BinSums(T, b, lo, hi, total) ==
    \E x \in Int, q \in Int :
        /\ total = 10000 * b.happened - 200 * x + q
        /\ lo * b.happened <= x /\ x <= hi * b.happened
        /\ lo * (b.count - b.happened) <= b.predicted - x
        /\ b.predicted - x <= hi * (b.count - b.happened)
        /\ q <= (lo + hi) * b.predicted - lo * hi * b.count
        /\ 0 <= b.count * q - b.predicted * b.predicted

LEMMA BinSumsFound ==
    ASSUME NEW T, T \subseteq Trades, T # {}, NEW b, b = BinOf(T, Price, isCorrect),
           NEW lo \in Nat, NEW hi \in Nat, \A t \in T : lo <= Price[t] /\ Price[t] <= hi,
           NEW f, \A t \in T : f[t] = Loss(t)
    PROVE  BinSums(T, b, lo, hi, SumFunctionOnSet(f, T))
<1>1. PICK c \in Nat, h \in Nat, p \in Int : c = b.count /\ h = b.happened /\ p = b.predicted
  BY BinSound
<1>2. IsFiniteSet(T) /\ c = Cardinality(T) /\ h = Cardinality(T \cap isCorrect) /\ c > 0
  <2>1. IsFiniteSet(T) /\ c = Cardinality(T) /\ h = Cardinality(T \cap isCorrect)
    BY <1>1, TradesFinite, BinSound DEF BinOf
  <2> QED BY <2>1, FS_EmptySet
<1>3. \A t \in T : Price[t] \in 0..100 /\ clampProb(Price[t]) = Price[t]
  BY ReportsAssumption DEF Percent, clampProb
<1>4. PICK P, W, X, Q : /\ P = [t \in T |-> Price[t]]
                        /\ W = [t \in T |-> IF t \in isCorrect THEN 1 ELSE 0]
                        /\ X = [t \in T |-> IF t \in isCorrect THEN Price[t] ELSE 0]
                        /\ Q = [t \in T |-> Price[t] * Price[t]]
  OBVIOUS
<1>5. \A t \in T : /\ P[t] = Price[t] /\ P[t] \in Nat
                   /\ W[t] = (IF t \in isCorrect THEN 1 ELSE 0) /\ W[t] \in {0, 1}
                   /\ X[t] = W[t] * P[t] /\ X[t] \in Int
                   /\ Q[t] = P[t] * P[t] /\ Q[t] \in Int
                   /\ lo <= P[t] /\ P[t] <= hi
  BY <1>3, <1>4
<1>6. SumFunctionOnSet(W, T) = h
  BY <1>2, <1>5, SumOfOnes
<1>7. SumFunctionOnSet(P, T) = p
  <2>1. b.predicted = MapThenSumSet(LAMBDA t : clampProb(Price[t]), T)
    BY DEF BinOf
  <2>2. \A t \in T : P[t] = clampProb(Price[t])
    BY <1>3, <1>5
  <2> QED BY <1>1, <1>2, <2>1, <2>2, PredictedSum
<1>8. PICK x \in Int, q \in Int : x = SumFunctionOnSet(X, T) /\ q = SumFunctionOnSet(Q, T)
  BY <1>2, <1>5, SumInt
\* A winner's loss is (100 - p)^2 = 10000 - 200 p + p^2, a loser's p^2.
<1>9. SumFunctionOnSet(f, T) = 10000 * h - 200 * x + q
  <2>1. PICK a \in Int : a = 200
    OBVIOUS
  <2>2. PICK g, k : g = [t \in T |-> a * X[t]] /\ k = [t \in T |-> Q[t] - g[t]]
    OBVIOUS
  <2>3. \A t \in T : /\ g[t] = a * X[t] /\ g[t] \in Int /\ Q[t] \in Int
                     /\ k[t] = Q[t] - g[t] /\ k[t] \in Int
    BY <1>5, <2>2
  <2>4. SumFunctionOnSet(g, T) = a * x
    BY <1>2, <1>5, <1>8, <2>3, SumMultiple
  <2>5. SumFunctionOnSet(k, T) = q - a * x
    BY <1>2, <1>8, <2>3, <2>4, SumMinus
  <2>6. \A t \in T : f[t] = 10000 * W[t] + k[t] /\ W[t] \in Int
    <3> SUFFICES ASSUME NEW t \in T PROVE f[t] = 10000 * W[t] + k[t] /\ W[t] \in Int
      OBVIOUS
    <3>1. PICK y \in Nat : y = Price[t] /\ y = P[t]
      BY <1>5
    <3>2. f[t] = (Truth(t \in isCorrect) - y) * (Truth(t \in isCorrect) - y)
      BY <3>1 DEF Loss, Squared
    <3>3. CASE t \in isCorrect
      <4>1. W[t] = 1 /\ X[t] = y /\ Q[t] = y * y /\ Truth(t \in isCorrect) = 100
        BY <1>5, <3>1, <3>3 DEF Truth
      <4>2. (100 - y) * (100 - y) = 10000 - 200 * y + y * y
        OBVIOUS
      <4> QED BY <2>1, <2>3, <3>2, <4>1, <4>2
    <3>4. CASE t \notin isCorrect
      <4>1. W[t] = 0 /\ X[t] = 0 /\ Q[t] = y * y /\ Truth(t \in isCorrect) = 0
        BY <1>5, <3>1, <3>4 DEF Truth
      <4>2. (0 - y) * (0 - y) = y * y
        OBVIOUS
      <4> QED BY <2>1, <2>3, <3>2, <4>1, <4>2
    <3> QED BY <3>3, <3>4
  <2>7. SumFunctionOnSet(f, T) = 10000 * SumFunctionOnSet(W, T) + SumFunctionOnSet(k, T)
    BY <1>2, <2>3, <2>6, SumLinear
  <2> QED BY <1>6, <2>1, <2>5, <2>7
\* Each winner's probability is between lo and hi.
<1>10. PICK WL, WH : WL = [t \in T |-> lo * W[t]] /\ WH = [t \in T |-> hi * W[t]]
  OBVIOUS
<1>11. /\ \A t \in T : /\ WL[t] = lo * W[t] /\ WL[t] \in Int /\ W[t] \in Int
                       /\ WH[t] = hi * W[t] /\ WH[t] \in Int
                       /\ WL[t] <= X[t] /\ X[t] <= WH[t]
       /\ SumFunctionOnSet(WL, T) = lo * h /\ SumFunctionOnSet(WH, T) = hi * h
  <2>1. \A t \in T : /\ WL[t] = lo * W[t] /\ WL[t] \in Int /\ W[t] \in Int
                     /\ WH[t] = hi * W[t] /\ WH[t] \in Int
    BY <1>5, <1>10
  <2>2. \A t \in T : WL[t] <= X[t] /\ X[t] <= WH[t]
    BY <1>5, <2>1
  <2>3. SumFunctionOnSet(WL, T) = lo * h
    BY <1>2, <1>6, <2>1, SumMultiple
  <2>4. SumFunctionOnSet(WH, T) = hi * h
    BY <1>2, <1>6, <2>1, SumMultiple
  <2> QED BY <2>1, <2>2, <2>3, <2>4
<1>12. lo * h <= x /\ x <= hi * h
  BY <1>2, <1>5, <1>8, <1>11, SumOrder
\* And so is each loser's.
<1>13. lo * (c - h) <= p - x /\ p - x <= hi * (c - h)
  <2>1. PICK Z, V, one : /\ one = [t \in T |-> 1] /\ V = [t \in T |-> one[t] - W[t]]
                         /\ Z = [t \in T |-> P[t] - X[t]]
    OBVIOUS
  <2>2. \A t \in T : /\ Z[t] = P[t] - X[t] /\ Z[t] \in Int /\ P[t] \in Int
                     /\ one[t] = 1 /\ one[t] \in Int
                     /\ V[t] = one[t] - W[t] /\ V[t] \in Int
    BY <1>5, <2>1
  <2>3. SumFunctionOnSet(Z, T) = p - x
    BY <1>2, <1>5, <1>7, <1>8, <2>2, SumMinus
  <2>4. SumFunctionOnSet(V, T) = c - h
    <3>1. SumFunctionOnSet(one, T) = 1 * c
      BY <1>2, <2>2, SumConstant
    <3>2. SumFunctionOnSet(V, T) = SumFunctionOnSet(one, T) - SumFunctionOnSet(W, T)
      BY <1>2, <1>11, <2>2, SumMinus
    <3> QED BY <1>6, <3>1, <3>2
  <2>5. PICK VL, VH : VL = [t \in T |-> lo * V[t]] /\ VH = [t \in T |-> hi * V[t]]
    OBVIOUS
  <2>6. \A t \in T : /\ VL[t] = lo * V[t] /\ VL[t] \in Int
                     /\ VH[t] = hi * V[t] /\ VH[t] \in Int
    BY <2>2, <2>5
  <2>7. \A t \in T : VL[t] <= Z[t] /\ Z[t] <= VH[t]
    <3> SUFFICES ASSUME NEW t \in T PROVE VL[t] <= Z[t] /\ Z[t] <= VH[t]
      OBVIOUS
    <3>1. PICK a \in Nat : a = P[t] /\ lo <= a /\ a <= hi
      BY <1>5
    <3>2. CASE W[t] = 1
      <4>1. Z[t] = 0 /\ V[t] = 0 /\ lo * 0 = 0 /\ hi * 0 = 0
        BY <1>5, <2>2, <3>1, <3>2
      <4> QED BY <2>6, <4>1
    <3>3. CASE W[t] = 0
      <4>1. 0 * a = 0 /\ lo * 1 = lo /\ hi * 1 = hi
        OBVIOUS
      <4>2. X[t] = 0 * a
        BY <1>5, <3>1, <3>3
      <4>3. Z[t] = a /\ V[t] = 1
        BY <2>2, <3>1, <3>3, <4>1, <4>2
      <4> QED BY <2>6, <3>1, <4>1, <4>3
    <3> QED BY <1>5, <3>2, <3>3
  <2>8. SumFunctionOnSet(VL, T) = lo * (c - h)
    BY <1>2, <2>2, <2>4, <2>6, SumMultiple
  <2>9. SumFunctionOnSet(VH, T) = hi * (c - h)
    BY <1>2, <2>2, <2>4, <2>6, SumMultiple
  <2> QED BY <1>2, <2>2, <2>3, <2>6, <2>7, <2>8, <2>9, SumOrder
\* (p - lo) (hi - p) is not negative.
<1>14. q <= (lo + hi) * p - lo * hi * c
  <2>1. PICK k \in Int, m \in Int : k = lo + hi /\ m = lo * hi
    OBVIOUS
  <2>2. PICK y, z : z = [t \in T |-> m] /\ y = [t \in T |-> k * P[t]]
    OBVIOUS
  <2>3. PICK r : r = [t \in T |-> y[t] - z[t]]
    OBVIOUS
  <2>4. \A t \in T : P[t] \in Int /\ y[t] = k * P[t]
    BY <1>5, <2>2
  <2>5. \A t \in T : /\ z[t] = m /\ z[t] \in Int /\ P[t] \in Int
                     /\ y[t] = k * P[t] /\ y[t] \in Int
                     /\ r[t] = y[t] - z[t] /\ r[t] \in Int
    BY <2>2, <2>3, <2>4
  <2>6. SumFunctionOnSet(z, T) = m * c
    <3>1. \A t \in T : z[t] = m
      BY <2>2
    <3> QED BY <1>2, <3>1, SumConstant
  <2>7. SumFunctionOnSet(y, T) = k * p
    BY <1>2, <1>7, <2>4, SumMultiple
  <2>8. SumFunctionOnSet(r, T) = k * p - m * c
    BY <1>2, <2>5, <2>6, <2>7, SumMinus
  <2>9. \A t \in T : Q[t] <= r[t]
    <3> SUFFICES ASSUME NEW t \in T PROVE Q[t] <= r[t]
      OBVIOUS
    <3>1. PICK a \in Nat : a = P[t] /\ lo <= a /\ a <= hi
      BY <1>5
    <3>2. 0 <= (a - lo) * (hi - a)
      BY <3>1
    <3>3. (a - lo) * (hi - a) = k * a - m - a * a
      BY <2>1
    <3> QED BY <1>5, <2>5, <3>1, <3>2, <3>3
  <2>10. q <= k * p - m * c
    BY <1>2, <1>5, <1>8, <2>5, <2>8, <2>9, SumOrder
  <2> QED BY <2>1, <2>10
\* Neither is the square of c p minus the sum of them all.
<1>15. 0 <= c * q - p * p
  <2>1. PICK k \in Int, m \in Int, a \in Int : k = c * c /\ m = 2 * (c * p) /\ a = p * p
    OBVIOUS
  <2>2. PICK none, z, y : /\ none = [t \in T |-> 0] /\ z = [t \in T |-> a]
                          /\ y = [t \in T |-> m * P[t]]
    OBVIOUS
  <2>3. PICK s : s = [t \in T |-> z[t] - y[t]]
    OBVIOUS
  <2>4. PICK r : r = [t \in T |-> k * Q[t] + s[t]]
    OBVIOUS
  <2>5. \A t \in T : /\ none[t] = 0 /\ none[t] \in Int /\ P[t] \in Int /\ Q[t] \in Int
                     /\ z[t] = a /\ z[t] \in Int
                     /\ y[t] = m * P[t] /\ y[t] \in Int
                     /\ s[t] = z[t] - y[t] /\ s[t] \in Int
                     /\ r[t] = k * Q[t] + s[t] /\ r[t] \in Int
    BY <1>5, <2>2, <2>3, <2>4
  <2>6. SumFunctionOnSet(z, T) = a * c /\ SumFunctionOnSet(none, T) = 0 * c
    BY <1>2, <2>5, SumConstant
  <2>7. SumFunctionOnSet(y, T) = m * p
    BY <1>2, <1>7, <2>5, SumMultiple
  <2>8. SumFunctionOnSet(s, T) = a * c - m * p
    BY <1>2, <2>5, <2>6, <2>7, SumMinus
  <2>9. SumFunctionOnSet(r, T) = k * q + (a * c - m * p)
    BY <1>2, <1>8, <2>5, <2>8, SumLinear
  <2>10. \A t \in T : none[t] <= r[t]
    <3> SUFFICES ASSUME NEW t \in T PROVE 0 <= r[t]
      BY <2>5
    <3>1. PICK price \in Nat : price = P[t]
      BY <1>5
    <3>2. 0 <= (c * price - p) * (c * price - p)
      BY SquaresFromBelow
    <3>3. (c * price - p) * (c * price - p) = k * (price * price) + (a - m * price)
      BY <2>1
    <3> QED BY <1>5, <2>5, <3>1, <3>2, <3>3
  <2>11. 0 * c <= k * q + (a * c - m * p)
    BY <1>2, <2>5, <2>6, <2>9, <2>10, SumOrder
  <2>12. k * q + (a * c - m * p) = c * (c * q - p * p)
    BY <2>1
  <2>13. PICK e \in Int : e = c * q - p * p
    OBVIOUS
  <2>14. 0 <= c * e
    BY <2>11, <2>12, <2>13
  <2> QED BY <1>2, <2>13, <2>14, Z3
<1> QED BY <1>1, <1>9, <1>12, <1>13, <1>14, <1>15 DEF BinSums

\* What a bin adds to the difference between the Brier score and the decomposition: its
\* trades' losses, less its reliability and with its resolution, less its share of the
\* uncertainty.
BinError(u, N, H, b, total) ==
    Unit * N * N * total - u * N * N * Squared(Gap(b)) + u * Squared(Lift(b, N, H))
        - 10000 * Unit * ((N * N - 2 * N * H) * b.happened + H * H * b.count)

\* The losses of a bin, by the sums over its trades, and its spread less what the winners
\* deviate from it.
Losses(b, x, q) == 10000 * b.happened - 200 * x + q
Deviation(b, x, q) ==
    (b.count * q - b.predicted * b.predicted) - 200 * (b.count * x - b.happened * b.predicted)

LEMMA BinErrorIs ==
    ASSUME NEW b, b.count \in Nat, b.happened \in Nat, b.predicted \in Int,
           NEW u \in Nat, Unit = u * b.count, NEW N \in Nat, NEW H \in Nat,
           NEW x \in Int, NEW q \in Int
    PROVE  BinError(u, N, H, b, Losses(b, x, q)) = N * N * (u * Deviation(b, x, q))
<1>1. PICK c \in Nat, h \in Nat, p \in Int : c = b.count /\ h = b.happened /\ p = b.predicted
  OBVIOUS
<1>2. Squared(Gap(b)) = (p - 100 * h) * (p - 100 * h)
  <2>1. PICK d \in Int : d = p - 100 * h
    OBVIOUS
  <2>2. d * d = (-d) * (-d)
    OBVIOUS
  <2> QED BY <1>1, <2>1, <2>2 DEF Gap, Squared
<1>3. Squared(Lift(b, N, H)) = 10000 * ((h * N - H * c) * (h * N - H * c))
  <2>1. PICK d \in Int : d = h * N - H * c
    OBVIOUS
  <2>2. (100 * d) * (100 * d) = 10000 * (d * d)
    OBVIOUS
  <2> QED BY <1>1, <2>1, <2>2 DEF Lift, Squared
<1>4. (u * c) * N * N * (10000 * h - 200 * x + q) - u * N * N * ((p - 100 * h) * (p - 100 * h))
          + u * (10000 * ((h * N - H * c) * (h * N - H * c)))
          - 10000 * (u * c) * ((N * N - 2 * N * H) * h + H * H * c)
      = N * N * (u * ((c * q - p * p) - 200 * (c * x - h * p)))
  OBVIOUS
<1> QED BY <1>1, <1>2, <1>3, <1>4 DEF BinError, Losses, Deviation

\* So it is no more than the width of the bin allows.
LEMMA BinErrorSmall ==
    ASSUME NEW T, T \subseteq Trades, T # {}, NEW b, b = BinOf(T, Price, isCorrect),
           NEW lo \in Nat, NEW hi \in Nat, \A t \in T : lo <= Price[t] /\ Price[t] <= hi,
           NEW m \in Nat, (hi - lo) * (hi - lo) + 200 * (hi - lo) <= 4 * m,
           NEW f, \A t \in T : f[t] = Loss(t),
           NEW u \in Nat, Unit = u * b.count, NEW N \in Nat, NEW H \in Nat,
           NEW e, e = BinError(u, N, H, b, SumFunctionOnSet(f, T))
    PROVE  /\ e \in Int
           /\ e <= (N * N * Unit * m) * b.count
           /\ -((N * N * Unit * m) * b.count) <= e
<1>1. PICK c \in Nat, h \in Nat, p \in Int : c = b.count /\ h = b.happened /\ p = b.predicted
  BY BinSound
<1>2. h <= c
  BY <1>1, BinSound
<1>3. BinSums(T, b, lo, hi, SumFunctionOnSet(f, T))
  BY BinSumsFound
<1>4. PICK x \in Int, q \in Int :
          /\ SumFunctionOnSet(f, T) = 10000 * h - 200 * x + q
          /\ lo * h <= x /\ x <= hi * h
          /\ lo * (c - h) <= p - x /\ p - x <= hi * (c - h)
          /\ q <= (lo + hi) * p - lo * hi * c
          /\ 0 <= c * q - p * p
  BY <1>1, <1>3 DEF BinSums
<1>5. lo <= hi
  <2>1. PICK t \in T : TRUE
    OBVIOUS
  <2>2. Price[t] \in Nat
    BY ReportsAssumption DEF Percent
  <2> QED BY <2>2
<1>6. PICK d \in Int : d = (c * q - p * p) - 200 * (c * x - h * p)
  OBVIOUS
<1>7. d <= c * c * m /\ -(c * c * m) <= d
  BY <1>2, <1>4, <1>5, <1>6, BinErrorBound
<1>8. e = N * N * (u * d)
  <2>1. SumFunctionOnSet(f, T) = Losses(b, x, q) /\ Deviation(b, x, q) = d
    BY <1>1, <1>4, <1>6 DEF Losses, Deviation
  <2>2. BinError(u, N, H, b, Losses(b, x, q)) = N * N * (u * Deviation(b, x, q))
    BY <1>1, BinErrorIs
  <2> QED BY <2>1, <2>2
<1>9. PICK k \in Nat, a \in Int : k = N * N * u /\ a = c * c * m
  <2>1. N * N \in Nat
    OBVIOUS
  <2>2. PICK n \in Nat : n = N * N
    BY <2>1
  <2> QED BY <2>2
<1>10. k * d <= k * a /\ k * (-a) <= k * d
  <2>1. d <= a /\ -a <= d
    BY <1>7, <1>9
  <2> QED BY <2>1
<1>11. k * a = (N * N * Unit * m) * c /\ k * (-a) = -((N * N * Unit * m) * c)
  BY <1>1, <1>9
<1>12. e = k * d
  BY <1>8, <1>9
<1> QED BY <1>1, <1>10, <1>11, <1>12

\* No bin of T holds probabilities further apart than m allows.
Narrow(T, n, m) ==
    \A i \in 0..(n - 1) : \E lo \in Nat, hi \in Nat :
        /\ \A t \in T : binIndex(Price[t], n) = i => lo <= Price[t] /\ Price[t] <= hi
        /\ (hi - lo) * (hi - lo) + 200 * (hi - lo) <= 4 * m

\* The Brier score is the decomposition, up to what narrow bins hide.
Binned(T, n, m, bins, N, H) ==
    /\ T \subseteq Trades /\ T # {} /\ n \in BinCounts
    /\ Narrow(T, n, m)
    /\ bins = bin(T, Price, isCorrect, n)
    /\ N = Cardinality(T) /\ H = Cardinality(T \cap isCorrect)

LEMMA Divided ==
    ASSUME NEW x \in Nat, NEW k \in Nat, k > 0, x % k = 0
    PROVE  x \div k \in Nat /\ x = (x \div k) * k
<1>1. x \div k \in Nat /\ x = k * (x \div k)
  OBVIOUS
<1> QED BY <1>1

LEMMA DecompositionError ==
    ASSUME NEW T, NEW n, NEW m \in Nat, NEW bins, NEW N \in Nat, NEW H \in Nat,
           Binned(T, n, m, bins, N, H)
    PROVE  /\ brier(T, Price, isCorrect, N, Unit) \in Int
           /\ decomposition(bins, N, Unit, H) \in Int
           /\ brier(T, Price, isCorrect, N, Unit) - decomposition(bins, N, Unit, H)
                  <= (N * N * Unit * m) * N
           /\ -((N * N * Unit * m) * N)
                  <= brier(T, Price, isCorrect, N, Unit) - decomposition(bins, N, Unit, H)
<1> DEFINE In(i) == {t \in T : binIndex(Price[t], n) = i}
           I == Filled(bins)
<1>1. /\ n \in Nat \ {0} /\ IsFiniteSet(T) /\ IsFiniteSet(T \cap isCorrect) /\ IsFiniteSet(0..(n - 1))
  <2>1. T \subseteq Trades /\ T \cap isCorrect \subseteq Trades
    BY DEF Binned
  <2>2. n \in Nat \ {0}
    BY ReportsAssumption DEF Binned
  <2>3. IsFiniteSet(T) /\ IsFiniteSet(T \cap isCorrect)
    BY <2>1, TradesFinite
  <2>4. IsFiniteSet(0..(n - 1))
    BY <2>2, FS_Interval
  <2> QED BY <2>2, <2>3, <2>4
<1>2. PICK U \in Nat : U = Unit
  BY ReportsAssumption
<1>3. DOMAIN bins = 0..(n - 1) /\ \A i \in 0..(n - 1) : bins[i] = BinOf(In(i), Price, isCorrect)
  BY DEF bin, Binned
<1>4. I \subseteq 0..(n - 1) /\ IsFiniteSet(I)
  BY <1>1, <1>3, FS_Subset DEF Filled
<1>5. PICK at : at = [t \in Trades |-> binIndex(Price[t], n)]
  OBVIOUS
<1>6. \A t \in T : at[t] = binIndex(Price[t], n) /\ at[t] \in 0..(n - 1)
  <2>1. \A t \in T : t \in Trades /\ Price[t] \in Percent
    BY ReportsAssumption DEF Binned
  <2> QED BY <1>1, <1>5, <2>1, BinIndexType
<1>7. \A i : In(i) = {t \in T : at[t] = i} /\ In(i) \cap isCorrect = {t \in T \cap isCorrect : at[t] = i}
  BY <1>6
<1>8. \A i : In(i) \subseteq Trades /\ In(i) \subseteq T
  BY DEF Binned
<1> HIDE DEF In
<1>9. \A i \in I : /\ bins[i].count = Cardinality(In(i)) /\ bins[i].count \in Nat
                   /\ bins[i].count > 0 /\ In(i) # {}
                   /\ bins[i].happened = Cardinality(In(i) \cap isCorrect) /\ bins[i].happened \in Nat
                   /\ bins[i].predicted \in Int /\ Gap(bins[i]) \in Int
  <2> SUFFICES ASSUME NEW i \in I
               PROVE  /\ bins[i].count = Cardinality(In(i)) /\ bins[i].count \in Nat
                      /\ bins[i].count > 0 /\ In(i) # {}
                      /\ bins[i].happened = Cardinality(In(i) \cap isCorrect)
                      /\ bins[i].happened \in Nat
                      /\ bins[i].predicted \in Int /\ Gap(bins[i]) \in Int
    OBVIOUS
  <2>1. bins[i] = BinOf(In(i), Price, isCorrect) /\ In(i) \subseteq Trades
    BY <1>3, <1>4, <1>8
  <2>2. /\ bins[i].count = Cardinality(In(i)) /\ bins[i].count \in Nat
        /\ bins[i].happened \in Nat /\ bins[i].predicted \in Int /\ Gap(bins[i]) \in Int
    BY <2>1, BinSound
  <2>3. bins[i].happened = Cardinality(In(i) \cap isCorrect)
    BY <2>1 DEF BinOf
  <2>4. bins[i].count > 0
    BY DEF Filled
  <2> QED BY <2>2, <2>3, <2>4, FS_EmptySet
<1>10. \A i \in I : bins[i].count \in Nat
  BY <1>9
<1>11. \A i \in I : bins[i].happened \in Nat
  BY <1>9, Zenon
<1>12. \A i \in I : bins[i].predicted \in Int /\ Gap(bins[i]) \in Int
  BY <1>9, Zenon
<1>13. \A t \in T : at[t] \in I
  <2> SUFFICES ASSUME NEW t \in T PROVE bins[at[t]].count > 0
    BY <1>3, <1>6 DEF Filled
  <2>1. t \in In(at[t]) /\ IsFiniteSet(In(at[t]))
    BY <1>1, <1>7, <1>8, FS_Subset
  <2>2. bins[at[t]].count = Cardinality(In(at[t]))
    <3>1. bins[at[t]] = BinOf(In(at[t]), Price, isCorrect)
      BY <1>3, <1>6
    <3> QED BY <3>1 DEF BinOf
  <2> QED BY <2>1, <2>2, FS_EmptySet, FS_CardinalityType
<1> HIDE DEF I
\* The sizes of the bins and of their winners.
<1>14. N = Cardinality(T) /\ H = Cardinality(T \cap isCorrect)
  BY DEF Binned
<1>15. PICK c, h : c = PartsOf(T, at, I) /\ h = PartsOf(T \cap isCorrect, at, I)
  OBVIOUS
<1>16. \A i \in I : c[i] = bins[i].count /\ h[i] = bins[i].happened
  BY <1>7, <1>9, <1>15 DEF PartsOf
<1>17. \A i \in I : c[i] \in Int /\ h[i] \in Int
  <2>1. \A i \in I : c[i] \in Nat
    BY <1>16, <1>10
  <2>2. \A i \in I : h[i] \in Nat
    BY <1>16, <1>11
  <2> QED BY <2>1, <2>2
<1>18. SumFunctionOnSet(c, I) = N /\ SumFunctionOnSet(h, I) = H
  <2>1. \A t \in T \cap isCorrect : at[t] \in I
    BY <1>13
  <2>2. SumFunctionOnSet(PartsOf(T, at, I), I) = Cardinality(T)
    BY <1>1, <1>4, <1>13, SumOfParts
  <2>3. SumFunctionOnSet(PartsOf(T \cap isCorrect, at, I), I) = Cardinality(T \cap isCorrect)
    BY <1>1, <1>4, <2>1, SumOfParts
  <2> QED BY <1>15, <1>14, <2>2, <2>3
\* Their losses.
<1>19. PICK f : f = [t \in T |-> Loss(t)]
  OBVIOUS
<1>20. \A t \in T : f[t] = Loss(t) /\ f[t] \in Int
  <2>1. \A t \in T : Price[t] \in Nat
    BY ReportsAssumption DEF Percent, Binned
  <2> QED BY <1>19, <2>1 DEF Loss, Squared, Truth
<1>21. PICK g : g = GroupsOf(f, T, at, I)
  OBVIOUS
<1>22. PICK L \in Int : L = SumFunctionOnSet(f, T) /\ SumFunctionOnSet(g, I) = L
  <2>1. SumFunctionOnSet(f, T) \in Int
    BY <1>1, <1>20, SumInt
  <2>2. \A t \in T : f[t] \in Int
    BY <1>20
  <2>3. SumFunctionOnSet(GroupsOf(f, T, at, I), I) = SumFunctionOnSet(f, T)
    BY <1>1, <1>4, <1>13, <2>2, SumOfGroups
  <2> QED BY <1>21, <2>1, <2>3
<1>23. \A i \in I : g[i] = SumFunctionOnSet(f, In(i)) /\ g[i] \in Int
  <2>1. \A i \in I : IsFiniteSet(In(i)) /\ \A t \in In(i) : f[t] \in Int
    BY <1>1, <1>8, <1>20, FS_Subset
  <2> QED BY <1>7, <1>21, <2>1, SumInt DEF GroupsOf
<1>24. \A i \in I : g[i] \in Int
  BY <1>23, Zenon
\* Every size divides Unit.
<1>25. PICK u : u = [i \in I |-> Unit \div c[i]]
  OBVIOUS
<1>26. \A i \in I : u[i] = Unit \div bins[i].count /\ u[i] \in Nat /\ Unit = u[i] * bins[i].count
  <2> SUFFICES ASSUME NEW i \in I
               PROVE  /\ u[i] = Unit \div bins[i].count /\ u[i] \in Nat
                      /\ Unit = u[i] * bins[i].count
    OBVIOUS
  <2>1. PICK k \in Nat : k = bins[i].count /\ k = Cardinality(In(i)) /\ k > 0
    BY <1>9
  <2>2. k <= Cardinality(Trades) /\ Cardinality(Trades) \in Nat
    BY <1>8, <2>1, GradingAssumption, FS_Subset, FS_CardinalityType
  <2>3. Unit % k = 0
    BY <2>1, <2>2, ReportsAssumption
  <2>4. u[i] = Unit \div k
    BY <1>16, <1>25, <2>1
  <2>5. U \div k \in Nat /\ U = (U \div k) * k
    BY <1>2, <2>1, <2>3, Divided
  <2> QED BY <1>2, <2>1, <2>4, <2>5
\* The terms of the decomposition, and the error of each bin.
<1>27. PICK R, S : /\ R = [i \in I |-> u[i] * N * N * Squared(Gap(bins[i]))]
                   /\ S = [i \in I |-> u[i] * Squared(Lift(bins[i], N, H))]
  OBVIOUS
<1>28. \A i \in I : /\ R[i] = u[i] * N * N * Squared(Gap(bins[i])) /\ R[i] \in Int
                    /\ S[i] = u[i] * Squared(Lift(bins[i], N, H)) /\ S[i] \in Int
  <2>1. \A i \in I : Squared(Gap(bins[i])) \in Int /\ Squared(Lift(bins[i], N, H)) \in Int
    <3> SUFFICES ASSUME NEW i \in I
                 PROVE  Squared(Gap(bins[i])) \in Int /\ Squared(Lift(bins[i], N, H)) \in Int
      OBVIOUS
    <3>1. PICK y \in Nat : y = bins[i].count
      BY <1>10
    <3>2. PICK w \in Nat : w = bins[i].happened
      BY <1>11
    <3>3. PICK x \in Int : x = Gap(bins[i])
      BY <1>12
    <3>4. PICK z \in Int : z = 100 * (w * N - H * y)
      OBVIOUS
    <3>5. z = Lift(bins[i], N, H)
      BY <3>1, <3>2, <3>4 DEF Lift
    <3> QED BY <3>3, <3>5 DEF Squared
  <2> SUFFICES ASSUME NEW i \in I
               PROVE  /\ R[i] = u[i] * N * N * Squared(Gap(bins[i])) /\ R[i] \in Int
                      /\ S[i] = u[i] * Squared(Lift(bins[i], N, H)) /\ S[i] \in Int
    OBVIOUS
  <2>2. PICK v \in Nat : v = u[i]
    BY <1>26, Zenon
  <2>3. PICK y \in Int : y = Squared(Gap(bins[i]))
    BY <2>1
  <2>4. PICK w \in Int : w = Squared(Lift(bins[i], N, H))
    BY <2>1
  <2>5. v * N * N * y \in Int /\ v * w \in Int
    OBVIOUS
  <2>6. R[i] = v * N * N * y /\ S[i] = v * w
    BY <1>27, <2>2, <2>3, <2>4
  <2> QED BY <2>2, <2>3, <2>4, <2>5, <2>6
<1>29. \A i \in I : R[i] \in Int /\ S[i] \in Int
  BY <1>28, Zenon
<1>30. /\ reliability(bins, N, Unit) = SumFunctionOnSet(R, I)
       /\ resolution(bins, N, Unit, H) = SumFunctionOnSet(S, I)
  <2>1. I = Filled(bins)
    BY DEF I
  <2>2. reliability(bins, N, Unit) = SumFunctionOnSet(R, I)
    <3>1. \A i \in I : R[i] = (Unit \div bins[i].count) * N * N * Squared(Gap(bins[i]))
      BY <1>26, <1>28
    <3> QED BY <1>4, <2>1, <3>1, ReliabilitySum
  <2>3. resolution(bins, N, Unit, H) = SumFunctionOnSet(S, I)
    <3>1. \A i \in I : S[i] = (Unit \div bins[i].count) * Squared(Lift(bins[i], N, H))
      BY <1>26, <1>28
    <3> QED BY <1>4, <2>1, <3>1, ResolutionSum
  <2> QED BY <2>2, <2>3
<1>31. PICK E : E = [i \in I |-> BinError(u[i], N, H, bins[i], g[i])]
  OBVIOUS
<1>32. PICK k \in Int : k = N * N * U * m
  OBVIOUS
<1>33. \A i \in I : E[i] \in Int /\ E[i] <= k * c[i] /\ -(k * c[i]) <= E[i]
  <2> SUFFICES ASSUME NEW i \in I PROVE E[i] \in Int /\ E[i] <= k * c[i] /\ -(k * c[i]) <= E[i]
    OBVIOUS
  <2>1. PICK lo \in Nat, hi \in Nat :
            /\ \A t \in T : binIndex(Price[t], n) = i => lo <= Price[t] /\ Price[t] <= hi
            /\ (hi - lo) * (hi - lo) + 200 * (hi - lo) <= 4 * m
    BY <1>4 DEF Narrow, Binned
  <2>2. \A t \in In(i) : lo <= Price[t] /\ Price[t] <= hi
    BY <2>1 DEF In
  <2>3. E[i] = BinError(u[i], N, H, bins[i], SumFunctionOnSet(f, In(i)))
    BY <1>23, <1>31
  <2>4. bins[i] = BinOf(In(i), Price, isCorrect) /\ In(i) \subseteq Trades /\ In(i) # {}
    BY <1>3, <1>4, <1>8, <1>9
  <2>5. \A t \in In(i) : f[t] = Loss(t)
    BY <1>8, <1>20
  <2>6. PICK v \in Nat : v = u[i]
    BY <1>26
  <2>7. PICK b, G : b = bins[i] /\ G = In(i)
    OBVIOUS
  <2>8. Unit = v * b.count
    BY <1>26, <2>6, <2>7
  <2>9. /\ E[i] \in Int
        /\ E[i] <= (N * N * Unit * m) * b.count
        /\ -((N * N * Unit * m) * b.count) <= E[i]
    BY <2>1, <2>2, <2>3, <2>4, <2>5, <2>6, <2>7, <2>8, BinErrorSmall
  <2> QED BY <1>2, <1>16, <1>32, <2>7, <2>9
\* They add up to the difference.
<1>34. SumFunctionOnSet(E, I) = brier(T, Price, isCorrect, N, Unit) - decomposition(bins, N, Unit, H)
       /\ brier(T, Price, isCorrect, N, Unit) \in Int /\ decomposition(bins, N, Unit, H) \in Int
  <2>1. PICK a \in Int, b \in Int, d \in Int :
            /\ a = U * N * N /\ b = 10000 * U * (N * N - 2 * N * H)
            /\ d = 10000 * U * (H * H)
    OBVIOUS
  <2>2. PICK D, V : D = [i \in I |-> S[i] - R[i]] /\ V = [i \in I |-> d * c[i]]
    OBVIOUS
  <2>3. PICK X, W : X = [i \in I |-> a * g[i] + D[i]] /\ W = [i \in I |-> b * h[i] + V[i]]
    OBVIOUS
  <2>4. \A i \in I : D[i] = S[i] - R[i] /\ D[i] \in Int
    BY <1>29, <2>2
  <2>5. \A i \in I : S[i] \in Int /\ R[i] \in Int /\ D[i] = S[i] - R[i]
    BY <1>29, <2>4
  <2>6. \A i \in I : c[i] \in Int /\ V[i] = d * c[i] /\ V[i] \in Int
    BY <1>17, <2>2
  <2>7. \A i \in I : g[i] \in Int /\ D[i] \in Int /\ X[i] = a * g[i] + D[i] /\ X[i] \in Int
    BY <1>24, <2>3, <2>4
  <2>8. \A i \in I : h[i] \in Int /\ V[i] \in Int /\ W[i] = b * h[i] + V[i] /\ W[i] \in Int
    BY <1>17, <2>3, <2>6
  <2>9. \A i \in I : X[i] \in Int /\ W[i] \in Int
    BY <2>7, <2>8
  <2>10. \A i \in I : E[i] = X[i] - W[i]
    <3> SUFFICES ASSUME NEW i \in I PROVE E[i] = X[i] - W[i]
      OBVIOUS
    <3>1. PICK y \in Int, w \in Int, r \in Int, s \in Int :
              y = c[i] /\ w = h[i] /\ r = R[i] /\ s = S[i]
      BY <1>29, <1>17
    <3>2. PICK z \in Int : z = g[i]
      BY <1>23
    <3>3. E[i] = U * N * N * z - r + s - 10000 * U * ((N * N - 2 * N * H) * w + H * H * y)
      <4>1. E[i] = BinError(u[i], N, H, bins[i], z)
        BY <1>31, <3>2
      <4>2. bins[i].count = y /\ bins[i].happened = w
        BY <1>16, <3>1
      <4>3. r = u[i] * N * N * Squared(Gap(bins[i])) /\ s = u[i] * Squared(Lift(bins[i], N, H))
        BY <1>28, <3>1
      <4> QED BY <1>2, <4>1, <4>2, <4>3 DEF BinError
    <3>4. 10000 * U * ((N * N - 2 * N * H) * w + H * H * y) = b * w + d * y
      BY <2>1
    <3>5. X[i] = a * z + (s - r) /\ W[i] = b * w + d * y
      BY <2>4, <2>6, <2>7, <2>8, <3>1, <3>2
    <3>6. PICK ew \in Int : ew = b * w + d * y
      OBVIOUS
    <3>7. PICK az \in Int : az = a * z /\ az = U * N * N * z
      BY <2>1
    <3> QED BY <3>3, <3>4, <3>5, <3>6, <3>7
  <2>11. IsFiniteSet(I)
    BY <1>4
  <2>12. SumFunctionOnSet(D, I) = SumFunctionOnSet(S, I) - SumFunctionOnSet(R, I)
    BY <2>5, <2>11, SumMinus
  <2>13. \A i \in I : c[i] \in Int /\ V[i] = d * c[i]
    BY <2>6
  <2>14. SumFunctionOnSet(V, I) = d * N
    <3>1. SumFunctionOnSet(V, I) = d * SumFunctionOnSet(c, I)
      BY <2>11, <2>13, SumMultiple
    <3> QED BY <1>18, <3>1
  <2>15. \A i \in I : g[i] \in Int /\ D[i] \in Int /\ X[i] = a * g[i] + D[i]
    BY <2>7
  <2>16. SumFunctionOnSet(X, I) = a * L + SumFunctionOnSet(D, I)
    <3>1. SumFunctionOnSet(X, I) = a * SumFunctionOnSet(g, I) + SumFunctionOnSet(D, I)
      BY <2>11, <2>15, SumLinear
    <3> QED BY <1>22, <3>1
  <2>17. \A i \in I : h[i] \in Int /\ V[i] \in Int /\ W[i] = b * h[i] + V[i]
    BY <2>8
  <2>18. SumFunctionOnSet(W, I) = b * H + d * N
    <3>1. SumFunctionOnSet(W, I) = b * SumFunctionOnSet(h, I) + SumFunctionOnSet(V, I)
      BY <2>11, <2>17, SumLinear, Z3
    <3> QED BY <1>18, <2>14, <3>1
  <2>19. \A i \in I : X[i] \in Int /\ W[i] \in Int /\ E[i] = X[i] - W[i]
    BY <2>10, <2>9
  <2>20. SumFunctionOnSet(E, I) = SumFunctionOnSet(X, I) - SumFunctionOnSet(W, I)
    BY <2>11, <2>19, SumMinus
  <2>21. PICK rel \in Int, res \in Int : rel = SumFunctionOnSet(R, I) /\ res = SumFunctionOnSet(S, I)
    BY <1>4, <1>29, SumInt
  <2>22. brier(T, Price, isCorrect, N, Unit) = a * L
    <3>1. brier(T, Price, isCorrect, N, Unit) = Unit * N * N * SumFunctionOnSet(f, T)
      BY <1>1, <1>20, BrierSum
    <3> QED BY <1>2, <1>22, <2>1, <3>1
  <2>23. decomposition(bins, N, Unit, H) = rel - res + 10000 * U * N * H * (N - H)
    BY <1>2, <1>30, <2>21 DEF decomposition, uncertainty
  <2>24. b * H + d * N = 10000 * U * N * H * (N - H)
    BY <2>1
  <2>25. PICK unc \in Int : unc = 10000 * U * N * H * (N - H) /\ unc = b * H + d * N
    BY <2>24
  <2> QED BY <2>12, <2>16, <2>18, <2>20, <2>21, <2>22, <2>23, <2>25
<1>35. SumFunctionOnSet(E, I) <= k * N /\ -(k * N) <= SumFunctionOnSet(E, I)
  <2>1. \A i \in I : E[i] \in Int /\ c[i] \in Int /\ E[i] <= k * c[i] /\ -(k * c[i]) <= E[i]
    BY <1>33, <1>17
  <2>2. IsFiniteSet(I)
    BY <1>4
  <2>3. /\ SumFunctionOnSet(E, I) <= k * SumFunctionOnSet(c, I)
        /\ -(k * SumFunctionOnSet(c, I)) <= SumFunctionOnSet(E, I)
    BY <2>1, <2>2, SumWithin
  <2> QED BY <1>18, <2>3
<1> QED BY <1>2, <1>32, <1>34, <1>35

\* The bounds of a quotient.
LEMMA Quotient ==
    ASSUME NEW x \in Nat, NEW k \in Nat, k > 0
    PROVE  x \div k \in Nat /\ k * (x \div k) <= x /\ x < k * (x \div k) + k
OBVIOUS

\* The probabilities of a bin are within a numBins-th of the whole.
LEMMA BinEdges ==
    ASSUME NEW p \in Percent, NEW n \in Nat, n > 0, NEW i \in Nat, binIndex(p, n) = i
    PROVE  100 * i <= p * n /\ p * n <= 100 * i + 100
<1>1. PICK x \in Nat : x = p * n /\ x <= 100 * n
  <2>1. p * n \in Nat /\ p * n <= 100 * n
    BY Z3 DEF Percent
  <2> QED BY <2>1
<1>2. binIndex(p, n) = IF x \div 100 = n THEN n - 1 ELSE x \div 100
  BY <1>1 DEF binIndex, clampProb, Percent
<1>3. 100 * (x \div 100) <= x /\ x < 100 * (x \div 100) + 100 /\ x \div 100 \in Nat
  OBVIOUS
<1> QED BY <1>1, <1>2, <1>3

\* What the width of a bin of that many comes to.
LEMMA WidthBound ==
    ASSUME NEW n \in Nat, n > 0, NEW d \in Nat, d * n <= 100
    PROVE  d * d + 200 * d <= 4 * (5000 \div n + 2500 \div (n * n) + 1)
<1>1. PICK s \in Nat : s = n * n /\ s > 0
  <2>1. n * n \in Nat /\ n * n > 0
    OBVIOUS
  <2> QED BY <2>1
<1>2. PICK a \in Nat : a = 5000 \div n /\ 5000 < n * a + n
  BY Quotient
<1>3. PICK q \in Nat : q = 2500 \div s /\ 2500 < s * q + s
  BY <1>1, Quotient
<1>4. 50 * d <= a
  <2>1. n * (50 * d) < n * (a + 1)
    <3>1. n * (50 * d) = 50 * (d * n) /\ n * (a + 1) = n * a + n
      OBVIOUS
    <3> QED BY <1>2, <3>1
  <2>2. PICK x \in Int, y \in Int : x = 50 * d /\ y = a + 1
    OBVIOUS
  <2>3. x < y
    BY <2>1, <2>2
  <2> QED BY <2>2, <2>3
<1>5. d * d < 4 * q + 4
  <2>1. PICK w \in Nat : w = d * n /\ w <= 100
    <3>1. d * n \in Nat
      OBVIOUS
    <3> QED BY <3>1
  <2>2. w * w <= 10000
    <3>1. w * w <= 100 * w
      BY <2>1
    <3> QED BY <2>1, <3>1
  <2>3. s * (d * d) = w * w
    BY <1>1, <2>1
  <2>4. PICK x \in Int, y \in Int : x = d * d /\ y = 4 * q + 4
    OBVIOUS
  <2>5. s * y = 4 * (s * q + s)
    BY <2>4
  <2>6. s * x < s * y
    BY <1>3, <2>2, <2>3, <2>4, <2>5
  <2>7. x < y
    BY <1>1, <2>6
  <2> QED BY <2>4, <2>7
<1>6. PICK x \in Int : x = d * d
  OBVIOUS
<1> QED BY <1>1, <1>2, <1>3, <1>4, <1>5, <1>6

LEMMA BinsNarrow ==
    ASSUME NEW T, T \subseteq Trades, NEW n \in BinCounts
    PROVE  Narrow(T, n, 5000 \div n + 2500 \div (n * n) + 1)
<1>1. n \in Nat /\ n > 1 /\ n <= 50 /\ n > 0
  BY ReportsAssumption
<1> SUFFICES ASSUME NEW i \in 0..(n - 1)
             PROVE  \E lo \in Nat, hi \in Nat :
                       /\ \A t \in T : binIndex(Price[t], n) = i => lo <= Price[t] /\ Price[t] <= hi
                       /\ (hi - lo) * (hi - lo) + 200 * (hi - lo)
                             <= 4 * (5000 \div n + 2500 \div (n * n) + 1)
  BY DEF Narrow
<1>2. PICK x \in Nat, y \in Nat : x = 100 * i + (n - 1) /\ y = 100 * i + 100
  BY <1>1
<1>3. PICK lo \in Nat : lo = x \div n /\ n * lo <= x /\ x < n * lo + n
  <2>1. x \div n \in Nat /\ n * (x \div n) <= x /\ x < n * (x \div n) + n
    BY <1>1, Quotient
  <2> QED BY <2>1
<1>4. PICK hi \in Nat : hi = y \div n /\ n * hi <= y /\ y < n * hi + n
  <2>1. y \div n \in Nat /\ n * (y \div n) <= y /\ y < n * (y \div n) + n
    BY <1>1, Quotient
  <2> QED BY <2>1
<1>5. \A t \in T : binIndex(Price[t], n) = i => lo <= Price[t] /\ Price[t] <= hi
  <2> SUFFICES ASSUME NEW t \in T, binIndex(Price[t], n) = i
               PROVE  lo <= Price[t] /\ Price[t] <= hi
    OBVIOUS
  <2>1. PICK p \in Nat : p = Price[t] /\ p \in Percent
    BY ReportsAssumption DEF Percent
  <2>2. 100 * i <= n * p /\ n * p <= 100 * i + 100
    <3>1. p * n = n * p
      BY <1>1
    <3> QED BY <1>1, <2>1, <3>1, BinEdges
  <2>3. n * lo < n * (p + 1) /\ n * p < n * (hi + 1)
    <3>1. n * (p + 1) = n * p + n /\ n * (hi + 1) = n * hi + n
      BY <1>1
    <3> QED BY <1>1, <1>2, <1>3, <1>4, <2>2, <3>1
  <2>4. lo < p + 1 /\ p < hi + 1
    <3>1. PICK a \in Int, b \in Int : a = p + 1 /\ b = hi + 1
      OBVIOUS
    <3>2. n * lo < n * a /\ n * p < n * b
      BY <2>3, <3>1
    <3>3. lo < a /\ p < b
      BY <1>1, <3>2
    <3> QED BY <3>1, <3>3
  <2> QED BY <2>1, <2>4
<1>6. PICK d \in Int : d = hi - lo
  OBVIOUS
<1>7. n * d = n * hi - n * lo
  BY <1>1, <1>6
<1>8. d \in Nat /\ d * n <= 100
  <2>1. 0 < n * d /\ n * d <= 100
    BY <1>1, <1>2, <1>3, <1>4, <1>7
  <2>2. 0 < d
    BY <1>1, <2>1
  <2> QED BY <1>1, <2>1, <2>2
<1>9. d * d + 200 * d <= 4 * (5000 \div n + 2500 \div (n * n) + 1)
  BY <1>1, <1>8, WidthBound
<1> QED BY <1>5, <1>6, <1>9

\* A bin of one probability has no width.
LEMMA BinsPure ==
    ASSUME NEW T, T \subseteq Trades, NEW n \in BinCounts,
           \A t, s \in T : binIndex(Price[t], n) = binIndex(Price[s], n) => Price[t] = Price[s]
    PROVE  Narrow(T, n, 0)
<1> SUFFICES ASSUME NEW i \in 0..(n - 1)
             PROVE  \E lo \in Nat, hi \in Nat :
                       /\ \A t \in T : binIndex(Price[t], n) = i => lo <= Price[t] /\ Price[t] <= hi
                       /\ (hi - lo) * (hi - lo) + 200 * (hi - lo) <= 4 * 0
  BY DEF Narrow
<1>1. \A x \in Nat : (x - x) * (x - x) + 200 * (x - x) <= 4 * 0 /\ x <= x
  OBVIOUS
<1>2. \A t \in T : Price[t] \in Nat
  BY ReportsAssumption DEF Percent
<1>3. CASE \E s \in T : binIndex(Price[s], n) = i
  <2>1. PICK s \in T : binIndex(Price[s], n) = i
    BY <1>3
  <2>2. \A t \in T : binIndex(Price[t], n) = i => Price[t] = Price[s]
    BY <2>1
  <2> QED BY <1>1, <1>2, <2>1, <2>2
<1>4. CASE ~\E s \in T : binIndex(Price[s], n) = i
  <2>1. 0 \in Nat /\ (0 - 0) * (0 - 0) + 200 * (0 - 0) <= 4 * 0
    OBVIOUS
  <2> QED BY <1>4, <2>1
<1> QED BY <1>3, <1>4


LEMMA MurphyOf ==
    ASSUME NEW T, T \subseteq Trades, T # {}, NEW n \in BinCounts, NEW m \in Nat, Narrow(T, n, m),
           NEW N, N = Cardinality(T), NEW bins, bins = bin(T, Price, isCorrect, n),
           NEW direct, direct = brier(T, Price, isCorrect, N, Unit),
           NEW split, split = decomposition(bins, N, Unit, Cardinality(T \cap isCorrect))
    PROVE  (IF direct < split THEN split - direct ELSE direct - split) <= (Unit * N * N * N) * m
           /\ direct \in Int /\ split \in Int /\ N \in Nat
<1>1. PICK H \in Nat : H = Cardinality(T \cap isCorrect) /\ N \in Nat
  <2>1. IsFiniteSet(T) /\ IsFiniteSet(T \cap isCorrect)
    BY TradesFinite
  <2> QED BY <2>1, FS_CardinalityType
<1>2. Binned(T, n, m, bins, N, H)
  BY <1>1 DEF Binned
<1>3. PICK U \in Nat : U = Unit
  BY ReportsAssumption
<1>4. /\ direct \in Int /\ split \in Int
      /\ direct - split <= (N * N * Unit * m) * N /\ -((N * N * Unit * m) * N) <= direct - split
  BY <1>1, <1>2, DecompositionError
<1>5. PICK k \in Int : k = (N * N * U * m) * N /\ k = (U * N * N * N) * m
  BY <1>1
<1> QED BY <1>1, <1>3, <1>4, <1>5

\* Whatever trades of a user are graded, and however many bins are asked for, the score that
\* calibration.js computes from the trades is the sum of the parts that it computes from
\* the bins, exactly when no bin mixes probabilities and up to its width otherwise.
THEOREM MurphyHolds == Spec => []MurphyDecomposes
<1>1. ASSUME Inv PROVE MurphyDecomposes
  <2> SUFFICES ASSUME NEW T \in (SUBSET graded) \ {{}}, NEW n \in BinCounts
               PROVE  LET N == Cardinality(T)
                          bins == bin(T, Price, isCorrect, n)
                          direct == brier(T, Price, isCorrect, N, Unit)
                          split == decomposition(bins, N, Unit, Cardinality(T \cap isCorrect))
                          error == IF direct < split THEN split - direct ELSE direct - split
                          pure == \A t, s \in T :
                                     binIndex(Price[t], n) = binIndex(Price[s], n) => Price[t] = Price[s]
                          scale == Unit * N * N * N IN
                      IF pure THEN error = 0
                      ELSE error <= scale * (5000 \div n + 2500 \div (n * n) + 1)
    BY DEF MurphyDecomposes
  <2>1. T \subseteq Trades /\ T # {}
    <3>1. graded \subseteq Trades
      BY <1>1 DEF Inv, TypeOK
    <3>2. T \subseteq graded /\ T # {}
      OBVIOUS
    <3> QED BY <3>1, <3>2
  <2>2. PICK N, bins : N = Cardinality(T) /\ bins = bin(T, Price, isCorrect, n)
    OBVIOUS
  <2>3. PICK direct, split :
            /\ direct = brier(T, Price, isCorrect, N, Unit)
            /\ split = decomposition(bins, N, Unit, Cardinality(T \cap isCorrect))
    OBVIOUS
  <2>4. PICK U \in Nat : U = Unit
    BY ReportsAssumption
  <2>5. CASE \A t, s \in T : binIndex(Price[t], n) = binIndex(Price[s], n) => Price[t] = Price[s]
    <3>1. Narrow(T, n, 0)
      BY <2>1, <2>5, BinsPure
    <3>2. PICK z \in Nat : z = 0
      OBVIOUS
    <3>3. /\ (IF direct < split THEN split - direct ELSE direct - split) <= (Unit * N * N * N) * z
          /\ direct \in Int /\ split \in Int /\ N \in Nat
      BY <2>1, <2>2, <2>3, <3>1, <3>2, MurphyOf
    <3>4. (U * N * N * N) * z = 0
      BY <3>2, <3>3
    <3>5. (IF direct < split THEN split - direct ELSE direct - split) = 0
      BY <2>4, <3>3, <3>4
    <3> QED BY <2>2, <2>3, <2>5, <3>5
  <2>6. PICK m \in Nat : m = 5000 \div n + 2500 \div (n * n) + 1
    <3>1. n \in Nat /\ n > 0 /\ n * n \in Nat /\ n * n > 0
      BY ReportsAssumption
    <3>2. PICK s \in Nat : s = n * n /\ s > 0
      BY <3>1
    <3>3. 5000 \div n \in Nat /\ 2500 \div s \in Nat
      BY <3>1, <3>2, Quotient
    <3> QED BY <3>2, <3>3
  <2>7. CASE ~\A t, s \in T : binIndex(Price[t], n) = binIndex(Price[s], n) => Price[t] = Price[s]
    <3>1. Narrow(T, n, m)
      BY <2>1, <2>6, BinsNarrow
    <3>2. (IF direct < split THEN split - direct ELSE direct - split) <= (Unit * N * N * N) * m
      BY <2>1, <2>2, <2>3, <3>1, MurphyOf
    <3> QED BY <2>2, <2>3, <2>6, <2>7, <3>2
  <2> QED BY <2>5, <2>7
<1>2. Inv => MurphyDecomposes
  BY <1>1
<1> QED BY <1>2, SpecUser, PTL

=============================================================================
