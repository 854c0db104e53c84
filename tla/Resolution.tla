----------------------------- MODULE Resolution -----------------------------
(***************************************************************************)
(* How a market gets its outcome: proposeResolution, disputeResolution and *)
(* finalizeResolution of server/marketService.js.                          *)
(*                                                                         *)
(* Each of them reads the market row, decides on what it read, and writes  *)
(* the row in a second database call that is keyed by the market's id      *)
(* only.  The write of one request can therefore land between the read and *)
(* the write of another; the history variable traffic records whether two  *)
(* requests have ever been in flight together.                             *)
(*                                                                         *)
(* finalizeResolution goes on to grade the market's trades.  Here that is  *)
(* one step, which finds ungraded trades only the first time.              *)
(***************************************************************************)
EXTENDS Integers

CONSTANTS
    Users,      \* accounts, all of them past ensureUser
    Owner,      \* the market's creator
    Admins,     \* users with the ADMIN role
    Outcomes,   \* indices of the market's outcomes
    Choices,    \* outcome indices a request may carry, also beyond the market's
    Handlers,   \* requests that can be in flight at once
    Window,     \* DISPUTE_WINDOW_MS
    MaxTime     \* bound: the clock stops here

None == "none"

ASSUME ResolutionAssumption ==
    /\ Owner \in Users /\ Admins \subseteq Users
    /\ Outcomes # {} /\ Outcomes \subseteq Choices
    /\ None \notin Choices
    /\ Window \in Nat /\ MaxTime \in Nat \ {0}

VARIABLES
    status,        \* Market.status
    proposed,      \* Market.proposedOutcomeIndex
    disputeUntil,  \* Market.disputeUntil, 0 for null
    resolved,      \* Market.resolvedOutcomeIndex
    decidedBy,     \* history: what resolved the market, its "window" or an "admin"
    gradedAs,      \* the outcome the market's trades were graded with
    proposals,     \* history: <<outcome, time>> of every proposal written
    now,           \* the clock
    pc,            \* where each handler is
    job,           \* what each handler has read and decided
    traffic,       \* history: "crowded" once two requests have been in flight at once
    cut            \* history: "yes" once a request was lost on its way to the grading

market == <<status, proposed, disputeUntil, resolved, decidedBy>>
vars == <<status, proposed, disputeUntil, resolved, decidedBy, gradedAs, proposals,
          now, pc, job, traffic, cut>>

Stages == {"idle", "proposing", "disputing", "accepting", "deciding", "grading"}

Job == [outcome : Choices \cup {None}, at : 0..MaxTime]
JobOf(outcome, at) == [outcome |-> outcome, at |-> at]
NoJob == JobOf(None, 0)

Init ==
    /\ status = "LIVE"
    /\ proposed = None
    /\ disputeUntil = 0
    /\ resolved = None
    /\ decidedBy = "nobody"
    /\ gradedAs = None
    /\ proposals = {}
    /\ now = 1
    /\ pc = [h \in Handlers |-> "idle"]
    /\ job = [h \in Handlers |-> NoJob]
    /\ traffic = "single"
    /\ cut = "no"

\* A request arrives: does it find another in flight?
Meets == traffic' = IF \E g \in Handlers : pc[g] # "idle" THEN "crowded" ELSE traffic

Goto(h, stage, j) ==
    /\ pc' = [pc EXCEPT ![h] = stage]
    /\ job' = [job EXCEPT ![h] = j]

Finish(h) == Goto(h, "idle", NoJob)

-----------------------------------------------------------------------------
(* proposeResolution *)

AnyStatus == TRUE                              \* variant: status not checked
Unresolved == status # "RESOLVED"

AnyIndex(o) == o \in Choices                   \* variant: index not checked
ValidIndex(o) == o \in Outcomes

\* The checks, and the time of the proposal.
ProposeRead(h) ==
    /\ pc[h] = "idle"
    /\ \E u \in Users, o \in Choices :
          /\ u = Owner \/ u \in Admins
          /\ Unresolved
          /\ ValidIndex(o)
          /\ Goto(h, "proposing", JobOf(o, now))
    /\ Meets
    /\ UNCHANGED <<market, gradedAs, proposals, now, cut>>

\* Every proposal opens a window of its own.
Deadline(at) == at + Window

ProposeWrite(h) ==
    LET j == job[h] IN
    /\ pc[h] = "proposing"
    /\ status' = "PROPOSED"
    /\ proposed' = j.outcome
    /\ disputeUntil' = Deadline(j.at)
    /\ proposals' = proposals \cup {<<j.outcome, j.at>>}
    /\ Finish(h)
    /\ UNCHANGED <<resolved, decidedBy, gradedAs, now, traffic, cut>>

-----------------------------------------------------------------------------
(* disputeResolution: anyone can flag *)

NoDeadline == TRUE                             \* variant: window not checked
WindowOpen == now <= disputeUntil

DisputeRead(h) ==
    /\ pc[h] = "idle"
    /\ status = "PROPOSED"
    /\ WindowOpen
    /\ Goto(h, "disputing", NoJob)
    /\ Meets
    /\ UNCHANGED <<market, gradedAs, proposals, now, cut>>

DisputeWrite(h) ==
    /\ pc[h] = "disputing"
    /\ status' = "DISPUTED"
    /\ Finish(h)
    /\ UNCHANGED <<proposed, disputeUntil, resolved, decidedBy, gradedAs, proposals, now,
                   traffic, cut>>

-----------------------------------------------------------------------------
(* finalizeResolution *)

\* The proposal stands: the market is PROPOSED and its window has expired.
Undisputed == status = "PROPOSED"              \* variant: window not checked
Expired == status = "PROPOSED" /\ now >= disputeUntil

\* Anyone may ask for the proposed outcome once the window has expired; an
\* admin who asks then gets the proposed outcome too, whichever was sent.
AcceptRead(h) ==
    /\ pc[h] = "idle"
    /\ Expired
    /\ Goto(h, "accepting", JobOf(proposed, 0))
    /\ Meets
    /\ UNCHANGED <<market, gradedAs, proposals, now, cut>>

\* Otherwise an admin decides.  The index is not checked against the market.
DecideRead(h) ==
    /\ pc[h] = "idle"
    /\ \E u \in Users, o \in Choices :
          /\ u \in Admins
          /\ Unresolved
          /\ ~Expired
          /\ Goto(h, "deciding", JobOf(o, 0))
    /\ Meets
    /\ UNCHANGED <<market, gradedAs, proposals, now, cut>>

FinalizeWrite(h) ==
    /\ pc[h] \in {"accepting", "deciding"}
    /\ status' = "RESOLVED"
    /\ resolved' = job[h].outcome
    /\ decidedBy' = IF pc[h] = "accepting" THEN "window" ELSE "admin"
    /\ Goto(h, "grading", job[h])
    /\ UNCHANGED <<proposed, disputeUntil, gradedAs, proposals, now, traffic, cut>>

\* variant: grades a market only while its status says RESOLVED
GradeIfResolved(o) == IF gradedAs = None /\ status = "RESOLVED" THEN o ELSE gradedAs

\* gradeAllTrades skips the trades that are graded already.
GradeOnce(o) == IF gradedAs = None THEN o ELSE gradedAs

Grade(h) ==
    /\ pc[h] = "grading"
    /\ gradedAs' = GradeOnce(job[h].outcome)
    /\ Finish(h)
    /\ UNCHANGED <<market, proposals, now, traffic, cut>>

-----------------------------------------------------------------------------
\* A database call throws, or the worker dies: the rest of the request is lost.
Fail(h) ==
    /\ pc[h] # "idle"
    /\ cut' = IF pc[h] = "grading" THEN "yes" ELSE cut
    /\ Finish(h)
    /\ UNCHANGED <<market, gradedAs, proposals, now, traffic>>

Tick ==
    /\ now < MaxTime
    /\ now' = now + 1
    /\ UNCHANGED <<market, gradedAs, proposals, pc, job, traffic, cut>>

Next ==
    \/ \E h \in Handlers :
          \/ ProposeRead(h) \/ ProposeWrite(h)
          \/ DisputeRead(h) \/ DisputeWrite(h)
          \/ AcceptRead(h) \/ DecideRead(h) \/ FinalizeWrite(h) \/ Grade(h)
          \/ Fail(h)
    \/ Tick

Spec == Init /\ [][Next]_vars

-----------------------------------------------------------------------------
(* Properties *)

\* Every variable keeps its type.
TypeOK ==
    /\ status \in {"LIVE", "PROPOSED", "DISPUTED", "RESOLVED"}
    /\ proposed \in Outcomes \cup {None}
    /\ disputeUntil \in 0 .. (MaxTime + Window)
    /\ resolved \in Choices \cup {None}
    /\ decidedBy \in {"nobody", "window", "admin"}
    /\ gradedAs \in Choices \cup {None}
    /\ proposals \subseteq Outcomes \X (1..MaxTime)
    /\ now \in 1..MaxTime
    /\ pc \in [Handlers -> Stages]
    /\ job \in [Handlers -> Job]
    /\ traffic \in {"single", "crowded"}
    /\ cut \in {"no", "yes"}

\* However requests interleave, what is resolved without an admin was proposed
\* a whole dispute window before.
WindowRespected ==
    [][\A h \in Handlers : pc[h] = "accepting" /\ pc'[h] = "grading" =>
          \E p \in proposals : p[1] = resolved' /\ now >= p[2] + Window]_vars

\* However requests interleave, a market that says PROPOSED has the proposal and
\* the window to go with it, and one that says RESOLVED has an outcome.
StatusHasItsData ==
    /\ status \in {"PROPOSED", "DISPUTED"} =>
          \E p \in proposals : p[1] = proposed /\ disputeUntil = p[2] + Window
    /\ status = "RESOLVED" => resolved # None

\* However requests interleave, an index that is not one of the market's
\* outcomes, which pays nobody, is an admin's: the index an admin sends is not
\* compared with the outcomes, the one a proposal carries is.
OnlyAdminsPayNobody == decidedBy = "window" => resolved \in Outcomes

\* However requests interleave, the trades of a market that has ever been
\* resolved are graded, or a request is about to grade them, or one was lost
\* between its write of the outcome and the grading.
GradedUnlessCut ==
    resolved # None =>
        \/ gradedAs # None
        \/ \E h \in Handlers : pc[h] = "grading"
        \/ cut = "yes"

(* The rest is kept until two requests first meet. *)

\* finalizeResolution refuses a second time: a resolved market keeps its status
\* and its outcome.
ResolvedForGood ==
    [][traffic = "single" /\ status = "RESOLVED" =>
          status' = "RESOLVED" /\ resolved' = resolved]_vars

\* The trades are graded with the outcome that the market pays out.
GradedAsResolved ==
    traffic = "single" /\ gradedAs # None => status = "RESOLVED" /\ gradedAs = resolved

\* A dispute has been let in, and is not written yet.
Flagged == IF \E h \in Handlers : pc[h] = "disputing" THEN "raised" ELSE "none"

\* The reads and writes of the three requests implement the atomic lifecycle, in which
\* a proposal is disputed only if it was flagged within its window.
Abstract == INSTANCE Lifecycle
        WITH status <- status, proposed <- proposed, disputeUntil <- disputeUntil,
             resolved <- resolved, decidedBy <- decidedBy, now <- now, flag <- Flagged
FollowsLifecycle ==
    Abstract!Init /\ [][traffic = "crowded" \/ Abstract!Next]_(Abstract!vars)
=============================================================================
