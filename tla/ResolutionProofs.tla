-------------------------- MODULE ResolutionProofs --------------------------
(***************************************************************************)
(* Proofs about Resolution, for every set of users, outcomes and handlers. *)
(*                                                                         *)
(* Inv holds however requests interleave.  SingleInv adds what holds until *)
(* two requests first meet: what the one in flight has read is still so.   *)
(***************************************************************************)
EXTENDS Resolution, TLAPS

USE DEF None

-----------------------------------------------------------------------------
(* Any concurrency *)

\* A request that accepts a proposal has seen one whose window is over, and a
\* request that decides carries an outcome.
JobsSound ==
    \A h \in Handlers :
        /\ pc[h] = "proposing" =>
               job[h].outcome \in Outcomes /\ job[h].at \in 1..MaxTime
        /\ pc[h] = "disputing" => proposals # {}
        /\ pc[h] = "accepting" =>
               \E p \in proposals : p[1] = job[h].outcome /\ now >= p[2] + Window
        /\ pc[h] \in {"accepting", "deciding", "grading"} => job[h].outcome \in Choices

\* The proposal that the row carries was written by a request.
RowProposal ==
    proposals # {} =>
        \E p \in proposals : p[1] = proposed /\ disputeUntil = p[2] + Window

Inv ==
    /\ TypeOK
    /\ JobsSound
    /\ RowProposal
    /\ status = "LIVE" \/ proposals # {} \/ status = "RESOLVED"
    /\ status \in {"PROPOSED", "DISPUTED"} => proposals # {}
    /\ status = "RESOLVED" => resolved # None

LEMMA InitInv == ASSUME Init PROVE Inv
BY ResolutionAssumption
   DEF Init, Inv, TypeOK, JobsSound, RowProposal, Stages, Job, JobOf, NoJob

LEMMA ProposeReadInv == ASSUME Inv, NEW h \in Handlers, ProposeRead(h) PROVE Inv'
<1>1. PICK o \in Choices : /\ o \in Outcomes
                           /\ Goto(h, "proposing", JobOf(o, now))
  BY DEF ProposeRead, ValidIndex
<1>2. /\ UNCHANGED <<status, proposed, disputeUntil, resolved, decidedBy, gradedAs,
                     proposals, now, cut>>
      /\ traffic' \in {"single", "crowded"}
      /\ pc' = [pc EXCEPT ![h] = "proposing"]
      /\ job' = [job EXCEPT ![h] = JobOf(o, now)]
  BY <1>1 DEF ProposeRead, market, Goto, Meets, Inv, TypeOK
<1>3. TypeOK'
  BY <1>1, <1>2, ResolutionAssumption DEF Inv, TypeOK, Stages, Job, JobOf
<1>4. JobsSound'
  BY <1>1, <1>2 DEF Inv, TypeOK, JobsSound, JobOf
<1> QED BY <1>2, <1>3, <1>4 DEF Inv, RowProposal

LEMMA ProposeWriteInv == ASSUME Inv, NEW h \in Handlers, ProposeWrite(h) PROVE Inv'
<1> DEFINE o == job[h].outcome
           at == job[h].at
<1>1. o \in Outcomes /\ at \in 1..MaxTime
  BY DEF Inv, JobsSound, ProposeWrite
<1>2. /\ status' = "PROPOSED" /\ proposed' = o /\ disputeUntil' = at + Window
      /\ proposals' = proposals \cup {<<o, at>>}
      /\ pc' = [pc EXCEPT ![h] = "idle"]
      /\ job' = [job EXCEPT ![h] = NoJob]
      /\ UNCHANGED <<resolved, decidedBy, gradedAs, now, traffic, cut>>
  BY DEF ProposeWrite, Deadline, Finish, Goto
<1> HIDE DEF o, at
<1>3. TypeOK'
  BY <1>1, <1>2, ResolutionAssumption DEF Inv, TypeOK, Stages, Job, JobOf, NoJob
<1>4. JobsSound'
  BY <1>2 DEF Inv, TypeOK, JobsSound
<1>5. RowProposal'
  <2>1. <<o, at>> \in proposals' /\ <<o, at>>[1] = proposed' /\ <<o, at>>[2] = at
    BY <1>2
  <2> QED BY <1>2, <2>1 DEF RowProposal
<1> QED BY <1>2, <1>3, <1>4, <1>5 DEF Inv

LEMMA DisputeReadInv == ASSUME Inv, NEW h \in Handlers, DisputeRead(h) PROVE Inv'
<1>1. /\ UNCHANGED <<status, proposed, disputeUntil, resolved, decidedBy, gradedAs,
                     proposals, now, cut>>
      /\ traffic' \in {"single", "crowded"}
      /\ pc' = [pc EXCEPT ![h] = "disputing"]
      /\ job' = [job EXCEPT ![h] = NoJob]
      /\ proposals # {}
  BY DEF DisputeRead, market, Goto, Meets, Inv, TypeOK
<1>2. TypeOK'
  BY <1>1, ResolutionAssumption DEF Inv, TypeOK, Stages, Job, JobOf, NoJob
<1>3. JobsSound'
  BY <1>1 DEF Inv, TypeOK, JobsSound
<1> QED BY <1>1, <1>2, <1>3 DEF Inv, RowProposal

LEMMA DisputeWriteInv == ASSUME Inv, NEW h \in Handlers, DisputeWrite(h) PROVE Inv'
<1>1. /\ UNCHANGED <<proposed, disputeUntil, resolved, decidedBy, gradedAs,
                     proposals, now, traffic, cut>>
      /\ status' = "DISPUTED"
      /\ pc' = [pc EXCEPT ![h] = "idle"]
      /\ job' = [job EXCEPT ![h] = NoJob]
      /\ proposals # {}
  BY DEF DisputeWrite, Finish, Goto, Inv, JobsSound
<1>2. TypeOK'
  BY <1>1, ResolutionAssumption DEF Inv, TypeOK, Stages, Job, JobOf, NoJob
<1>3. JobsSound'
  BY <1>1 DEF Inv, TypeOK, JobsSound
<1> QED BY <1>1, <1>2, <1>3 DEF Inv, RowProposal

LEMMA AcceptReadInv == ASSUME Inv, NEW h \in Handlers, AcceptRead(h) PROVE Inv'
<1>1. /\ UNCHANGED <<status, proposed, disputeUntil, resolved, decidedBy, gradedAs,
                     proposals, now, cut>>
      /\ traffic' \in {"single", "crowded"}
      /\ pc' = [pc EXCEPT ![h] = "accepting"]
      /\ job' = [job EXCEPT ![h] = JobOf(proposed, 0)]
      /\ now >= disputeUntil
      /\ proposals # {}
  BY DEF AcceptRead, Expired, market, Goto, Meets, Inv, TypeOK
<1>2. PICK p \in proposals : p[1] = proposed /\ disputeUntil = p[2] + Window
  BY <1>1 DEF Inv, RowProposal
<1>3. proposed \in Choices
  BY <1>2, ResolutionAssumption DEF Inv, TypeOK
<1>4. TypeOK'
  BY <1>1, <1>3, ResolutionAssumption DEF Inv, TypeOK, Stages, Job, JobOf
<1>5. JobsSound'
  BY <1>1, <1>2, <1>3 DEF Inv, TypeOK, JobsSound, JobOf
<1> QED BY <1>1, <1>4, <1>5 DEF Inv, RowProposal

LEMMA DecideReadInv == ASSUME Inv, NEW h \in Handlers, DecideRead(h) PROVE Inv'
<1>1. PICK o \in Choices : Goto(h, "deciding", JobOf(o, 0))
  BY DEF DecideRead
<1>2. /\ UNCHANGED <<status, proposed, disputeUntil, resolved, decidedBy, gradedAs,
                     proposals, now, cut>>
      /\ traffic' \in {"single", "crowded"}
      /\ pc' = [pc EXCEPT ![h] = "deciding"]
      /\ job' = [job EXCEPT ![h] = JobOf(o, 0)]
  BY <1>1 DEF DecideRead, market, Goto, Meets, Inv, TypeOK
<1>3. TypeOK'
  BY <1>2, ResolutionAssumption DEF Inv, TypeOK, Stages, Job, JobOf
<1>4. JobsSound'
  BY <1>2 DEF Inv, TypeOK, JobsSound, JobOf
<1> QED BY <1>2, <1>3, <1>4 DEF Inv, RowProposal

LEMMA FinalizeWriteInv == ASSUME Inv, NEW h \in Handlers, FinalizeWrite(h) PROVE Inv'
<1>1. /\ UNCHANGED <<proposed, disputeUntil, gradedAs, proposals, now, traffic, cut>>
      /\ status' = "RESOLVED"
      /\ resolved' = job[h].outcome
      /\ decidedBy' \in {"nobody", "window", "admin"}
      /\ job[h].outcome \in Choices
      /\ pc' = [pc EXCEPT ![h] = "grading"]
      /\ job' = [job EXCEPT ![h] = job[h]]
  BY DEF FinalizeWrite, Goto, Inv, JobsSound
<1>2. TypeOK'
  BY <1>1, ResolutionAssumption DEF Inv, TypeOK, Stages
<1>3. JobsSound'
  BY <1>1 DEF Inv, TypeOK, JobsSound
<1> QED BY <1>1, <1>2, <1>3, ResolutionAssumption DEF Inv, RowProposal

LEMMA GradeInv == ASSUME Inv, NEW h \in Handlers, Grade(h) PROVE Inv'
<1>1. /\ UNCHANGED <<status, proposed, disputeUntil, resolved, decidedBy,
                     proposals, now, traffic, cut>>
      /\ gradedAs' \in Choices \cup {None}
      /\ pc' = [pc EXCEPT ![h] = "idle"]
      /\ job' = [job EXCEPT ![h] = NoJob]
  BY DEF Grade, GradeOnce, market, Finish, Goto, Inv, TypeOK, JobsSound
<1>2. TypeOK'
  BY <1>1, ResolutionAssumption DEF Inv, TypeOK, Stages, Job, JobOf, NoJob
<1>3. JobsSound'
  BY <1>1 DEF Inv, TypeOK, JobsSound
<1> QED BY <1>1, <1>2, <1>3 DEF Inv, RowProposal

LEMMA FailInv == ASSUME Inv, NEW h \in Handlers, Fail(h) PROVE Inv'
<1>1. /\ UNCHANGED <<status, proposed, disputeUntil, resolved, decidedBy, gradedAs,
                     proposals, now, traffic>>
      /\ cut' \in {"no", "yes"}
      /\ pc' = [pc EXCEPT ![h] = "idle"]
      /\ job' = [job EXCEPT ![h] = NoJob]
  BY DEF Fail, market, Finish, Goto, Inv, TypeOK
<1>2. TypeOK'
  BY <1>1, ResolutionAssumption DEF Inv, TypeOK, Stages, Job, JobOf, NoJob
<1>3. JobsSound'
  BY <1>1 DEF Inv, TypeOK, JobsSound
<1> QED BY <1>1, <1>2, <1>3 DEF Inv, RowProposal

LEMMA TickInv == ASSUME Inv, Tick PROVE Inv'
<1>1. /\ UNCHANGED <<status, proposed, disputeUntil, resolved, decidedBy, gradedAs,
                     proposals, pc, job, traffic, cut>>
      /\ now' = now + 1 /\ now' \in 1..MaxTime /\ now \in 1..MaxTime
  BY ResolutionAssumption DEF Tick, market, Inv, TypeOK
<1>2. TypeOK'
  BY <1>1 DEF Inv, TypeOK
<1>3. ASSUME NEW p \in proposals, now >= p[2] + Window
      PROVE  now' >= p[2] + Window
  BY <1>1, <1>3, ResolutionAssumption DEF Inv, TypeOK
<1>4. JobsSound'
  BY <1>1, <1>3 DEF Inv, TypeOK, JobsSound
<1> QED BY <1>1, <1>2, <1>4 DEF Inv, RowProposal

LEMMA StepInv == ASSUME Inv, [Next]_vars PROVE Inv'
<1>1. CASE Next
  <2>1. CASE Tick
    BY <2>1, TickInv
  <2>2. ASSUME NEW h \in Handlers,
               \/ ProposeRead(h) \/ ProposeWrite(h)
               \/ DisputeRead(h) \/ DisputeWrite(h)
               \/ AcceptRead(h) \/ DecideRead(h) \/ FinalizeWrite(h) \/ Grade(h)
               \/ Fail(h)
        PROVE  Inv'
    BY <2>2, ProposeReadInv, ProposeWriteInv, DisputeReadInv, DisputeWriteInv,
       AcceptReadInv, DecideReadInv, FinalizeWriteInv, GradeInv, FailInv
  <2> QED BY <1>1, <2>1, <2>2 DEF Next
<1>2. CASE UNCHANGED vars
  BY <1>2 DEF vars, Inv, TypeOK, JobsSound, RowProposal
<1> QED BY <1>1, <1>2

THEOREM Invariance == Spec => []Inv
<1>1. Init => Inv
  BY InitInv
<1>2. Inv /\ [Next]_vars => Inv'
  BY StepInv
<1> QED BY <1>1, <1>2, PTL DEF Spec

\* Every variable keeps its type, whatever the number of concurrent requests.
THEOREM TypeCorrect == Spec => []TypeOK
<1>1. Inv => TypeOK
  BY DEF Inv
<1> QED BY <1>1, Invariance, PTL

\* The status column never promises data the row does not have, although four
\* kinds of requests overwrite each other's columns.
THEOREM StatusData == Spec => []StatusHasItsData
<1>1. Inv => StatusHasItsData
  BY DEF Inv, RowProposal, StatusHasItsData
<1> QED BY <1>1, Invariance, PTL

\* No interleaving lets a market resolve without an admin to an outcome that
\* had not been proposed for a whole dispute window.
THEOREM WindowKept == Spec => WindowRespected
<1> DEFINE A == \A h \in Handlers : pc[h] = "accepting" /\ pc'[h] = "grading" =>
                   \E p \in proposals : p[1] = resolved' /\ now >= p[2] + Window
<1>1. ASSUME Inv, Next PROVE A
  <2> SUFFICES ASSUME NEW h \in Handlers, pc[h] = "accepting", pc'[h] = "grading"
               PROVE  \E p \in proposals : p[1] = resolved' /\ now >= p[2] + Window
    OBVIOUS
  <2>1. pc \in [Handlers -> Stages]
    BY <1>1 DEF Inv, TypeOK
  <2>2. FinalizeWrite(h)
    BY <1>1, <2>1 DEF Next, Tick, ProposeRead, ProposeWrite, DisputeRead, DisputeWrite,
       AcceptRead, DecideRead, FinalizeWrite, Grade, Fail, Finish, Goto
  <2>3. resolved' = job[h].outcome
    BY <2>2 DEF FinalizeWrite
  <2> QED BY <1>1, <2>3 DEF Inv, JobsSound
<1>2. Inv /\ [Next]_vars => [A]_vars
  BY <1>1
<1> QED BY <1>2, Invariance, PTL DEF Spec, WindowRespected

-----------------------------------------------------------------------------
(* What a resolution leaves behind *)

HandlerStep(h) ==
    \/ ProposeRead(h) \/ ProposeWrite(h)
    \/ DisputeRead(h) \/ DisputeWrite(h)
    \/ AcceptRead(h) \/ DecideRead(h) \/ FinalizeWrite(h) \/ Grade(h)
    \/ Fail(h)

\* A row is resolved by the write of finalizeResolution alone, and what the
\* window decides was proposed, so it is one of the market's outcomes.
LEMMA StepOnlyAdmins ==
    ASSUME Inv, OnlyAdminsPayNobody, [Next]_vars PROVE OnlyAdminsPayNobody'
<1>1. CASE UNCHANGED <<resolved, decidedBy>>
  BY <1>1 DEF OnlyAdminsPayNobody
<1>2. ASSUME NEW h \in Handlers, FinalizeWrite(h) PROVE OnlyAdminsPayNobody'
  <2>1. CASE pc[h] = "accepting"
    <3>1. PICK p \in proposals : p[1] = job[h].outcome
      BY <2>1 DEF Inv, JobsSound
    <3>2. job[h].outcome \in Outcomes
      BY <3>1 DEF Inv, TypeOK
    <3> QED BY <1>2, <3>2 DEF FinalizeWrite, OnlyAdminsPayNobody
  <2>2. CASE pc[h] # "accepting"
    BY <1>2, <2>2 DEF FinalizeWrite, OnlyAdminsPayNobody
  <2> QED BY <2>1, <2>2
<1>3. UNCHANGED <<resolved, decidedBy>> \/ \E h \in Handlers : FinalizeWrite(h)
  BY DEF Next, vars, market, Tick, ProposeRead, ProposeWrite, DisputeRead, DisputeWrite,
         AcceptRead, DecideRead, Grade, Fail
<1> QED BY <1>1, <1>2, <1>3

\* A handler that leaves the grading has graded, or its loss is on record.
LEMMA StepGradedUnlessCut ==
    ASSUME Inv, GradedUnlessCut, [Next]_vars PROVE GradedUnlessCut'
<1>1. CASE UNCHANGED <<resolved, gradedAs, pc, cut>>
  BY <1>1 DEF GradedUnlessCut
<1>2. ASSUME NEW h \in Handlers, HandlerStep(h) PROVE GradedUnlessCut'
  <2>1. pc \in [Handlers -> Stages]
    BY DEF Inv, TypeOK
  <2>2. \A g \in Handlers \ {h} : pc'[g] = pc[g]
    BY <1>2, <2>1 DEF HandlerStep, ProposeRead, ProposeWrite, DisputeRead, DisputeWrite,
       AcceptRead, DecideRead, FinalizeWrite, Grade, Fail, Finish, Goto
  <2>3. CASE FinalizeWrite(h)
    <3>1. pc'[h] = "grading"
      BY <2>1, <2>3 DEF FinalizeWrite, Goto
    <3> QED BY <3>1 DEF GradedUnlessCut
  <2>4. CASE Grade(h)
    <3>1. job[h].outcome \in Choices
      BY <2>4 DEF Grade, Inv, JobsSound
    <3>2. gradedAs' # None
      BY <2>4, <3>1, ResolutionAssumption DEF Grade, GradeOnce
    <3> QED BY <3>2 DEF GradedUnlessCut
  <2>5. CASE Fail(h)
    <3>1. cut' = "yes" \/ (cut' = cut /\ pc[h] # "grading")
      BY <2>5 DEF Fail
    <3>2. UNCHANGED <<resolved, gradedAs>>
      BY <2>5 DEF Fail, market
    <3> QED BY <2>2, <3>1, <3>2 DEF GradedUnlessCut
  <2>6. CASE \/ ProposeRead(h) \/ ProposeWrite(h) \/ DisputeRead(h) \/ DisputeWrite(h)
             \/ AcceptRead(h) \/ DecideRead(h)
    <3>1. UNCHANGED <<resolved, gradedAs, cut>> /\ pc[h] # "grading"
      BY <2>6 DEF ProposeRead, ProposeWrite, DisputeRead, DisputeWrite, AcceptRead,
         DecideRead, market
    <3> QED BY <2>2, <3>1 DEF GradedUnlessCut
  <2> QED BY <1>2, <2>3, <2>4, <2>5, <2>6 DEF HandlerStep
<1>3. UNCHANGED <<resolved, gradedAs, pc, cut>> \/ \E h \in Handlers : HandlerStep(h)
  BY DEF Next, HandlerStep, vars, market, Tick
<1> QED BY <1>1, <1>2, <1>3

\* No interleaving of proposals, disputes and decisions resolves a market to an
\* outcome it does not have, unless an admin sends the index.
THEOREM AdminsAlone == Spec => []OnlyAdminsPayNobody
<1>1. Init => OnlyAdminsPayNobody
  BY DEF Init, OnlyAdminsPayNobody
<1>2. Inv /\ OnlyAdminsPayNobody /\ [Next]_vars => OnlyAdminsPayNobody'
  BY StepOnlyAdmins
<1> QED BY <1>1, <1>2, Invariance, PTL DEF Spec

\* A resolved market is graded by some request, at the latest by those that are
\* about to, unless one was lost between the two: only that loss can leave a
\* resolved market's trades ungraded.
THEOREM GradingReached == Spec => []GradedUnlessCut
<1>1. Init => GradedUnlessCut
  BY DEF Init, GradedUnlessCut
<1>2. Inv /\ GradedUnlessCut /\ [Next]_vars => GradedUnlessCut'
  BY StepGradedUnlessCut
<1> QED BY <1>1, <1>2, Invariance, PTL DEF Spec

-----------------------------------------------------------------------------
(* Until two requests meet *)

Busy(h) == pc[h] # "idle"

OneBusy == traffic = "single" => \A g, h \in Handlers : Busy(g) /\ Busy(h) => g = h

\* What the request in flight has read is still so.
ReadsCurrent ==
    \A h \in Handlers :
        /\ pc[h] = "proposing" => status # "RESOLVED" /\ job[h].at <= now
        /\ pc[h] = "disputing" => status = "PROPOSED"
        /\ pc[h] = "accepting" =>
               /\ status = "PROPOSED"
               /\ now >= disputeUntil
               /\ job[h].outcome = proposed
        /\ pc[h] = "deciding" => status # "RESOLVED"
        /\ pc[h] = "grading" =>
               /\ status = "RESOLVED"
               /\ gradedAs = None
               /\ job[h].outcome = resolved

SingleInv == OneBusy /\ (traffic = "single" => ReadsCurrent) /\ GradedAsResolved

LEMMA InitSingle == ASSUME Init PROVE SingleInv
BY DEF Init, SingleInv, OneBusy, Busy, ReadsCurrent, GradedAsResolved

\* A handler that moves while no two have met is the only one that is busy.
LEMMA Lone ==
    ASSUME Inv, SingleInv, NEW h \in Handlers, HandlerStep(h), traffic' = "single"
    PROVE  traffic = "single" /\ \A g \in Handlers \ {h} : pc[g] = "idle" /\ pc'[g] = "idle"
<1>1. CASE Meets /\ pc[h] = "idle"
  <2>1. traffic = "single" /\ \A g \in Handlers : pc[g] = "idle"
    BY <1>1 DEF Meets
  <2>2. \A g \in Handlers \ {h} : pc'[g] = pc[g]
    BY DEF HandlerStep, ProposeRead, ProposeWrite, DisputeRead, DisputeWrite, AcceptRead,
           DecideRead, FinalizeWrite, Grade, Fail, Finish, Goto, Inv, TypeOK
  <2> QED BY <2>1, <2>2
<1>2. CASE traffic' = traffic /\ Busy(h)
  <2>1. traffic = "single" /\ \A g \in Handlers \ {h} : pc[g] = "idle"
    BY <1>2 DEF SingleInv, OneBusy, Busy
  <2>2. \A g \in Handlers \ {h} : pc'[g] = pc[g]
    BY DEF HandlerStep, ProposeRead, ProposeWrite, DisputeRead, DisputeWrite, AcceptRead,
           DecideRead, FinalizeWrite, Grade, Fail, Finish, Goto, Inv, TypeOK
  <2> QED BY <2>1, <2>2
<1>3. (Meets /\ pc[h] = "idle") \/ (traffic' = traffic /\ Busy(h))
  BY DEF HandlerStep, ProposeRead, ProposeWrite, DisputeRead, DisputeWrite, AcceptRead,
         DecideRead, FinalizeWrite, Grade, Fail, Busy
<1> QED BY <1>1, <1>2, <1>3

\* A step of the only handler leaves SingleInv to be shown for that handler.
LEMMA HandlerSingle ==
    ASSUME Inv, SingleInv, NEW h \in Handlers, HandlerStep(h), traffic' = "single"
    PROVE  ReadsCurrent' /\ GradedAsResolved'
<1>1. /\ pc \in [Handlers -> Stages] /\ job \in [Handlers -> Job] /\ now \in 1..MaxTime
      /\ \A g \in Handlers : g = h \/ pc'[g] = "idle"
      /\ traffic = "single"
  BY Lone DEF Inv, TypeOK
<1>2. CASE ProposeRead(h)
  <2>1. PICK o \in Choices : Goto(h, "proposing", JobOf(o, now))
    BY <1>2 DEF ProposeRead
  <2>2. pc'[h] = "proposing" /\ job'[h].at = now
    BY <1>1, <2>1 DEF Goto, JobOf
  <2>3. /\ UNCHANGED <<status, proposed, disputeUntil, resolved, decidedBy,
                       gradedAs, now>>
        /\ status # "RESOLVED"
    BY <1>2 DEF ProposeRead, Unresolved, market
  <2> QED BY <1>1, <2>2, <2>3, ResolutionAssumption
             DEF SingleInv, ReadsCurrent, GradedAsResolved
<1>3. CASE ProposeWrite(h)
  <2>1. /\ pc'[h] = "idle" /\ status # "RESOLVED"
        /\ UNCHANGED <<resolved, decidedBy, gradedAs, now>>
    BY <1>1, <1>3 DEF ProposeWrite, Finish, Goto, SingleInv, ReadsCurrent
  <2> QED BY <1>1, <2>1 DEF SingleInv, ReadsCurrent, GradedAsResolved
<1>4. CASE DisputeRead(h)
  <2>1. /\ pc'[h] = "disputing" /\ status = "PROPOSED"
        /\ UNCHANGED <<status, resolved, decidedBy, gradedAs>>
    BY <1>1, <1>4 DEF DisputeRead, Goto, market
  <2> QED BY <1>1, <2>1 DEF SingleInv, ReadsCurrent, GradedAsResolved
<1>5. CASE DisputeWrite(h)
  <2>1. /\ pc'[h] = "idle" /\ status = "PROPOSED"
        /\ UNCHANGED <<resolved, decidedBy, gradedAs>>
    BY <1>1, <1>5 DEF DisputeWrite, Finish, Goto, SingleInv, ReadsCurrent
  <2> QED BY <1>1, <2>1 DEF SingleInv, ReadsCurrent, GradedAsResolved
<1>6. CASE AcceptRead(h)
  <2>1. /\ pc'[h] = "accepting" /\ job'[h].outcome = proposed
        /\ status = "PROPOSED" /\ now >= disputeUntil
        /\ UNCHANGED <<status, proposed, disputeUntil, resolved, decidedBy,
                       gradedAs, now>>
    BY <1>1, <1>6 DEF AcceptRead, Expired, Goto, JobOf, market
  <2> QED BY <1>1, <2>1 DEF SingleInv, ReadsCurrent, GradedAsResolved
<1>7. CASE DecideRead(h)
  <2>1. PICK o \in Choices : Goto(h, "deciding", JobOf(o, 0))
    BY <1>7 DEF DecideRead
  <2>2. pc'[h] = "deciding"
    BY <1>1, <2>1 DEF Goto
  <2>3. status # "RESOLVED" /\ UNCHANGED <<status, resolved, decidedBy, gradedAs>>
    BY <1>7 DEF DecideRead, Unresolved, market
  <2> QED BY <1>1, <2>2, <2>3 DEF SingleInv, ReadsCurrent, GradedAsResolved
<1>8. CASE FinalizeWrite(h)
  <2>1. /\ pc'[h] = "grading" /\ job'[h] = job[h]
        /\ status' = "RESOLVED" /\ resolved' = job[h].outcome
        /\ gradedAs' = gradedAs /\ status # "RESOLVED"
    BY <1>1, <1>8 DEF FinalizeWrite, Goto, SingleInv, ReadsCurrent
  <2>2. gradedAs = None
    BY <1>1, <2>1 DEF SingleInv, GradedAsResolved
  <2> QED BY <1>1, <2>1, <2>2 DEF SingleInv, ReadsCurrent, GradedAsResolved
<1>9. CASE Grade(h)
  <2>1. /\ pc'[h] = "idle" /\ gradedAs' = job[h].outcome
        /\ UNCHANGED <<status, resolved, decidedBy>>
        /\ status = "RESOLVED" /\ job[h].outcome = resolved
    BY <1>1, <1>9 DEF Grade, GradeOnce, Finish, Goto, market, SingleInv, ReadsCurrent
  <2> QED BY <1>1, <2>1 DEF SingleInv, ReadsCurrent, GradedAsResolved
<1>10. CASE Fail(h)
  <2>1. pc'[h] = "idle" /\ UNCHANGED <<status, resolved, decidedBy, gradedAs>>
    BY <1>1, <1>10 DEF Fail, Finish, Goto, market
  <2> QED BY <1>1, <2>1 DEF SingleInv, ReadsCurrent, GradedAsResolved
<1> QED BY <1>2, <1>3, <1>4, <1>5, <1>6, <1>7, <1>8, <1>9, <1>10 DEF HandlerStep

LEMMA StepSingle == ASSUME Inv, SingleInv, [Next]_vars PROVE SingleInv'
<1>1. CASE Tick
  <2>1. /\ UNCHANGED <<status, proposed, disputeUntil, resolved, decidedBy,
                       gradedAs, pc, job, traffic>>
        /\ now' = now + 1 /\ now \in 1..MaxTime
    BY <1>1 DEF Tick, market, Inv, TypeOK
  <2>2. ASSUME NEW h \in Handlers, pc[h] = "proposing" PROVE job[h].at \in Nat
    BY <2>2, ResolutionAssumption DEF Inv, TypeOK, JobsSound
  <2>3. disputeUntil \in Int
    BY ResolutionAssumption DEF Inv, TypeOK
  <2>4. traffic = "single" => ReadsCurrent'
    BY <2>1, <2>2, <2>3, ResolutionAssumption DEF SingleInv, ReadsCurrent
  <2> QED BY <2>1, <2>4 DEF SingleInv, OneBusy, Busy, GradedAsResolved
<1>2. CASE UNCHANGED vars
  BY <1>2 DEF vars, SingleInv, OneBusy, Busy, ReadsCurrent, GradedAsResolved
<1>3. ASSUME NEW h \in Handlers, HandlerStep(h) PROVE SingleInv'
  <2>1. CASE traffic' = "single"
    <3>1. OneBusy'
      BY <1>3, <2>1, Lone DEF OneBusy, Busy
    <3> QED BY <1>3, <2>1, <3>1, HandlerSingle DEF SingleInv
  <2>2. CASE traffic' # "single"
    BY <2>2 DEF SingleInv, OneBusy, GradedAsResolved
  <2> QED BY <2>1, <2>2
<1> QED BY <1>1, <1>2, <1>3 DEF Next, HandlerStep

LEMMA SpecSingle == Spec => [](Inv /\ SingleInv)
<1>1. Init => Inv /\ SingleInv
  BY InitInv, InitSingle
<1>2. Inv /\ SingleInv /\ [Next]_vars => (Inv /\ SingleInv)'
  BY StepInv, StepSingle
<1> QED BY <1>1, <1>2, PTL DEF Spec

\* While no two requests have met, the trades are graded with the outcome that
\* the market pays out.
THEOREM GradesAgree == Spec => []GradedAsResolved
<1>1. Inv /\ SingleInv => GradedAsResolved
  BY DEF SingleInv
<1> QED BY <1>1, SpecSingle, PTL

\* While no two requests have met, a resolved market keeps its status and its
\* outcome.
THEOREM Final == Spec => ResolvedForGood
<1> DEFINE A == traffic = "single" /\ status = "RESOLVED" =>
                   status' = "RESOLVED" /\ resolved' = resolved
<1>1. ASSUME Inv, SingleInv, [Next]_vars PROVE A
  BY <1>1 DEF SingleInv, ReadsCurrent, Next, vars, market, Tick, ProposeRead, ProposeWrite,
     DisputeRead, DisputeWrite, AcceptRead, DecideRead, FinalizeWrite, Grade, Fail
<1>2. Inv /\ SingleInv /\ [Next]_vars => [A]_vars
  BY <1>1
<1> QED BY <1>2, SpecSingle, PTL DEF Spec, ResolvedForGood

-----------------------------------------------------------------------------
(* Refinement *)

\* A handler raises the flag by entering a dispute, and takes it down by leaving it.
LEMMA FlagOf ==
    ASSUME Inv, SingleInv, traffic = "single", NEW h \in Handlers, HandlerStep(h)
    PROVE  /\ pc[h] = "disputing" => Flagged = "raised" /\ Flagged' = "none"
           /\ pc[h] # "disputing" /\ pc'[h] # "disputing" => Flagged' = Flagged
           /\ pc'[h] = "disputing" => DisputeRead(h) /\ Flagged' = "raised"
<1>1. pc \in [Handlers -> Stages]
  BY DEF Inv, TypeOK
<1>2. \A g \in Handlers \ {h} : pc'[g] = pc[g]
  BY <1>1 DEF HandlerStep, ProposeRead, ProposeWrite, DisputeRead, DisputeWrite, AcceptRead,
         DecideRead, FinalizeWrite, Grade, Fail, Finish, Goto
<1>3. pc[h] = "disputing" => pc'[h] = "idle" /\ \A g \in Handlers \ {h} : pc[g] = "idle"
  <2>1. pc[h] = "disputing" => pc'[h] = "idle"
    BY <1>1 DEF HandlerStep, ProposeRead, ProposeWrite, DisputeRead, DisputeWrite, AcceptRead,
           DecideRead, FinalizeWrite, Grade, Fail, Finish, Goto
  <2> QED BY <2>1 DEF SingleInv, OneBusy, Busy
<1>4. pc'[h] = "disputing" => DisputeRead(h)
  BY <1>1 DEF HandlerStep, ProposeRead, ProposeWrite, AcceptRead, DisputeWrite,
         DecideRead, FinalizeWrite, Grade, Fail, Finish, Goto
<1> QED BY <1>2, <1>3, <1>4 DEF Flagged

\* Of the handler's steps only the writes, and the flag, are steps of the lifecycle.
LEMMA HandlerRefines ==
    ASSUME Inv, SingleInv, traffic = "single", NEW h \in Handlers, HandlerStep(h)
    PROVE  [Abstract!Next]_Abstract!vars
<1>0. pc \in [Handlers -> Stages]
  BY DEF Inv, TypeOK
<1>1. CASE ProposeWrite(h)
  <2>1. /\ status # "RESOLVED" /\ job[h].at <= now
        /\ job[h].outcome \in Outcomes /\ job[h].at \in 1..MaxTime /\ now \in 1..MaxTime
    BY <1>1 DEF ProposeWrite, SingleInv, ReadsCurrent, Inv, TypeOK, JobsSound
  <2>2. job[h].at \in 1..now
    BY <2>1, ResolutionAssumption
  <2>3. Flagged' = Flagged
    BY <1>0, <1>1, FlagOf DEF ProposeWrite, Finish, Goto
  <2>4. Abstract!Propose
    BY <1>1, <2>1, <2>2, <2>3 DEF ProposeWrite, Deadline, Abstract!Propose
  <2> QED BY <2>4 DEF Abstract!Next
<1>2. CASE DisputeWrite(h)
  <2>1. Abstract!Dispute
    BY <1>2, FlagOf DEF DisputeWrite, SingleInv, ReadsCurrent, Abstract!Dispute
  <2> QED BY <2>1 DEF Abstract!Next
<1>3. CASE FinalizeWrite(h)
  <2>0. Flagged' = Flagged
    BY <1>0, <1>3, FlagOf DEF FinalizeWrite, Goto
  <2>1. CASE pc[h] = "accepting"
    <3>1. Abstract!Accept
      BY <1>3, <2>0, <2>1 DEF FinalizeWrite, SingleInv, ReadsCurrent, Abstract!Accept
    <3> QED BY <3>1 DEF Abstract!Next
  <2>2. CASE pc[h] = "deciding"
    <3>1. Abstract!Decide
      BY <1>3, <2>0, <2>2 DEF FinalizeWrite, SingleInv, ReadsCurrent, Inv, JobsSound, Abstract!Decide
    <3> QED BY <3>1 DEF Abstract!Next
  <2> QED BY <1>3, <2>1, <2>2 DEF FinalizeWrite
<1>4. CASE DisputeRead(h)
  <2>1. /\ status = "PROPOSED" /\ now <= disputeUntil /\ Flagged' = "raised"
        /\ UNCHANGED <<status, proposed, disputeUntil, resolved, decidedBy, now>>
    BY <1>0, <1>4, FlagOf DEF DisputeRead, WindowOpen, market, Goto
  <2>2. Flagged \in {"none", "raised"}
    BY DEF Flagged
  <2>3. CASE Flagged = "none"
    BY <2>1, <2>3 DEF Abstract!Flag, Abstract!Next
  <2>4. CASE Flagged = "raised"
    BY <2>1, <2>4 DEF Abstract!vars
  <2> QED BY <2>2, <2>3, <2>4
<1>5. CASE ProposeRead(h) \/ AcceptRead(h) \/ DecideRead(h) \/ Grade(h) \/ Fail(h)
  <2>1. UNCHANGED <<status, proposed, disputeUntil, resolved, decidedBy, now>>
    BY <1>5 DEF ProposeRead, AcceptRead, DecideRead, Grade, Fail, market
  <2>2. pc'[h] # "disputing"
    BY <1>0, <1>5 DEF ProposeRead, AcceptRead, DecideRead, Grade, Fail, Finish, Goto
  <2>3. CASE pc[h] = "disputing"
    BY <2>1, <2>3, FlagOf DEF Abstract!Withdraw, Abstract!Next
  <2>4. CASE pc[h] # "disputing"
    BY <2>1, <2>2, <2>4, FlagOf DEF Abstract!vars
  <2> QED BY <2>3, <2>4
<1> QED BY <1>1, <1>2, <1>3, <1>4, <1>5 DEF HandlerStep

\* Until two requests first meet, the reads and writes of the three requests
\* implement the atomic lifecycle: a market is resolved once, by an expired
\* proposal or by an admin, and a dispute stops the proposal that stands.
THEOREM Implements == Spec => FollowsLifecycle
<1> DEFINE A == traffic = "crowded" \/ Abstract!Next
<1>1. Init => Abstract!Init
  BY DEF Init, Flagged, Abstract!Init, Abstract!None
<1>2. ASSUME Inv, SingleInv, [Next]_vars PROVE [A]_Abstract!vars
  <2>1. CASE Tick
    <3>1. Abstract!Tick
      BY <2>1 DEF Tick, market, Flagged, Abstract!Tick
    <3> QED BY <3>1 DEF Abstract!Next
  <2>2. CASE UNCHANGED vars
    BY <2>2 DEF vars, Flagged, Abstract!vars
  <2>3. ASSUME NEW h \in Handlers, HandlerStep(h), traffic = "single"
        PROVE  [Abstract!Next]_Abstract!vars
    BY <1>2, <2>3, HandlerRefines
  <2>4. traffic \in {"single", "crowded"}
    BY <1>2 DEF Inv, TypeOK
  <2> QED BY <1>2, <2>1, <2>2, <2>3, <2>4 DEF Next, HandlerStep
<1>3. Inv /\ SingleInv /\ [Next]_vars => [A]_Abstract!vars
  BY <1>2
<1> QED BY <1>1, <1>3, SpecSingle, PTL DEF Spec, FollowsLifecycle
=============================================================================
