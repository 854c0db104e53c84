--------------------------- MODULE SessionsProofs ---------------------------
(***************************************************************************)
(* Theorems about what signs a user in and shows them as signed in:        *)
(* Sessions, for every set of tokens and requests, any term and any        *)
(* failures, and Purse, for every finite set of requests of a tab and any  *)
(* amounts.                                                                *)
(***************************************************************************)
EXTENDS Sessions, Purse, Sums, TLAPS

\* A request under way has a token that was issued.
TokensIssued == \A h \in Handlers : pc[h] # "idle" => job[h].token \in issued

\* An ended session has no row, and its token is never issued again.
EndedIsGone == \A s \in ended : s \in issued /\ ~Exists(s)

\* The row is as fresh as the last use, up to the hour, or a request that is as fresh is
\* about to slide it.
Fresh(s) ==
    \/ lastUse[s] <= row[s].lastSeen + SlideAfter
    \/ \E g \in Handlers : /\ pc[g] = "sliding" /\ job[g].token = s
                           /\ lastUse[s] <= job[g].at + SlideAfter

RowsFresh ==
    \A s \in Tokens \ excused :
        Exists(s) => row[s].expiresAt = row[s].lastSeen + TTL /\ Fresh(s)

IInv == TypeOK /\ TokensIssued /\ EndedIsGone /\ RowsFresh

-----------------------------------------------------------------------------
(* Handlers *)

LEMMA JobTypes ==
    /\ NoJob \in Job /\ NoJob.token = None
    /\ \A t \in Tokens \cup {None}, kind \in {"use", "logout"}, at \in Nat :
          LET j == JobOf(t, kind, at) IN j \in Job /\ j.token = t /\ j.kind = kind /\ j.at = at
    /\ \A j \in Job : j.token \in Tokens \cup {None} /\ j.kind \in {"use", "logout"} /\ j.at \in Nat
  BY DEF Job, JobOf, NoJob

LEMMA RowTypes ==
    /\ NoRow \in Row /\ NoRow.expiresAt = 0
    /\ \A e, l \in Nat : LET r == RowOf(e, l) IN r \in Row /\ r.expiresAt = e /\ r.lastSeen = l
    /\ \A r \in Row : r.expiresAt \in Nat /\ r.lastSeen \in Nat
  BY DEF Row, RowOf, NoRow

\* A handler that goes on with a token that was issued.
LEMMA Goes ==
    ASSUME TypeOK, NEW h \in Handlers, NEW stage \in Stages, NEW j \in Job, Goto(h, stage, j)
    PROVE  /\ pc' \in [Handlers -> Stages] /\ job' \in [Handlers -> Job]
           /\ pc'[h] = stage /\ job'[h] = j
           /\ \A g \in Handlers \ {h} : pc'[g] = pc[g] /\ job'[g] = job[g]
  BY DEF Goto, TypeOK

LEMMA Busy ==
    ASSUME IInv, NEW h \in Handlers, pc[h] # "idle"
    PROVE  /\ job[h].token \in issued /\ job[h].token \in Tokens
           /\ job[h] \in Job /\ job[h].at \in Nat /\ job[h].kind \in {"use", "logout"}
  BY JobTypes DEF IInv, TypeOK, TokensIssued

\* The request that has been through the middleware.
LEMMA Routed ==
    ASSUME IInv, NEW h \in Handlers, pc[h] # "idle", Route(h)
    PROVE  /\ pc' \in [Handlers -> Stages] /\ job' \in [Handlers -> Job]
           /\ pc'[h] \in {"idle", "destroying"}
           /\ pc'[h] # "idle" => job'[h].token = job[h].token
           /\ \A g \in Handlers \ {h} : pc'[g] = pc[g] /\ job'[g] = job[g]
<1>1. CASE job[h].kind = "logout"
  <2>1. Goto(h, "destroying", job[h])
    BY <1>1 DEF Route
  <2> QED
    BY <2>1, Busy, Goes DEF IInv, Stages
<1>2. CASE job[h].kind # "logout"
  <2>1. Goto(h, "idle", NoJob)
    BY <1>2 DEF Route, Finish
  <2> QED
    BY <2>1, JobTypes, Goes DEF IInv, Stages
<1> QED
  BY <1>1, <1>2

\* What a handler that moves leaves: its own part is given, the others' is kept.
Moved(h) ==
    /\ pc' \in [Handlers -> Stages] /\ job' \in [Handlers -> Job]
    /\ pc'[h] # "idle" => job'[h].token \in issued'
    /\ \A g \in Handlers \ {h} : pc'[g] = pc[g] /\ job'[g] = job[g]

LEMMA MovedTokens ==
    ASSUME IInv, NEW h \in Handlers, Moved(h), issued \subseteq issued'
    PROVE  TokensIssued'
  BY DEF IInv, TokensIssued, Moved

\* Rows that stay as they are stay fresh, as long as no slide of theirs goes away.
LEMMA FreshStays ==
    ASSUME IInv, NEW h \in Handlers, Moved(h), row' = row, lastUse' = lastUse,
           excused \subseteq excused',
           pc[h] = "sliding" => job[h].token \in excused'
    PROVE  RowsFresh'
<1> SUFFICES ASSUME NEW s \in Tokens \ excused', Exists(s)'
             PROVE  /\ row'[s].expiresAt = row'[s].lastSeen + TTL
                    /\ Fresh(s)'
  BY DEF RowsFresh
<1>1. s \in Tokens \ excused /\ Exists(s)
  BY DEF Exists
<1>2. row[s].expiresAt = row[s].lastSeen + TTL /\ Fresh(s)
  BY <1>1 DEF IInv, RowsFresh
<1>3. CASE lastUse[s] <= row[s].lastSeen + SlideAfter
  BY <1>2, <1>3 DEF Fresh
<1>4. CASE \E g \in Handlers : /\ pc[g] = "sliding" /\ job[g].token = s
                               /\ lastUse[s] <= job[g].at + SlideAfter
  <2>1. PICK g \in Handlers : /\ pc[g] = "sliding" /\ job[g].token = s
                              /\ lastUse[s] <= job[g].at + SlideAfter
    BY <1>4
  <2>2. g # h
    BY <2>1
  <2>3. pc'[g] = pc[g] /\ job'[g] = job[g]
    BY <2>2 DEF Moved
  <2>4. Fresh(s)'
    BY <2>1, <2>3 DEF Fresh
  <2> QED
    BY <1>2, <2>4
<1> QED
  BY <1>2, <1>3, <1>4 DEF Fresh

-----------------------------------------------------------------------------
LEMMA InitIInv == Init => IInv
<1> SUFFICES ASSUME Init PROVE IInv
  OBVIOUS
<1>1. TypeOK
  <2>1. NoCookie \in Cookie
    BY DEF NoCookie, CookieOf, Cookie
  <2> QED
    BY <2>1, JobTypes, RowTypes DEF Init, TypeOK, Stages
<1>2. TokensIssued /\ EndedIsGone
  BY DEF Init, TokensIssued, EndedIsGone
<1>3. RowsFresh
  BY RowTypes DEF Init, RowsFresh, Exists
<1> QED
  BY <1>1, <1>2, <1>3 DEF IInv

-----------------------------------------------------------------------------
(* Every action preserves the invariant *)

LEMMA SignInStep == ASSUME IInv, NEW h \in Handlers, SignIn(h) PROVE IInv'
<1>1. PICK s \in Tokens \ issued :
          /\ row' = [row EXCEPT ![s] = RowOf(now + TTL, now)]
          /\ issued' = issued \cup {s}
          /\ lastUse' = [lastUse EXCEPT ![s] = now]
          /\ Goto(h, "signedIn", JobOf(s, "use", now))
  BY DEF SignIn
<1>2. UNCHANGED <<cookie, now, ended, excused, failures>> /\ pc[h] = "idle" /\ now \in Nat \ {0}
  BY DEF SignIn, IInv, TypeOK
<1>3. LET r == RowOf(now + TTL, now) IN r \in Row /\ r.expiresAt = now + TTL /\ r.lastSeen = now
  BY <1>2, RowTypes, SessionsAssumption
<1>4. LET j == JobOf(s, "use", now) IN j \in Job /\ j.token = s
  BY <1>2, JobTypes
<1>5. Moved(h) /\ pc'[h] = "signedIn"
  BY <1>1, <1>4, Goes DEF Moved, IInv, Stages
<1>6. TypeOK'
  BY <1>1, <1>2, <1>3, <1>5 DEF IInv, TypeOK, Moved
<1>7. TokensIssued'
  BY <1>1, <1>5, MovedTokens
<1>8. EndedIsGone'
  BY <1>1, <1>2 DEF IInv, TypeOK, EndedIsGone, Exists
<1>9. RowsFresh'
  <2> SUFFICES ASSUME NEW t \in Tokens \ excused, Exists(t)'
               PROVE  row'[t].expiresAt = row'[t].lastSeen + TTL /\ Fresh(t)'
    BY <1>2 DEF RowsFresh
  <2>1. CASE t = s
    <3>1. row'[s] = RowOf(now + TTL, now) /\ lastUse'[s] = now
      BY <1>1 DEF IInv, TypeOK
    <3>2. now <= now + SlideAfter /\ now + TTL = now + TTL
      BY <1>2, SessionsAssumption
    <3> QED
      BY <1>3, <2>1, <3>1, <3>2 DEF Fresh
  <2>2. CASE t # s
    <3>1. row'[t] = row[t] /\ lastUse'[t] = lastUse[t]
      BY <1>1, <2>2 DEF IInv, TypeOK
    <3>2. Exists(t) /\ row[t].expiresAt = row[t].lastSeen + TTL /\ Fresh(t)
      BY <3>1 DEF Exists, IInv, RowsFresh
    <3>3. \A g \in Handlers : pc[g] = "sliding" => pc'[g] = pc[g] /\ job'[g] = job[g]
      BY <1>2, <1>5 DEF Moved
    <3> QED
      BY <3>1, <3>2, <3>3 DEF Fresh
  <2> QED
    BY <2>1, <2>2
<1> QED
  BY <1>6, <1>7, <1>8, <1>9 DEF IInv

\* The steps of a request that touch neither row nor history.
LEMMA QuietStep ==
    ASSUME IInv, NEW h \in Handlers, Moved(h), UNCHANGED <<now, server, ended, lastUse>>,
           cookie' \in Cookie, failures' \in Nat, excused' \subseteq Tokens,
           excused \subseteq excused',
           pc[h] = "sliding" => job[h].token \in excused'
    PROVE  IInv'
<1>1. TypeOK'
  BY DEF IInv, TypeOK, Moved, server
<1>2. TokensIssued'
  BY MovedTokens DEF server
<1>3. EndedIsGone'
  BY DEF IInv, EndedIsGone, Exists, server
<1>4. RowsFresh'
  BY FreshStays DEF server
<1> QED
  BY <1>1, <1>2, <1>3, <1>4 DEF IInv

LEMMA FinishMoves ==
    ASSUME IInv, NEW h \in Handlers, Finish(h) PROVE Moved(h)
  BY JobTypes, Goes DEF Finish, Moved, IInv, Stages

LEMMA GotoMoves ==
    ASSUME IInv, NEW h \in Handlers, NEW stage \in Stages, NEW j \in Job, Goto(h, stage, j),
           j.token \in issued, issued' = issued
    PROVE  Moved(h)
  BY Goes DEF Moved, IInv

LEMMA RouteMoves ==
    ASSUME IInv, NEW h \in Handlers, pc[h] # "idle", Route(h), issued' = issued
    PROVE  Moved(h)
  BY Routed, Busy DEF Moved

LEMMA AnswerStep ==
    ASSUME IInv, NEW h \in Handlers, SignInAnswer(h) \/ LogoutAnswer(h) PROVE IInv'
<1>1. Moved(h) /\ UNCHANGED <<now, server, history>> /\ pc[h] # "sliding"
  BY FinishMoves DEF SignInAnswer, LogoutAnswer
<1>2. cookie' \in Cookie
  <2>1. CASE SignInAnswer(h)
    <3>1. job[h].token \in Tokens /\ job[h].at + TTL \in Nat
      BY <2>1, Busy, SessionsAssumption DEF SignInAnswer
    <3> QED
      BY <2>1, <3>1 DEF SignInAnswer, CookieOf, Cookie
  <2>2. CASE LogoutAnswer(h)
    BY <2>2 DEF LogoutAnswer, NoCookie, CookieOf, Cookie
  <2> QED
    BY <2>1, <2>2
<1> QED
  BY <1>1, <1>2, QuietStep DEF history, IInv, TypeOK

LEMMA SendStep == ASSUME IInv, NEW h \in Handlers, Send(h) PROVE IInv'
<1>1. PICK s \in issued, kind \in {"use", "logout"} : Goto(h, "loading", JobOf(s, kind, 0))
  BY DEF Send
<1>2. UNCHANGED <<cookie, now, server, history>> /\ pc[h] = "idle" /\ issued' = issued
  BY DEF Send, server
<1>3. LET j == JobOf(s, kind, 0) IN j \in Job /\ j.token = s
  BY JobTypes DEF IInv, TypeOK
<1>4. Moved(h)
  BY <1>1, <1>2, <1>3, GotoMoves DEF Stages
<1> QED
  BY <1>2, <1>4, QuietStep DEF history, IInv, TypeOK

LEMMA LoadNothingStep == ASSUME IInv, NEW h \in Handlers, LoadNothing(h) PROVE IInv'
<1>1. UNCHANGED <<cookie, now, server, history>> /\ pc[h] = "loading" /\ issued' = issued
  BY DEF LoadNothing, server
<1>2. Moved(h)
  BY <1>1, RouteMoves DEF LoadNothing
<1> QED
  BY <1>1, <1>2, QuietStep DEF history, IInv, TypeOK

LEMMA LoadExpiredStep == ASSUME IInv, NEW h \in Handlers, LoadExpired(h) PROVE IInv'
<1>1. UNCHANGED <<cookie, now, server, history>> /\ pc[h] = "loading" /\ issued' = issued
      /\ Goto(h, "dropping", job[h])
  BY DEF LoadExpired, server
<1>2. Moved(h)
  BY <1>1, Busy, GotoMoves DEF Stages
<1> QED
  BY <1>1, <1>2, QuietStep DEF history, IInv, TypeOK

LEMMA LoadValidStep == ASSUME IInv, NEW h \in Handlers, LoadValid(h) PROVE IInv'
<1> DEFINE s == job[h].token
           j == JobOf(s, job[h].kind, now)
<1>1. /\ pc[h] = "loading" /\ Exists(s)
      /\ lastUse' = [lastUse EXCEPT ![s] = now]
      /\ UNCHANGED <<cookie, now, server, ended, excused, failures>>
      /\ issued' = issued /\ row' = row
  BY DEF LoadValid, server
<1>2. s \in Tokens /\ s \in issued /\ now \in Nat /\ job[h].kind \in {"use", "logout"}
  BY <1>1, Busy DEF IInv, TypeOK
<1>3. j \in Job /\ j.token = s /\ j.at = now
  BY <1>2, JobTypes
<1>4. Moved(h) /\ \/ lastUse'[s] <= row[s].lastSeen + SlideAfter
                  \/ lastUse'[s] <= job'[h].at + SlideAfter /\ pc'[h] = "sliding" /\ job'[h].token = s
  <2>1. CASE SlideDue(s)
    <3>1. Goto(h, "sliding", j)
      BY <2>1 DEF LoadValid
    <3>2. Moved(h) /\ pc'[h] = "sliding" /\ job'[h] = j
      <4> HIDE DEF j, s
      <4> QED
        BY <1>1, <1>2, <1>3, <3>1, GotoMoves, Goes DEF Stages, IInv
    <3>3. now <= now + SlideAfter
      BY <1>2, SessionsAssumption
    <3> QED
      BY <1>1, <1>2, <1>3, <3>2, <3>3 DEF IInv, TypeOK
  <2>2. CASE ~SlideDue(s)
    <3>1. Route(h)
      BY <2>2 DEF LoadValid
    <3>2. row[s].lastSeen \in Nat /\ lastUse'[s] = now
      BY <1>1, <1>2, RowTypes DEF IInv, TypeOK
    <3>3. now <= row[s].lastSeen + SlideAfter
      BY <1>2, <2>2, <3>2, SessionsAssumption DEF SlideDue
    <3> QED
      BY <1>1, <3>1, <3>2, <3>3, RouteMoves
  <2> QED
    BY <2>1, <2>2
<1>5. TypeOK'
  BY <1>1, <1>2, <1>4 DEF IInv, TypeOK, Moved, server
<1>6. TokensIssued' /\ EndedIsGone'
  BY <1>1, <1>4, MovedTokens DEF IInv, EndedIsGone, Exists
<1>7. RowsFresh'
  <2> SUFFICES ASSUME NEW t \in Tokens \ excused, Exists(t)'
               PROVE  row'[t].expiresAt = row'[t].lastSeen + TTL /\ Fresh(t)'
    BY <1>1 DEF RowsFresh
  <2>1. row'[t] = row[t] /\ Exists(t) /\ row[t].expiresAt = row[t].lastSeen + TTL /\ Fresh(t)
    BY <1>1 DEF Exists, IInv, RowsFresh
  <2>2. CASE t = s
    BY <1>4, <2>1, <2>2 DEF Fresh
  <2>3. CASE t # s
    <3>1. lastUse'[t] = lastUse[t]
      BY <1>1, <2>3 DEF IInv, TypeOK
    <3>2. \A g \in Handlers : pc[g] = "sliding" => pc'[g] = pc[g] /\ job'[g] = job[g]
      BY <1>1, <1>4 DEF Moved
    <3> QED
      BY <2>1, <3>1, <3>2 DEF Fresh
  <2> QED
    BY <2>2, <2>3
<1> QED
  BY <1>5, <1>6, <1>7 DEF IInv

LEMMA SlideStep == ASSUME IInv, NEW h \in Handlers, Slide(h) PROVE IInv'
<1> DEFINE s == job[h].token
           at == job[h].at
           r == RowOf(at + TTL, at)
<1>1. /\ pc[h] = "sliding" /\ row' = SlideRow(s, at)
      /\ excused' = excused \cup {t \in {s} : at < row[t].lastSeen}
      /\ Route(h) /\ UNCHANGED <<cookie, now, issued, ended, lastUse, failures>>
  BY DEF Slide
<1>2. s \in Tokens /\ at \in Nat
  BY <1>1, Busy
<1>3. r \in Row /\ r.expiresAt = at + TTL /\ r.lastSeen = at
  BY <1>2, RowTypes, SessionsAssumption
<1>4. Moved(h)
  BY <1>1, RouteMoves
<1>5. TypeOK'
  BY <1>1, <1>2, <1>3, <1>4 DEF IInv, TypeOK, Moved, SlideRow
<1>6. TokensIssued' /\ EndedIsGone'
  BY <1>1, <1>2, <1>4, MovedTokens DEF IInv, TypeOK, EndedIsGone, Exists, SlideRow
<1>7. RowsFresh'
  <2> SUFFICES ASSUME NEW t \in Tokens \ excused', Exists(t)'
               PROVE  row'[t].expiresAt = row'[t].lastSeen + TTL /\ Fresh(t)'
    BY DEF RowsFresh
  <2>1. Exists(t)
    BY <1>1, <1>2 DEF Exists, SlideRow, IInv, TypeOK
  <2>2. row[t].expiresAt = row[t].lastSeen + TTL /\ Fresh(t) /\ lastUse'[t] = lastUse[t]
    BY <1>1, <2>1 DEF IInv, RowsFresh
  <2>3. row[t].lastSeen \in Nat /\ lastUse[t] \in Nat
    BY RowTypes DEF IInv, TypeOK
  <2>4. CASE t # s
    <3>1. row'[t] = row[t]
      BY <1>1, <1>2, <2>4 DEF SlideRow, IInv, TypeOK
    <3>2. \A g \in Handlers : job[g].token = t => pc'[g] = pc[g] /\ job'[g] = job[g]
      BY <1>4, <2>4 DEF Moved
    <3> QED
      BY <2>2, <3>1, <3>2 DEF Fresh
  <2>5. CASE t = s
    <3>1. row'[t] = r
      BY <1>1, <1>2, <2>1, <2>5 DEF SlideRow, IInv, TypeOK
    <3>2. row[t].lastSeen <= at
      BY <1>1, <1>2, <2>3, <2>5
    <3>3. CASE lastUse[t] <= row[t].lastSeen + SlideAfter
      <4>1. lastUse[t] <= at + SlideAfter
        BY <1>2, <2>3, <3>2, <3>3, SessionsAssumption
      <4> QED
        BY <1>3, <2>2, <3>1, <4>1 DEF Fresh
    <3>4. CASE \E g \in Handlers : /\ pc[g] = "sliding" /\ job[g].token = t
                                   /\ lastUse[t] <= job[g].at + SlideAfter
      <4>1. PICK g \in Handlers : /\ pc[g] = "sliding" /\ job[g].token = t
                                  /\ lastUse[t] <= job[g].at + SlideAfter
        BY <3>4
      <4>2. CASE g = h
        BY <1>3, <2>2, <3>1, <4>1, <4>2 DEF Fresh
      <4>3. CASE g # h
        <5>1. pc'[g] = pc[g] /\ job'[g] = job[g]
          BY <1>4, <4>3 DEF Moved
        <5> QED
          BY <1>3, <2>2, <3>1, <4>1, <5>1 DEF Fresh
      <4> QED
        BY <4>2, <4>3
    <3> QED
      BY <2>2, <3>3, <3>4 DEF Fresh
  <2> QED
    BY <2>4, <2>5
<1> QED
  BY <1>5, <1>6, <1>7 DEF IInv

\* A logout or an expiry deletes the row.
LEMMA EndStep == ASSUME IInv, NEW h \in Handlers, Drop(h) \/ Destroy(h) PROVE IInv'
<1> DEFINE s == job[h].token
<1>1. /\ pc[h] \in {"dropping", "destroying"}
      /\ row' = [row EXCEPT ![s] = NoRow] /\ ended' = ended \cup {s}
      /\ UNCHANGED <<cookie, now, issued, lastUse, excused, failures>>
  BY DEF Drop, Destroy
<1>2. s \in Tokens /\ s \in issued
  BY <1>1, Busy
<1>3. Moved(h)
  <2>1. CASE Drop(h)
    BY <1>1, <2>1, RouteMoves DEF Drop
  <2>2. CASE Destroy(h)
    BY <1>1, <1>2, <2>2, Busy, GotoMoves DEF Destroy, Stages
  <2> QED
    BY <2>1, <2>2
<1>4. TypeOK'
  BY <1>1, <1>2, <1>3, RowTypes DEF IInv, TypeOK, Moved
<1>5. TokensIssued' /\ EndedIsGone'
  BY <1>1, <1>2, <1>3, MovedTokens, RowTypes DEF IInv, TypeOK, EndedIsGone, Exists
<1>6. RowsFresh'
  <2> SUFFICES ASSUME NEW t \in Tokens \ excused, Exists(t)'
               PROVE  row'[t].expiresAt = row'[t].lastSeen + TTL /\ Fresh(t)'
    BY <1>1 DEF RowsFresh
  <2>1. t # s
    BY <1>1, <1>2, RowTypes DEF Exists, IInv, TypeOK
  <2>2. row'[t] = row[t] /\ lastUse'[t] = lastUse[t]
    BY <1>1, <2>1 DEF IInv, TypeOK
  <2>3. Exists(t) /\ row[t].expiresAt = row[t].lastSeen + TTL /\ Fresh(t)
    BY <2>2 DEF Exists, IInv, RowsFresh
  <2>4. \A g \in Handlers : pc[g] = "sliding" => pc'[g] = pc[g] /\ job'[g] = job[g]
    BY <1>1, <1>3 DEF Moved
  <2> QED
    BY <2>2, <2>3, <2>4 DEF Fresh
<1> QED
  BY <1>4, <1>5, <1>6 DEF IInv

LEMMA FailureStep == ASSUME IInv, NEW h \in Handlers, CallFails(h) \/ Die(h) PROVE IInv'
<1>1. /\ pc[h] # "idle" /\ Fails /\ issued' = issued
      /\ excused' = excused \cup {s \in {job[h].token} : pc[h] = "sliding"}
      /\ UNCHANGED <<cookie, now, server, ended, lastUse>>
  BY DEF CallFails, Die, server
<1>2. job[h].token \in Tokens /\ job[h].token \in issued /\ job[h] \in Job
  BY <1>1, Busy
<1>3. Moved(h)
  <2>1. CASE CallFails(h)
    <3>1. CASE pc[h] = "destroying"
      BY <1>1, <1>2, <2>1, <3>1, GotoMoves DEF CallFails, Stages
    <3>2. CASE pc[h] # "destroying"
      BY <1>1, <2>1, <3>2, RouteMoves DEF CallFails
    <3> QED
      BY <3>1, <3>2
  <2>2. CASE Die(h)
    BY <2>2, FinishMoves DEF Die
  <2> QED
    BY <1>1, <2>1, <2>2
<1>4. excused' \subseteq Tokens /\ failures' \in Nat
  BY <1>1, <1>2 DEF Fails, IInv, TypeOK
<1>5. pc[h] = "sliding" => job[h].token \in excused'
  BY <1>1
<1> QED
  BY <1>1, <1>3, <1>4, <1>5, QuietStep DEF IInv, TypeOK

LEMMA TickStep == ASSUME IInv, Tick PROVE IInv'
<1>1. TypeOK'
  BY DEF Tick, IInv, TypeOK, server, history
<1>2. TokensIssued' /\ EndedIsGone'
  BY DEF Tick, IInv, TokensIssued, EndedIsGone, Exists, server, history
<1>3. RowsFresh'
  BY DEF Tick, IInv, RowsFresh, Fresh, Exists, server, history
<1> QED
  BY <1>1, <1>2, <1>3 DEF IInv

LEMMA StutterStep == ASSUME IInv, UNCHANGED vars PROVE IInv'
  BY DEF IInv, TypeOK, TokensIssued, EndedIsGone, RowsFresh, Fresh, Exists, vars

LEMMA NextIInv == IInv /\ [Next]_vars => IInv'
<1> SUFFICES ASSUME IInv, [Next]_vars PROVE IInv'
  OBVIOUS
<1>1. ASSUME NEW h \in Handlers,
             \/ SignIn(h) \/ SignInAnswer(h)
             \/ Send(h) \/ LoadNothing(h) \/ LoadExpired(h) \/ LoadValid(h)
             \/ Slide(h) \/ Drop(h)
             \/ Destroy(h) \/ LogoutAnswer(h)
             \/ CallFails(h) \/ Die(h)
      PROVE  IInv'
  BY <1>1, SignInStep, AnswerStep, SendStep, LoadNothingStep, LoadExpiredStep, LoadValidStep,
     SlideStep, EndStep, FailureStep
<1> QED
  BY <1>1, TickStep, StutterStep DEF Next

THEOREM Invariance == Spec => []IInv
  BY InitIInv, NextIInv, PTL DEF Spec

-----------------------------------------------------------------------------
(* Theorems *)

\* Sessions keeps its types, however requests interleave and fail.
THEOREM TypeCorrect == Spec => []TypeOK
<1>1. IInv => TypeOK
  BY DEF IInv
<1> QED
  BY <1>1, Invariance, PTL

\* A session that a logout or an expiry has ended authenticates no request again: its
\* token is not issued twice, and no slide brings its row back (loadSessionUser updates
\* by id, and swallows that there is none).
THEOREM Ended == Spec => EndedStaysEnded
<1>1. ASSUME IInv, NEW h \in Handlers, LoadValid(h) PROVE job[h].token \notin ended
  BY <1>1 DEF IInv, EndedIsGone, LoadValid
<1>2. IInv /\ [Next]_vars => [\A h \in Handlers : LoadValid(h) => job[h].token \notin ended]_vars
  BY <1>1
<1> QED
  BY <1>2, Invariance, PTL DEF Spec, EndedStaysEnded

\* A session is refused as expired only after no request has used it for its term less
\* the hour, but for slides that failed, were overtaken or are in flight.
THEOREM Used == Spec => UsedStaysValid
<1>1. ASSUME IInv, NEW h \in Handlers, LoadExpired(h),
             job[h].token \notin excused,
             ~ \E g \in Handlers : pc[g] = "sliding" /\ job[g].token = job[h].token
      PROVE  now - lastUse[job[h].token] > TTL - SlideAfter
  <2> DEFINE s == job[h].token
  <2>1. s \in Tokens /\ Exists(s) /\ row[s].expiresAt < now
    BY <1>1, Busy DEF LoadExpired
  <2>2. row[s].expiresAt = row[s].lastSeen + TTL /\ lastUse[s] <= row[s].lastSeen + SlideAfter
    BY <1>1, <2>1 DEF IInv, RowsFresh, Fresh
  <2>3. row[s].lastSeen \in Nat /\ lastUse[s] \in Nat /\ now \in Nat
    BY <1>1, <2>1, RowTypes DEF IInv, TypeOK
  <2> HIDE DEF s
  <2>4. now - lastUse[s] > TTL - SlideAfter
    BY <2>1, <2>2, <2>3, SessionsAssumption
  <2> QED
    BY <2>4 DEF s
<1>2. IInv /\ [Next]_vars =>
        [\A h \in Handlers :
            LoadExpired(h) =>
               LET s == job[h].token IN
               \/ now - lastUse[s] > TTL - SlideAfter
               \/ s \in excused
               \/ \E g \in Handlers : pc[g] = "sliding" /\ job[g].token = s]_vars
  BY <1>1
<1> QED
  BY <1>2, Invariance, PTL DEF Spec, UsedStaysValid

-----------------------------------------------------------------------------
(* Purse.  Every step changes one request and whatever it is answered with, *)
(* so the invariant says of each request what it may be counted for         *)
(* (Plain), whether its answer still holds (StillTrue) and, of two that are *)
(* under way, that they have met unless both only read (Apart).  The        *)
(* balance on show is then kept step by step: a step either moves it with   *)
(* the account and what is owed (Follows), or sets it to an answer that     *)
(* nothing has overtaken (Sets), and then nothing is owed.                  *)

\* What each request still owes the balance on show.
Owed(r) == [l \in Slots |-> r[l].guess - r[l].fill]

PurseTypes ==
    /\ balance \in Int /\ session \in BOOLEAN /\ prize \in Nat /\ due \in BOOLEAN
    /\ signedIn \in BOOLEAN /\ shown \in Int
    /\ req \in [Slots -> Request]
    /\ sent \in Nat /\ behind \in Int /\ crossed \in BOOLEAN /\ untold \in BOOLEAN

\* A request that has not met another was alone, or among reads.
Apart ==
    \A l, k \in Slots :
        l # k /\ l \in UnderWay /\ k \in UnderWay /\ ~req[l].met =>
            req[l].kind \in Reads /\ req[k].kind \in Reads

\* Only trades are counted in advance, only what was served has been filled.
Plain(r) ==
    /\ r.stage = "idle" => r.guess = 0
    /\ r.stage # "served" => r.fill = 0
    /\ r.kind \notin Trades => r.guess = 0
    /\ r.kind \in Reads \cup {"login", "logout"} => r.fill = 0

\* There is a session, or its end has not come to the tab.
Alive == session \/ untold

\* The answer to a request that has met none is still true.
StillTrue(r, chips, alive) ==
    r.stage = "served" /\ ~r.met =>
        /\ r.answer = chips
        /\ r.kind # "logout" => alive

Accounted ==
    signedIn /\ ~crossed => shown + behind = balance + SumFunction(Owed(req))

Leaving == \E l \in UnderWay : req[l].kind = "logout"
HasSession == signedIn /\ ~crossed => Alive \/ Leaving

PurseInv ==
    /\ PurseTypes
    /\ Apart
    /\ \A l \in Slots : Plain(req[l]) /\ StillTrue(req[l], balance, Alive)
    /\ Accounted
    /\ HasSession

LEMMA OwedSum ==
    ShownAccountedFor <=> Accounted
<1>1. IsFiniteSet(Slots)
  BY PurseAssumption
<1> DEFINE S(h) == h = [s \in SUBSET Slots |->
                         IF s = {} THEN 0 ELSE (req[Pick(s)].guess - req[Pick(s)].fill) + h[s \ {Pick(s)}]]
<1>2. \A h : S(h) <=> SumsUp(h, Owed(req), Slots)
  BY PickIn DEF SumsUp, Owed
<1>3. MapThenSumSet(LAMBDA l : req[l].guess - req[l].fill, Slots) = (CHOOSE h : S(h))[Slots]
  BY DEF MapThenSumSet, MapThenFoldSet, Pick
<1>4. DOMAIN Owed(req) = Slots
  BY DEF Owed
<1>5. \E h : S(h)
  BY <1>1, <1>2, SumsExist
<1> HIDE DEF S
<1>6. PICK g : g = (CHOOSE h : S(h)) /\ S(g)
  BY <1>5
<1>7. MapThenSumSet(LAMBDA l : req[l].guess - req[l].fill, Slots) = SumFunction(Owed(req))
  <2>1. g[Slots] = SumFunctionOnSet(Owed(req), Slots)
    BY <1>1, <1>2, <1>6, SumChosen
  <2>2. SumFunction(Owed(req)) = SumFunctionOnSet(Owed(req), Slots)
    BY <1>4 DEF SumFunction
  <2> QED BY <1>3, <1>6, <2>1, <2>2
<1> QED BY <1>7, Zenon DEF ShownAccountedFor, Accounted

\* A step changes one request; others learn at most that they have met it.
Moves(l, r) ==
    /\ req' \in [Slots -> Request]
    /\ req'[l] = r
    /\ \A k \in Slots \ {l} : req'[k] = req[k] \/ req'[k] = [req[k] EXCEPT !.met = TRUE]

Owes(r) == r.guess - r.fill

LEMMA OwedMoves ==
    ASSUME PurseTypes, NEW l \in Slots, NEW r \in Request, Moves(l, r)
    PROVE  /\ SumFunction(Owed(req)) \in Int
           /\ SumFunction(Owed(req')) = SumFunction(Owed(req)) + (Owes(r) - Owes(req[l]))
<1>1. IsFiniteSet(Slots)
  BY PurseAssumption
<1>2. PICK f, g : f = Owed(req) /\ g = Owed(req')
  OBVIOUS
<1>3. f \in [Slots -> Int] /\ g \in [Slots -> Int]
  BY <1>2 DEF Owed, PurseTypes, Moves, Request
<1>4. \A k \in Slots \ {l} : g[k] = f[k]
  <2> SUFFICES ASSUME NEW k \in Slots \ {l} PROVE g[k] = f[k]
    OBVIOUS
  <2>1. req[k] \in Request
    BY DEF PurseTypes
  <2>2. req'[k].guess = req[k].guess /\ req'[k].fill = req[k].fill
    BY <2>1 DEF Moves, Request
  <2> QED BY <1>2, <2>2 DEF Owed
<1>5. PICK d \in Int : d = Owes(r) - Owes(req[l])
  BY DEF PurseTypes, Request, Owes
<1>6. g[l] = f[l] + d
  <2>1. req[l].guess \in Int /\ req[l].fill \in Int /\ r.guess \in Int /\ r.fill \in Int
    BY DEF PurseTypes, Request
  <2>2. f[l] = req[l].guess - req[l].fill /\ g[l] = r.guess - r.fill
    BY <1>2 DEF Owed, Moves
  <2> QED BY <1>5, <2>1, <2>2 DEF Owes
<1>7. SumFunction(g) = SumFunction(f) + d
  BY <1>1, <1>3, <1>4, <1>6, SumChange
<1>8. SumFunction(f) \in Int
  <2>1. SumFunctionOnSet(f, Slots) \in Int
    BY <1>1, <1>3, SumInt
  <2>2. DOMAIN f = Slots
    BY <1>3
  <2> QED BY <2>1, <2>2 DEF SumFunction
<1> QED BY <1>2, <1>5, <1>7, <1>8

\* A request that goes on, or is over.
LEMMA SettleMoves ==
    ASSUME PurseTypes, Apart, NEW l \in Slots, NEW r \in Request, req' = [req EXCEPT ![l] = r],
           \/ r.stage = "idle"
           \/ l \in UnderWay /\ r.kind = req[l].kind /\ r.met = req[l].met
    PROVE  Moves(l, r) /\ Apart'
<1>1. Moves(l, r)
  BY DEF PurseTypes, Moves
<1>2. \A k \in Slots : k \in UnderWay' => /\ k \in UnderWay
                                          /\ req'[k].kind = req[k].kind /\ req'[k].met = req[k].met
  BY DEF PurseTypes, UnderWay
<1> QED BY <1>1, <1>2 DEF Apart

\* A new request, in a slot of its own or in that of one that is over.
LEMMA CarryMoves ==
    ASSUME PurseTypes, Apart, NEW l \in Slots, NEW kind \in Kinds, NEW guess \in Int,
           Carry(l, kind, guess)
    PROVE  /\ Moves(l, req'[l])
           /\ req'[l] \in Request /\ req'[l].stage = "sent" /\ req'[l].kind = kind
           /\ req'[l].guess = guess /\ req'[l].fill = 0
           /\ Apart'
<1>1. \A k \in Slots : req[k] \in Request
  BY DEF PurseTypes
<1>2. Meeting(l, kind) \in BOOLEAN
  BY DEF Meeting
<1>3. /\ req'[l] = RequestOf(kind, "sent", guess, 0, 0, Meeting(l, kind))
      /\ req'[l].met <=> Meeting(l, kind)
      /\ req'[l].kind = kind
  <2>1. req'[l] = RequestOf(kind, "sent", guess, 0, 0, Meeting(l, kind))
    BY DEF Carry
  <2>2. PICK m : m = Meeting(l, kind)
    OBVIOUS
  <2>3. req'[l].met = m /\ req'[l].kind = kind
    BY <2>1, <2>2 DEF RequestOf
  <2> QED BY <2>1, <2>2, <2>3, Zenon
<1>4. req'[l] \in Request
  BY <1>2, <1>3 DEF RequestOf, Request
<1>5. ASSUME NEW k \in Slots \ {l}
      PROVE  /\ req'[k] = req[k] \/ req'[k] = [req[k] EXCEPT !.met = TRUE]
             /\ k \in UnderWay /\ Meeting(l, kind) => req'[k].met
             /\ req'[k].kind = req[k].kind /\ (k \in UnderWay' <=> k \in UnderWay)
             /\ req[k].met => req'[k].met
             /\ req'[k] \in Request
  <2>1. req'[k] = IF k \in Others(l) /\ Meeting(l, kind) THEN [req[k] EXCEPT !.met = TRUE]
                  ELSE req[k]
    BY DEF Carry
  <2>2. k \in Others(l) <=> k \in UnderWay
    BY DEF Others
  <2> HIDE DEF Meeting
  <2> QED BY <1>1, <2>1, <2>2 DEF Request, UnderWay
<1>6. Moves(l, req'[l])
  <2>1. DOMAIN req' = Slots /\ req' = [k \in Slots |-> req'[k]]
    BY DEF Carry
  <2>2. \A k \in Slots : req'[k] \in Request
    BY <1>4, <1>5
  <2> QED BY <1>5, <2>1, <2>2 DEF Moves
<1>7. ASSUME NEW k \in Slots \ {l}, k \in UnderWay
      PROVE  \/ kind \in Reads /\ req[k].kind \in Reads
             \/ req'[l].met /\ req'[k].met
  <2>1. CASE Meeting(l, kind)
    <3>1. req'[l].met /\ req'[k].met
      BY <1>3, <1>5, <1>7, <2>1, Zenon
    <3> QED BY <3>1
  <2>2. CASE ~Meeting(l, kind)
    <3>1. kind \notin Disturbing /\ req[k].kind \notin Disturbing
      BY <1>7, <2>2 DEF Meeting, Others
    <3> QED BY <1>1, <3>1 DEF Disturbing, Request
  <2> QED BY <2>1, <2>2
<1>8. Apart'
  <2> SUFFICES ASSUME NEW i \in Slots, NEW k \in Slots, i # k, i \in UnderWay', k \in UnderWay',
                      ~req'[i].met
               PROVE  req'[i].kind \in Reads /\ req'[k].kind \in Reads
    BY DEF Apart
  <2>1. CASE i # l /\ k # l
    BY <1>5, <2>1 DEF Apart
  <2>2. CASE i = l
    <3>1. k \in Slots \ {l} /\ k \in UnderWay
      BY <1>5, <2>2
    <3> QED BY <1>3, <1>5, <1>7, <2>2, <3>1, Zenon
  <2>3. CASE k = l
    <3>1. i \in Slots \ {l} /\ i \in UnderWay
      BY <1>5, <2>3
    <3> QED BY <1>3, <1>5, <1>7, <2>3, <3>1, Zenon
  <2> QED BY <2>1, <2>2, <2>3
<1> QED BY <1>3, <1>4, <1>6, <1>8 DEF RequestOf

\* No other request has an answer to come.
Quiet(l) == \A k \in Slots \ {l} : req[k].stage # "served"

\* What every step has to keep, beyond the types.
LEMMA StepKeeps ==
    ASSUME PurseInv, PurseTypes', NEW l \in Slots, NEW r \in Request, Moves(l, r), Apart',
           Plain(r), StillTrue(r, balance', Alive'),
           \/ balance' = balance /\ (Alive => Alive' \/ Quiet(l))
           \/ l \in UnderWay /\ req[l].kind \in Disturbing
    PROVE  /\ Apart' /\ \A k \in Slots : Plain(req'[k]) /\ StillTrue(req'[k], balance', Alive')
           /\ SumFunction(Owed(req')) = SumFunction(Owed(req)) + (Owes(r) - Owes(req[l]))
           /\ SumFunction(Owed(req)) \in Int
<1>1. ASSUME NEW k \in Slots \ {l} PROVE Plain(req'[k]) /\ StillTrue(req'[k], balance', Alive')
  <2>1. req[k] \in Request /\ Plain(req[k]) /\ StillTrue(req[k], balance, Alive)
    BY DEF PurseInv, PurseTypes
  <2>2. /\ req'[k].stage = req[k].stage /\ req'[k].kind = req[k].kind
        /\ req'[k].guess = req[k].guess /\ req'[k].fill = req[k].fill
        /\ req'[k].answer = req[k].answer /\ (req[k].met => req'[k].met)
    BY <2>1 DEF Moves, Request
  <2>3. Plain(req'[k])
    BY <2>1, <2>2 DEF Plain
  <2>4. StillTrue(req'[k], balance', Alive')
    <3>1. CASE balance' = balance /\ (Alive => Alive' \/ Quiet(l))
      <4>1. req'[k].stage # "served" \/ (Alive => Alive')
        BY <2>2, <3>1 DEF Quiet
      <4> QED BY <2>1, <2>2, <3>1, <4>1 DEF StillTrue
    <3>2. CASE l \in UnderWay /\ req[l].kind \in Disturbing
      <4>1. k \in UnderWay => req[k].met
        BY <3>2 DEF PurseInv, Apart, Disturbing
      <4>2. req'[k].stage = "served" => k \in UnderWay
        BY <2>2 DEF UnderWay
      <4> QED BY <2>2, <4>1, <4>2 DEF StillTrue
    <3> QED BY <3>1, <3>2
  <2> QED BY <2>3, <2>4
<1>2. Plain(req'[l]) /\ StillTrue(req'[l], balance', Alive')
  BY DEF Moves, StillTrue
<1> QED BY <1>1, <1>2, OwedMoves DEF PurseInv

\* A balance that was set by an answer that met no other request is the account's.
LEMMA SetKeeps ==
    ASSUME PurseInv, PurseTypes', NEW l \in Slots, NEW r \in Request, Moves(l, r),
           r.guess = 0, r.fill = 0, req[l].stage = "served", ~req[l].met
    PROVE  SumFunction(Owed(req')) = 0 /\ req[l].answer = balance
<1>1. PICK f : f = Owed(req')
  OBVIOUS
<1>2. ASSUME NEW k \in Slots PROVE f[k] = 0
  <2>1. CASE k = l
    BY <1>1, <2>1 DEF Moves, Owed
  <2>2. CASE k # l
    <3>1. req[k] \in Request /\ Plain(req[k])
      BY DEF PurseInv, PurseTypes
    <3>2. req'[k].guess = req[k].guess /\ req'[k].fill = req[k].fill
      BY <2>2, <3>1 DEF Moves, Request
    <3>3. k \in UnderWay => req[k].kind \in Reads
      BY <2>2 DEF PurseInv, Apart, UnderWay
    <3>4. req[k].guess = 0 /\ req[k].fill = 0
      BY <3>1, <3>3 DEF Plain, UnderWay, Reads, Trades
    <3> QED BY <1>1, <3>2, <3>4 DEF Owed
  <2> QED BY <2>1, <2>2
<1>3. SumFunctionOnSet(f, Slots) = 0
  <2>1. IsFiniteSet(Slots)
    BY PurseAssumption
  <2>2. PICK z \in Int : z = 0
    OBVIOUS
  <2>3. \A k \in Slots : f[k] = z
    BY <1>2, <2>2
  <2>4. SumFunctionOnSet(f, Slots) = z * Cardinality(Slots) /\ Cardinality(Slots) \in Nat
    BY <2>1, <2>3, SumConstant, FS_CardinalityType
  <2>5. z * Cardinality(Slots) = 0
    BY <2>2, <2>4
  <2> QED BY <2>4, <2>5
<1>4. DOMAIN f = Slots
  BY <1>1 DEF Owed
<1>5. StillTrue(req[l], balance, Alive)
  BY DEF PurseInv
<1> QED BY <1>1, <1>3, <1>4, <1>5 DEF SumFunction, StillTrue

\* The balance on show is set to the answer of a request that met no other.
Sets(l, r) ==
    /\ req[l].stage = "served" /\ ~req[l].met /\ req[l].kind # "logout"
    /\ r.guess = 0 /\ r.fill = 0
    /\ shown' = req[l].answer /\ behind' = 0
    /\ UNCHANGED <<balance, session, untold>>

\* It moves with the account and with what is owed, and whoever signs out is under way.
Follows(l, r) ==
    /\ signedIn /\ ~crossed
    /\ shown' + behind' = shown + behind + (balance' - balance) + (Owes(r) - Owes(req[l]))
    /\ Alive \/ (l \in UnderWay /\ req[l].kind = "logout") =>
          Alive' \/ (r.stage # "idle" /\ r.kind = "logout")

LEMMA Kept ==
    ASSUME PurseInv, PurseTypes', NEW l \in Slots, NEW r \in Request, Moves(l, r), Apart',
           Plain(r), StillTrue(r, balance', Alive'),
           \/ balance' = balance /\ (Alive => Alive' \/ Quiet(l))
           \/ l \in UnderWay /\ req[l].kind \in Disturbing,
           signedIn' /\ ~crossed' => Sets(l, r) \/ Follows(l, r)
    PROVE  PurseInv'
<1>1. /\ Apart' /\ \A k \in Slots : Plain(req'[k]) /\ StillTrue(req'[k], balance', Alive')
      /\ SumFunction(Owed(req')) = SumFunction(Owed(req)) + (Owes(r) - Owes(req[l]))
      /\ SumFunction(Owed(req)) \in Int
  BY StepKeeps
<1>2. ASSUME signedIn', ~crossed', Sets(l, r)
      PROVE  shown' + behind' = balance' + SumFunction(Owed(req')) /\ Alive'
  <2>1. SumFunction(Owed(req')) = 0 /\ req[l].answer = balance
    BY <1>2, SetKeeps DEF Sets
  <2>2. shown' = balance' /\ behind' = 0 /\ balance' \in Int
    BY <1>2, <2>1 DEF Sets, PurseTypes
  <2>3. StillTrue(req[l], balance, Alive)
    BY DEF PurseInv
  <2>4. Alive'
    BY <1>2, <2>3 DEF Sets, StillTrue, Alive
  <2> QED BY <2>1, <2>2, <2>4
<1>3. ASSUME signedIn', ~crossed', Follows(l, r)
      PROVE  /\ shown' + behind' = balance' + SumFunction(Owed(req'))
             /\ Alive' \/ Leaving'
  <2>1. shown + behind = balance + SumFunction(Owed(req)) /\ (Alive \/ Leaving)
    BY <1>3 DEF Follows, PurseInv, Accounted, HasSession
  <2>2. shown' + behind' = balance' + SumFunction(Owed(req'))
    <3>1. Owes(r) \in Int /\ Owes(req[l]) \in Int
      BY DEF PurseInv, PurseTypes, Request, Owes
    <3>2. PICK a, b, s \in Int : a = Owes(r) /\ b = Owes(req[l]) /\ s = SumFunction(Owed(req))
      BY <1>1, <3>1
    <3>3. /\ balance \in Int /\ balance' \in Int /\ shown \in Int /\ behind \in Int
          /\ shown' \in Int /\ behind' \in Int
      BY DEF PurseInv, PurseTypes
    <3>4. /\ shown' + behind' = shown + behind + (balance' - balance) + (a - b)
          /\ shown + behind = balance + s /\ SumFunction(Owed(req')) = s + (a - b)
      BY <1>1, <1>3, <2>1, <3>2 DEF Follows
    <3> QED BY <3>2, <3>3, <3>4
  <2>3. Alive' \/ Leaving'
    <3>1. r.stage # "idle" /\ r.kind = "logout" => Leaving'
      BY DEF Moves, Leaving, UnderWay
    <3>2. ASSUME NEW k \in Slots \ {l}, k \in UnderWay, req[k].kind = "logout"
          PROVE  Leaving'
      <4>1. req[k] \in Request
        BY DEF PurseInv, PurseTypes
      <4>2. req'[k].kind = "logout" /\ req'[k].stage # "idle"
        BY <3>2, <4>1 DEF Moves, Request, UnderWay
      <4> QED BY <4>2 DEF Leaving, UnderWay
    <3>3. CASE Alive
      BY <1>3, <3>1, <3>3 DEF Follows
    <3>4. CASE Leaving
      <4>1. PICK k \in UnderWay : req[k].kind = "logout"
        BY <3>4 DEF Leaving
      <4>2. CASE k = l
        BY <1>3, <3>1, <4>1, <4>2 DEF Follows
      <4>3. CASE k # l
        BY <3>2, <4>1, <4>3 DEF UnderWay
      <4> QED BY <4>2, <4>3
    <3> QED BY <2>1, <3>3, <3>4
  <2> QED BY <2>2, <2>3
<1>4. Accounted' /\ HasSession'
  BY <1>2, <1>3 DEF Accounted, HasSession
<1> QED BY <1>1, <1>4 DEF PurseInv

\* A request is sent: the tab counts it in advance.
LEMMA IssueKeeps ==
    ASSUME PurseInv, NEW l \in Slots, NEW kind \in Kinds \ Reads, NEW guess \in Int,
           guess = 0 \/ kind \in Trades,
           Issue(l, kind, guess), shown' = shown + guess
    PROVE  PurseInv'
<1>1. /\ req[l].stage = "idle" /\ Carry(l, kind, guess)
      /\ UNCHANGED <<balance, session, prize, due, signedIn, behind, crossed, untold>>
      /\ sent' = sent + 1
  BY DEF Issue, account
<1>2. PurseTypes /\ Apart /\ Plain(req[l])
  BY DEF PurseInv
<1>3. PICK r : r = req'[l]
  OBVIOUS
<1>4. /\ Moves(l, r) /\ r \in Request /\ r.stage = "sent" /\ r.kind = kind
      /\ r.guess = guess /\ r.fill = 0 /\ Apart'
  BY <1>1, <1>2, <1>3, CarryMoves
<1>5. PurseTypes'
  BY <1>1, <1>2, <1>4 DEF PurseTypes, Moves
<1>6. Plain(r) /\ StillTrue(r, balance', Alive')
  BY <1>4 DEF Plain, StillTrue
<1>7. Owes(req[l]) = 0 /\ Owes(r) = guess
  BY <1>1, <1>2, <1>4 DEF Plain, Owes
<1>9. Alive' <=> Alive
  BY <1>1 DEF Alive
<1>8. signedIn' /\ ~crossed' => Follows(l, r)
  <2>1. shown' + behind' = shown + behind + (balance' - balance) + (Owes(r) - Owes(req[l]))
    BY <1>1, <1>2, <1>7 DEF PurseTypes
  <2>2. l \notin UnderWay /\ signedIn' = signedIn /\ crossed' = crossed
    BY <1>1 DEF UnderWay
  <2> QED BY <1>9, <2>1, <2>2 DEF Follows
<1> QED BY <1>1, <1>4, <1>5, <1>6, <1>8, <1>9, Kept

LEMMA SendKeeps ==
    ASSUME PurseInv, NEW l \in Slots,
           \/ \E a \in Amounts : Buy(l, a) \/ Sell(l, a)
           \/ Claim(l) \/ ClaimBonus(l) \/ LogIn(l) \/ LogOut(l)
    PROVE  PurseInv'
<1>1. shown \in Int /\ Amounts \subseteq Int
  BY PurseAssumption DEF PurseInv, PurseTypes
<1>2. ASSUME NEW a \in Amounts, Buy(l, a) PROVE PurseInv'
  <2>1. PICK m \in Int : m = -a
    BY <1>1
  <2>2. Issue(l, "buy", m) /\ shown' = shown + m
    BY <1>1, <1>2, <2>1 DEF Buy
  <2> QED BY <2>2, IssueKeeps DEF Kinds, Trades, Reads
<1>3. ASSUME NEW a \in Amounts, Sell(l, a) PROVE PurseInv'
  <2>1. a \in Int /\ Issue(l, "sell", a) /\ shown' = shown + a
    BY <1>1, <1>3 DEF Sell
  <2> QED BY <2>1, IssueKeeps DEF Kinds, Trades, Reads
<1>4. ASSUME NEW kind \in Kinds \ Reads, Ask(l, kind) PROVE PurseInv'
  <2>1. Issue(l, kind, 0) /\ shown' = shown + 0
    BY <1>1, <1>4 DEF Ask
  <2> QED BY <2>1, IssueKeeps
<1> QED BY <1>2, <1>3, <1>4 DEF Claim, ClaimBonus, LogIn, LogOut, Kinds, Reads

\* The answer of a request as it is served.
LEMMA ServedRequest ==
    ASSUME PurseInv, NEW l \in Slots, req[l].stage = "sent", NEW fill \in Int, NEW answer \in Int,
           Answered(l, fill, answer)
    PROVE  \E r \in Request :
              /\ req' = [req EXCEPT ![l] = r] /\ Moves(l, r) /\ Apart'
              /\ r = RequestOf(req[l].kind, "served", req[l].guess, fill, answer, req[l].met)
              /\ Owes(r) - Owes(req[l]) = -fill
<1>1. req[l] \in Request /\ PurseTypes /\ Apart /\ Plain(req[l])
  BY DEF PurseInv, PurseTypes
<1>2. PICK r : r = RequestOf(req[l].kind, "served", req[l].guess, fill, answer, req[l].met)
  OBVIOUS
<1>3. r \in Request /\ r.kind = req[l].kind /\ r.met = req[l].met /\ l \in UnderWay
  BY <1>1, <1>2 DEF RequestOf, Request, UnderWay
<1>4. req' = [req EXCEPT ![l] = r]
  BY <1>1, <1>2 DEF Answered, PurseTypes
<1>5. Moves(l, r) /\ Apart'
  BY <1>1, <1>3, <1>4, SettleMoves
<1>6. Owes(r) - Owes(req[l]) = -fill
  BY <1>1, <1>2 DEF Owes, RequestOf, Plain, Request
<1> QED BY <1>2, <1>3, <1>4, <1>5, <1>6

\* Whatever is served, the account changes by what the request is filled with.
LEMMA ServeKeeps ==
    ASSUME PurseInv, NEW l \in Slots, req[l].stage = "sent", NEW fill \in Int,
           Answered(l, fill, balance + fill), balance' = balance + fill,
           req[l].kind \in Reads \cup {"login", "logout"} => fill = 0,
           session' \in BOOLEAN, untold' \in BOOLEAN, prize' \in Nat, due' \in BOOLEAN,
           req[l].kind # "logout" => session',
           UNCHANGED <<tab, sent, behind, crossed>>
    PROVE  PurseInv'
<1>1. PurseTypes /\ req[l] \in Request /\ balance \in Int /\ Plain(req[l])
  BY DEF PurseInv, PurseTypes
<1>2. PICK r \in Request :
          /\ req' = [req EXCEPT ![l] = r] /\ Moves(l, r) /\ Apart'
          /\ r = RequestOf(req[l].kind, "served", req[l].guess, fill, balance + fill, req[l].met)
          /\ Owes(r) - Owes(req[l]) = -fill
  BY <1>1, ServedRequest
<1>3. PurseTypes'
  BY <1>1, <1>2 DEF PurseTypes, Moves, tab
<1>4. /\ r.stage = "served" /\ r.kind = req[l].kind /\ r.guess = req[l].guess
      /\ r.fill = fill /\ r.answer = balance'
  BY <1>2 DEF RequestOf
<1>5. Plain(r)
  BY <1>1, <1>4 DEF Plain
<1>6. StillTrue(r, balance', Alive')
  BY <1>4 DEF StillTrue, Alive
<1>7. \/ balance' = balance /\ (Alive => Alive' \/ Quiet(l))
      \/ l \in UnderWay /\ req[l].kind \in Disturbing
  <2>1. CASE req[l].kind \in Reads
    <3>1. fill = 0 /\ Alive'
      BY <2>1 DEF Reads, Alive
    <3> QED BY <1>1, <3>1
  <2>2. CASE req[l].kind \notin Reads
    BY <1>1, <2>2 DEF Disturbing, Request, UnderWay
  <2> QED BY <2>1, <2>2
<1>8. signedIn' /\ ~crossed' => Follows(l, r)
  <2>1. signedIn' = signedIn /\ crossed' = crossed /\ shown' = shown /\ behind' = behind
    BY DEF tab
  <2>2. shown' + behind' = shown + behind + (balance' - balance) + (Owes(r) - Owes(req[l]))
    BY <1>1, <1>2, <2>1 DEF PurseTypes
  <2>3. Alive' \/ (r.stage # "idle" /\ r.kind = "logout")
    BY <1>4 DEF Alive
  <2> QED BY <2>1, <2>2, <2>3 DEF Follows
<1> QED BY <1>2, <1>3, <1>5, <1>6, <1>7, <1>8, Kept

LEMMA ServeStep == ASSUME PurseInv, NEW l \in Slots, Serve(l) PROVE PurseInv'
<1>1. /\ req[l].stage = "sent" /\ (req[l].kind \notin {"login", "logout"} => session)
      /\ untold' = (untold /\ req[l].kind \notin {"login", "logout"})
      /\ UNCHANGED <<tab, sent, behind, crossed>>
  BY DEF Serve
<1>2. /\ balance \in Int /\ session \in BOOLEAN /\ prize \in Nat /\ due \in BOOLEAN
      /\ req[l] \in Request /\ untold' \in BOOLEAN
  BY <1>1, Zenon DEF PurseInv, PurseTypes
<1>3. CASE req[l].kind \in Trades /\ UNCHANGED <<session, prize, due>>
           /\ \E d \in Drifts : Fill(l, req[l].guess + d)
  <2>1. PICK d \in Drifts : Fill(l, req[l].guess + d)
    BY <1>3
  <2>2. PICK fill \in Int : fill = req[l].guess + d
    BY <1>2, PurseAssumption DEF Request
  <2>3. balance' = balance + fill /\ Answered(l, fill, balance + fill)
    BY <2>1, <2>2 DEF Fill
  <2>4. req[l].kind \notin Reads \cup {"login", "logout"}
    BY <1>3 DEF Trades, Reads
  <2>5. session
    BY <1>1, <2>4
  <2> QED BY <1>1, <1>2, <1>3, <2>3, <2>4, <2>5, ServeKeeps
<1>4. CASE req[l].kind = "claim" /\ Fill(l, prize) /\ prize' = 0 /\ UNCHANGED <<session, due>>
  <2>1. balance' = balance + prize /\ Answered(l, prize, balance + prize) /\ prize \in Int
    BY <1>2, <1>4 DEF Fill
  <2>2. req[l].kind \notin Reads \cup {"login", "logout"}
    BY <1>4 DEF Reads
  <2>3. session
    BY <1>1, <2>2
  <2> QED BY <1>1, <1>2, <1>4, <2>1, <2>2, <2>3, ServeKeeps
<1>5. CASE req[l].kind = "bonus" /\ Fill(l, IF due THEN Bonus ELSE 0) /\ due' = FALSE
           /\ UNCHANGED <<session, prize>>
  <2>1. PICK fill \in Int : fill = IF due THEN Bonus ELSE 0
    BY PurseAssumption
  <2>2. balance' = balance + fill /\ Answered(l, fill, balance + fill)
    BY <1>5, <2>1 DEF Fill
  <2>3. req[l].kind \notin Reads \cup {"login", "logout"}
    BY <1>5 DEF Reads
  <2>4. session
    BY <1>1, <2>3
  <2> QED BY <1>1, <1>2, <1>5, <2>2, <2>3, <2>4, ServeKeeps
<1>6. CASE req[l].kind \in Reads /\ Answered(l, 0, balance) /\ UNCHANGED account
  <2>1. balance' = balance + 0 /\ Answered(l, 0, balance + 0)
    BY <1>2, <1>6 DEF account
  <2>2. session
    BY <1>1, <1>6 DEF Reads
  <2>3. session' = session /\ prize' = prize /\ due' = due
    BY <1>6 DEF account
  <2> QED BY <1>1, <1>2, <2>1, <2>2, <2>3, ServeKeeps
<1>7. CASE /\ req[l].kind \in {"login", "logout"} /\ session' = (req[l].kind = "login")
           /\ Answered(l, 0, balance) /\ UNCHANGED <<balance, prize, due>>
  <2>1. balance' = balance + 0 /\ Answered(l, 0, balance + 0)
    BY <1>2, <1>7
  <2>2. req[l].kind \notin Reads
    BY <1>7 DEF Reads
  <2>3. session' \in BOOLEAN /\ (req[l].kind # "logout" => session')
    BY <1>7, Zenon
  <2> QED BY <1>1, <1>2, <1>7, <2>1, <2>2, <2>3, ServeKeeps
<1> QED BY <1>1, <1>3, <1>4, <1>5, <1>6, <1>7 DEF Serve

\* A request that goes on otherwise: refused, or answered in vain.
LEMMA RefuseStep ==
    ASSUME PurseInv, NEW l \in Slots, Refuse(l) \/ LoseAnswer(l) PROVE PurseInv'
<1>1. req[l] \in Request /\ PurseTypes /\ Apart /\ Plain(req[l])
  BY DEF PurseInv, PurseTypes
<1>2. /\ req[l].stage \in {"sent", "served"} /\ Refused(l) /\ UNCHANGED <<account, tab, sent, crossed, untold>>
      /\ behind' = behind + req[l].fill
  <2>1. CASE Refuse(l)
    <3>1. req[l].fill = 0 /\ behind \in Int
      BY <1>1, <2>1 DEF Refuse, Plain, PurseTypes
    <3> QED BY <2>1, <3>1 DEF Refuse
  <2>2. CASE LoseAnswer(l)
    BY <2>2 DEF LoseAnswer
  <2> QED BY <2>1, <2>2
<1>3. PICK r : r = RequestOf(req[l].kind, "refused", req[l].guess, 0, 0, req[l].met)
  OBVIOUS
<1>4. /\ r \in Request /\ r.kind = req[l].kind /\ r.met = req[l].met /\ l \in UnderWay
      /\ r.stage = "refused" /\ r.guess = req[l].guess /\ r.fill = 0
  BY <1>1, <1>2, <1>3 DEF RequestOf, Request, UnderWay
<1>5. req' = [req EXCEPT ![l] = r]
  BY <1>1, <1>2, <1>3 DEF Refused, PurseTypes
<1>6. Moves(l, r) /\ Apart'
  BY <1>1, <1>4, <1>5, SettleMoves
<1>7. PurseTypes'
  BY <1>1, <1>2, <1>6 DEF PurseTypes, Moves, account, tab, Request
<1>8. Plain(r) /\ StillTrue(r, balance', Alive')
  BY <1>1, <1>4 DEF Plain, StillTrue
<1>9. /\ balance' = balance /\ signedIn' = signedIn /\ shown' = shown
      /\ Alive' <=> Alive
  BY <1>2 DEF account, tab, Alive
<1>10. signedIn' /\ ~crossed' => Follows(l, r)
  <2>1. Owes(r) - Owes(req[l]) = req[l].fill
    BY <1>1, <1>4 DEF Owes, Request
  <2>2. shown' + behind' = shown + behind + (balance' - balance) + (Owes(r) - Owes(req[l]))
    BY <1>1, <1>2, <1>9, <2>1 DEF PurseTypes, Request
  <2>3. crossed' = crossed
    BY <1>2
  <2> QED BY <1>4, <1>9, <2>2, <2>3 DEF Follows
<1> QED BY <1>4, <1>6, <1>7, <1>8, <1>9, <1>10, Kept

\* The slot of a request is free again.
LEMMA FreeMoves ==
    ASSUME PurseInv, NEW l \in Slots, Free(l)
    PROVE  /\ NoRequest \in Request /\ Owes(NoRequest) = 0 /\ NoRequest.stage = "idle"
           /\ NoRequest.guess = 0 /\ NoRequest.fill = 0
           /\ Moves(l, NoRequest) /\ Apart'
           /\ Plain(NoRequest) /\ StillTrue(NoRequest, balance', Alive')
<1>1. /\ NoRequest \in Request /\ NoRequest.stage = "idle"
      /\ NoRequest.guess = 0 /\ NoRequest.fill = 0
  BY DEF NoRequest, RequestOf, Request, Kinds, Reads
<1>2. req' = [req EXCEPT ![l] = NoRequest]
  BY DEF Free
<1>3. Moves(l, NoRequest) /\ Apart'
  BY <1>1, <1>2, SettleMoves DEF PurseInv
<1> QED BY <1>1, <1>3 DEF Owes, Plain, StillTrue

\* An answer that sets the balance, or a tab without a user that lets it go by.
LEMMA SetStep ==
    ASSUME PurseInv, NEW l \in Slots, req[l].stage = "served", req[l].kind # "logout",
           UNCHANGED <<account, sent, untold>>, Free(l), signedIn' \in BOOLEAN,
           Set(l) \/ (~signedIn' /\ UNCHANGED <<shown, behind, crossed>>)
    PROVE  PurseInv'
<1>1. req[l] \in Request /\ PurseTypes
  BY DEF PurseInv, PurseTypes
<1>2. balance' = balance /\ session' = session /\ (Alive' <=> Alive)
  BY DEF account, Alive
<1>3. PurseTypes'
  BY <1>1, FreeMoves DEF PurseTypes, Moves, account, Set, Request
<1>4. signedIn' /\ ~crossed' => Sets(l, NoRequest)
  BY <1>1, <1>2, FreeMoves DEF Set, Sets, Request
<1> QED BY <1>2, <1>3, <1>4, FreeMoves, Kept

LEMMA SellAnswered ==
    ASSUME PurseInv, NEW l \in Slots, req[l].stage = "served", UNCHANGED <<account, sent, untold>>,
           OnSell(l)
    PROVE  PurseInv'
<1>1. req[l] \in Request /\ PurseTypes
  BY DEF PurseInv, PurseTypes
<1>2. balance' = balance /\ (Alive' <=> Alive)
  BY DEF account, Alive
<1>3. PICK c, n \in Int : c = Correction(l) /\ n = Negligible(Drift(l)) /\ c + n = Drift(l)
  <2>1. Drift(l) \in Int /\ Slack \in Nat
    BY <1>1, PurseAssumption DEF Drift, Request
  <2> QED BY <2>1 DEF Correction, Negligible, Abs
<1>4. /\ Free(l) /\ signedIn' = signedIn /\ crossed' = crossed /\ req[l].kind = "sell"
      /\ shown' = IF signedIn THEN shown + c ELSE shown
      /\ behind' = behind + n
  BY <1>3 DEF OnSell, Add
<1>5. req[l].fill \in Int /\ req[l].guess \in Int /\ c + n = req[l].fill - req[l].guess
  BY <1>1, <1>3 DEF Request, Drift
<1>6. PurseTypes'
  BY <1>1, <1>3, <1>4, <1>5, FreeMoves DEF PurseTypes, Moves, account
<1>7. signedIn' /\ ~crossed' => Follows(l, NoRequest)
  <2> SUFFICES ASSUME signedIn' /\ ~crossed' PROVE Follows(l, NoRequest)
    OBVIOUS
  <2>1. shown' = shown + c
    BY <1>4
  <2>2. shown' + behind' = shown + behind + (balance' - balance) + (Owes(NoRequest) - Owes(req[l]))
    BY <1>1, <1>2, <1>3, <1>4, <1>5, <2>1, FreeMoves DEF Owes, PurseTypes
  <2> QED BY <1>2, <1>4, <2>2 DEF Follows
<1> QED BY <1>2, <1>4, <1>6, <1>7, FreeMoves, Kept

\* The claim and the bonus: what was credited is fetched, or there is nothing to fetch.
LEMMA CreditAnswered ==
    ASSUME PurseInv, NEW l \in Slots, req[l].stage = "served", UNCHANGED <<account, sent, untold>>,
           OnClaim(l) \/ OnBonus(l)
    PROVE  PurseInv'
<1>1. req[l] \in Request /\ PurseTypes /\ Apart /\ Plain(req[l])
  BY DEF PurseInv, PurseTypes
<1>2. /\ balance' = balance /\ (Alive' <=> Alive) /\ shown' = shown /\ signedIn' = signedIn
      /\ crossed' = crossed /\ behind' = behind + req[l].fill
      /\ req[l].kind \in {"claim", "bonus"}
      /\ Carry(l, "balance", 0) \/ Carry(l, "me", 0) \/ Free(l)
  BY DEF account, tab, OnClaim, OnBonus, Alive
<1>3. PICK r \in Request : /\ Moves(l, r) /\ Apart' /\ Plain(r)
                           /\ StillTrue(r, balance', Alive') /\ Owes(r) = 0
  <2>1. ASSUME NEW kind \in Reads, Carry(l, kind, 0)
        PROVE  \E r \in Request : /\ Moves(l, r) /\ Apart' /\ Plain(r)
                                  /\ StillTrue(r, balance', Alive') /\ Owes(r) = 0
    <3>1. kind \in Kinds
      BY DEF Kinds
    <3>2. PICK r : r = req'[l]
      OBVIOUS
    <3>3. /\ Moves(l, r) /\ r \in Request /\ r.stage = "sent" /\ r.kind = kind
          /\ r.guess = 0 /\ r.fill = 0 /\ Apart'
      BY <1>1, <2>1, <3>1, <3>2, CarryMoves
    <3>4. Plain(r) /\ StillTrue(r, balance', Alive') /\ Owes(r) = 0
      BY <3>3 DEF Plain, StillTrue, Owes
    <3> QED BY <3>3, <3>4
  <2>2. ASSUME Free(l)
        PROVE  \E r \in Request : /\ Moves(l, r) /\ Apart' /\ Plain(r)
                                  /\ StillTrue(r, balance', Alive') /\ Owes(r) = 0
    BY <2>2, FreeMoves
  <2> QED BY <1>2, <2>1, <2>2 DEF Reads
<1>4. req[l].fill \in Int /\ req[l].guess = 0
  BY <1>1, <1>2 DEF Plain, Request, Trades
<1>5. PurseTypes'
  BY <1>1, <1>2, <1>3, <1>4 DEF PurseTypes, Moves, account
<1>6. signedIn' /\ ~crossed' => Follows(l, r)
  <2>1. Owes(req[l]) = 0 - req[l].fill
    BY <1>4 DEF Owes
  <2>2. shown' + behind' = shown + behind + (balance' - balance) + (Owes(r) - Owes(req[l]))
    BY <1>1, <1>2, <1>3, <1>4, <2>1 DEF PurseTypes
  <2> QED BY <1>2, <2>2 DEF Follows
<1> QED BY <1>2, <1>3, <1>5, <1>6, Kept

\* The tab has no user from here on.
LEMMA GoneKeeps ==
    ASSUME PurseInv, NEW l \in Slots, UNCHANGED <<account, sent>>, Free(l), ~signedIn',
           signedIn' \in BOOLEAN, shown' \in Int, behind' \in Int, crossed' \in BOOLEAN,
           untold' \in BOOLEAN, Alive => Alive' \/ Quiet(l)
    PROVE  PurseInv'
<1>1. balance' = balance
  BY DEF account
<1>2. PurseTypes'
  BY FreeMoves DEF PurseInv, PurseTypes, Moves, account
<1> QED BY <1>1, <1>2, FreeMoves, Kept

LEMMA AnswerKeeps == ASSUME PurseInv, NEW l \in Slots, Answer(l) PROVE PurseInv'
<1>1. req[l].stage = "served" /\ UNCHANGED <<account, sent, untold>>
  BY DEF Answer
<1>2. PurseTypes /\ signedIn \in BOOLEAN
  BY DEF PurseInv, PurseTypes
<1>3. CASE OnBuy(l) \/ OnBalance(l)
  <2>1. /\ req[l].kind # "logout" /\ Free(l) /\ signedIn' \in BOOLEAN
        /\ Set(l) \/ (~signedIn' /\ UNCHANGED <<shown, behind, crossed>>)
    BY <1>2, <1>3 DEF OnBuy, OnBalance
  <2> QED BY <1>1, <2>1, SetStep
<1>4. CASE OnUser(l)
  <2>1. req[l].kind # "logout" /\ Free(l) /\ signedIn' \in BOOLEAN /\ Set(l)
    BY <1>4 DEF OnUser
  <2> QED BY <1>1, <2>1, SetStep
<1>5. CASE OnLogout(l)
  <2>1. /\ Free(l) /\ ~signedIn' /\ signedIn' \in BOOLEAN
        /\ shown' \in Int /\ behind' \in Int /\ crossed' \in BOOLEAN /\ untold' \in BOOLEAN
    BY <1>1, <1>2, <1>5 DEF OnLogout, PurseTypes
  <2>2. Alive => Alive'
    BY <1>1 DEF Alive, account
  <2> QED BY <1>1, <2>1, <2>2, GoneKeeps
<1>6. CASE OnSell(l)
  BY <1>1, <1>6, SellAnswered
<1>7. CASE OnClaim(l) \/ OnBonus(l)
  BY <1>1, <1>7, CreditAnswered
<1> QED BY <1>3, <1>4, <1>5, <1>6, <1>7 DEF Answer

LEMMA FailureKeeps == ASSUME PurseInv, NEW l \in Slots, Failure(l) PROVE PurseInv'
<1>1. req[l] \in Request /\ PurseTypes /\ Plain(req[l])
  BY DEF PurseInv, PurseTypes
<1>2. /\ req[l].stage = "refused" /\ Free(l) /\ UNCHANGED <<account, sent, behind, crossed>>
      /\ untold' = (untold /\ (req[l].kind = "me" => \E k \in Others(l) : req[k].stage = "served"))
      /\ signedIn' = (signedIn /\ StaysSignedIn(l))
      /\ shown' = IF signedIn THEN shown + Revert(l) ELSE shown
  BY DEF Failure, Add
<1>3. req[l].guess \in Int /\ req[l].fill = 0
  BY <1>1, <1>2 DEF Plain, Request
<1>4. /\ signedIn' \in BOOLEAN /\ untold' \in BOOLEAN
      /\ signedIn' => signedIn /\ req[l].kind \notin {"me", "logout"}
  BY <1>1, <1>2, Zenon DEF StaysSignedIn, PurseTypes
<1>8. Alive => Alive' \/ Quiet(l)
  <2>1. (\E k \in Others(l) : req[k].stage = "served") \/ Quiet(l)
    BY DEF Others, Quiet, UnderWay
  <2> QED BY <1>2, <2>1 DEF Alive, account
<1>5. shown' \in Int
  BY <1>1, <1>2, <1>3 DEF Revert, PurseTypes
<1>6. CASE ~signedIn'
  BY <1>1, <1>2, <1>4, <1>5, <1>6, <1>8, GoneKeeps DEF PurseTypes
<1>7. CASE signedIn'
  <2>1. signedIn /\ shown' = shown - req[l].guess
    BY <1>1, <1>2, <1>3, <1>4, <1>7 DEF Revert, PurseTypes
  <2>2. PurseTypes'
    BY <1>1, <1>2, <1>4, <1>5, FreeMoves DEF PurseTypes, Moves, account
  <2>3. balance' = balance /\ behind' = behind /\ crossed' = crossed /\ (Alive => Alive')
    BY <1>2, <1>4, <1>7 DEF account, Alive
  <2>4. Owes(req[l]) = req[l].guess
    BY <1>3 DEF Owes
  <2>5. shown' + behind' = shown + behind + (balance' - balance) + (Owes(NoRequest) - Owes(req[l]))
    BY <1>1, <1>2, <1>3, <2>1, <2>3, <2>4, FreeMoves DEF PurseTypes
  <2>6. signedIn' /\ ~crossed' => Follows(l, NoRequest)
    BY <1>4, <1>7, <2>1, <2>3, <2>5 DEF Follows
  <2> QED BY <1>2, <2>2, <2>3, <2>6, FreeMoves, Kept
<1> QED BY <1>6, <1>7

LEMMA PurseInitInv == ASSUME PurseInit PROVE PurseInv
<1>1. PICK l \in Slots :
          req = [k \in Slots |-> IF k = l THEN RequestOf("me", "sent", 0, 0, 0, FALSE) ELSE NoRequest]
  BY DEF PurseInit
<1>2. \A k \in Slots :
         /\ req[k] \in Request /\ req[k].guess = 0 /\ req[k].fill = 0 /\ req[k].stage # "served"
         /\ k # l => req[k].stage = "idle"
  BY <1>1 DEF NoRequest, RequestOf, Request, Kinds, Reads
<1>3. PurseTypes
  <2>1. req \in [Slots -> Request]
    <3>1. req = [k \in Slots |-> req[k]]
      BY <1>1
    <3> QED BY <1>2, <3>1
  <2>2. /\ balance = Start /\ session \in BOOLEAN /\ prize = Prize /\ due = TRUE
        /\ signedIn = FALSE /\ shown = 0 /\ sent = 0 /\ behind = 0 /\ crossed = FALSE
        /\ untold = FALSE
    BY DEF PurseInit
  <2>3. Start \in Int /\ Prize \in Nat
    BY PurseAssumption
  <2>4. /\ balance \in Int /\ shown \in Int /\ sent \in Nat /\ behind \in Int /\ prize \in Nat
    BY <2>2, <2>3
  <2>5. session \in BOOLEAN /\ due \in BOOLEAN /\ signedIn \in BOOLEAN /\ crossed \in BOOLEAN
        /\ untold \in BOOLEAN
    BY <2>2, Zenon
  <2> QED BY <2>1, <2>4, <2>5, Zenon DEF PurseTypes
<1>4. Apart
  BY <1>2 DEF Apart, UnderWay
<1>5. \A k \in Slots : Plain(req[k]) /\ StillTrue(req[k], balance, Alive)
  BY <1>2 DEF Plain, StillTrue
<1> QED BY <1>3, <1>4, <1>5 DEF PurseInit, PurseInv, Accounted, HasSession

\* What happens outside of the tab changes none of its requests.
LEMMA ElsewhereKeeps == ASSUME PurseInv, SessionElsewhere PROVE PurseInv'
<1>1. /\ session' = ~session /\ untold' = session
      /\ balance' = balance /\ prize' = prize /\ due' = due /\ signedIn' = signedIn
      /\ shown' = shown /\ req' = req /\ sent' = sent /\ behind' = behind /\ crossed' = crossed
  BY DEF SessionElsewhere, tab
<1>2. Alive'
  BY <1>1 DEF Alive
<1>3. PurseTypes'
  <2>1. session' \in BOOLEAN /\ untold' \in BOOLEAN
    BY <1>1, Zenon DEF PurseInv, PurseTypes
  <2> QED BY <1>1, <2>1 DEF PurseInv, PurseTypes
<1>4. Apart'
  BY <1>1 DEF PurseInv, Apart, UnderWay
<1>5. \A k \in Slots : Plain(req'[k]) /\ StillTrue(req'[k], balance', Alive')
  BY <1>1, <1>2 DEF PurseInv, StillTrue
<1>6. Accounted'
  <2>1. Owed(req') = Owed(req)
    BY <1>1
  <2> QED BY <1>1, <2>1 DEF PurseInv, Accounted
<1> QED BY <1>2, <1>3, <1>4, <1>5, <1>6 DEF PurseInv, HasSession

LEMMA PurseNextInv == ASSUME PurseInv, [PurseNext]_purse PROVE PurseInv'
<1>1. CASE PurseNext
  <2>1. ASSUME NEW l \in Slots, PurseStep(l) PROVE PurseInv'
    BY <2>1, SendKeeps, ServeStep, RefuseStep, AnswerKeeps, FailureKeeps DEF PurseStep
  <2> QED BY <1>1, <2>1, ElsewhereKeeps DEF PurseNext
<1>2. CASE UNCHANGED purse
  <2>1. PurseTypes' /\ Apart' /\ HasSession'
    <3>1. /\ balance' = balance /\ session' = session /\ prize' = prize /\ due' = due
          /\ signedIn' = signedIn /\ shown' = shown /\ req' = req /\ sent' = sent
          /\ behind' = behind /\ crossed' = crossed /\ untold' = untold
      BY <1>2 DEF purse
    <3>2. PurseTypes'
      BY <3>1 DEF PurseInv, PurseTypes
    <3>3. Apart'
      BY <3>1 DEF PurseInv, Apart, UnderWay
    <3>4. HasSession'
      BY <3>1, Zenon DEF PurseInv, HasSession, Alive, Leaving, UnderWay
    <3> QED BY <3>2, <3>3, <3>4
  <2>3. Accounted'
    <3>1. Owed(req') = Owed(req)
      BY <1>2 DEF purse
    <3> QED BY <1>2, <3>1 DEF purse, PurseInv, Accounted
  <2>2. \A l \in Slots : Plain(req'[l]) /\ StillTrue(req'[l], balance', Alive')
    BY <1>2 DEF purse, PurseInv, Alive
  <2> QED BY <2>1, <2>2, <2>3 DEF PurseInv
<1> QED BY <1>1, <1>2

\* What the balance on show is accounted for by, and that a user has a session or one
\* whose end has not come to the tab.
THEOREM PurseInvariance == PurseSpec => []PurseInv
<1> QED BY PurseInitInv, PurseNextInv, PTL DEF PurseSpec

\* At every moment the balance on show is the account's but for the trades under way and
\* what the tab could not hear of, for any number of requests served, refused and answered
\* in any order; unless an answer set it that another request had overtaken.
THEOREM BalanceOnShow == PurseSpec => []ShownAccountedFor
<1>1. PurseInv => ShownAccountedFor
  BY OwedSum DEF PurseInv
<1> QED BY <1>1, PurseInvariance, PTL

\* A tab shows a user without a session only while it signs out, or after the session
\* ended by itself or in another tab and until a /me has told; whatever else is under way.
THEOREM UserOnShow == PurseSpec => []UserUntilTold
<1>1. PurseInv => UserUntilTold
  BY DEF PurseInv, HasSession, Alive, Leaving, UserUntilTold
<1> QED BY <1>1, PurseInvariance, PTL
=============================================================================
