------------------------------ MODULE Sessions ------------------------------
(***************************************************************************)
(* The life of a session: the row of the Session table, the cookie of a    *)
(* browser, and the middleware of server/auth.js that runs before every    *)
(* route, with the sign-in and logout routes of server/index.js.           *)
(*                                                                         *)
(* Requests come with a token that was issued: from the browser with its   *)
(* cookie, or from a client that keeps a token longer.  A handler is one   *)
(* request being served; each database call it awaits is one action.  The  *)
(* calls whose errors the code swallows may fail, the reading of the row   *)
(* among them, and a worker may die with the requests it serves.           *)
(* Whose account a session is for is the matter of Accounts.               *)
(***************************************************************************)
EXTENDS Integers

CONSTANTS
    Tokens,      \* session ids, 256 random bits in the code
    None,        \* no token
    Handlers,    \* requests that can be in flight at once
    TTL,         \* SESSION_TTL_MS
    SlideAfter,  \* the hour within which a session is not slid again
    MaxTime,     \* bound: the clock stops here
    MaxFailures  \* bound: database calls and workers that fail

ASSUME SessionsAssumption ==
    /\ None \notin Tokens
    /\ TTL \in Nat \ {0} /\ SlideAfter \in Nat
    /\ MaxTime \in Nat /\ MaxFailures \in Nat

VARIABLES
    row,       \* row[s]: expiresAt and lastSeenAt of the Session row, NoRow without one
    cookie,    \* the browser's cookie: its token, and when the browser drops it
    now,       \* the clock
    pc,        \* where each handler is
    job,       \* its request's token, whether it is a logout, the time it read
    issued,    \* tokens that have been created
    ended,     \* history: tokens whose row a logout or an expiry has deleted
    lastUse,   \* history: lastUse[s], when s last authenticated a request
    excused,   \* history: tokens with a slide that failed, died or was overtaken
    failures   \* failures so far

server == <<row, issued>>
history == <<ended, lastUse, excused, failures>>
vars == <<row, cookie, now, pc, job, issued, ended, lastUse, excused, failures>>

Row == [expiresAt : Nat, lastSeen : Nat]
RowOf(expiresAt, lastSeen) == [expiresAt |-> expiresAt, lastSeen |-> lastSeen]
NoRow == RowOf(0, 0)
Exists(s) == row[s].expiresAt # 0

Cookie == [token : Tokens \cup {None}, expires : Nat]
CookieOf(token, expires) == [token |-> token, expires |-> expires]
NoCookie == CookieOf(None, 0)

\* The browser sends its cookie until it expires.
CookieSent(s) == cookie.token = s /\ now < cookie.expires

Stages == {"idle", "signedIn", "loading", "dropping", "sliding", "destroying", "leaving"}
Job == [token : Tokens \cup {None}, kind : {"use", "logout"}, at : Nat]
JobOf(token, kind, at) == [token |-> token, kind |-> kind, at |-> at]
NoJob == JobOf(None, "use", 0)

Init ==
    /\ row = [s \in Tokens |-> NoRow]
    /\ cookie = NoCookie
    /\ now = 1
    /\ pc = [h \in Handlers |-> "idle"]
    /\ job = [h \in Handlers |-> NoJob]
    /\ issued = {}
    /\ ended = {}
    /\ lastUse = [s \in Tokens |-> 0]
    /\ excused = {}
    /\ failures = 0

Goto(h, stage, j) ==
    /\ pc' = [pc EXCEPT ![h] = stage]
    /\ job' = [job EXCEPT ![h] = j]
Finish(h) == Goto(h, "idle", NoJob)

-----------------------------------------------------------------------------
(* Signing in: createSession and the cookie of the answer *)

SignIn(h) ==
    /\ pc[h] = "idle"
    /\ \E s \in Tokens \ issued :
          /\ row' = [row EXCEPT ![s] = RowOf(now + TTL, now)]
          /\ issued' = issued \cup {s}
          /\ lastUse' = [lastUse EXCEPT ![s] = now]
          /\ Goto(h, "signedIn", JobOf(s, "use", now))
    /\ UNCHANGED <<cookie, now, ended, excused, failures>>

\* setSessionCookie: the only place that gives the cookie its expiry.
SignInAnswer(h) ==
    /\ pc[h] = "signedIn"
    /\ cookie' = CookieOf(job[h].token, job[h].at + TTL)
    /\ Finish(h)
    /\ UNCHANGED <<now, server, history>>

-----------------------------------------------------------------------------
(* attachUser and loadSessionUser, before every route *)

\* A request arrives with a token.
Send(h) ==
    /\ pc[h] = "idle"
    /\ \E s \in issued, kind \in {"use", "logout"} : Goto(h, "loading", JobOf(s, kind, 0))
    /\ UNCHANGED <<cookie, now, server, history>>

\* The route, once the middleware is done: only a logout goes on.
Route(h) ==
    IF job[h].kind = "logout" THEN Goto(h, "destroying", job[h]) ELSE Finish(h)

\* findUnique finds no row: the request is anonymous.
LoadNothing(h) ==
    /\ pc[h] = "loading"
    /\ ~Exists(job[h].token)
    /\ Route(h)
    /\ UNCHANGED <<cookie, now, server, history>>

\* It finds a row that is over: it goes on to delete it.
LoadExpired(h) ==
    LET s == job[h].token IN
    /\ pc[h] = "loading"
    /\ Exists(s)
    /\ row[s].expiresAt < now
    /\ Goto(h, "dropping", job[h])
    /\ UNCHANGED <<cookie, now, server, history>>

SlideDaily(s) == now - row[s].lastSeen > TTL     \* variant: slides too rarely
SlideDue(s) == now - row[s].lastSeen > SlideAfter

\* It finds a row that is valid: the user is known, and the expiry may be slid.
LoadValid(h) ==
    LET s == job[h].token IN
    /\ pc[h] = "loading"
    /\ Exists(s)
    /\ row[s].expiresAt >= now
    /\ lastUse' = [lastUse EXCEPT ![s] = now]
    /\ IF SlideDue(s) THEN Goto(h, "sliding", JobOf(s, job[h].kind, now)) ELSE Route(h)
    /\ UNCHANGED <<cookie, now, server, ended, excused, failures>>

\* The update finds the row by its id and throws when it is gone; the error is
\* swallowed.  The times it writes are those of the read.
SlideAnyway(s, at) == [row EXCEPT ![s] = RowOf(at + TTL, at)]    \* variant: an upsert
SlideRow(s, at) == IF Exists(s) THEN [row EXCEPT ![s] = RowOf(at + TTL, at)] ELSE row

Slide(h) ==
    LET s == job[h].token
        at == job[h].at IN
    /\ pc[h] = "sliding"
    /\ row' = SlideRow(s, at)
    /\ excused' = excused \cup {r \in {s} : at < row[s].lastSeen}
    /\ Route(h)
    /\ UNCHANGED <<cookie, now, issued, ended, lastUse, failures>>

Drop(h) ==
    LET s == job[h].token IN
    /\ pc[h] = "dropping"
    /\ row' = [row EXCEPT ![s] = NoRow]
    /\ ended' = ended \cup {s}
    /\ Route(h)
    /\ UNCHANGED <<cookie, now, issued, lastUse, excused, failures>>

-----------------------------------------------------------------------------
(* Logout *)

\* destroySession: deleteMany by the id of the cookie.
Destroy(h) ==
    LET s == job[h].token IN
    /\ pc[h] = "destroying"
    /\ row' = [row EXCEPT ![s] = NoRow]
    /\ ended' = ended \cup {s}
    /\ Goto(h, "leaving", job[h])
    /\ UNCHANGED <<cookie, now, issued, lastUse, excused, failures>>

\* The answer clears the cookie the browser has by then, under whatever token.
LogoutAnswer(h) ==
    /\ pc[h] = "leaving"
    /\ cookie' = NoCookie
    /\ Finish(h)
    /\ UNCHANGED <<now, server, history>>

-----------------------------------------------------------------------------
(* Failures *)

Fails ==
    /\ failures < MaxFailures
    /\ failures' = failures + 1

\* A swallowed error: the request goes on as if the call had been made; one whose row
\* could not be read goes on without a user, and a logout still destroys its session.
CallFails(h) ==
    /\ pc[h] \in {"loading", "sliding", "dropping", "destroying"}
    /\ Fails
    /\ excused' = excused \cup {s \in {job[h].token} : pc[h] = "sliding"}
    /\ IF pc[h] = "destroying" THEN Goto(h, "leaving", job[h]) ELSE Route(h)
    /\ UNCHANGED <<cookie, now, server, ended, lastUse>>

\* The worker dies, or the answer is lost.
Die(h) ==
    /\ pc[h] # "idle"
    /\ Fails
    /\ excused' = excused \cup {s \in {job[h].token} : pc[h] = "sliding"}
    /\ Finish(h)
    /\ UNCHANGED <<cookie, now, server, ended, lastUse>>

Tick ==
    /\ now < MaxTime
    /\ now' = now + 1
    /\ UNCHANGED <<cookie, pc, job, server, history>>

Next ==
    \/ \E h \in Handlers :
          \/ SignIn(h) \/ SignInAnswer(h)
          \/ Send(h) \/ LoadNothing(h) \/ LoadExpired(h) \/ LoadValid(h)
          \/ Slide(h) \/ Drop(h)
          \/ Destroy(h) \/ LogoutAnswer(h)
          \/ CallFails(h) \/ Die(h)
    \/ Tick

Spec == Init /\ [][Next]_vars

-----------------------------------------------------------------------------
(* Properties *)

\* Every variable keeps its type.
TypeOK ==
    /\ row \in [Tokens -> Row]
    /\ cookie \in Cookie
    /\ now \in Nat \ {0}
    /\ pc \in [Handlers -> Stages]
    /\ job \in [Handlers -> Job]
    /\ issued \subseteq Tokens
    /\ ended \subseteq Tokens
    /\ lastUse \in [Tokens -> Nat]
    /\ excused \subseteq Tokens
    /\ failures \in Nat

\* A session that a logout or an expiry has ended authenticates no request any
\* more, though requests that read its row before are still about to slide it.
EndedStaysEnded ==
    [][\A h \in Handlers : LoadValid(h) => job[h].token \notin ended]_vars

\* Sliding keeps a session alive: it is only refused as expired when no request has
\* used it for its whole term, less the hour within which it is not slid again and
\* the time a slide took.  A slide that failed or was overtaken by a newer one is
\* excused, and so is one that is still in flight.
UsedStaysValid ==
    [][\A h \in Handlers :
          LoadExpired(h) =>
             LET s == job[h].token IN
             \/ now - lastUse[s] > TTL - SlideAfter
             \/ s \in excused
             \/ \E g \in Handlers : pc[g] = "sliding" /\ job[g].token = s]_vars

(* What a comment of the code promises. *)

\* "Every authenticated request slides the expiry forward, so active users stay
\* logged in": a browser that used its session within its term, and neither left
\* nor met a failure, still has a cookie to send.
ActiveStayLoggedIn ==
    \A s \in issued \ (ended \cup excused) :
        /\ failures = 0
        /\ \A h \in Handlers : pc[h] = "idle"
        /\ issued = {s}
        /\ now - lastUse[s] < TTL - SlideAfter
        => CookieSent(s)
=============================================================================
