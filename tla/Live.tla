-------------------------------- MODULE Live --------------------------------
(***************************************************************************)
(* A market page that is open in a browser and the stream that keeps it    *)
(* up to date: marketBus.js, the SSE route of server/index.js, the events  *)
(* marketService.js publishes, and pages/MarketDetail.jsx.                 *)
(*                                                                         *)
(* The market's price and its status are versions that grow with every     *)
(* change.  A change is committed first and published on the bus of its    *)
(* process later; the stream passes on what is published while it is       *)
(* subscribed.  The page merges events into the market that its own        *)
(* requests fetch, and those may be answered late.                         *)
(***************************************************************************)
EXTENDS Integers, Sequences, FiniteSets

CONSTANTS
    Loads,      \* requests for the whole market the page may have under way
    MaxTrades,  \* bound: trades
    MaxBreaks   \* bound: connections cut, requests that die or fail

ASSUME LiveAssumption == MaxTrades \in Nat /\ MaxBreaks \in Nat

VARIABLES
    market,   \* the market in the database: the version of its price and of its status
    outbox,   \* changes this process has committed and not yet published
    conn,     \* the stream: closed, opening, reading the market, or open
    read,     \* the version of the price it has read to open with
    wire,     \* the events it has sent and the page has not had
    load,     \* the page's requests
    loaded,   \* whether the page has a market
    shown,    \* the versions it shows
    broken,   \* a request failed: the page shows the error from then on
    breaks,   \* failures so far
    missed    \* history: the kinds whose last change the page is not told of, or told otherwise after

server == <<market, outbox>>
stream == <<conn, read, wire>>
page == <<load, loaded, shown, broken>>
live == <<market, outbox, conn, read, wire, load, loaded, shown, broken, breaks, missed>>

Kinds == {"price", "status"}
LIVE == 0
PROPOSED == 1
DISPUTED == 2
RESOLVED == 3
Versions == [Kinds -> Nat]
VersionsOf(price, status) == [k \in Kinds |-> IF k = "price" THEN price ELSE status]

\* The quantities of a trade that was computed from a state another trade had left
\* already: the market never has them.
NeverWas == -1

\* A change and what is published of it.
Event == [kind : Kinds \cup {"snapshot"}, version : Nat, exact : BOOLEAN]
EventOf(kind, version, exact) == [kind |-> kind, version |-> version, exact |-> exact]

Request == [stage : {"idle", "sent", "read"}, answer : Versions]
RequestOf(stage, answer) == [stage |-> stage, answer |-> answer]
NoRequest == RequestOf("idle", VersionsOf(0, LIVE))

UnderWay == {l \in Loads : load[l].stage # "idle"}

\* The page opens on a market as it finds it: it asks for the market and for its stream.
LiveInit ==
    /\ market = VersionsOf(0, LIVE)
    /\ outbox = {}
    /\ conn = "opening"
    /\ read = 0
    /\ wire = <<>>
    /\ \E l \in Loads :
          load = [k \in Loads |-> IF k = l THEN RequestOf("sent", VersionsOf(0, LIVE)) ELSE NoRequest]
    /\ loaded = FALSE
    /\ shown = VersionsOf(0, LIVE)
    /\ broken = FALSE
    /\ breaks = 0
    /\ missed = {}

-----------------------------------------------------------------------------
(* Changes of the market *)

Commit(v) ==
    /\ market["status"] = LIVE
    /\ v <= MaxTrades
    /\ market' = VersionsOf(v, LIVE)
    /\ UNCHANGED <<stream, page, breaks>>

\* A trade publishes the quantities it computed itself: they are the market's unless
\* another trade was committed since it read them.
Trade(overlapped) ==
    LET v == market["price"] + 1 IN
    /\ Commit(v)
    /\ overlapped => v > 1
    /\ outbox' = outbox \cup {EventOf("price", v, ~overlapped)}
    /\ missed' = missed \ {"price"}

\* A trade of the MCP server is published on the bus of that process.
TradeElsewhere ==
    /\ Commit(market["price"] + 1)
    /\ missed' = missed \cup {"price"}
    /\ UNCHANGED outbox

\* The kinds whose last change is among the events.
About(e) == IF e.kind = "status" THEN "status" ELSE "price"
LastOf(events) == {About(e) : e \in {f \in events : f.version = market[About(f)]}}

\* Propose, dispute, finalize.
Resolve(v) ==
    /\ \/ market["status"] = LIVE /\ v = PROPOSED
       \/ market["status"] = PROPOSED /\ v = DISPUTED
       \/ market["status"] # RESOLVED /\ v = RESOLVED
    /\ market' = VersionsOf(market["price"], v)
    /\ outbox' = outbox \cup {EventOf("status", v, TRUE)}
    /\ missed' = missed \ {"status"}
    /\ UNCHANGED <<stream, page, breaks>>

Subscribed == conn = "open"

\* Requests go on in any order after their commits.
Publish(e) ==
    /\ e \in outbox
    /\ outbox' = outbox \ {e}
    /\ IF Subscribed
       THEN wire' = Append(wire, e) /\ UNCHANGED missed
       ELSE missed' = missed \cup LastOf({e}) /\ UNCHANGED wire
    /\ UNCHANGED <<market, conn, read, page, breaks>>

-----------------------------------------------------------------------------
(* The stream *)

\* The browser connects, at first and again whenever the connection breaks.
Connect ==
    /\ conn = "closed"
    /\ conn' = "opening"
    /\ UNCHANGED <<server, read, wire, page, breaks, missed>>

StreamRead ==
    /\ conn = "opening"
    /\ conn' = "reading"
    /\ read' = market["price"]
    /\ UNCHANGED <<server, wire, page, breaks, missed>>

\* When the read is back the snapshot is written and the handler subscribed, in one turn.
StreamOpen ==
    /\ conn = "reading"
    /\ conn' = "open"
    /\ read' = 0
    /\ wire' = <<EventOf("snapshot", read, TRUE)>>
    /\ UNCHANGED <<server, page, breaks, missed>>

-----------------------------------------------------------------------------
(* The page *)

\* What becomes of missed when the page is told version v of k.
MissedOnce(k, v) ==
    IF v = market[k] THEN missed \ {k}
    ELSE IF loaded /\ shown[k] = market[k] THEN missed \cup {k}
    ELSE missed

\* What the page takes from an event: a snapshot has the shape of a price, and its
\* status is not looked at.
PricesOnly(e) == {"price"} \cap {e.kind}         \* variant: no listener for snapshots
Taken(e) == {About(e)}

\* An event is merged into the market the page has; a page that has none yet loses it.
Deliver ==
    LET e == Head(wire)
        content == IF e.exact THEN e.version ELSE NeverWas IN
    /\ wire # <<>>
    /\ wire' = Tail(wire)
    /\ IF loaded
       THEN /\ shown' = [k \in Kinds |-> IF k \in Taken(e) THEN content ELSE shown[k]]
            /\ missed' = IF e.exact THEN MissedOnce(About(e), e.version) ELSE missed \cup {About(e)}
       ELSE missed' = missed \cup LastOf({e}) /\ UNCHANGED shown
    /\ UNCHANGED <<server, conn, read, load, loaded, broken, breaks>>

\* load(): the whole market is asked for again.
Load(l) ==
    /\ load[l].stage = "idle"
    /\ load' = [load EXCEPT ![l] = RequestOf("sent", VersionsOf(0, LIVE))]
    /\ UNCHANGED <<server, stream, loaded, shown, broken, breaks, missed>>

\* The effect of the page runs again when its user signs in or out.
UserChanges(l) == Load(l)

\* The page renders the market, not the skeleton or the error.
Rendered == loaded /\ ~broken

\* The user's claims, proposals, disputes and finalizations go on with load() when they
\* are answered, whatever became of them on the way; their buttons are on a page that
\* shows a market.
OwnStepDone(l) == Rendered /\ Load(l)

LoadRead(l) ==
    /\ load[l].stage = "sent"
    /\ load' = [load EXCEPT ![l] = RequestOf("read", market)]
    /\ UNCHANGED <<server, stream, loaded, shown, broken, breaks, missed>>

\* The answer replaces the market, whatever events the page has merged meanwhile.
LoadAnswer(l) ==
    LET a == load[l].answer IN
    /\ load[l].stage = "read"
    /\ load' = [load EXCEPT ![l] = NoRequest]
    /\ shown' = a
    /\ loaded' = TRUE
    /\ missed' = {k \in Kinds : k \in MissedOnce(k, a[k])}
    /\ UNCHANGED <<server, stream, broken, breaks>>

-----------------------------------------------------------------------------
(* Failures *)

Breaks ==
    /\ breaks < MaxBreaks
    /\ breaks' = breaks + 1

\* The connection is cut with what is on the wire.
Disconnect ==
    /\ Breaks
    /\ conn # "closed"
    /\ conn' = "closed"
    /\ wire' = <<>>
    /\ read' = 0
    /\ missed' = missed \cup LastOf({wire[i] : i \in 1..Len(wire)})
    /\ UNCHANGED <<server, page>>

\* A change is never published: its grading threw, or its request died.
Unpublished(e) ==
    /\ Breaks
    /\ e \in outbox
    /\ outbox' = outbox \ {e}
    /\ missed' = missed \cup LastOf({e})
    /\ UNCHANGED <<market, stream, page>>

\* A request of the page fails.  Nothing takes the error back.
LoadFails(l) ==
    /\ Breaks
    /\ load[l].stage = "sent"
    /\ load' = [load EXCEPT ![l] = NoRequest]
    /\ broken' = TRUE
    /\ UNCHANGED <<server, stream, loaded, shown, missed>>

LiveNext ==
    \/ \E overlapped \in BOOLEAN : Trade(overlapped)
    \/ TradeElsewhere
    \/ \E v \in {PROPOSED, DISPUTED, RESOLVED} : Resolve(v)
    \/ \E e \in outbox : Publish(e) \/ Unpublished(e)
    \/ Connect \/ StreamRead \/ StreamOpen \/ Deliver \/ Disconnect
    \/ \E l \in Loads : UserChanges(l) \/ OwnStepDone(l) \/ LoadRead(l) \/ LoadAnswer(l) \/ LoadFails(l)

\* Requests are served, the browser reconnects and the network delivers.  Nobody has to
\* trade or to reload.
Fairness ==
    /\ WF_live(\E e \in outbox : Publish(e))
    /\ WF_live(Connect) /\ WF_live(StreamRead) /\ WF_live(StreamOpen) /\ WF_live(Deliver)
    /\ \A l \in Loads : WF_live(LoadRead(l) \/ LoadAnswer(l))

LiveSpec == LiveInit /\ [][LiveNext]_live /\ Fairness

-----------------------------------------------------------------------------
(* Properties *)

Quiet == conn = "open" /\ wire = <<>> /\ outbox = {} /\ UnderWay = {}
UpToDate(k) == shown[k] = market[k] \/ k \in missed

\* Once nothing is under way the page shows the market as it is, unless the very last
\* change was one it could not hear of, was computed from an older state, or was followed
\* by an older answer or event: what is lost is made good by the next change of its kind,
\* and a price by reconnecting as well.
QuietIsCurrent == Quiet /\ loaded => \A k \in Kinds : UpToDate(k)

\* The page gets there by itself, without a reload, whatever was cut in between; unless
\* a request of its own has failed.
CatchesUp == <>[](broken \/ (loaded /\ \A k \in Kinds : UpToDate(k)))
=============================================================================
