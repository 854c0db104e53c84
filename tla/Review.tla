------------------------------- MODULE Review -------------------------------
(***************************************************************************)
(* The review of market drafts: the handlers of server/index.js that       *)
(* approve and reject, the market an approval creates, and the triage page *)
(* pages/AdminDrafts.jsx with its paginated list.                          *)
(*                                                                         *)
(* A handler reads the draft first and writes it later, in calls of its    *)
(* own; an approval creates the market and its first price snapshot in     *)
(* between.  The page holds a list it fetched page by page, in requests    *)
(* that may overtake one another, while admins decide and drafts arrive.   *)
(***************************************************************************)
EXTENDS Selection, Functions

CONSTANTS
    Mine,       \* reviews sent from the page
    Others,     \* reviews other admins send
    Slots,      \* list requests the page may have under way
    Take,       \* drafts in a page of the list
    Tabs,       \* the statuses whose tabs are opened
    MaxDrafts,  \* bound: drafts there will ever be
    MaxMarkets  \* bound: markets created

ASSUME ReviewAssumption ==
    /\ Mine \cap Others = {}
    /\ Take \in Nat \ {0}
    /\ Tabs \subseteq {"PENDING", "APPROVED", "REJECTED"}
    /\ MaxDrafts \in Nat /\ MaxMarkets \in Nat

Handlers == Mine \cup Others
Statuses == {"PENDING", "APPROVED", "REJECTED"}

VARIABLES
    queue,    \* the MarketDraft rows, by id
    markets,  \* the markets approvals created, each the id of its draft
    charted,  \* the markets that have their first price snapshot
    pc,       \* where each handler is
    job,      \* its draft, the market it created, and the tab the page was on
    tab,      \* the tab of the page
    loaded,   \* whether the page has a list
    shown,    \* the ids in it
    cursor,   \* where its next page starts; 0 at the end
    list,     \* the list requests
    suspect,  \* history: drafts in two reviews at once, or left half-approved
    touched,  \* history: drafts that changed since the list was first asked for, till it is spoiled
    spoiled   \* history: the list's requests crossed, failed or lost their place

rows == <<queue, markets, charted>>
page == <<tab, loaded, shown, cursor, list, spoiled>>
vars == <<queue, markets, charted, pc, job, tab, loaded, shown, cursor, list,
          suspect, touched, spoiled>>

Draft == [status : Statuses, market : Nat]
DraftOf(status, market) == [status |-> status, market |-> market]
NewDraft == DraftOf("PENDING", 0)

Stages == {"idle", "creating", "seeding", "closing", "rejecting", "reloading", "leaving"}
Reviewing == {"creating", "seeding", "closing", "rejecting"}
Job == [draft : Nat, market : Nat, tab : Statuses]
JobOf(draft, market, from) == [draft |-> draft, market |-> market, tab |-> from]
NoJob == JobOf(0, 0, "PENDING")

\* A request for the list of a tab from a cursor on, and its answer once it is read.
Request == [stage : {"idle", "sent", "read"}, tab : Statuses, from : Nat, items : Seq(Nat), next : Nat]
RequestOf(stage, of, from, items, next) ==
    [stage |-> stage, tab |-> of, from |-> from, items |-> items, next |-> next]
NoRequest == RequestOf("idle", "PENDING", 0, <<>>, 0)

Drafts == 1..Len(queue)
Status(d) == queue[d].status
UnderWay == {l \in Slots : list[l].stage # "idle"}

\* The page asks for its first list as it opens.
FirstList(l) ==
    [k \in Slots |-> IF k = l THEN RequestOf("sent", "PENDING", 0, <<>>, 0) ELSE NoRequest]

Init ==
    /\ queue = <<NewDraft, NewDraft>>
    /\ markets = <<>>
    /\ charted = {}
    /\ pc = [h \in Handlers |-> "idle"]
    /\ job = [h \in Handlers |-> NoJob]
    /\ tab = "PENDING"
    /\ loaded = FALSE
    /\ shown = <<>>
    /\ cursor = 0
    /\ \E l \in Slots : list = FirstList(l)
    /\ suspect = {}
    /\ touched = {}
    /\ spoiled = FALSE

-----------------------------------------------------------------------------
(* The page's list *)

\* load(): the list is cleared and its first page requested, for the tab the caller
\* was rendered with: a review or an ingest that ends after a switch asks for the old one.
Load(of, on) ==
    \E l \in Slots \ UnderWay :
        /\ list' = [list EXCEPT ![l] = RequestOf("sent", of, 0, <<>>, 0)]
        /\ loaded' = FALSE
        /\ shown' = <<>>
        /\ cursor' = 0
        /\ tab' = on
        /\ touched' = {}
        /\ spoiled' = (of # on \/ UnderWay # {})

Opened ==
    /\ \E l \in Slots : list' = FirstList(l)
    /\ tab' = "PENDING"
    /\ loaded' = FALSE
    /\ shown' = <<>>
    /\ cursor' = 0
    /\ touched' = {}
    /\ spoiled' = FALSE

Switch(of) ==
    /\ of # tab
    /\ Load(of, of)
    /\ UNCHANGED <<rows, pc, job, suspect>>

\* loadMore(), once at a time.
More(l) ==
    /\ cursor # 0
    /\ \A k \in UnderWay : list[k].from = 0
    /\ list[l].stage = "idle"
    /\ list' = [list EXCEPT ![l] = RequestOf("sent", tab, cursor, <<>>, 0)]
    /\ UNCHANGED <<rows, pc, job, tab, loaded, shown, cursor, suspect, touched, spoiled>>

\* The list is not what it should be from here on.
Spoil(now) ==
    /\ spoiled' = (spoiled \/ now)
    /\ touched' = IF now THEN {} ELSE touched

\* The newest drafts of the status first, from the cursor's on.  The cursor's own is
\* skipped; one that no longer has the status is not there, and the next is skipped.
Newest(of, from) ==
    LET Kept(d) == Status(d) = of /\ (from = 0 \/ d <= from)
    IN  Select([i \in Drafts |-> Len(queue) + 1 - i], Kept)
AfterCursor(of, from) ==
    LET newest == Newest(of, from)
    IN  IF from = 0 THEN newest ELSE SubSeq(newest, 2, Len(newest))

NoOverfetch(all) == Len(all) > Take + 1          \* variant: the last draft alone is forgotten
HasMore(all) == Len(all) > Take

Read(l) ==
    LET of == list[l].tab
        from == list[l].from
        all == AfterCursor(of, from)
        items == IF Len(all) > Take THEN SubSeq(all, 1, Take) ELSE all IN
    /\ list[l].stage = "sent"
    /\ list' = [list EXCEPT ![l] = RequestOf("read", of, from, items,
                                       IF HasMore(all) THEN items[Len(items)] ELSE 0)]
    /\ Spoil(from # 0 /\ Status(from) # of)
    /\ UNCHANGED <<rows, pc, job, tab, loaded, shown, cursor, suspect>>

\* An answer replaces the list or is added to it, whatever the tab is by now.
Answer(l) ==
    /\ list[l].stage = "read"
    /\ list' = [list EXCEPT ![l] = NoRequest]
    /\ shown' = IF list[l].from = 0 THEN list[l].items ELSE shown \o list[l].items
    /\ cursor' = list[l].next
    /\ loaded' = TRUE
    /\ UNCHANGED <<rows, pc, job, tab, suspect, touched, spoiled>>

\* A first page that cannot be had leaves an empty list, a further one the list it was.
NoAnswer(l) ==
    /\ list[l].stage = "sent"
    /\ list' = [list EXCEPT ![l] = NoRequest]
    /\ shown' = IF list[l].from = 0 THEN <<>> ELSE shown
    /\ loaded' = TRUE
    /\ Spoil(list[l].from = 0)
    /\ UNCHANGED <<rows, pc, job, tab, cursor, suspect>>

-----------------------------------------------------------------------------
(* The handlers *)

Touch(ds) == touched' = IF spoiled THEN touched ELSE touched \cup ds

Held(d) == \E h \in Handlers : pc[h] \in Reviewing /\ job[h].draft = d
Goto(h, stage, j) ==
    /\ pc' = [pc EXCEPT ![h] = stage]
    /\ job' = [job EXCEPT ![h] = j]

\* What reviews are sent: from the page, about a draft in its list of pending ones.
MaySend(h, d) == h \in Mine => tab = "PENDING" /\ d \in InSeq(shown)

Unchecked(d) == TRUE                             \* variant: the status is not read
IsPending(d) == Status(d) = "PENDING"

Begin(h, d, stage) ==
    /\ pc[h] = "idle"
    /\ MaySend(h, d)
    /\ IsPending(d)
    /\ Goto(h, stage, JobOf(d, 0, IF h \in Mine THEN tab ELSE "PENDING"))
    /\ suspect' = IF Held(d) THEN suspect \cup {d} ELSE suspect
    /\ UNCHANGED <<rows, page, touched>>

Approve(h, d) == Begin(h, d, "creating")
Reject(h, d) == Begin(h, d, "rejecting")

\* createMarket: the market with its outcomes, then its first snapshot.
CreateMarket(h) ==
    /\ pc[h] = "creating"
    /\ Len(markets) < MaxMarkets
    /\ markets' = Append(markets, job[h].draft)
    /\ Goto(h, "seeding", JobOf(job[h].draft, Len(markets) + 1, job[h].tab))
    /\ UNCHANGED <<queue, charted, page, suspect, touched>>

SeedSnapshot(h) ==
    /\ pc[h] = "seeding"
    /\ charted' = charted \cup {job[h].market}
    /\ Goto(h, "closing", job[h])
    /\ UNCHANGED <<queue, markets, page, suspect, touched>>

\* The handler has answered; the page goes on with its own.
Done(h, stage) == Goto(h, IF h \in Mine THEN stage ELSE "idle",
                          IF h \in Mine THEN JobOf(0, 0, job[h].tab) ELSE NoJob)

NewestMarket(h) == DraftOf("APPROVED", Len(markets))  \* variant: not the one created
Approved(h) == DraftOf("APPROVED", job[h].market)

\* The draft is written by its id alone, whatever it has become meanwhile.
CloseApproval(h) ==
    /\ pc[h] = "closing"
    /\ queue' = [queue EXCEPT ![job[h].draft] = Approved(h)]
    /\ Touch({job[h].draft})
    /\ Done(h, "leaving")
    /\ UNCHANGED <<markets, charted, page, suspect>>

CloseRejection(h) ==
    /\ pc[h] = "rejecting"
    /\ queue' = [queue EXCEPT ![job[h].draft] = DraftOf("REJECTED", @.market)]
    /\ Touch({job[h].draft})
    /\ Done(h, "reloading")
    /\ UNCHANGED <<markets, charted, page, suspect>>

Whatever(d) == TRUE                              \* variant: updateMany without the status
StillPending(d) == Status(d) = "PENDING"

\* POST /drafts/bulk-reject: one updateMany over those that are pending still.
BulkReject(h, chosen) ==
    LET gone == {d \in chosen : StillPending(d)} IN
    /\ pc[h] = "idle"
    /\ h \in Mine => tab = "PENDING"
    /\ queue' = [d \in Drafts |->
                   IF d \in gone THEN DraftOf("REJECTED", queue[d].market) ELSE queue[d]]
    /\ suspect' = suspect \cup {d \in gone : Held(d)}
    /\ Touch(gone)
    /\ Goto(h, IF h \in Mine THEN "reloading" ELSE "idle", NoJob)
    /\ UNCHANGED <<markets, charted, page>>

\* A call throws, createMarket refuses the admin's own values, or the process dies.
Abort(h) ==
    /\ pc[h] \in Reviewing
    /\ Goto(h, "idle", NoJob)
    /\ suspect' = IF pc[h] \in {"seeding", "closing"} THEN suspect \cup {job[h].draft} ELSE suspect
    /\ UNCHANGED <<rows, page, touched>>

\* An ingest the page asked for is over.
Ingested(h) ==
    /\ h \in Mine
    /\ pc[h] = "idle"
    /\ Goto(h, "reloading", JobOf(0, 0, tab))
    /\ UNCHANGED <<rows, page, suspect, touched>>

\* The answer is there: the page loads the list of the tab it was on when it asked.
Reload(h) ==
    /\ pc[h] = "reloading"
    /\ Load(job[h].tab, tab)
    /\ Goto(h, "idle", NoJob)
    /\ UNCHANGED <<rows, suspect>>

\* After an approval it goes to the market, and is opened anew some time.
Leave(h) ==
    /\ pc[h] = "leaving"
    /\ Goto(h, "idle", NoJob)
    /\ Opened
    /\ UNCHANGED <<rows, suspect>>

\* The news pipeline adds a draft.
Arrive ==
    /\ Len(queue) < MaxDrafts
    /\ queue' = Append(queue, NewDraft)
    /\ Touch({Len(queue) + 1})
    /\ UNCHANGED <<markets, charted, pc, job, page, suspect>>

Next ==
    \/ \E of \in Tabs : Switch(of)
    \/ \E l \in Slots : More(l) \/ Read(l) \/ Answer(l) \/ NoAnswer(l)
    \/ \E h \in Handlers :
          \/ \E d \in Drafts : Approve(h, d) \/ Reject(h, d)
          \/ CreateMarket(h) \/ SeedSnapshot(h) \/ CloseApproval(h) \/ CloseRejection(h)
          \/ \E chosen \in (SUBSET Drafts) \ {{}} : BulkReject(h, chosen)
          \/ Abort(h) \/ Ingested(h) \/ Reload(h) \/ Leave(h)
    \/ Arrive

Spec == Init /\ [][Next]_vars

-----------------------------------------------------------------------------
(* Properties *)

\* Every variable keeps its type.
TypeOK ==
    /\ queue \in Seq(Draft)
    /\ markets \in Seq(Nat)
    /\ charted \subseteq Nat
    /\ pc \in [Handlers -> Stages]
    /\ job \in [Handlers -> Job]
    /\ tab \in Statuses
    /\ loaded \in BOOLEAN
    /\ shown \in Seq(Nat)
    /\ cursor \in Nat
    /\ list \in [Slots -> Request]
    /\ suspect \subseteq Nat
    /\ touched \subseteq Nat
    /\ spoiled \in BOOLEAN

\* Whatever overlaps and wherever a review breaks off, an approved draft names a market
\* that was created for it and has its first snapshot.
ApprovedHasMarket ==
    \A d \in Drafts : Status(d) = "APPROVED" =>
        /\ queue[d].market \in 1..Len(markets)
        /\ markets[queue[d].market] = d
        /\ queue[d].market \in charted

\* A draft becomes one market at most, and only if it is approved or about to be, as
\* long as no two reviews of it overlapped and none broke off half-way.
OneMarketPerDraft ==
    \A d \in Drafts \ suspect :
        LET made == {m \in 1..Len(markets) : markets[m] = d} IN
        /\ Cardinality(made) <= 1
        /\ made # {} => \/ Status(d) = "APPROVED"
                        \/ \E h \in Handlers : pc[h] \in {"seeding", "closing"} /\ job[h].draft = d

\* A decision is final: no later review, single or in bulk, changes it, as long as no
\* two reviews of the draft overlapped.
DecisionFinal ==
    [][\A d \in Drafts \ suspect' : Status(d) # "PENDING" => queue'[d] = queue[d]]_vars

\* While admins decide and drafts arrive between its pages, the list shows every draft
\* once, under its own status, and at its end none is missing that stayed as it was; as
\* long as its requests did not cross or fail and every cursor kept its status.
ListFaithful ==
    loaded /\ ~spoiled =>
        /\ IsInjective(shown)
        /\ \A d \in InSeq(shown) \ touched : Status(d) = tab
        /\ cursor = 0 /\ UnderWay = {} =>
             \A d \in Drafts \ touched : Status(d) = tab => d \in InSeq(shown)
=============================================================================
