-------------------------------- MODULE News --------------------------------
(***************************************************************************)
(* The news pipeline of server/news: feeds are fetched into NewsItem rows  *)
(* (ingest.js), the oldest undrafted items are shown to a language model,  *)
(* and its proposals are saved as MarketDraft rows (draft.js).             *)
(*                                                                         *)
(* A run is one pass through both.  The scheduler starts one at every tick *)
(* of its timer unless its last one is still going; an admin starts one    *)
(* whenever they ask for it.  Each call a run awaits is one action: it     *)
(* succeeds, fails where the code catches it, or throws and ends the run.  *)
(* The process may die with the runs it has; it comes back with the        *)
(* scheduler's flag down.                                                  *)
(***************************************************************************)
EXTENDS Selection, Functions

CONSTANTS
    Items,      \* articles, by their url
    Feeds,      \* the feeds in their order, each the sequence of its entries
    Poison,     \* articles the model never gives a usable answer on
    Answers,    \* what it may answer: sequences of proposals
    Limit,      \* articles drafted in one run
    Timed,      \* runs of the scheduler's timer
    Admins,     \* runs an admin asked for
    MaxAsked,   \* bound: runs admins ask for in all
    MaxFailures \* bound: database calls that throw, and deaths of the process

\* A proposal is sound, sound with no confidence given, of low confidence, or one
\* that sanitizeProposal refuses.
Proposals == {"sound", "unsure", "low", "malformed"}

\* An entry of a feed: its links in their order, and whether it has a title.
Link == [rel : {"none", "alternate", "self"}, url : Items]
Entry == [links : Seq(Link), titled : BOOLEAN]

ASSUME NewsAssumption ==
    /\ Feeds \in Seq(Seq(Entry)) /\ Feeds # <<>>
    /\ Poison \subseteq Items
    /\ Answers \subseteq Seq(Proposals) /\ Answers # {}
    /\ Limit \in Nat \ {0}
    /\ Timed \cap Admins = {} /\ Timed # {}
    /\ MaxAsked \in Nat /\ MaxFailures \in Nat

Runs == Timed \cup Admins

VARIABLES
    news,      \* the NewsItem rows in the order of fetchedAt
    drafted,   \* the items marked as drafted
    queued,    \* queued[i]: PENDING drafts of the item
    rejected,  \* rejected[i]: drafts rejected at once for their confidence
    running,   \* the scheduler's flag
    at,        \* where each run is
    task,      \* its feed, the items it has still to see, the proposals it has to save
    asked,     \* runs admins have asked for
    failures,  \* failures so far
    due,       \* history: due[i], proposals in the answer the item was marked for
    tangled    \* history: items held by an admin's run and another, or left half-way

tables == <<news, drafted, queued, rejected>>
history == <<due, tangled>>
pipeline == <<news, drafted, queued, rejected, running, at, task, asked, failures, due, tangled>>

Phases == {"idle", "fetching", "finding", "creating", "listing", "asking", "saving"}

\* todo starts with the item at hand; batch is the size of the answer being saved.
Task == [feed : Nat, todo : Seq(Items), answer : Seq(Proposals), batch : Nat]
TaskOf(feed, todo, answer, batch) ==
    [feed |-> feed, todo |-> todo, answer |-> answer, batch |-> batch]
NoTask == TaskOf(0, <<>>, <<>>, 0)

Known == InSeq(news)
Item(r) == Head(task[r].todo)

NewsInit ==
    /\ news = <<>>
    /\ drafted = {}
    /\ queued = [i \in Items |-> 0]
    /\ rejected = [i \in Items |-> 0]
    /\ running = FALSE
    /\ at = [r \in Runs |-> "idle"]
    /\ task = [r \in Runs |-> NoTask]
    /\ asked = 0
    /\ failures = 0
    /\ due = [i \in Items |-> 0]
    /\ tangled = {}

Proceed(r, stage, j) ==
    /\ at' = [at EXCEPT ![r] = stage]
    /\ task' = [task EXCEPT ![r] = j]

StaysUp(r) == running                            \* variant: nothing lowers the flag
FlagAfter(r) == r \notin Timed /\ running

\* A run is over, whether it returned or threw: the scheduler's finally lowers the flag.
Finish(r) ==
    /\ Proceed(r, "idle", NoTask)
    /\ running' = FlagAfter(r)

-----------------------------------------------------------------------------
(* Starting a run *)

Busy == FALSE                                    \* variant: the flag is not looked at
InFlight == running

\* The timer goes off, at start-up and at every interval; a run still going is left
\* alone and the tick is skipped.
Tick(r) ==
    /\ r \in Timed
    /\ at[r] = "idle"
    /\ ~InFlight
    /\ running' = TRUE
    /\ Proceed(r, "fetching", TaskOf(1, <<>>, <<>>, 0))
    /\ UNCHANGED <<tables, asked, failures, history>>

\* POST /api/admin/news/ingest knows nothing of the flag.
Ask(r) ==
    /\ r \in Admins
    /\ at[r] = "idle"
    /\ asked < MaxAsked
    /\ asked' = asked + 1
    /\ Proceed(r, "fetching", TaskOf(1, <<>>, <<>>, 0))
    /\ UNCHANGED <<tables, running, failures, history>>

-----------------------------------------------------------------------------
(* ingestAll: one feed after the other, whatever becomes of the one before *)

\* An entry is about the page it is an alternate of; an entry without one, or without a
\* title, is dropped.
Alternate(link) == link.rel # "self"
pickLink(e) == Head(Select(e.links, Alternate)).url
Kept(e) == e.titled /\ \E i \in 1..Len(e.links) : Alternate(e.links[i])

parseFeed ==
    [f \in 1..Len(Feeds) |->
        LET kept == Select(Feeds[f], Kept) IN [i \in 1..Len(kept) |-> pickLink(kept[i])]]

NextFeed(r) ==
    IF task[r].feed < Len(Feeds)
    THEN Proceed(r, "fetching", TaskOf(task[r].feed + 1, <<>>, <<>>, 0))
    ELSE Proceed(r, "listing", NoTask)

NextArticle(r, todo) ==
    IF todo = <<>> THEN NextFeed(r) ELSE Proceed(r, "finding", TaskOf(task[r].feed, todo, <<>>, 0))

Fetch(r) ==
    /\ at[r] = "fetching"
    /\ NextArticle(r, parseFeed[task[r].feed])
    /\ UNCHANGED <<tables, running, asked, failures, history>>

FetchFails(r) ==
    /\ at[r] = "fetching"
    /\ NextFeed(r)
    /\ UNCHANGED <<tables, running, asked, failures, history>>

\* findUnique by the url: an article that is known is passed over.
FindArticle(r) ==
    /\ at[r] = "finding"
    /\ IF Item(r) \in Known
       THEN NextArticle(r, Tail(task[r].todo))
       ELSE Proceed(r, "creating", task[r])
    /\ UNCHANGED <<tables, running, asked, failures, history>>

IsNew(r) == Item(r) \notin Known

CreateArticle(r) ==
    /\ at[r] = "creating"
    /\ IsNew(r)
    /\ news' = Append(news, Item(r))
    /\ NextArticle(r, Tail(task[r].todo))
    /\ UNCHANGED <<drafted, queued, rejected, running, asked, failures, history>>

\* The url is unique: another run was faster, and the create throws the rest of the
\* feed away.
CreateRefused(r) ==
    /\ at[r] = "creating"
    /\ Item(r) \in Known
    /\ NextFeed(r)
    /\ UNCHANGED <<tables, running, asked, failures, history>>

-----------------------------------------------------------------------------
(* draftPending: the oldest undrafted items *)

Undrafted(i) == i \notin drafted

Oldest == Select(news, Undrafted)
Pending == SubSeq(Oldest, 1, IF Len(Oldest) < Limit THEN Len(Oldest) ELSE Limit)

Holding(r) == IF at[r] \in {"asking", "saving"} THEN InSeq(task[r].todo) ELSE {}

\* The run goes on with the next item, or returns.
NextItem(r, todo) ==
    IF todo = <<>> THEN Finish(r)
    ELSE Proceed(r, "asking", TaskOf(0, todo, <<>>, 0)) /\ UNCHANGED running

List(r) ==
    /\ at[r] = "listing"
    /\ NextItem(r, Pending)
    /\ tangled' = tangled \cup {i \in InSeq(Pending) : \E q \in Runs \ {r} :
                                    {q, r} \cap Admins # {} /\ i \in Holding(q)}
    /\ UNCHANGED <<tables, asked, failures, due>>

\* sanitizeProposal drops what it cannot use.
Usable(p) == p # "malformed"

\* The model answers with proposals ...
AnsweredOn(r, i) ==
    /\ at[r] = "asking"
    /\ i = Item(r)
    /\ i \notin Poison
    /\ \E answer \in Answers :
          LET usable == Select(answer, Usable)
          IN  Proceed(r, "saving", TaskOf(0, task[r].todo, usable, Len(usable)))
    /\ UNCHANGED <<tables, running, asked, failures, history>>

Answered(r) == \E i \in Items : AnsweredOn(r, i)

\* ... or the call times out, is refused or cannot be parsed: the item is left for a
\* later run.
AskFails(r) ==
    /\ at[r] = "asking"
    /\ NextItem(r, Tail(task[r].todo))
    /\ UNCHANGED <<tables, asked, failures, history>>

\* Below the threshold; a proposal without a confidence is not.
Low(p) == p = "low"

\* The proposals are saved one by one; those of low confidence are rejected at once.
Save(r) ==
    LET answer == task[r].answer
        i == Item(r)
        low == Low(Head(answer)) IN
    /\ at[r] = "saving"
    /\ answer # <<>>
    /\ queued' = IF low THEN queued ELSE [queued EXCEPT ![i] = @ + 1]
    /\ rejected' = IF low THEN [rejected EXCEPT ![i] = @ + 1] ELSE rejected
    /\ Proceed(r, "saving", TaskOf(0, task[r].todo, Tail(answer), task[r].batch))
    /\ UNCHANGED <<news, drafted, running, asked, failures, history>>

\* After the last of them the item is marked, with or without proposals.
MarkEarly(r) == TRUE                             \* variant: marked before the last is saved
AllSaved(r) == task[r].answer = <<>>

Mark(r) ==
    /\ at[r] = "saving"
    /\ AllSaved(r)
    /\ drafted' = drafted \cup {Item(r)}
    /\ due' = [due EXCEPT ![Item(r)] = task[r].batch]
    /\ NextItem(r, Tail(task[r].todo))
    /\ UNCHANGED <<news, queued, rejected, asked, failures, tangled>>

-----------------------------------------------------------------------------
(* Failures *)

Fails ==
    /\ failures < MaxFailures
    /\ failures' = failures + 1

HalfWay(r) == IF at[r] = "saving" THEN {Item(r)} ELSE {}

\* A database call throws: it ends the feed when articles are stored, else the run.
CallThrows(r) ==
    /\ Fails
    /\ \/ at[r] \in {"finding", "creating"} /\ NextFeed(r) /\ UNCHANGED running
       \/ at[r] \in {"listing", "saving"} /\ Finish(r)
    /\ tangled' = tangled \cup HalfWay(r)
    /\ UNCHANGED <<tables, asked, due>>

\* The process dies with all its runs and starts again.
Restart ==
    /\ Fails
    /\ running' = FALSE
    /\ at' = [r \in Runs |-> "idle"]
    /\ task' = [r \in Runs |-> NoTask]
    /\ tangled' = tangled \cup UNION {HalfWay(r) : r \in Runs}
    /\ UNCHANGED <<tables, asked, due>>

Step(r) ==
    \/ Fetch(r) \/ FetchFails(r) \/ FindArticle(r) \/ CreateArticle(r) \/ CreateRefused(r)
    \/ List(r) \/ Answered(r) \/ AskFails(r) \/ Save(r) \/ Mark(r)

NewsNext ==
    \/ \E r \in Runs : Tick(r) \/ Ask(r) \/ Step(r) \/ CallThrows(r)
    \/ Restart

Published == UNION {InSeq(parseFeed[f]) : f \in 1..Len(Feeds)}

\* The timer keeps going off and every call returns, if only by its timeout.  A feed
\* that is fetched again and again is served at last, and so is the model about one
\* article, unless it is poison.
Fairness ==
    /\ WF_pipeline(\E r \in Timed : Tick(r))
    /\ \A r \in Timed : WF_pipeline(Step(r))
    /\ \A f \in 1..Len(Feeds) : SF_pipeline(\E r \in Timed : Fetch(r) /\ task[r].feed = f)
    /\ \A i \in Published \ Poison : SF_pipeline(\E r \in Timed : AnsweredOn(r, i))

NewsSpec == NewsInit /\ [][NewsNext]_pipeline /\ Fairness

-----------------------------------------------------------------------------
(* Properties *)

\* Every variable keeps its type, and no two runs store an article twice.
NewsTypeOK ==
    /\ news \in Seq(Items)
    /\ IsInjective(news)
    /\ drafted \subseteq Items
    /\ queued \in [Items -> Nat]
    /\ rejected \in [Items -> Nat]
    /\ running \in BOOLEAN
    /\ at \in [Runs -> Phases]
    /\ task \in [Runs -> Task]
    /\ asked \in Nat
    /\ failures \in Nat
    /\ due \in [Items -> Nat]
    /\ tangled \subseteq Items

Saved(i) == queued[i] + rejected[i]

\* Whatever overlaps and whatever fails, an item that is marked as drafted has all
\* the drafts of the answer it was marked for: none is lost for good.
DraftedIsComplete == \A i \in drafted : Saved(i) >= due[i]

\* An item is drafted once: the retries of failed calls and the runs of the timer add
\* no second set of drafts, as long as no admin's run held the item together with
\* another run and no run broke off in the middle of it.
DraftedOnce ==
    \A i \in Items \ tangled :
        /\ i \in drafted => Saved(i) = due[i]
        /\ i \notin drafted =>
             \/ Saved(i) = 0
             \/ \E r \in Runs : /\ at[r] = "saving" /\ Item(r) = i
                                /\ Saved(i) + Len(task[r].answer) = task[r].batch

\* Every article of a feed is drafted in the end, through failing feeds, failing
\* answers, skipped ticks, refused creates and restarts, if fewer articles than one
\* run takes are poison.  Those are shown to the model again in every run.
EveryArticleDrafted ==
    Cardinality(Poison) < Limit =>
        \A i \in Published \ Poison : <>(i \in drafted)
=============================================================================
