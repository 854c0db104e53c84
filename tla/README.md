# Prediq: models, checks and proofs

Prediq is a play-money prediction market: an Express server over a Prisma
database, a market maker (LMSR or its liquidity-sensitive variant), a
news-to-market pipeline and a React front end. This directory holds TLA+
models of it, TLC configurations that check them on small instances and TLAPS
proofs that hold for every instance.

Paths are relative to `src/`; server files are in `server/`, pages in
`frontend-vite/src/`.

## 1. Inventory

| Component | State | Operations | Correct when | Module |
|---|---|---|---|---|
| Market makers (`lmsr.js`, `lslmsr.js`, `marketMath.js`) | none; functions of the outstanding shares | `cost`, `costOfBuying`, `refundForSelling`, `sharesForChips` (a bisection), `seedSharesForBudget` | cost grows and is above every payout, the sensitive maker keeps its spread, the bisection ends within its tolerance | `MarketMath`, `Makers` |
| Trading (`marketService.js` 56-470) | balances, positions, outstanding shares, `Trade`, `CoinTransaction` and `PriceSnapshot` rows | `tradeBuy`, `tradeSell`, two previews | chips and shares are conserved, nobody is overdrawn or short, only live markets trade, cost bases follow the shares | `Trading` |
| Chips and ledger (`marketService.js` 27-51, 672-847) | balance, `lastBonusAt`, `claimed`, `CoinTransaction` | `ensureUser`, `claimDailyBonus`, `claimPayout`, `claimAllPayouts` | the ledger explains the balance, a share is paid once, the bonus is daily | `Wallet` |
| Resolution (`marketService.js` 476-568) | `Market.status`, proposed outcome, window, outcome | `proposeResolution`, `disputeResolution`, `finalizeResolution` | LIVE → PROPOSED → (DISPUTED) → RESOLVED, final, no resolution before the window is over without an admin | `Resolution`, `Lifecycle` |
| Grading (`marketService.js` 570-670, `scoring.js`) | `Trade.graded`, the user's counters, rating, streaks | `gradeAllTrades`, `pasDelta` | the record is reproducible from the graded trades: each is counted once | `Grading`, `Scoring` |
| Badges (`badges.js`) | `UserBadge` rows | `evaluateBadges` | awarded once, backed by the record, and none that is due is forgotten | `Grading` |
| Reports (`calibration.js`) | none; read off trades and counters | `getCalibrationReport`, `getScoringReport` | the two agree, Murphy's decomposition holds | `Calibration`, `Reports` |
| Rate limiter (`rateLimit.js`) | a map of counters per process | hit, prune | a window admits its limit, `Retry-After` is honest | `RateLimit` |
| Sessions (`auth.js`) | `Session` rows, the browser's cookie | sign in, load and slide, drop, log out | ended sessions are dead, used ones live | `Sessions` |
| Accounts (`index.js` 140-330) | handles, password hashes, Google ids, addresses | register, login, Google sign-in, creation by a profile visit | an account belongs to one person, or to the two an unverified address brings together; no password is replaced | `Accounts` |
| News pipeline (`news/`) | `NewsItem`, `MarketDraft`, the scheduler's `running` flag | `ingestAll`, `draftPending`, `tick` | every article is drafted, once, with all drafts of its answer | `News` |
| Draft review (`index.js` 640-760, `AdminDrafts.jsx`) and `createMarket` | `MarketDraft.status`, the new market, the page's list | approve, reject, bulk reject, load more | a draft becomes one market at most, decisions are final, the list is true | `Review` |
| Live prices (`marketBus.js`, the `/stream` route, `MarketDetail.jsx`) | subscribers, the connection, the market on show | publish, subscribe, snapshot, merge, reload | a viewer ends up with the newest prices and status | `Live` |
| Chips in the browser (`UserContext.jsx`, `BuyModal`, `SellModal`, `Portfolio`, `Layout`) | the user, the optimistic balance | deltas, corrections, refresh, sign in and out | the balance on show is the account's, up to what is under way; a user without a session is shown only until the tab is told | `Purse` |
| MCP server (`mcp.js`) | none of its own | the service functions, from another process | its trades reach the pages | a step of `Live` |
| Catalogue, leaderboard, forms, charts, start-up, schema | - | reads, rendering, declarations | - | section 5 |

**How they interact.** Every route calls a service function, which awaits
Prisma calls one after the other. Node serves other requests during each await,
and the MCP server is a second process on the same database, so *between any two
awaits anything may happen*. Only calls inside one `prisma.$transaction` belong
together. Components meet in the database: trading writes the positions that
claims pay and the trades that grading reads; resolution decides what both may
do; all of them move the one `chipsBalance`; the news pipeline writes the
drafts that a review turns into markets. Trades and status changes are published
to the streams after their commit, and pages merge what is streamed with what
they fetch.

**What is hard.** The code reads, decides in JavaScript, and writes. Writes are
of two kinds: increments (`{ increment }`), which survive any interleaving, and
absolute values computed from an earlier read, which do not. Which property
needs which kind is hard to see and next to impossible to test. Then there are
the calls that belong together and are no transaction (credit and ledger row;
status and grading; market and approval), processes that die between them,
work that is retried (drafting, feeds, streams), and answers that overtake one
another on their way to a page. PROJECT.json lists each such place, at its line,
with the properties that watch it.

## 2. The modules

In every server module a *handler* is one request being served. `pc[h]` says at
which await it stands, `job[h]` what it has read and computed so far. One database
call, or one transaction, is one action; `Fail`, `Abandon` or `Die` is any
exception or the death of the process, which forgets the job and keeps the database.
In `News` a run of the pipeline takes the
handler's place, with `at[r]` and `task[r]`. In the modules of pages a *slot* is one request of the tab under way.

| Module | Models | State ↔ code |
|---|---|---|
| `Trading` | `tradeBuy`, `tradeSell` on one market | `balance`, `staked`, `firstTradeAt`: the user row; `q`: `Outcome.sharesOutstanding`; `shares`, `spent`: `SharePosition`; `collected`, `trades`, `ledger`, `snapshot`: what the `Trade`, `CoinTransaction`, `PriceSnapshot` rows add up to. `BuyStart` → `BuyPrice` → `BuyCommit`, `SellStart` → `SellPrice` → `SellCommit`; `Close` is a proposal by someone else |
| `MarketMath` | the costs of both makers | operators |
| `Makers` | extends `Trading`: a sensitive market beside the classic one, with the same trades | - |
| `Wallet` | chips that move outside trades | `exists`, `balance`, `lastBonus`: the user row; `claimed`: `SharePosition.claimed`; `ledger`, `newest`, `payouts`: sums over, and the newest of, the `CoinTransaction` rows; `missing`: credits whose row died with the request |
| `Lifecycle` | the promise: resolution in atomic steps, after the diagram of the repository's README. A dispute is two: `Flag`, which only a window that is open allows, and `Dispute`, which enters it | the market row, what decided it, and whether a dispute has been let in |
| `Resolution` | the three resolution requests, reads and writes apart | the market row; `gradedAs`: the outcome the trades were graded with; `proposals`: every proposal written |
| `Grading` | `gradeAllTrades`, `evaluateBadges` | `graded`, `isCorrect`: the flags of the trades; the user's counters, rating, peak, streaks; `badges`. `GradeStart` → `ReadUser` → `GradeTrade`* → `CommitUser` → `BadgeUser` → `BadgeOwned` → (`CheckTrades`, `Award`)* → `BadgesDone` or `BadgesBreak`, and so on with the next user. The outcome is the one that the grader's own request named: `Verdicts` says which a market's requests may name |
| `Scoring`, `Calibration` | scores, bins, errors, Murphy's terms | operators |
| `Reports` | extends `Grading`: the reports read while graders work | - |
| `RateLimit` | the limiter's middleware and its pruning timer | `buckets[w][k]`: the map of worker `w`; a request is one step, `Admit` or `Refuse` |
| `Sessions` | `loadSessionUser`, sign-in, log-out | `row[s]`: `expiresAt`, `lastSeenAt`; `cookie`: the token and when the browser drops it. `Load*` → `Slide`, or `Load*` → `Drop`; `Destroy` |
| `Accounts` | the three ways to an account, and `ensureUser` as the profile pages call it | `user[n]`: the row with handle `n`, unique address and Google id as guards; `sessions`: who got in where. A registration may give anybody's address, as the code asks for no proof of it |
| `News` | one run: fetch the feeds, find and create articles, list the undrafted, ask, save, mark | `news`: the rows in order of `fetchedAt`; `drafted`; `queued`, `rejected`: drafts of each item; `running`: the flag of the timer |
| `Review` | the review routes, `createMarket` as an approval calls it, the triage page | `queue`: the drafts; `markets`, `charted`: what approvals have created; `tab`, `shown`, `cursor`, `list`: the page. `Approve` → `CreateMarket` → `SeedSnapshot` → `CloseApproval` |
| `Live` | one open market page and its stream | `market`: versions of price and status; `outbox`: committed, not published; `conn`, `read`, `wire`: the stream; `load`, `shown`: the page |
| `Purse` | one tab, its requests and the account | `balance`, `session`, `prize`, `due`: the server; `signedIn`, `shown`: the context; `req`: requests sent, served or refused. `SessionElsewhere` is what ends a session without the tab's doing (its row or cookie expires, another tab signs out), or brings it back |
| `MC*` | instances for TLC | small sets, tables |
| `Selection` | the entries filtered out of a sequence, in their order: `SelectSeq` without recursion | operators |
| `Sums` | lemmas: sums over finite sets, by induction on subsets | - |
| `*Proofs` | theorems | - |

**Numbers.** `Trading` is stated over *any* cost function: `Cost(_)` is a constant
operator of which the proofs assume that it is an integer, grows with every outcome
(`CostAssumption`) and, for the loss bound, is at least the payout of every
outcome (`CostAboveMax`: log-sum-exp is above the maximum). `MCTrading` gives it
the classic LMSR of `MarketMath`, in hundredths of a payout; TLC evaluates the
assumptions on it, and `ClassicMeetsTrading` proves them for every liquidity.
`MarketMath` is for two outcomes, where log-sum-exp is the maximum plus softplus of
the difference. Softplus is a table of its values at whole quarters, with lines between
them, so that it is convex and falls as the code's does. Shares are whole, and a
maker's costs are exact, over a denominator of its own (`PayoutOf` is a share's payout
in that unit): only `InHundredths` rounds. `Comparable` therefore takes a
liquidity and an alpha whose seed is whole.
`sharesForChips` is the set of amounts whose cost is within the tolerance of the
chips offered, on either side: what the bisection guarantees and no more. Its fallback,
the midpoint after 80 halvings without success (`lmsr.js:64`), is left out: orders and
liquidity are at most a million (`validation.js:32,42`), a share costs about a chip at
most, and 80 halvings narrow a bracket of that size to far less than the tolerance, as
long as doubles resolve the costs. `logSumExp` says nothing of a liquidity that is not
positive, for which the code throws (`lslmsr.js:60`): a sensitive market's shares are its
seed and the positions (`SharesBacked`), and `SpreadKept` speaks of states without short
positions only.
Probabilities are in percent and PAS in thousandths, so that stakes with a whole
root have their exact score; a sale, whose stake is negative, is graded and weighs nothing. `Grading` itself takes a score as a given number;
`Reports` assumes it to be `pasDelta`, and `Unit`, the denominator of its scores, to be
a multiple of every number of trades up to all of them, so that means are exact.

**What the modules see of each other.** `Wallet` sees a trade as the one transaction
that it is; `Resolution` sees grading as one step that finds ungraded trades only the
first time; `Accounts` leaves chips to `Wallet` and a session's life to
`Sessions`; `Live` sees trades and resolutions as versions; `Purse` sees a
request as served in one step. Modules that share code are composed by EXTENDS:
`Makers` over `Trading` and `MarketMath`, `Reports` over `Grading` and `Calibration`.
`Resolution` is shown to implement `Lifecycle` by INSTANCE and a refinement mapping.

**History variables.** Much of what the code promises is true only while
requests do not overlap. Instead of checking a weaker, sequential model, the
modules record *whose* requests have overlapped and every property says how much
it needs:

- nothing: "however requests interleave" (the first group in each module);
- `rivals`, the users who have had two requests in flight at once (in `Grading`:
  whose trades two graders held at once; in `Accounts`: the handles two requests
  were about). A property about `Alone == Users \ rivals` holds for a user who does
  not race with himself, *whatever all others do*;
- `tangled` in `News`, `suspect` in `Review`: the items and drafts two runs or
  reviews held at once, or one left half-way;
- `missed` in `Live`: of price and status, the one whose last change the page could
  not hear of; `crossed` in `Purse`, `spoiled` in `Review`: an answer was taken that
  another request had overtaken;
- `claimed` and `borrowed` in `Accounts`: accounts that were there when a registration
  took them, and accounts registered with the address of somebody else;
- `untold` in `Purse`: the session ended elsewhere, and no answer of /me has told the
  tab since;
- `cutShort` in `Grading`: users with an evaluation of badges that was broken off;
- `cut` in `Resolution`: a request was lost after its write of the outcome and before
  the grading;
- `traffic` in `Trading` and `Resolution`, "single" until two requests of anyone are
  in flight together. What is kept for "single" is about the market as a whole,
  which any second request disturbs.

No guard reads them, so they exclude no behaviour of the code. Without its
condition such a property is false. Two buys of one user overdraw the account, two sales go short, two claims pay
twice, two bonus requests are both paid; overlapping buys are sold at one price and
take the loss beyond b ln N; a late write reopens a resolved market; a proposal
goes over a dispute; a process that dies between RESOLVED and the grading leaves the
trades ungraded for good; two graders count a trade twice; two approvals create two
markets; whoever registers with the address of another shares the account with him after
the other's first Google sign-in by it.

## 3. The runs

Two handlers are enough for every race in this code, since each is one stale read
against one write; a third repeats it. Clocks, rows written and requests served
are capped in the guards by the `Max*` constants. Requests stop at those bounds and
hence `CHECK_DEADLOCK FALSE` except for the tab of `Purse`, around which sessions go on ending. Handlers are symmetric where
nothing but their number matters; the two runs with liveness use no symmetry.

| Run | Instance | Shows | Distinct states |
|---|---|---|---|
| `Trading` | two users with 120 units, two outcomes, lots of 1 and 2, budget 60, three trades, the market closes at time 2; a share pays 100, b is 2 shares, tolerance 40 since costs are whole; the sensitive market has eight shares of each to begin with | conservation of chips and shares and bounded bases in all interleavings; no overdraft and no short position for a user who does not race; path independence and the loss bound without overlap; the sensitive maker's spread and cover | 1.4 M |
| `Wallet` | one account with winning shares on two markets, one new handle, bonus 4 every 2 ticks until time 3, trades of 7, five requests | every chip is explained, claimed is paid; without self-overlap paid once, and a bonus per cooldown | 1.9 M |
| `Resolution` | owner, admin, other; two outcomes and an index beyond; window 2, time 4, so that a window can expire and a second proposal be made | the window is respected, only an admin resolves to an index beyond, the trades of a resolved market are graded unless a request was lost on its way; until requests meet: graded as resolved, implements `Lifecycle`, so that no late dispute is let in | 4.4 M |
| `Grading` | two users, two markets, of which one may be finalized to either outcome by two requests; four trades at 60, 20, 60 and 100 percent, one of them a sale, so that one user wins or loses a second batch after a first that he won; one badge of each kind that is seeded, a sample of two; reports of 2 and 10 bins; scores in sixtieths | coherent records, no badge forgotten unless an evaluation broke off; without two graders on one user: the record is the one made anew from the trades, badges backed, reports agree; Murphy's decomposition of every set of graded trades | 6.0 M |
| `RateLimit` | one worker, two limiters of different limit and window, time 6, three requests counted by a bucket, one restart | twice the limit in any window's length, `Retry-After` is long enough | 31 k |
| `Sessions` | two tokens, two requests, term 3, not slid again within 1, time 6, one failure | an ended session stays ended, a used one is not refused as expired | 1.3 M |
| `Accounts` | three people whose addresses make up the same handle, two handles, two requests at a time, four in all | an account has one owner, or the two that a borrowed address brings together and no third; no password is replaced | 4.8 M |
| `News` | four addresses, two feeds that share an article, the oldest poison, two articles to a run, the timer and one run of an admin, one failure or restart | no draft is lost, none made twice, every other article is drafted in the end | 0.26 M |
| `Review` | the page and another admin, pages of one draft, three drafts, two markets, one request for the list at a time | approved drafts have their market, one market per draft, decisions are final, the list is true | 5.6 M |
| `Live` | two trades here or elsewhere, resolution, one failure, one request of the page at a time | the page is current when all is quiet, and gets there by itself | 1.6 M |
| `Purse` | four requests after the first, two at a time, trades of 3 chips, fills 2 below, at and 1 above what the tab expects, of which the last is too little to correct | the balance on show is accounted for, a user is shown without a session only until the tab is told | 1.7 M |
| `SessionsRolling` | as `Sessions` | finding, below | - |

Three trades allow a buy, another user's buy between its read and commit, and a
sale; five requests allow two claims, two bonuses and a trade; six ticks with a term
of three allow a slide, a use after it, an expiry and a new session; four requests at
accounts allow two to create and link one while a third is served, or three people to
come to one account; two handles are a made-up one and the next. `Limit` 2 is the
smallest batch with room beside a poison article.

**The finding.** `auth.js:14-15` says of sessions "30-day rolling expiry — every
authenticated request slides the expiry forward, so active users stay logged in".
The row slides; the cookie is given its expiry at sign-in only
(`setSessionCookie` is called by the sign-in routes alone), and the browser drops it
thirty days later. `SessionsRolling` shows a browser that has used its session all
along and has no cookie left.

**What the models taught of the code**, and no property speaks of:

- At the very instant `Retry-After` names, a request is still refused: the test is a
  strict `<`. `RetryAfterHonest` therefore speaks of the time after it.
- A drafting run takes the oldest undrafted items, and a failed one stays among
  them. As many items that always fail as a batch holds (25) would keep
  every other from being drafted; `EveryArticleDrafted` has the condition.
- On the triage page, a cursor whose draft has lost its status makes the next page
  begin one further; a first page that fails shows as an empty inbox; callbacks reload
  the tab they were rendered with.
- A rejection that overlaps with an approval can leave a REJECTED draft that names
  its market.
- Only /me takes a user off the page when its session is gone (`UserContext.jsx:32`); a 401
  to a trade, a claim or a balance is shown as an error. `UserUntilTold` says so.
- A registration may name any address, and a Google sign-in by that address is linked to
  the account (`index.js:180`, `index.js:275`). `OneOwner` has the case.
- A badge check that meets the unique constraint ends there, and the badges after it wait
  for the user's next check (`badges.js:37`); `DueAreAwarded` excepts it.
- A comment on claim-all (`index.js:586`) says "in one transaction"; the service
  function is a loop with a transaction for each position, and so is `Wallet`.
- An error of the market page (`MarketDetail.jsx:35`) is never taken back, which is
  why `CatchesUp` excepts it. Its chart reads the oldest 200 snapshots
  (`marketService.js:158`), not the newest.
- `index.js` listens only if it is the main module (line 880). Required from
  `cluster.js` it is not, so workers would not listen; several processes
  appear in the models as `Workers` and as the MCP server.

**Mutants.** Every property has one: a plausible bug in one mapped definition under
which TLC finds it violated. The mutated forms stand next to the definitions,
marked *variant*.

**Fairness.** Two modules have something the code itself retries.

- `News`: the interval timer keeps going off, `WF(Tick)`, and every call returns, if
  only by its timeout, `WF(Step)`. A feed that is fetched at every tick is served
  at last, and the model gives a usable answer at last on an article it is asked about
  again and again, unless the article is poison: `SF` for each feed and each such
  article. Strong fairness is needed since the request is only enabled during runs;
  an admin never has to ask for a run. With it, `EveryArticleDrafted` survives failing
  feeds and answers, skipped ticks, refused creates and a restart.
- `Live`: what is committed is published, the browser reconnects (EventSource does),
  the server answers, the network delivers: `WF` of each. Nobody has to trade or to
  reload. `CatchesUp` then says that the page becomes current by itself.

Elsewhere only users retry: "eventually" would rest on them, and none is claimed.

## 4. The proofs

All theorems are for any users, outcomes, markets, trades, keys, people, drafts and
number of handlers, from the assumptions named in the modules: `NumbersAssumption`,
`CostAssumption`, `CostAboveMax` (only the loss bound needs it), `MakersAssumption`,
`WalletAssumption`, `ResolutionAssumption`, `GradingAssumption`,
`RateLimitAssumption`, `SessionsAssumption`, `AccountsAssumption`,
`NewsAssumption`, `ReviewAssumption`, `ReportsAssumption`, `PurseAssumption`, `LiveAssumption`. They
say that constants have their types, that the sets an element is chosen from are not
empty, that the sets something is summed over (users, trades, a tab's requests) are
finite, that `Unit` has the divisors it needs, in `News` that there is a feed (`news/feeds.js` lists them), and in `Grading` that a win does not lower and a loss does not raise the
rating. TLC evaluates each in a run. The two theorems on the makers alone have
hypotheses: `ClassicMeetsTrading` that the market has two outcomes (`Binary`),
`SpreadHolds` also that both markets start with whole shares (`Comparable`, which
`MCTrading` assumes).

The argument has two layers in each module of the server:

1. `Inv` holds under any concurrency. It adds to the type invariant what a
   *job* may hold: a priced sale carries a basis between zero and
   what its owner has staked, an accepting request has seen a proposal whose window
   is over, a grader's computed streak is at most its computed longest run, a handler
   that is about to approve holds a market that was created for its draft. The
   properties are not inductive without it, for the step that writes uses a
   value read long before.
2. A second invariant, for users, handles, drafts or times without overlap, says that
   at most one handler is at work and that what it has read *is still so*
   (`UserReads`, `ReadsCurrent`, `Found`, `StillThere`). The induction needs the
   history variables: the step at which a second request arrives adds the user to
   `rivals`, and the promise is given up there and nowhere else.

| Module | Theorem | States |
|---|---|---|
| `TradingProofs` | `TypeCorrect`, `BasisBounded`, `Conservation`, `SharesAccounted` | any concurrency |
| | `NoOverdraftNoShort`, `NeverShort`, `SoldOutBasis`, `FirstTradeOnce`, `AverageCostKept` | a user who does not race |
| | `PathIndependence`, `SnapshotIsCurrent`, `SubsidyBound`, `TradesWhileLive` | no two requests met |
| (`Makers`) | `SpreadHolds` | any trades that leave no outcome short, between requests |
| (`MarketMath`) | `ClassicMeetsTrading` | any quantities |
| `WalletProofs` | `TypeCorrect`, `BalancesAccounted`, `ClaimsPaid` | any concurrency and failure |
| | `PayoutOnce`, `NewestRow`, `DailyBonus` | a user who does not race |
| `ResolutionProofs` | `TypeCorrect`, `StatusData`, `WindowKept`, `AdminsAlone`, `GradingReached` | any concurrency and failure |
| | `GradesAgree`, `Final`, `Implements` (refinement of `Lifecycle`) | until two requests meet |
| `GradingProofs` | `TypeCorrect`, `Coherent`, `Counted`, `MurphyHolds` | any number of graders |
| | `NothingForgotten` | any number of graders, evaluations that did not break off |
| | `BadgesHold`, `Reproducible`, `ReportsConsistent` | a user no two graders hold |
| `SessionsProofs` (`Sessions`) | `TypeCorrect`, `Ended`, `Used` | any concurrency and failure |
| (`Purse`) | `BalanceOnShow`, `UserOnShow` | any requests in any order, until an overtaken answer is taken |
| `AccessProofs` (`RateLimit`) | `LimiterTypes`, `WindowLimit`, `TwiceTheLimit`, `RetryAfterHolds` | any limits, windows, workers and restarts |
| (`Accounts`) | `TypeCorrect` | any concurrency |
| | `Owned`, `Kept` | a handle no two requests were about |
| (`Live`) | `QuietCurrent` | any trades, requests and broken connections |
| `DraftsProofs` (`News`) | `NewsTypes`, `NoDraftLost` | any concurrency, failure and restart |
| | `DraftsOnce` | an item no two runs held and none left half-way |
| (`Review`) | `Approvals` | any concurrency and failure |
| | `OneMarket`, `Final` | a draft whose reviews do not overlap |
| | `ListKept` | a list whose requests did not cross or fail and whose cursors kept their status |

Some of the arguments:

- *Sums* (`Sums`). The library's `SumFunction` and `MapThenSumSet` are folds, defined
  with a recursive function that has to be shown to exist before anything can be said
  of it. The library's induction theorems, which take the formula as a parameter,
  cannot be instantiated; so the lemmas do induction with a *set*
  in the place of the formula: among the subsets of a finite set that are not in it,
  one would be smallest (`LeastSubset`, `BySize`). What follows is that the recursive
  function exists and is unique, that it does not matter in which order it picks
  (`SumRemove`), and from that how a sum changes with one summand (`SumChange`), how
  it splits into parts (`SumOfParts`, `SumOfGroups`), that it is linear (`SumLinear`) and
  what bounds it (`SumBetween`, `SumRatio`, `SumOrder`).
- `Conservation`, `SharesAccounted`: a step of `Trading` writes one user's balance and
  one position (`Moves`), so the sums change by what that user paid and got, and so do
  `collected` and `q` in the same transaction.
- `Reproducible`: at every commit the rating rises by the gains of the trades the job
  holds, which are not graded yet (`RatingLoop`), so the sum over the
  graded trades rises by the same. A trade keeps the outcome it was graded with by the
  first commit, since nobody else holds it. `NothingForgotten`: a badge that a commit makes
  due is *awaited* (`Awaited`): whoever has committed last looks at the user next, and
  from then on the badge is among those that are left to him, unless it is awarded; what
  another grader commits meanwhile is that grader's to look at. `ReportsConsistent`: the bins cut the graded trades
  into parts, so the counts in them add up to the counters; and a mean of the errors,
  weighted by the counts, is no more than the largest of them (`SumRatio`).
- `BalanceOnShow` is inductive only together with what the answers say. Of every
  request it is known what it may be counted for (`Plain`), of every served one that
  met no other that its answer still is the balance (`StillTrue`), and of two under
  way that they have met unless both only read (`Apart`). A step then either moves the
  balance on show with the account and with what is owed (`Follows`), or sets it to
  an answer nothing has overtaken, and then nothing else is owed (`Sets`).
- `QuietCurrent`: a last change the page neither shows nor is known to have missed is
  *coming* (`Coming`): still to be published, on the wire, or, if it is a price, about
  to be read by the next connection. As long as the page has no market the same is
  said of the answers it waits for.
- `MurphyHolds`: over one bin, the squared errors are the bin's part of reliability and
  uncertainty less resolution, plus how much the prices in it vary and vary with
  what happened. That rest is zero in a bin of one price (`BinsPure`). Otherwise no two
  prices are further apart than the bin is wide (`BinEdges`), which bounds it by what
  the property allows (`WidthBound`, `BinsNarrow`). `DecompositionError` adds the bins
  up: the trades of all bins are all trades, and the divisions come out even since
  `Unit` is divisible by every count.
- `SpreadHolds` rests on softplus being convex, which is read off the table for two steps
  next to each other and holds for all by induction on least counterexamples
  (`FallsLess`, `AboveSlopes`). A cost then is the highest of some lines, linear in the
  quantities and the liquidity together (`CostSupported`, `CostAboveLine`), and each part
  is a line of one state taken to another: the cost grows (`CostGrows`), bends upwards
  (`CostConvex`: a refund is at most the price of the next shares) and, with more
  liquidity, is higher (`CostScales`: the sensitive maker's has grown with the trades). A
  first attempt failed at the end of an earlier table, whose last rounded entries were
  not convex; the table now goes on to where a step would fall by less than one.
- `AdminsAlone`: a proposal on its way carries one of the outcomes, and an acceptance
  takes what a proposal wrote. `GradingReached`: whoever writes an outcome is next at
  the grading, and leaves it by grading or by being lost.
- `SubsidyBound` is path independence plus `CostAboveMax`: what was collected is
  `C(q) - C(q0)`, and `C(q)` is at least what the winning outcome pays.
- `TwiceTheLimit` counts admissions per window first (`WindowLimit`: of more than
  limit in a row, the last belongs to a window that began after the first one's
  end) and applies that twice. Pruning takes away only what has expired.
- `Implements`: a dispute of the lifecycle is flagged when the request has looked at the
  window (`WindowOpen`), and the flag is down again when it is written or lost.
- `UserOnShow`: an answer that would bring the user back was served with a session, and
  is overtaken by whatever ended that session here; what ends it elsewhere sets `untold`,
  which stays until /me is refused with no older answer on its way.
- `Ended`: a token that was ended is issued and has no row, and a slide updates a row
  by its id, so it finds none. `Used`: a row expires a term after its last use, less
  the hour, unless a slide is under way or excused (`Fresh`).
- `Owned`: every step changes what one handle holds, or moves nothing (`Local`,
  `Moved`); what a request alone with its handle has found is still so when it writes. On
  an account with a borrowed address there are its password and that address, and
  whoever comes to it came by one of them.
- `OneMarket`: a draft in review is still there and still PENDING while no other
  review holds it (`StillThere`), and every market of it is its approval's
  (`MarketsKnown`).
- *Selections* (`Selection`). What `SelectSeq` selects is defined by recursion and unknown
  to the provers. Here the places that are selected come first, as a set, and then
  in their order: the k-th is the one with rank k (`Ranked`, `Ordered`). What follows
  is that a selection has the entries that pass, in the order they had (`Places`).
- `NoDraftLost`: while a run saves an answer, what is saved and what it still has at
  hand are together at least the batch (`AnswerInHand`), and an item is marked when
  nothing is left. `DraftsOnce` needs equality, which holds as long as nobody else
  holds the item (`HeldFresh`): the flag keeps the timer's runs apart
  (`SingleFlight`), and a second holder makes the item tangled at once (`Apart`). That
  one run does not draft an item twice rests on what it listed: a selection of
  articles that are all different.
- `ListKept`: the answer to a request *covers* a stretch of the drafts (`Covers`): its
  items fall, and they are all the drafts of the tab from its start to its cursor,
  except for those touched since. The list covers from the newest to the cursor, and
  an answer about to come starts there (`OneRequest`), so the two together cover one
  longer stretch (`Joined`). A draft that is decided or arrives is touched; a cursor
  whose draft has lost its status spoils the list, and with it the claim.

`SoldOutBasis`, `FirstTradeOnce`, `AverageCostKept`, `SnapshotIsCurrent`,
`TradesWhileLive`, `NewestRow`, `StatusData`, `Final`, `Counted`, `WindowLimit` and
`NewsTypes` state properties of the modules that no run lists; TLC agreed with them before they were
proved.

**Only model-checked.** Every invariant and action property of a passing run has its
theorem. Liveness (`CatchesUp`, `EveryArticleDrafted`) stays with TLC: `ENABLED` and
fairness are out of the prover's reach. `ActiveStayLoggedIn` is refuted.

## 5. Not modelled, and what is left

Left out of a modelled component:

- `recommendedB` and `maxSubsidy`: no handler uses them. `MarketMath` has no costs for
  more than two outcomes; the proofs of `Trading` cover them with any cost function.
  Between quarters softplus is a line, and costs are no floating-point numbers.
- The Brier, log-loss and experience sums, increments exactly like the counters. The ACCURACY
  condition, which no seeded badge has. `Grading` has all trades made before it starts,
  so the VOLUME condition reads a given number.
- In `Purse`, a sign-in of another tab as *another* user, and chips moved by another tab or
  device: the tab's next balance shows them, and nothing is promised before.
- The stream's heartbeat, which only keeps proxies from closing the connection.
- Two list requests of the triage page crossing: the instance has one slot, and
  `ListFaithful` makes no promise there.

Not modelled at all: the catalogue, portfolio and leaderboard reads, which keep no
state; forms, charts and rendering; the XML parsing and the HTTP client of the news
pipeline, whose results are inputs of `News`; start-up, logging and error formats;
the schema and seeds, whose unique constraints appear as guards.

What would come next:

1. `Exchange`: trading, resolution, claims and grading of one market together, with
   an abstract specification: chips enter only by sign-up, bonus and subsidy.
2. The leaderboard's order.
3. The lists of the home page, which are fetched and merged like those of `Review`.
