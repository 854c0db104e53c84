------------------------------ MODULE Trading ------------------------------
(***************************************************************************)
(* Buying and selling shares of one prediction market: tradeBuy and        *)
(* tradeSell of server/marketService.js, with the pricing of lmsr.js and   *)
(* lslmsr.js behind the operator Cost.                                     *)
(*                                                                         *)
(* A handler is one request being served.  Each database call a handler    *)
(* awaits is one action, so the requests of several handlers interleave    *)
(* exactly where Node lets them: between the read of the user, the read of *)
(* the market, the read of the position and the commit.  What a handler    *)
(* has read and computed so far is its job.  Everything inside             *)
(* prisma.$transaction is one action, since its writes are increments or   *)
(* values computed before it began.                                        *)
(*                                                                         *)
(* Most of what trading promises holds only while requests do not overlap. *)
(* The history variables traffic and rivals record that requests have, so  *)
(* that each property can say what it needs: most need nothing of other    *)
(* users.                                                                  *)
(***************************************************************************)
EXTENDS Integers, FiniteSets, FiniteSetsExt

CONSTANTS
    Users,        \* accounts, all of them past ensureUser
    Outcomes,     \* the outcomes of the market
    Handlers,     \* requests that can be in flight at once
    Lots,         \* share amounts that are traded
    Budgets,      \* chip amounts a buyer offers to spend
    StartChips,   \* chips of every account when the model starts
    Seed,         \* shares every outcome is created with (0 for classic LMSR)
    Payout,       \* chips a winning share pays, in the model's units
    Tolerance,    \* how far the charge may be from the chips offered
    EndTime,      \* the market's endTime
    MaxTime,      \* bound: the clock stops here
    MaxShares,    \* bound: outstanding shares of an outcome, either sign
    MaxTrades,    \* bound: Trade rows written
    Cost(_)       \* the market maker's cost function, C(q)

Stock == -MaxShares .. MaxShares
Quantities == [Outcomes -> Stock]

\* The quantities after d shares of outcome i have moved (newQ in the source).
NewQ(v, i, d) == [v EXCEPT ![i] = @ + d]

\* Cost of buying s shares of outcome i in state v (lmsr.js costOfBuying).
CostBelow(v, i, s) == Cost(v) - Cost(NewQ(v, i, -s))     \* variant: the shares below
CostOfBuying(v, i, s) == Cost(NewQ(v, i, s)) - Cost(v)

\* Chips returned for s shares of i; callers check s <= v[i] (NaN otherwise).
RefundAtBuyPrice(v, i, s) == Cost(NewQ(v, i, s)) - Cost(v)     \* variant: wrong side
RefundForSelling(v, i, s) == Cost(v) - Cost(NewQ(v, i, -s))

\* The share amounts the bisection may return: their cost is within the
\* tolerance of the chips offered, on either side.  Left out is the midpoint it
\* falls back on when 80 halvings have found none (lmsr.js:64): a share costs at
\* most about a chip, so that many leave the bracket of an order the schema lets
\* through (a million chips) far narrower than the tolerance, as long as doubles
\* tell costs apart that finely.
SharesForChips(v, i, chips) ==
    {s \in Lots : /\ v[i] + s \in Stock
                  /\ CostOfBuying(v, i, s) - chips < Tolerance
                  /\ chips - CostOfBuying(v, i, s) < Tolerance}

\* Cost basis left on a position of n shares bought for c after s are sold.
GrownBasis(c, n, s) == (c * (n + s)) \div n              \* variant: wrong sign
RemainingBasis(c, n, s) == (c * (n - s)) \div n

\* The quantities whose prices a trade's PriceSnapshot row carries.
Quoted(v, i, d) == NewQ(v, i, d)

InitialQ == [i \in Outcomes |-> Seed]

ASSUME NumbersAssumption ==
    /\ StartChips \in Nat /\ Seed \in Nat /\ Payout \in Nat
    /\ Tolerance \in Nat \ {0} /\ EndTime \in Nat
    /\ MaxTime \in Nat \ {0} /\ MaxShares \in Nat /\ MaxTrades \in Nat
    /\ Seed <= MaxShares
    /\ Lots \subseteq Nat \ {0} /\ Budgets \subseteq Nat \ {0}
    /\ IsFiniteSet(Users) /\ Users # {} /\ Outcomes # {}

\* The cost function is defined everywhere and grows with every outcome.
ASSUME CostAssumption ==
    /\ \A v \in Quantities : Cost(v) \in Int
    /\ \A v \in Quantities, i \in Outcomes, s \in Lots :
           v[i] + s \in Stock => CostOfBuying(v, i, s) >= 0

\* b ln(sum exp(q/b)) is at least every q[i]: the log-sum-exp is above the max.
ASSUME CostAboveMax ==
    \A v \in Quantities, i \in Outcomes : Cost(v) >= Payout * v[i]

VARIABLES
    balance,      \* User.chipsBalance
    staked,       \* User.totalStaked
    firstTradeAt, \* User.firstTradeAt, 0 for null
    q,            \* Outcome.sharesOutstanding
    shares,       \* SharePosition.shares, 0 when there is no row
    spent,        \* SharePosition.chipsSpent
    collected,    \* sum of Trade.chipsDelta over the Trade rows
    trades,       \* number of Trade rows
    ledger,       \* sum of CoinTransaction.amount per user
    snapshot,     \* the quantities priced in the newest PriceSnapshot row
    status,       \* Market.status, LIVE or a later one
    now,          \* the clock
    pc,           \* where each handler is
    job,          \* what each handler has read and computed
    traffic,      \* history: "single" until two requests are in flight together
    rivals        \* history: users with two requests in flight together

user == <<balance, staked, firstTradeAt, ledger>>
book == <<q, shares, spent, collected, trades, snapshot>>
history == <<traffic, rivals>>
vars == <<balance, staked, firstTradeAt, q, shares, spent, collected, trades,
          ledger, snapshot, status, now, pc, job, traffic, rivals>>

Positions == Users \X Outcomes

Job == [user : Users, outcome : Outcomes,
        chips : Nat,            \* BUY: the chips offered
        stamp : 0..MaxTime,     \* BUY: firstTradeAt of the user row that was read
        lot : Nat,              \* the shares to move
        money : Int,            \* the chips charged or refunded
        basis : Int,            \* SELL: the new chipsSpent
        seen : Quantities]      \* the quantities the price is computed from

\* A request as it arrives, with nothing read yet but the user row.
Request(u, i, chips, stamp, lot, v) ==
    [user |-> u, outcome |-> i, chips |-> chips, stamp |-> stamp,
     lot |-> lot, money |-> 0, basis |-> 0, seen |-> v]

\* The request once its price is known.
Priced(j, lot, money, basis, v) ==
    [user |-> j.user, outcome |-> j.outcome, chips |-> j.chips, stamp |-> j.stamp,
     lot |-> lot, money |-> money, basis |-> basis, seen |-> v]

NoJob == Request(CHOOSE u \in Users : TRUE, CHOOSE i \in Outcomes : TRUE,
                 0, 0, 0, InitialQ)

Init ==
    /\ balance = [u \in Users |-> StartChips]
    /\ staked = [u \in Users |-> 0]
    /\ firstTradeAt = [u \in Users |-> 0]
    /\ ledger = [u \in Users |-> StartChips]
    /\ q = InitialQ
    /\ shares = [p \in Positions |-> 0]
    /\ spent = [p \in Positions |-> 0]
    /\ collected = 0
    /\ trades = 0
    /\ snapshot = InitialQ
    /\ status = "LIVE"
    /\ now = 1
    /\ pc = [h \in Handlers |-> "idle"]
    /\ job = [h \in Handlers |-> NoJob]
    /\ traffic = "single"
    /\ rivals = {}

Busy(g) == pc[g] # "idle"

\* A request of u arrives: does it find others in flight, or others of u?
Meets == traffic' = IF \E g \in Handlers : Busy(g) THEN "crowded" ELSE traffic
Arrives(u) ==
    /\ Meets
    /\ rivals' = rivals \cup {v \in {u} : \E g \in Handlers : Busy(g) /\ job[g].user = v}

\* The handler returns, throws, or dies with its process: what it had read is gone.
Finish(h) ==
    /\ pc' = [pc EXCEPT ![h] = "idle"]
    /\ job' = [job EXCEPT ![h] = NoJob]

\* The checks of both trades on the market row they read.
Open == status = "LIVE" /\ now < EndTime

\* user.chipsBalance < chips is refused.
AnyBudget(u, chips) == TRUE                              \* variant: balance not checked
CanAfford(u, chips) == balance[u] >= chips

\* The position must cover the requested shares.
HoldsAny(p, s) == shares[p] > 0                          \* variant: any position will do
Covers(p, s) == shares[p] >= s

(* The rows a trade's transaction writes. *)

\* CoinTransaction: amount is signed.
UnsignedEntry(u, amount) ==                              \* variant: debits recorded as credits
    [ledger EXCEPT ![u] = IF amount < 0 THEN @ - amount ELSE @ + amount]
LedgerEntry(u, amount) == [ledger EXCEPT ![u] = @ + amount]

\* SharePosition.shares: created, incremented or decremented.
ReplaceShares(p, d) == [shares EXCEPT ![p] = d]          \* variant: overwritten
AddShares(p, d) == [shares EXCEPT ![p] = @ + d]

\* User.totalStaked.
AddStake(u, chips) == [staked EXCEPT ![u] = @ + chips]

\* User.firstTradeAt: written when the user row that was read had none.
StampFirst(u, stamp) ==
    [firstTradeAt EXCEPT ![u] = IF stamp = 0 THEN now ELSE @]

-----------------------------------------------------------------------------
(* tradeBuy *)

\* ensureUser and the balance check.
BuyStart(h) ==
    /\ pc[h] = "idle"
    /\ \E u \in Users, i \in Outcomes, chips \in Budgets :
          /\ CanAfford(u, chips)
          /\ job' = [job EXCEPT ![h] =
                        Request(u, i, chips, firstTradeAt[u], 0, InitialQ)]
          /\ Arrives(u)
    /\ pc' = [pc EXCEPT ![h] = "buyer"]
    /\ UNCHANGED <<user, book, status, now>>

\* getMarketState, the lifecycle checks and the pricing.
BuyPrice(h) ==
    /\ pc[h] = "buyer"
    /\ Open
    /\ \E s \in SharesForChips(q, job[h].outcome, job[h].chips) :
          job' = [job EXCEPT ![h] =
                     Priced(@, s, CostOfBuying(q, @.outcome, s), 0, q)]
    /\ pc' = [pc EXCEPT ![h] = "buyPriced"]
    /\ UNCHANGED <<user, book, status, now, history>>

\* The transaction: user, outcome, position, trade, ledger and snapshot rows.
BuyCommit(h) ==
    LET j == job[h]
        p == <<j.user, j.outcome>> IN
    /\ pc[h] = "buyPriced"
    /\ trades < MaxTrades
    /\ q[j.outcome] + j.lot \in Stock
    /\ balance' = [balance EXCEPT ![j.user] = @ - j.money]
    /\ staked' = AddStake(j.user, j.money)
    /\ firstTradeAt' = StampFirst(j.user, j.stamp)
    /\ q' = NewQ(q, j.outcome, j.lot)
    /\ shares' = AddShares(p, j.lot)
    /\ spent' = [spent EXCEPT ![p] = @ + j.money]
    /\ collected' = collected + j.money
    /\ trades' = trades + 1
    /\ ledger' = LedgerEntry(j.user, -j.money)
    /\ snapshot' = Quoted(j.seen, j.outcome, j.lot)
    /\ Finish(h)
    /\ UNCHANGED <<status, now, history>>

-----------------------------------------------------------------------------
(* tradeSell *)

\* ensureUser, getMarketState and the lifecycle checks.
SellStart(h) ==
    /\ pc[h] = "idle"
    /\ Open
    /\ \E u \in Users, i \in Outcomes, s \in Lots :
          /\ job' = [job EXCEPT ![h] = Request(u, i, 0, 0, s, q)]
          /\ Arrives(u)
    /\ pc' = [pc EXCEPT ![h] = "seller"]
    /\ UNCHANGED <<user, book, status, now>>

\* The position is read, must cover the sale, and is priced.
SellPrice(h) ==
    LET j == job[h]
        p == <<j.user, j.outcome>>
        refund == RefundForSelling(j.seen, j.outcome, j.lot) IN
    /\ pc[h] = "seller"
    /\ Covers(p, j.lot)
    /\ j.seen[j.outcome] >= j.lot
    /\ refund > 0
    /\ job' = [job EXCEPT ![h] =
                  Priced(j, j.lot, refund, RemainingBasis(spent[p], shares[p], j.lot), j.seen)]
    /\ pc' = [pc EXCEPT ![h] = "sellPriced"]
    /\ UNCHANGED <<user, book, status, now, history>>

SellCommit(h) ==
    LET j == job[h]
        p == <<j.user, j.outcome>> IN
    /\ pc[h] = "sellPriced"
    /\ trades < MaxTrades
    /\ q[j.outcome] - j.lot \in Stock
    /\ balance' = [balance EXCEPT ![j.user] = @ + j.money]
    /\ q' = NewQ(q, j.outcome, -j.lot)
    /\ shares' = AddShares(p, -j.lot)
    /\ spent' = [spent EXCEPT ![p] = j.basis]
    /\ collected' = collected - j.money
    /\ trades' = trades + 1
    /\ ledger' = LedgerEntry(j.user, j.money)
    /\ snapshot' = Quoted(j.seen, j.outcome, -j.lot)
    /\ Finish(h)
    /\ UNCHANGED <<staked, firstTradeAt, status, now, history>>

-----------------------------------------------------------------------------
\* A rejected request (any throw), a rolled-back transaction, a dead worker.
Abandon(h) ==
    /\ pc[h] # "idle"
    /\ Finish(h)
    /\ UNCHANGED <<user, book, status, now, history>>

\* A handler serves proposeResolution: the market leaves LIVE for good.
Close(h) ==
    /\ pc[h] = "idle"
    /\ status = "LIVE"
    /\ status' = "PROPOSED"
    /\ Meets
    /\ UNCHANGED <<user, book, now, pc, job, rivals>>

Tick ==
    /\ now < MaxTime
    /\ now' = now + 1
    /\ UNCHANGED <<user, book, status, pc, job, history>>

Next ==
    \/ \E h \in Handlers :
          \/ BuyStart(h) \/ BuyPrice(h) \/ BuyCommit(h)
          \/ SellStart(h) \/ SellPrice(h) \/ SellCommit(h)
          \/ Abandon(h) \/ Close(h)
    \/ Tick

Spec == Init /\ [][Next]_vars

-----------------------------------------------------------------------------
(* Properties *)

\* Every variable keeps its type; share and chip counts may be negative.
TypeOK ==
    /\ balance \in [Users -> Int]
    /\ staked \in [Users -> Nat]
    /\ firstTradeAt \in [Users -> 0..MaxTime]
    /\ ledger \in [Users -> Int]
    /\ q \in Quantities
    /\ shares \in [Positions -> Int]
    /\ spent \in [Positions -> Int]
    /\ collected \in Int
    /\ trades \in 0..MaxTrades
    /\ snapshot \in [Outcomes -> Int]
    /\ status \in {"LIVE", "PROPOSED"}
    /\ now \in 1..MaxTime
    /\ pc \in [Handlers -> {"idle", "buyer", "buyPriced", "seller", "sellPriced"}]
    /\ job \in [Handlers -> Job]
    /\ traffic \in {"single", "crowded"}
    /\ rivals \subseteq Users

Total(f) == SumFunction(f)

\* However trades interleave, chips move only between the users and the
\* market maker: each user's ledger reconstructs the balance, and the trade
\* rows add up to what all users together have paid.
ChipsConserved ==
    /\ \A u \in Users : ledger[u] = balance[u]
    /\ collected = StartChips * Cardinality(Users) - Total(balance)

\* However trades interleave, every outstanding share above the seed belongs to
\* a position: sharesOutstanding is the sum of the positions of the outcome.
SharesBacked ==
    \A i \in Outcomes : q[i] = Seed + Total([u \in Users |-> shares[<<u, i>>]])

\* However trades interleave, the cost basis of a position stays between zero
\* and what its owner ever staked, although a sale overwrites it with a value
\* computed from an earlier read.
BasisWithinStake ==
    \A u \in Users, i \in Outcomes :
        /\ spent[<<u, i>>] >= 0
        /\ spent[<<u, i>>] <= staked[u]

(* While no two requests have been in flight together *)

\* Path independence of the scoring rule: what the market maker has collected
\* is the cost difference between now and the start, whatever the trades were,
\* as long as each was priced and committed with no other in between.
PathIndependent == traffic = "single" => collected = Cost(q) - Cost(InitialQ)

\* README: the market maker's worst-case loss is b ln(N).  Whatever outcome
\* wins, its outstanding shares cost at most C(q0) more than was collected.
LossBounded ==
    \A i \in Outcomes :
        Payout * (q[i] - Seed) - collected <= Cost(InitialQ) - Payout * Seed

\* The README's bound on the loss of tradeBuy and tradeSell holds as long as no
\* two requests have been in flight together.
SubsidyBounded == traffic = "single" => LossBounded

\* The newest price snapshot prices the shares that are outstanding, as long as
\* no trade was priced while another was under way.
SnapshotCurrent == traffic = "single" => snapshot = q

\* tradeBuy and tradeSell write no trade to a market that has left LIVE, as long
\* as no resolution arrived while a trade was under way.
TradesOnlyWhileLive == [][trades' # trades /\ traffic = "single" => status = "LIVE"]_vars

(* While the user has not had two requests in flight, whatever others do *)

Alone == Users \ rivals

\* A buy never takes a balance below zero by more than the tolerance of the
\* bisection that sized it, although other users move the price in between.
NoOverdraft == \A u \in Alone : balance[u] > -Tolerance

\* Nobody sells shares that are not held.
NoShortPosition == \A u \in Alone, i \in Outcomes : shares[<<u, i>>] >= 0

\* A position that has been sold out carries no cost basis.
SoldOutHasNoBasis ==
    \A u \in Alone, i \in Outcomes : shares[<<u, i>>] = 0 => spent[<<u, i>>] = 0

\* A sale leaves the average cost of the remaining shares where it was, up to
\* the rounding of one unit.
SaleKeepsAverageCost ==
    [][\A u \in Alone, i \in Outcomes :
          LET p == <<u, i>> IN
          shares'[p] < shares[p] =>
             /\ spent'[p] * shares[p] <= spent[p] * shares'[p]
             /\ (spent'[p] + 1) * shares[p] >= spent[p] * shares'[p]]_vars

\* tradeBuy stamps firstTradeAt once and never overwrites it.
FirstTradeStampedOnce ==
    [][\A u \in Alone : firstTradeAt[u] # 0 => firstTradeAt'[u] = firstTradeAt[u]]_vars
=============================================================================
