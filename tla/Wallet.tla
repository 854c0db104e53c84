------------------------------- MODULE Wallet -------------------------------
(***************************************************************************)
(* The chips that move outside of trades, and the ledger of all of them:   *)
(* ensureUser, claimDailyBonus, claimPayout and claimAllPayouts of         *)
(* server/marketService.js.                                                *)
(*                                                                         *)
(* A handler is one request being served; each database call it awaits is  *)
(* one action.  A payout and a trade credit the account and write their    *)
(* CoinTransaction row in one transaction.  The sign-up and the daily      *)
(* bonus do not: the row is a second call, and the request may die between *)
(* the two.                                                                *)
(*                                                                         *)
(* The positions are those of resolved markets: winning shares, which      *)
(* trading no longer changes.                                              *)
(***************************************************************************)
EXTENDS Integers, FiniteSets

CONSTANTS
    Users,        \* handles
    Existing,     \* the handles that have an account when the model starts
    Markets,      \* resolved markets
    Handlers,     \* requests that can be in flight at once
    Shares,       \* Shares[<<u, m>>]: u's shares of the winning outcome of m
    Signup,       \* SEED_STARTING_CHIPS
    Bonus,        \* DAILY_BONUS_AMOUNT
    Cooldown,     \* DAILY_BONUS_COOLDOWN_MS
    Stakes,       \* chip amounts spent on trades
    MaxTime,      \* bound: the clock stops here
    MaxRequests   \* bound: requests served in all

Positions == Users \X Markets

ASSUME WalletAssumption ==
    /\ Users # {} /\ Markets # {} /\ Existing \subseteq Users
    /\ IsFiniteSet(Handlers)
    /\ Shares \in [Positions -> Nat]
    /\ Signup \in Nat \ {0} /\ Bonus \in Nat \ {0} /\ Cooldown \in Nat
    /\ Stakes \subseteq Nat
    /\ MaxTime \in Nat \ {0} /\ MaxRequests \in Nat

VARIABLES
    exists,     \* the User row is there
    balance,    \* User.chipsBalance
    lastBonus,  \* User.lastBonusAt, 0 for null
    claimed,    \* SharePosition.claimed
    ledger,     \* sum of CoinTransaction.amount per user
    newest,     \* balanceAfter of the user's newest CoinTransaction row
    payouts,    \* sum of the TRADE_PAYOUT rows per user and market
    missing,    \* history: amounts whose ledger row died with its request
    now,        \* the clock
    pc,         \* where each handler is
    job,        \* what each handler has read
    served,     \* requests that have arrived
    rivals      \* history: users who have had two requests in flight at once

account == <<exists, balance, lastBonus, claimed>>
rows == <<ledger, newest, payouts, missing>>
history == <<served, rivals>>
vars == <<exists, balance, lastBonus, claimed, ledger, newest, payouts, missing,
          now, pc, job, served, rivals>>

Stages == {"idle", "creating", "signupEntry", "bonusDue", "bonusEntry",
           "claiming", "claimDue"}

Job == [user : Users,
        bonus : {0, 1},         \* 1 when the request is for the daily bonus
        at : 0..MaxTime,        \* the time claimDailyBonus read
        after : Int,            \* the balance the account update returned
        todo : SUBSET Markets,  \* the markets left to claim
        market : Markets,       \* the market being claimed
        due : Nat]              \* the payout computed for it

JobOf(u, bonus, at, after, todo, market, due) ==
    [user |-> u, bonus |-> bonus, at |-> at, after |-> after, todo |-> todo,
     market |-> market, due |-> due]

NoMarket == CHOOSE m \in Markets : TRUE
NoJob == JobOf(CHOOSE u \in Users : TRUE, 0, 0, 0, {}, NoMarket, 0)

Init ==
    /\ exists = [u \in Users |-> u \in Existing]
    /\ balance = [u \in Users |-> IF u \in Existing THEN Signup ELSE 0]
    /\ lastBonus = [u \in Users |-> 0]
    /\ claimed = [p \in Positions |-> FALSE]
    /\ ledger = [u \in Users |-> IF u \in Existing THEN Signup ELSE 0]
    /\ newest = [u \in Users |-> IF u \in Existing THEN Signup ELSE 0]
    /\ payouts = [p \in Positions |-> 0]
    /\ missing = [u \in Users |-> 0]
    /\ now = 1
    /\ pc = [h \in Handlers |-> "idle"]
    /\ job = [h \in Handlers |-> NoJob]
    /\ served = 0
    /\ rivals = {}

\* A request of u arrives: does it find another of u in flight?
Arrives(u) ==
    /\ served < MaxRequests
    /\ served' = served + 1
    /\ rivals' = rivals \cup {v \in {u} : \E g \in Handlers : pc[g] # "idle" /\ job[g].user = v}

Goto(h, stage, j) ==
    /\ pc' = [pc EXCEPT ![h] = stage]
    /\ job' = [job EXCEPT ![h] = j]

Finish(h) == Goto(h, "idle", NoJob)

\* One CoinTransaction row: the amount, and the balance it says it left.
LedgerEntry(u, amount, after) ==
    /\ ledger' = [ledger EXCEPT ![u] = @ + amount]
    /\ newest' = [newest EXCEPT ![u] = after]

-----------------------------------------------------------------------------
(* ensureUser, at the head of every request *)

\* findUnique finds no row: the request goes on to create one.
FindMissing(h) ==
    /\ pc[h] = "idle"
    /\ \E u \in Users, bonus \in {0, 1} :
          /\ ~exists[u]
          /\ Goto(h, "creating", JobOf(u, bonus, 0, 0, {}, NoMarket, 0))
          /\ Arrives(u)
    /\ UNCHANGED <<account, rows, now>>

\* The handle is unique: a second create throws, which is Fail.
HandleIgnored(u) == TRUE                         \* variant: handle not unique
HandleFree(u) == ~exists[u]

CreateUser(h) ==
    LET u == job[h].user IN
    /\ pc[h] = "creating"
    /\ HandleFree(u)
    /\ exists' = [exists EXCEPT ![u] = TRUE]
    /\ balance' = [balance EXCEPT ![u] = Signup]
    /\ Goto(h, "signupEntry", job[h])
    /\ UNCHANGED <<lastBonus, claimed, rows, now, history>>

\* The SIGNUP_BONUS row, after which the request it belongs to continues.
SignupEntry(h) ==
    LET j == job[h] IN
    /\ pc[h] = "signupEntry"
    /\ LedgerEntry(j.user, Signup, Signup)
    /\ IF j.bonus = 1
       THEN Goto(h, "bonusDue", JobOf(j.user, 1, now, 0, {}, NoMarket, 0))
       ELSE Finish(h)
    /\ UNCHANGED <<account, payouts, missing, now, history>>

-----------------------------------------------------------------------------
(* claimDailyBonus *)

BonusAnytime(last) == TRUE                       \* variant: cooldown not checked
BonusDue(last) == last = 0 \/ now - last >= Cooldown

\* The user row is read and the cooldown checked against it.
BonusStart(h) ==
    /\ pc[h] = "idle"
    /\ \E u \in Users :
          /\ exists[u]
          /\ BonusDue(lastBonus[u])
          /\ Goto(h, "bonusDue", JobOf(u, 1, now, 0, {}, NoMarket, 0))
          /\ Arrives(u)
    /\ UNCHANGED <<account, rows, now>>

\* lastBonusAt is the time of the credit.
BonusStamp(at) == at

CreditBonus(h) ==
    LET j == job[h] IN
    /\ pc[h] = "bonusDue"
    /\ balance' = [balance EXCEPT ![j.user] = @ + Bonus]
    /\ lastBonus' = [lastBonus EXCEPT ![j.user] = BonusStamp(j.at)]
    /\ Goto(h, "bonusEntry",
            JobOf(j.user, 1, j.at, balance[j.user] + Bonus, {}, NoMarket, 0))
    /\ UNCHANGED <<exists, claimed, rows, now, history>>

BonusEntry(h) ==
    LET j == job[h] IN
    /\ pc[h] = "bonusEntry"
    /\ LedgerEntry(j.user, Bonus, j.after)
    /\ Finish(h)
    /\ UNCHANGED <<account, payouts, missing, now, history>>

-----------------------------------------------------------------------------
(* claimPayout and claimAllPayouts *)

Winning(u, m) == Shares[<<u, m>>] > 0            \* variant: claimed not checked
Claimable(u, m) == Shares[<<u, m>>] > 0 /\ ~claimed[<<u, m>>]

\* claimPayout is for one market, claimAllPayouts for the claimable ones that
\* getLifecycleActions lists.
ClaimStart(h) ==
    /\ pc[h] = "idle"
    /\ \E u \in Users :
          LET all == {m \in Markets : Shares[<<u, m>>] > 0 /\ ~claimed[<<u, m>>]} IN
          /\ exists[u]
          /\ \E todo \in {all} \cup {{m} : m \in Markets} :
                /\ todo # {}
                /\ Goto(h, "claiming", JobOf(u, 0, 0, 0, todo, NoMarket, 0))
          /\ Arrives(u)
    /\ UNCHANGED <<account, rows, now>>

\* The handler goes on with the markets that are left, or returns.
ClaimRest(h, j, todo) ==
    IF todo = {} THEN Finish(h)
    ELSE Goto(h, "claiming", JobOf(j.user, 0, 0, 0, todo, NoMarket, 0))

\* The position of the next market is read ...
ClaimRead(h) ==
    LET j == job[h] IN
    /\ pc[h] = "claiming"
    /\ \E m \in j.todo :
          /\ Claimable(j.user, m)
          /\ Goto(h, "claimDue", JobOf(j.user, 0, 0, 0, j.todo, m, Shares[<<j.user, m>>]))
    /\ UNCHANGED <<account, rows, now, history>>

\* ... and there is nothing to pay: the payout is 0.
ClaimNothing(h) ==
    LET j == job[h] IN
    /\ pc[h] = "claiming"
    /\ \E m \in j.todo :
          /\ ~Claimable(j.user, m)
          /\ ClaimRest(h, j, j.todo \ {m})
    /\ UNCHANGED <<account, rows, now, history>>

\* Which positions the payout's transaction marks as claimed.
AllOfUser(p) == [r \in Positions |-> claimed[r] \/ r[1] = p[1]]  \* variant: by user only
MarkClaimed(p) == [claimed EXCEPT ![p] = TRUE]

\* The transaction: balance, claimed flag and TRADE_PAYOUT row.
ClaimPay(h) ==
    LET j == job[h]
        p == <<j.user, j.market>> IN
    /\ pc[h] = "claimDue"
    /\ balance' = [balance EXCEPT ![j.user] = @ + j.due]
    /\ claimed' = MarkClaimed(p)
    /\ payouts' = [payouts EXCEPT ![p] = @ + j.due]
    /\ LedgerEntry(j.user, j.due, balance[j.user] + j.due)
    /\ ClaimRest(h, j, j.todo \ {j.market})
    /\ UNCHANGED <<exists, lastBonus, missing, now, history>>

-----------------------------------------------------------------------------
\* A buy elsewhere: its transaction debits the account and writes its row.
TradeCommit(h) ==
    /\ pc[h] = "idle"
    /\ \E u \in Users, chips \in Stakes :
          /\ exists[u]
          /\ balance[u] >= chips
          /\ balance' = [balance EXCEPT ![u] = @ - chips]
          /\ LedgerEntry(u, -chips, balance[u] - chips)
          /\ Arrives(u)
    /\ UNCHANGED <<exists, lastBonus, claimed, payouts, missing, now, pc, job>>

\* What a request at this stage has credited and not yet recorded.
Owed(stage) == IF stage = "signupEntry" THEN Signup
               ELSE IF stage = "bonusEntry" THEN Bonus ELSE 0

\* A database call throws, or the worker dies: the rest of the request is lost.
Fail(h) ==
    /\ pc[h] # "idle"
    /\ missing' = [missing EXCEPT ![job[h].user] = @ + Owed(pc[h])]
    /\ Finish(h)
    /\ UNCHANGED <<account, ledger, newest, payouts, now, history>>

Tick ==
    /\ now < MaxTime
    /\ now' = now + 1
    /\ UNCHANGED <<account, rows, pc, job, history>>

Next ==
    \/ \E h \in Handlers :
          \/ FindMissing(h) \/ CreateUser(h) \/ SignupEntry(h)
          \/ BonusStart(h) \/ CreditBonus(h) \/ BonusEntry(h)
          \/ ClaimStart(h) \/ ClaimRead(h) \/ ClaimNothing(h) \/ ClaimPay(h)
          \/ TradeCommit(h) \/ Fail(h)
    \/ Tick

Spec == Init /\ [][Next]_vars

-----------------------------------------------------------------------------
(* Properties *)

\* Every variable keeps its type.
TypeOK ==
    /\ exists \in [Users -> BOOLEAN]
    /\ balance \in [Users -> Int]
    /\ lastBonus \in [Users -> 0..MaxTime]
    /\ claimed \in [Positions -> BOOLEAN]
    /\ ledger \in [Users -> Int]
    /\ newest \in [Users -> Int]
    /\ payouts \in [Positions -> Nat]
    /\ missing \in [Users -> Nat]
    /\ now \in 1..MaxTime
    /\ pc \in [Handlers -> Stages]
    /\ job \in [Handlers -> Job]
    /\ served \in Nat
    /\ rivals \subseteq Users

InFlight(u, stage) == {h \in Handlers : pc[h] = stage /\ job[h].user = u}

\* Whatever interleaves and whatever fails, every chip of a balance is explained:
\* it is in the ledger, or its sign-up or bonus row is still to be written by a
\* request in flight, or that request died in between.
LedgerAccounts ==
    \A u \in Users :
        balance[u] = ledger[u] + missing[u]
                       + Signup * Cardinality(InFlight(u, "signupEntry"))
                       + Bonus * Cardinality(InFlight(u, "bonusEntry"))

\* Whatever interleaves and whatever fails, a winning position is marked claimed
\* exactly when its payout is in the ledger, in full at least once.
ClaimedIsPaid ==
    \A p \in Positions :
        IF claimed[p] THEN payouts[p] >= Shares[p] ELSE payouts[p] = 0

(* The rest is kept for a user whose requests never overlap. *)

Alone == Users \ rivals

\* A winning share is paid once: claims beyond the first pay nothing, however the
\* claims of other users, failures and retries fall between their steps.
PaidOnce == \A p \in Positions : p[1] \in Alone => payouts[p] <= Shares[p]

\* The bonus is daily: two credits of it are a cooldown apart.
BonusOncePerCooldown ==
    [][\A h \in Handlers : pc[h] = "bonusDue" /\ pc'[h] = "bonusEntry" =>
          LET u == job[h].user IN
          \/ u \in rivals
          \/ lastBonus[u] = 0
          \/ lastBonus'[u] - lastBonus[u] >= Cooldown]_vars

\* balanceAfter makes the ledger self-describing: the newest row shows the
\* balance, but for a row that is still to come or was lost.
NewestRowIsBalance ==
    \A u \in Alone :
        \/ newest[u] = balance[u]
        \/ missing[u] > 0
        \/ \E h \in Handlers : job[h].user = u /\ Owed(pc[h]) > 0
=============================================================================
