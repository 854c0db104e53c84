------------------------------- MODULE Purse -------------------------------
(***************************************************************************)
(* The signed-in user and the chips a browser tab shows: the context of    *)
(* state/UserContext.jsx, and the trade, claim and bonus flows that change *)
(* it (BuyModal, SellModal, MarketDetail, Portfolio, Layout).              *)
(*                                                                         *)
(* A trade moves the shown balance before the server has answered; a       *)
(* failure moves it back, a purchase's answer sets it, a sale's corrects   *)
(* it by the difference.  Claims and bonuses fetch it anew.  Requests are  *)
(* served and answered in any order, refused, or answered in vain.         *)
(***************************************************************************)
EXTENDS Integers, FiniteSets, FiniteSetsExt

CONSTANTS
    Slots,       \* requests the tab may have under way
    Start,       \* the chips to begin with
    Amounts,     \* chips of a trade
    Prize,       \* what the open claim pays
    Bonus,       \* the daily bonus
    Slack,       \* the difference a sale's answer leaves alone
    Drifts,      \* how far a fill may be from what the tab expected
    MaxRequests  \* bound: requests

ASSUME PurseAssumption ==
    /\ Start \in Nat /\ Prize \in Nat /\ Bonus \in Nat /\ Slack \in Nat
    /\ Amounts \subseteq Nat /\ Drifts \subseteq Int
    /\ MaxRequests \in Nat
    /\ IsFiniteSet(Slots)

VARIABLES
    balance,   \* the user's chips in the database
    session,   \* whether the browser's session is alive
    prize,     \* what a claim pays now
    due,       \* whether the bonus is due
    signedIn,  \* whether the tab has a user ("me")
    shown,     \* the balance it shows
    req,       \* its requests
    sent,      \* requests sent so far
    behind,    \* history: chips the tab was not told of since it last set its balance
    crossed,   \* history: it was set by an answer that another request had overtaken
    untold      \* history: the session ended elsewhere, and the tab was not told since

account == <<balance, session, prize, due>>
tab == <<signedIn, shown>>
purse == <<balance, session, prize, due, signedIn, shown, req, sent, behind, crossed, untold>>

Trades == {"buy", "sell"}
Reads == {"balance", "me"}
Kinds == Trades \cup Reads \cup {"claim", "bonus", "login", "logout"}

\* guess is what the tab has added to its balance in advance, fill what the server has
\* added to the account and the tab has not yet heard of, answer the balance it names;
\* met tells that another request was under way together with this one.
Request == [kind : Kinds, stage : {"idle", "sent", "served", "refused"},
            guess : Int, fill : Int, answer : Int, met : BOOLEAN]
RequestOf(kind, stage, guess, fill, answer, met) ==
    [kind |-> kind, stage |-> stage, guess |-> guess, fill |-> fill, answer |-> answer, met |-> met]
NoRequest == RequestOf("balance", "idle", 0, 0, 0, FALSE)

UnderWay == {l \in Slots : req[l].stage # "idle"}

\* What an answer read before it can make untrue.
Disturbing == Kinds \ Reads

\* The tab opens, whether or not its browser has a session, and asks for its user.
PurseInit ==
    /\ balance = Start
    /\ session \in BOOLEAN
    /\ prize = Prize
    /\ due = TRUE
    /\ signedIn = FALSE
    /\ shown = 0
    /\ \E l \in Slots :
          req = [k \in Slots |-> IF k = l THEN RequestOf("me", "sent", 0, 0, 0, FALSE) ELSE NoRequest]
    /\ sent = 0
    /\ behind = 0
    /\ crossed = FALSE
    /\ untold = FALSE

-----------------------------------------------------------------------------
(* Sending *)

Others(l) == UnderWay \ {l}
Meeting(l, kind) == \E k \in Others(l) : kind \in Disturbing \/ req[k].kind \in Disturbing

\* Slot l carries a new request.
Carry(l, kind, guess) ==
    req' = [k \in Slots |->
              IF k = l THEN RequestOf(kind, "sent", guess, 0, 0, Meeting(l, kind))
              ELSE IF k \in Others(l) /\ Meeting(l, kind) THEN [req[k] EXCEPT !.met = TRUE]
              ELSE req[k]]

Issue(l, kind, guess) ==
    /\ req[l].stage = "idle"
    /\ sent < MaxRequests
    /\ sent' = sent + 1
    /\ Carry(l, kind, guess)
    /\ UNCHANGED <<account, signedIn, behind, crossed, untold>>

\* The modals move the balance as they close.
Buy(l, stake) ==
    /\ signedIn
    /\ stake <= shown
    /\ shown' = shown - stake
    /\ Issue(l, "buy", -stake)

Sell(l, refund) ==
    /\ signedIn
    /\ shown' = shown + refund
    /\ Issue(l, "sell", refund)

\* The buttons that move no chips in advance.
Ask(l, kind) == Issue(l, kind, 0) /\ UNCHANGED shown

Claim(l) == signedIn /\ Ask(l, "claim")
ClaimBonus(l) == signedIn /\ Ask(l, "bonus")
LogIn(l) == ~signedIn /\ Ask(l, "login")
LogOut(l) == signedIn /\ Ask(l, "logout")

-----------------------------------------------------------------------------
(* Serving *)

Answered(l, fill, answer) ==
    req' = [req EXCEPT ![l] = RequestOf(@.kind, "served", @.guess, fill, answer, @.met)]
Refused(l) ==
    req' = [req EXCEPT ![l] = RequestOf(@.kind, "refused", @.guess, 0, 0, @.met)]

\* The account's chips change by fill.
Fill(l, fill) ==
    /\ balance' = balance + fill
    /\ Answered(l, fill, balance + fill)

Affordable(l) == balance + req[l].guess >= 0

Serve(l) ==
    LET kind == req[l].kind IN
    /\ req[l].stage = "sent"
    /\ kind \notin {"login", "logout"} => session
    /\ \/ /\ kind \in Trades
          /\ \E d \in Drifts : Affordable(l) /\ Fill(l, req[l].guess + d)
          /\ UNCHANGED <<session, prize, due>>
       \/ /\ kind = "claim"
          /\ Fill(l, prize)
          /\ prize' = 0
          /\ UNCHANGED <<session, due>>
       \/ /\ kind = "bonus"
          /\ Fill(l, IF due THEN Bonus ELSE 0)
          /\ due' = FALSE
          /\ UNCHANGED <<session, prize>>
       \/ /\ kind \in Reads
          /\ Answered(l, 0, balance)
          /\ UNCHANGED account
       \/ /\ kind \in {"login", "logout"}
          /\ session' = (kind = "login")
          /\ Answered(l, 0, balance)
          /\ UNCHANGED <<balance, prize, due>>
    /\ untold' = (untold /\ kind \notin {"login", "logout"})
    /\ UNCHANGED <<tab, sent, behind, crossed>>

\* Not enough chips, a closed market, a limiter, no session, or no connection.
Refuse(l) ==
    /\ req[l].stage = "sent"
    /\ Refused(l)
    /\ UNCHANGED <<account, tab, sent, behind, crossed, untold>>

\* It was served, and the answer does not arrive: the tab takes it for a failure.
LoseAnswer(l) ==
    /\ req[l].stage = "served"
    /\ Refused(l)
    /\ behind' = behind + req[l].fill
    /\ UNCHANGED <<account, tab, sent, crossed, untold>>

\* The row or the cookie expires, or another tab of the browser signs out; or another
\* tab signs the same user in again.  This tab hears of none of it.
SessionElsewhere ==
    /\ session' = ~session
    /\ untold' = session
    /\ UNCHANGED <<balance, prize, due, tab, req, sent, behind, crossed>>

-----------------------------------------------------------------------------
(* Answers *)

Free(l) == req' = [req EXCEPT ![l] = NoRequest]

\* Deltas and balances change nothing on a tab without a user.
Add(delta) == shown' = IF signedIn THEN shown + delta ELSE shown

\* The balance is set to the answer's.
Set(l) ==
    /\ shown' = req[l].answer
    /\ behind' = 0
    /\ crossed' = req[l].met

OnBuy(l) ==
    /\ req[l].kind = "buy"
    /\ IF signedIn THEN Set(l) ELSE UNCHANGED <<shown, behind, crossed>>
    /\ Free(l)
    /\ UNCHANGED signedIn

Abs(x) == IF x < 0 THEN -x ELSE x
Drift(l) == req[l].fill - req[l].guess

OneSided(l) == IF Drift(l) > Slack THEN Drift(l) ELSE 0      \* variant: no Math.abs
Correction(l) == IF Abs(Drift(l)) > Slack THEN Drift(l) ELSE 0

\* What a sale may leave out of the balance on show.
Negligible(drift) == IF Abs(drift) <= Slack THEN drift ELSE 0

OnSell(l) ==
    /\ req[l].kind = "sell"
    /\ Add(Correction(l))
    /\ behind' = behind + Negligible(Drift(l))
    /\ Free(l)
    /\ UNCHANGED <<signedIn, crossed>>

\* A claim goes on with refreshBalance() ...
OnClaim(l) ==
    /\ req[l].kind = "claim"
    /\ behind' = behind + req[l].fill
    /\ Carry(l, "balance", 0)
    /\ UNCHANGED <<tab, crossed>>

\* ... and a bonus that was credited with refresh().
OnBonus(l) ==
    /\ req[l].kind = "bonus"
    /\ behind' = behind + req[l].fill
    /\ IF req[l].fill > 0 THEN Carry(l, "me", 0) ELSE Free(l)
    /\ UNCHANGED <<tab, crossed>>

OnBalance(l) ==
    /\ req[l].kind = "balance"
    /\ IF signedIn THEN Set(l) ELSE UNCHANGED <<shown, behind, crossed>>
    /\ Free(l)
    /\ UNCHANGED signedIn

\* The whole user is set, whether or not the tab has one.
OnUser(l) ==
    /\ req[l].kind \in {"me", "login"}
    /\ Set(l)
    /\ signedIn' = TRUE
    /\ Free(l)

OnLogout(l) ==
    /\ req[l].kind = "logout"
    /\ signedIn' = FALSE
    /\ Free(l)
    /\ UNCHANGED <<shown, behind, crossed>>

Answer(l) ==
    /\ req[l].stage = "served"
    /\ OnBuy(l) \/ OnSell(l) \/ OnClaim(l) \/ OnBonus(l) \/ OnBalance(l) \/ OnUser(l) \/ OnLogout(l)
    /\ UNCHANGED <<account, sent, untold>>

NoRevert(l) == 0                                 \* variant: a failed trade stays on show
Revert(l) == -req[l].guess

KeepsUser(l) == req[l].kind # "me"               \* variant: a failed sign-out leaves the user
StaysSignedIn(l) == req[l].kind \notin {"me", "logout"}

\* A failed trade is taken back; without /me, and after signing out however it ended,
\* there is no user.  Any other failure, a 401 too, leaves the user where it is.  By /me
\* the tab is told that its session ended, unless an older answer is still to come.
Failure(l) ==
    /\ req[l].stage = "refused"
    /\ Add(Revert(l))
    /\ signedIn' = (signedIn /\ StaysSignedIn(l))
    /\ Free(l)
    /\ untold' = (untold /\ (req[l].kind = "me" => \E k \in Others(l) : req[k].stage = "served"))
    /\ UNCHANGED <<account, sent, behind, crossed>>

PurseStep(l) ==
    \/ \E a \in Amounts : Buy(l, a) \/ Sell(l, a)
    \/ Claim(l) \/ ClaimBonus(l) \/ LogIn(l) \/ LogOut(l)
    \/ Serve(l) \/ Refuse(l) \/ LoseAnswer(l)
    \/ Answer(l) \/ Failure(l)

PurseNext == SessionElsewhere \/ \E l \in Slots : PurseStep(l)

PurseSpec == PurseInit /\ [][PurseNext]_purse

-----------------------------------------------------------------------------
(* Properties *)

\* At every moment the balance on show is the account's, but for the trades under way,
\* which it counts as the tab expects them, and for what the tab could not hear of; as
\* long as it was not set by an answer that another request had overtaken.  So failed
\* trades leave no trace, sales in any number and order add up, and every balance that
\* is fetched alone puts right whatever went wrong before.
ShownAccountedFor ==
    signedIn /\ ~crossed =>
        shown + behind = balance + MapThenSumSet(LAMBDA l : req[l].guess - req[l].fill, Slots)

\* The tab shows a user without a session only while its own sign-out is under way, or
\* when the session ended elsewhere and no /me has told the tab since: once it has been
\* told, or its sign-out has ended, however that went, no trade, claim, refresh or late
\* answer brings the user back; with the same exception.
UserUntilTold ==
    signedIn /\ ~crossed => session \/ untold \/ \E l \in UnderWay : req[l].kind = "logout"
=============================================================================
