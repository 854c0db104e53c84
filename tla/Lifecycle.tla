----------------------------- MODULE Lifecycle -----------------------------
(***************************************************************************)
(* What the resolution of a market promises, whatever the implementation   *)
(* reads and writes: the diagram of the README as atomic steps.            *)
(*                                                                         *)
(*   LIVE --propose--> PROPOSED --dispute--> DISPUTED --admin--> RESOLVED  *)
(*                        |                                         ^      *)
(*                        +------- dispute window expires ----------+      *)
(*                                                                         *)
(* The diagram has no way back from DISPUTED; the code does (a new         *)
(* proposal), and so does Propose here.                                    *)
(***************************************************************************)
EXTENDS Integers

CONSTANTS Outcomes, Choices, Window, MaxTime

VARIABLES
    status, proposed, disputeUntil, resolved, now,
    decidedBy,   \* what resolved the market: its "window" or an "admin"
    flag         \* "raised" while a dispute that came in time is being entered

vars == <<status, proposed, disputeUntil, resolved, decidedBy, flag, now>>

None == "none"

Init ==
    /\ status = "LIVE"
    /\ proposed = None
    /\ disputeUntil = 0
    /\ resolved = None
    /\ decidedBy = "nobody"
    /\ flag = "none"
    /\ now = 1

\* A proposal opens a window from the moment the request looked at the clock.
Propose ==
    /\ status # "RESOLVED"
    /\ status' = "PROPOSED"
    /\ proposed' \in Outcomes
    /\ \E at \in 1..now : disputeUntil' = at + Window
    /\ UNCHANGED <<resolved, decidedBy, flag, now>>

\* A proposal is flagged no later than its window ends ...
Flag ==
    /\ status = "PROPOSED"
    /\ now <= disputeUntil
    /\ flag = "none"
    /\ flag' = "raised"
    /\ UNCHANGED <<status, proposed, disputeUntil, resolved, decidedBy, now>>

\* ... and is disputed then, which may be a little later; or the request is lost.
Dispute ==
    /\ flag = "raised"
    /\ status = "PROPOSED"
    /\ status' = "DISPUTED"
    /\ flag' = "none"
    /\ UNCHANGED <<proposed, disputeUntil, resolved, decidedBy, now>>

Withdraw ==
    /\ flag = "raised"
    /\ flag' = "none"
    /\ UNCHANGED <<status, proposed, disputeUntil, resolved, decidedBy, now>>

\* The window has expired and nobody disputed: the proposal stands.
Accept ==
    /\ status = "PROPOSED"
    /\ now >= disputeUntil
    /\ status' = "RESOLVED"
    /\ resolved' = proposed
    /\ decidedBy' = "window"
    /\ UNCHANGED <<proposed, disputeUntil, flag, now>>

\* An admin decides, at any time.
Decide ==
    /\ status # "RESOLVED"
    /\ status' = "RESOLVED"
    /\ resolved' \in Choices
    /\ decidedBy' = "admin"
    /\ UNCHANGED <<proposed, disputeUntil, flag, now>>

Tick ==
    /\ now < MaxTime
    /\ now' = now + 1
    /\ UNCHANGED <<status, proposed, disputeUntil, resolved, decidedBy, flag>>

Next == Propose \/ Flag \/ Dispute \/ Withdraw \/ Accept \/ Decide \/ Tick

Spec == Init /\ [][Next]_vars
=============================================================================
