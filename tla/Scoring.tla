------------------------------ MODULE Scoring ------------------------------
(***************************************************************************)
(* The scores of server/scoring.js, as far as a report or a rating is made *)
(* of them.  Probabilities are in percent, so that the clamp away from 0   *)
(* and 1 by a billionth is a clamp into 0..100; Brier losses are in        *)
(* percent squared; stake weights are in tenths and PAS in thousandths, so *)
(* that a stake whose root is whole has its exact PAS.  The log loss is    *)
(* left out: no rating, badge or decision is made of it.                   *)
(***************************************************************************)
EXTENDS Integers

K == 40                \* PAS for a typical stake

Percent == 0..100

clampProb(p) == IF p < 0 THEN 0 ELSE IF p > 100 THEN 100 ELSE p

\* What happened, as a probability.
Truth(won) == IF won THEN 100 ELSE 0

brierLoss(p, won) == (Truth(won) - clampProb(p)) * (Truth(won) - clampProb(p))

\* The root of a stake in units of TYPICAL_STAKE = 100 chips; a sale weighs nothing.
stakeWeight(chips) ==
    IF chips < 0 THEN 0
    ELSE CHOOSE w \in 0..chips : w * w <= chips /\ chips < (w + 1) * (w + 1)

\* What a share earned, weighed: positive for a winner, and zero on average at a fair price.
pasDelta(price, won, chips) == K * (Truth(won) - clampProb(price)) * stakeWeight(chips)
=============================================================================
