---------------------------- MODULE MCResolution ----------------------------
(* Resolution of a two-outcome market with an owner, an admin and a user     *)
(* who is neither; the admin may also send an index the market does not have.*)
EXTENDS Resolution, TLC

CONSTANTS owner, admin, other, yes, no, beyond, h1, h2

MCUsers == {owner, admin, other}
MCAdmins == {admin}
TwoOutcomes == {yes, no}
MCChoices == {yes, no, beyond}
TwoHandlers == {h1, h2}

HandlerSymmetry == Permutations(Handlers)
=============================================================================
