----------------------------- MODULE MCRateLimit -----------------------------
(* RateLimit with two limiters of different windows in the maps of a worker. *)
EXTENDS RateLimit

CONSTANTS w1, trade, login

MCWorkers == {w1}
MCKeys == {trade, login}
MCLimit == [k \in MCKeys |-> IF k = trade THEN 2 ELSE 1]
MCWindow == [k \in MCKeys |-> IF k = trade THEN 2 ELSE 3]
=============================================================================
