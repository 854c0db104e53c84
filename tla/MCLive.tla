------------------------------- MODULE MCLive -------------------------------
(* Live with one request of the page under way, two trades and one failure.   *)
EXTENDS Live

CONSTANTS l1

MCLoads == {l1}
=============================================================================
