------------------------------ MODULE MCReview ------------------------------
(* Review with one admin at the page and one elsewhere, one draft to a page,  *)
(* and one list request under way.                                            *)
EXTENDS Review

CONSTANTS me, other, l1

MCMine == {me}
MCOthers == {other}
MCSlots == {l1}
MCTabs == {"PENDING", "APPROVED"}
=============================================================================
