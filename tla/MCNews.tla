------------------------------- MODULE MCNews -------------------------------
(* News with two feeds that share an article, the oldest article poison, and  *)
(* two articles to a run.  One feed is RSS, and one of its entries has no     *)
(* title; the other is Atom, and its entries have links of their own and to   *)
(* the article.                                                               *)
EXTENDS News

CONSTANTS n1, n2, n3, own, t1, t2, admin

MCItems == {n1, n2, n3, own}

Rss(url) == [links |-> <<[rel |-> "none", url |-> url]>>, titled |-> TRUE]
Atom(url) == [links |-> <<[rel |-> "self", url |-> own], [rel |-> "alternate", url |-> url]>>,
              titled |-> TRUE]
Untitled(e) == [e EXCEPT !.titled = FALSE]

MCFeeds == << <<Rss(n1), Untitled(Rss(n3)), Rss(n2)>>, <<Atom(n2), Atom(n3)>> >>
MCPoison == {n1}
MCAnswers == {<<"malformed">>, <<"unsure", "low">>}
MCTimed == {t1, t2}
MCAdmins == {admin}
=============================================================================
