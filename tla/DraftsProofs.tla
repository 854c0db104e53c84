---------------------------- MODULE DraftsProofs ----------------------------
(* Theorems about the way from an article to a market: the runs of News that  *)
(* store articles and draft markets of them, and the reviews of Review that   *)
(* decide about the drafts, for any number of runs, feeds, admins and drafts, *)
(* and for steps that overlap and break off anywhere.                         *)
EXTENDS News, Review, SequenceTheorems, FiniteSetTheorems, TLAPS

-----------------------------------------------------------------------------
(* What is selected from a sequence *)

\* The ranks of a finite set of numbers are 1, 2, ... in their order.
LEMMA Ranked ==
    ASSUME NEW n \in Nat, NEW K \in SUBSET (1..n)
    PROVE  /\ Cardinality(K) \in Nat
           /\ \A k \in K : Rank(K, k) \in 1..Cardinality(K)
           /\ \A j, k \in K : j < k => Rank(K, j) < Rank(K, k)
           /\ \A i \in 1..Cardinality(K) : \E k \in K : Rank(K, k) = i
<1>1. IsFiniteSet(K) /\ Cardinality(K) \in Nat
  <2>1. IsFiniteSet(1..n)
    BY FS_Interval
  <2>2. IsFiniteSet(K)
    BY <2>1, FS_Subset
  <2> QED
    BY <2>2, FS_CardinalityType
<1>0. \A k \in K : k \in Int
  OBVIOUS
<1>2. ASSUME NEW k \in K
      PROVE  Rank(K, k) \in 1..Cardinality(K)
  <2> DEFINE B == {j \in K : j <= k}
  <2>1. B \subseteq K /\ k \in B
    BY <1>0
  <2> HIDE DEF B
  <2>2. IsFiniteSet(B) /\ Cardinality(B) \in Nat /\ Cardinality(B) <= Cardinality(K)
    BY <1>1, <2>1, FS_Subset, FS_CardinalityType
  <2>3. Cardinality(B) # 0
    BY <2>1, <2>2, FS_EmptySet
  <2> QED
    BY <1>1, <2>2, <2>3 DEF Rank, B
<1>3. ASSUME NEW j \in K, NEW k \in K, j < k
      PROVE  Rank(K, j) < Rank(K, k)
  <2> DEFINE A == {i \in K : i <= j}
             B == {i \in K : i <= k}
  <2>0. j \in Int /\ k \in Int /\ \A i \in K : i \in Int
    BY <1>0
  <2>1. A \subseteq B
    <3> SUFFICES ASSUME NEW i \in K, i <= j PROVE i <= k
      OBVIOUS
    <3>1. i \in Int
      BY <2>0
    <3> QED
      BY <2>0, <1>3, <3>1
  <2>4. B \subseteq K /\ k \in B /\ k \notin A
    BY <2>0, <1>3
  <2> HIDE DEF A, B
  <2>2. IsFiniteSet(B) /\ Cardinality(B) \in Nat
    BY <1>1, <2>4, FS_Subset, FS_CardinalityType
  <2>5. IsFiniteSet(A) /\ Cardinality(A) <= Cardinality(B) /\ (Cardinality(B) = Cardinality(A) => A = B)
    BY <2>1, <2>2, FS_Subset
  <2>6. Cardinality(A) \in Nat
    BY <2>5, FS_CardinalityType
  <2>3. Cardinality(A) < Cardinality(B)
    BY <2>2, <2>4, <2>5, <2>6
  <2> QED
    BY <2>3 DEF Rank, A, B
<1>4. ASSUME NEW i \in 1..Cardinality(K)
      PROVE  \E k \in K : Rank(K, k) = i
  <2> DEFINE rank == [k \in K |-> Rank(K, k)]
             T == 1..Cardinality(K)
  <2>1. rank \in Injection(K, T)
    <3>1. rank \in [K -> T]
      BY <1>2
    <3>2. ASSUME NEW j \in K, NEW k \in K, rank[j] = rank[k]
          PROVE  j = k
      <4>1. Rank(K, j) = Rank(K, k) /\ Rank(K, j) \in Int
        BY <1>1, <1>2, <3>2
      <4> QED
        BY <1>3, <4>1
    <3> QED
      BY <3>1, <3>2 DEF Injection, IsInjective
  <2>2. IsFiniteSet(T) /\ Cardinality(T) = Cardinality(K)
    BY <1>1, FS_Interval
  <2>3. rank \in Surjection(K, T)
    <3> HIDE DEF rank, T
    <3> QED BY <2>1, <2>2, FS_Injection
  <2>4. \E k \in K : rank[k] = i
    BY <2>3 DEF Surjection
  <2> QED
    BY <2>4
<1> QED
  BY <1>1, <1>2, <1>3, <1>4

LEMMA Ordered ==
    ASSUME NEW n \in Nat, NEW K \in SUBSET (1..n)
    PROVE  /\ InOrder(K) \in [1..Cardinality(K) -> K]
           /\ Cardinality(K) \in Nat
           /\ \A i, j \in 1..Cardinality(K) : i < j => InOrder(K)[i] < InOrder(K)[j]
           /\ \A k \in K : \E i \in 1..Cardinality(K) : InOrder(K)[i] = k
<1>1. ASSUME NEW i \in 1..Cardinality(K)
      PROVE  InOrder(K)[i] \in K /\ Rank(K, InOrder(K)[i]) = i
  <2>1. \E k \in K : Rank(K, k) = i
    BY Ranked
  <2> QED
    BY <2>1 DEF InOrder
<1>2. InOrder(K) \in [1..Cardinality(K) -> K]
  BY <1>1 DEF InOrder
<1>3. ASSUME NEW i \in 1..Cardinality(K), NEW j \in 1..Cardinality(K), i < j
      PROVE  InOrder(K)[i] < InOrder(K)[j]
  <2>1. PICK a, b \in K : a = InOrder(K)[i] /\ b = InOrder(K)[j] /\ Rank(K, a) = i /\ Rank(K, b) = j
    BY <1>1
  <2>2. a \in Int /\ b \in Int /\ i \in Int /\ j \in Int
    OBVIOUS
  <2>3. b < a => j < i
    BY <2>1, Ranked
  <2> QED
    BY <1>3, <2>1, <2>2, <2>3
<1>4. ASSUME NEW k \in K
      PROVE  \E i \in 1..Cardinality(K) : InOrder(K)[i] = k
  <2>1. PICK i \in 1..Cardinality(K) : i = Rank(K, k)
    BY Ranked
  <2>2. PICK j \in K : j = InOrder(K)[i] /\ Rank(K, j) = i
    BY <1>1
  <2>3. j \in Int /\ k \in Int /\ i \in Int
    OBVIOUS
  <2>4. (j < k => i < i) /\ (k < j => i < i)
    BY <2>1, <2>2, Ranked
  <2> QED
    BY <2>2, <2>3, <2>4
<1> QED
  BY <1>2, <1>3, <1>4, Ranked

\* The entries at some places are as many, in their order and none left out.
LEMMA Places ==
    ASSUME NEW S, NEW s \in Seq(S), NEW K \in SUBSET (1..Len(s))
    PROVE  /\ AtPlaces(s, K) \in Seq(S)
           /\ Len(AtPlaces(s, K)) = Cardinality(K) /\ Cardinality(K) \in Nat
           /\ \A i \in 1..Cardinality(K) :
                 InOrder(K)[i] \in K /\ AtPlaces(s, K)[i] = s[InOrder(K)[i]]
           /\ InSeq(AtPlaces(s, K)) = {s[k] : k \in K}
           /\ IsInjective(s) => IsInjective(AtPlaces(s, K))
<1>0. Len(s) \in Nat
  OBVIOUS
<1>1. /\ InOrder(K) \in [1..Cardinality(K) -> K] /\ Cardinality(K) \in Nat
      /\ \A i, j \in 1..Cardinality(K) : i < j => InOrder(K)[i] < InOrder(K)[j]
      /\ \A k \in K : \E i \in 1..Cardinality(K) : InOrder(K)[i] = k
  BY <1>0, Ordered
<1>2. AtPlaces(s, K) = [i \in 1..Cardinality(K) |-> s[InOrder(K)[i]]]
  BY DEF AtPlaces
<1>3. ASSUME NEW i \in 1..Cardinality(K)
      PROVE  InOrder(K)[i] \in K /\ InOrder(K)[i] \in 1..Len(s) /\ s[InOrder(K)[i]] \in S
  <2>1. InOrder(K)[i] \in K
    BY <1>1
  <2>2. InOrder(K)[i] \in 1..Len(s)
    BY <2>1
  <2> QED
    BY <2>1, <2>2
<1>4. AtPlaces(s, K) \in Seq(S) /\ Len(AtPlaces(s, K)) = Cardinality(K)
  <2>1. AtPlaces(s, K) \in [1..Cardinality(K) -> S]
    BY <1>2, <1>3
  <2>2. PICK n \in Nat : n = Cardinality(K)
    BY <1>1
  <2>3. \A t \in [1..n -> S] : t \in Seq(S) /\ Len(t) = n
    OBVIOUS
  <2> QED
    BY <2>1, <2>2, <2>3
<1>5. InSeq(AtPlaces(s, K)) = {s[k] : k \in K}
  <2>1. InSeq(AtPlaces(s, K)) = {s[InOrder(K)[i]] : i \in 1..Cardinality(K)}
    <3>1. \A i \in 1..Cardinality(K) : AtPlaces(s, K)[i] = s[InOrder(K)[i]]
      BY <1>2
    <3>2. InSeq(AtPlaces(s, K)) = {AtPlaces(s, K)[i] : i \in 1..Cardinality(K)}
      BY <1>4 DEF InSeq
    <3> QED
      BY <3>1, <3>2, Zenon
  <2>2. \A i \in 1..Cardinality(K) : InOrder(K)[i] \in K
    BY <1>1
  <2>3. \A k \in K : \E i \in 1..Cardinality(K) : InOrder(K)[i] = k
    BY <1>1
  <2> HIDE <1>1
  <2> QED
    BY <2>1, <2>2, <2>3, Zenon
<1>6. ASSUME IsInjective(s), NEW i \in 1..Cardinality(K), NEW j \in 1..Cardinality(K),
             s[InOrder(K)[i]] = s[InOrder(K)[j]]
      PROVE  i = j
  <2>1. PICK a, b \in 1..Len(s) : a = InOrder(K)[i] /\ b = InOrder(K)[j]
    BY <1>3
  <2>2. a = b
    BY <1>6, <2>1 DEF IsInjective
  <2>3. a \in Int /\ b \in Int /\ i \in Int /\ j \in Int
    BY <1>1
  <2>4. (i < j => a < b) /\ (j < i => b < a)
    BY <1>1, <2>1
  <2> QED
    BY <2>2, <2>3, <2>4
<1>7. IsInjective(s) => IsInjective(AtPlaces(s, K))
  BY <1>2, <1>6 DEF IsInjective
<1> QED
  BY <1>1, <1>2, <1>3, <1>4, <1>5, <1>7

LEMMA PlacesTyped ==
    ASSUME NEW S, NEW s \in Seq(S), NEW K \in SUBSET (1..Len(s))
    PROVE  AtPlaces(s, K) \in Seq(S)
  BY Places

-----------------------------------------------------------------------------
(* News *)

Storing == {"fetching", "finding", "creating"}
WithItem == {"finding", "creating", "asking", "saving"}
Drafting == {"asking", "saving"}

\* A run is at a feed there is and has an item at hand, and drafts none of them twice.
TaskSound(r) ==
    /\ at[r] \in Storing => task[r].feed \in 1..Len(Feeds)
    /\ at[r] \in WithItem => task[r].todo # <<>>
    /\ at[r] \in Drafting => IsInjective(task[r].todo)

\* The timer has one run at a time, and the flag is up meanwhile.
SingleFlight ==
    /\ \A r \in Timed : at[r] # "idle" => running
    /\ \A q, r \in Timed : at[q] # "idle" /\ at[r] # "idle" => q = r

\* What a run has not saved of an answer it has still at hand.
AnswerInHand(r) ==
    at[r] = "saving" => Saved(Item(r)) + Len(task[r].answer) >= task[r].batch

\* Two runs that draft one item make it tangled.
Apart == \A q, r \in Runs : q # r => \A i \in Holding(q) \cap Holding(r) : i \in tangled

\* An item that one run alone drafts has the drafts that this run gave it.
HeldFresh(r) ==
    \A i \in Holding(r) \ tangled :
        /\ i \notin drafted
        /\ IF at[r] = "saving" /\ Item(r) = i
           THEN Saved(i) + Len(task[r].answer) = task[r].batch
           ELSE Saved(i) = 0

NewsInv ==
    /\ NewsTypeOK
    /\ \A r \in Runs : TaskSound(r) /\ AnswerInHand(r) /\ HeldFresh(r)
    /\ SingleFlight
    /\ Apart
    /\ DraftedIsComplete
    /\ DraftedOnce

LEMMA TaskTypes ==
    /\ NoTask \in Task /\ NoTask.todo = <<>>
    /\ \A t \in Task : /\ t.feed \in Nat /\ t.todo \in Seq(Items)
                       /\ t.answer \in Seq(Proposals) /\ t.batch \in Nat
<1>2. <<>> \in Seq(Items) /\ <<>> \in Seq(Proposals) /\ 0 \in Nat
  OBVIOUS
<1>3. /\ TaskOf(0, <<>>, <<>>, 0) \in Task
      /\ TaskOf(0, <<>>, <<>>, 0).todo = <<>>
  BY <1>2 DEF Task, TaskOf
<1>4. \A t \in Task : /\ t.feed \in Nat /\ t.todo \in Seq(Items)
                       /\ t.answer \in Seq(Proposals) /\ t.batch \in Nat
  BY DEF Task
<1> QED
  BY <1>3, <1>4 DEF NoTask

\* The head of a sequence and what is behind it.
LEMMA Behind ==
    ASSUME NEW S, NEW s \in Seq(S), s # <<>>
    PROVE  /\ Head(s) \in S /\ Head(s) \in InSeq(s)
           /\ Tail(s) \in Seq(S) /\ InSeq(Tail(s)) \subseteq InSeq(s)
           /\ IsInjective(s) => IsInjective(Tail(s)) /\ Head(s) \notin InSeq(Tail(s))
<1>1. Len(s) \in Nat /\ Len(s) > 0 /\ Head(s) = s[1] /\ 1 \in 1..Len(s)
  OBVIOUS
<1>2. /\ Tail(s) \in Seq(S) /\ Len(Tail(s)) = Len(s) - 1
      /\ \A i \in 1..Len(Tail(s)) : i + 1 \in 1..Len(s) /\ Tail(s)[i] = s[i + 1]
  BY <1>1
<1>3. Head(s) \in S /\ Head(s) \in InSeq(s)
  BY <1>1 DEF InSeq
<1>4. InSeq(Tail(s)) \subseteq InSeq(s)
  BY <1>2 DEF InSeq
<1>5. ASSUME IsInjective(s)
      PROVE  IsInjective(Tail(s)) /\ Head(s) \notin InSeq(Tail(s))
  <2>1. ASSUME NEW i \in 1..Len(Tail(s))
        PROVE  s[i + 1] # s[1]
    BY <1>1, <1>2, <1>5, <2>1 DEF IsInjective
  <2>2. Head(s) \notin InSeq(Tail(s))
    BY <1>1, <1>2, <2>1 DEF InSeq
  <2>3. ASSUME NEW i \in 1..Len(Tail(s)), NEW j \in 1..Len(Tail(s)), Tail(s)[i] = Tail(s)[j]
        PROVE  i = j
    <3>1. i + 1 = j + 1
      BY <1>2, <1>5, <2>3 DEF IsInjective
    <3> QED
      BY <3>1
  <2>4. DOMAIN Tail(s) = 1..Len(Tail(s))
    BY <1>2
  <2> QED
    BY <2>2, <2>3, <2>4 DEF IsInjective
<1> QED
  BY <1>2, <1>3, <1>4, <1>5

\* What a feed is parsed to, what is taken up for drafting and what is usable.
LEMMA ParsedTypes == \A f \in 1..Len(Feeds) : parseFeed[f] \in Seq(Items)
<1> SUFFICES ASSUME NEW f \in 1..Len(Feeds) PROVE parseFeed[f] \in Seq(Items)
  OBVIOUS
<1> DEFINE kept == Select(Feeds[f], Kept)
           K == {i \in 1..Len(Feeds[f]) : Kept(Feeds[f][i])}
<1>1. Feeds[f] \in Seq(Entry)
  BY NewsAssumption
<1>2. kept = AtPlaces(Feeds[f], K)
  BY DEF Select
<1>3. /\ kept \in Seq(Entry) /\ Len(kept) = Cardinality(K)
      /\ \A i \in 1..Cardinality(K) : InOrder(K)[i] \in K /\ kept[i] = Feeds[f][InOrder(K)[i]]
  <2>1. K \in SUBSET (1..Len(Feeds[f]))
    OBVIOUS
  <2> HIDE DEF K, kept
  <2> QED
    BY <1>1, <1>2, <2>1, Places
<1>4. ASSUME NEW i \in 1..Len(kept)
      PROVE  kept[i] \in Entry /\ Kept(kept[i])
  <2>1. InOrder(K)[i] \in K /\ kept[i] = Feeds[f][InOrder(K)[i]]
    BY <1>3
  <2>2. Kept(Feeds[f][InOrder(K)[i]])
    BY <2>1
  <2>3. kept[i] \in Entry
    BY <1>3
  <2> HIDE DEF kept, K
  <2> QED
    BY <2>1, <2>2, <2>3
<1>5. ASSUME NEW e \in Entry, Kept(e)
      PROVE  pickLink(e) \in Items
  <2> DEFINE L == {i \in 1..Len(e.links) : Alternate(e.links[i])}
             of == AtPlaces(e.links, L)
  <2>1. e.links \in Seq(Link) /\ L \in SUBSET (1..Len(e.links)) /\ L # {}
    BY <1>5 DEF Entry, Kept
  <2>2. of \in Seq(Link) /\ InSeq(of) = {e.links[k] : k \in L}
    <3>1. \A s \in Seq(Link) : \A M \in SUBSET (1..Len(s)) :
             AtPlaces(s, M) \in Seq(Link) /\ InSeq(AtPlaces(s, M)) = {s[k] : k \in M}
      BY Places
    <3> HIDE DEF L
    <3> QED BY <2>1, <3>1
  <2>3. InSeq(of) # {}
    BY <2>1, <2>2
  <2>4. of # <<>>
    <3> HIDE DEF of
    <3> QED BY <2>3 DEF InSeq
  <2>5. Head(of) \in Link
    <3> HIDE DEF of
    <3> QED BY <2>2, <2>4
  <2>6. pickLink(e) = Head(of).url
    BY DEF pickLink, Select
  <2> HIDE DEF of
  <2> QED
    BY <2>5, <2>6 DEF Link
<1>6. parseFeed[f] = [i \in 1..Len(kept) |-> pickLink(kept[i])]
  BY DEF parseFeed
<1>7. Len(kept) \in Nat /\ \A i \in 1..Len(kept) : pickLink(kept[i]) \in Items
  <2>1. Len(kept) \in Nat
    <3> HIDE DEF kept, K
    <3> QED BY <1>3
  <2> HIDE DEF kept
  <2> QED
    BY <1>4, <1>5, <2>1
<1> HIDE DEF kept
<1> QED
  BY <1>6, <1>7

LEMMA PendingFresh ==
    ASSUME NewsTypeOK
    PROVE  /\ Pending \in Seq(Items) /\ IsInjective(Pending)
           /\ \A i \in InSeq(Pending) : i \in Items /\ i \notin drafted
<1> DEFINE K == {i \in 1..Len(news) : Undrafted(news[i])}
<1>1. news \in Seq(Items) /\ IsInjective(news)
  BY DEF NewsTypeOK
<1>2. /\ Oldest \in Seq(Items) /\ IsInjective(Oldest)
      /\ InSeq(Oldest) = {news[k] : k \in K}
  <2>1. Oldest = AtPlaces(news, K) /\ K \in SUBSET (1..Len(news))
    BY DEF Oldest, Select
  <2> HIDE DEF K
  <2> QED
    BY <1>1, <2>1, Places
<1>3. \A i \in InSeq(Oldest) : i \in Items /\ i \notin drafted
  BY <1>1, <1>2 DEF Undrafted
<1> DEFINE n == IF Len(Oldest) < Limit THEN Len(Oldest) ELSE Limit
<1>4. n \in Nat /\ n <= Len(Oldest) /\ Len(Oldest) \in Nat
  BY <1>2, NewsAssumption
<1>5. Pending = SubSeq(Oldest, 1, n)
  BY DEF Pending
<1> HIDE DEF n, K
<1>6. /\ Pending \in Seq(Items) /\ Len(Pending) = n
      /\ \A i \in 1..n : i \in 1..Len(Oldest) /\ Pending[i] = Oldest[i]
  BY <1>2, <1>4, <1>5
<1>7. IsInjective(Pending)
  BY <1>2, <1>6 DEF IsInjective
<1>8. \A i \in InSeq(Pending) : i \in InSeq(Oldest)
  BY <1>6 DEF InSeq
<1> QED
  BY <1>3, <1>6, <1>7, <1>8

LEMMA UsableTypes ==
    \A answer \in Answers : Select(answer, Usable) \in Seq(Proposals)
<1> SUFFICES ASSUME NEW answer \in Answers PROVE Select(answer, Usable) \in Seq(Proposals)
  OBVIOUS
<1> DEFINE K == {i \in 1..Len(answer) : Usable(answer[i])}
<1>1. answer \in Seq(Proposals) /\ K \in SUBSET (1..Len(answer))
  BY NewsAssumption
<1>2. Select(answer, Usable) = AtPlaces(answer, K)
  BY DEF Select
<1> HIDE DEF K
<1>3. AtPlaces(answer, K) \in Seq(Proposals)
  BY <1>1, PlacesTyped
<1> QED
  BY <1>2, <1>3

-----------------------------------------------------------------------------
(* The steps of News *)

LEMMA ProceedMoves ==
    ASSUME NewsTypeOK, NEW r \in Runs, NEW stage \in Phases, NEW t \in Task,
           Proceed(r, stage, t)
    PROVE  /\ at' \in [Runs -> Phases] /\ task' \in [Runs -> Task]
           /\ at'[r] = stage /\ task'[r] = t
           /\ \A q \in Runs \ {r} : at'[q] = at[q] /\ task'[q] = task[q]
  BY DEF Proceed, NewsTypeOK

\* A run that goes on leaves the flag, one that ends lowers it if it raised it.
LEMMA FlightGoesOn ==
    ASSUME NewsTypeOK, SingleFlight, NEW r \in Runs, NEW stage \in Phases, NEW t \in Task,
           Proceed(r, stage, t), running' = running, at[r] # "idle" \/ r \notin Timed
    PROVE  SingleFlight' /\ running' \in BOOLEAN
<1>1. /\ at'[r] = stage /\ \A q \in Runs \ {r} : at'[q] = at[q]
  BY ProceedMoves
<1>2. Timed \subseteq Runs
  BY DEF Runs
<1>3. \A q \in Timed : at'[q] # "idle" => at[q] # "idle"
  BY <1>1, <1>2
<1>4. running' \in BOOLEAN
  BY DEF NewsTypeOK
<1>5. \A q \in Timed : at'[q] # "idle" => running'
  BY <1>3, Zenon DEF SingleFlight
<1> QED
  BY <1>3, <1>4, <1>5 DEF SingleFlight

LEMMA FlightEnds ==
    ASSUME NewsTypeOK, SingleFlight, NEW r \in Runs, Finish(r), at[r] # "idle"
    PROVE  SingleFlight' /\ running' \in BOOLEAN
<1>1. at'[r] = "idle" /\ \A q \in Runs \ {r} : at'[q] = at[q]
  BY ProceedMoves, TaskTypes DEF Finish, Phases
<1>2. Timed \subseteq Runs
  BY DEF Runs
<1>3. \A q \in Timed : at'[q] # "idle" => q # r /\ at[q] # "idle"
  BY <1>1, <1>2
<1>4. running' = (r \notin Timed /\ running)
  BY DEF Finish, FlagAfter
<1>5. ASSUME NEW q \in Timed, at'[q] # "idle" PROVE running'
  <2>1. q # r /\ at[q] # "idle"
    BY <1>3, <1>5
  <2>2. r \notin Timed
    BY <2>1 DEF SingleFlight
  <2>3. running
    BY <2>1 DEF SingleFlight
  <2> QED
    BY <1>4, <2>2, <2>3
<1>6. running' \in BOOLEAN
  BY <1>4
<1> QED
  BY <1>3, <1>5, <1>6 DEF SingleFlight

\* A step of one run that writes no draft and marks no item.
LEMMA MoveStep ==
    ASSUME NewsInv, NEW r \in Runs,
           at' \in [Runs -> Phases], task' \in [Runs -> Task],
           \A q \in Runs \ {r} : at'[q] = at[q] /\ task'[q] = task[q],
           news' \in Seq(Items), IsInjective(news'), asked' \in Nat, failures' \in Nat,
           running' \in BOOLEAN, SingleFlight',
           drafted' = drafted, queued' = queued, rejected' = rejected, due' = due,
           tangled \subseteq tangled', tangled' \subseteq Items,
           \A q \in Runs \ {r} : \A i \in Holding(r)' \cap Holding(q) : i \in tangled',
           at[r] = "saving" => Item(r) \in tangled',
           TaskSound(r)', AnswerInHand(r)', HeldFresh(r)'
    PROVE  NewsInv'
<1>1. NewsTypeOK'
  BY DEF NewsInv, NewsTypeOK
<1>2. \A i \in Items : Saved(i)' = Saved(i)
  BY DEF Saved
<1>3. \A q \in Runs \ {r} : Holding(q)' = Holding(q) /\ Item(q)' = Item(q)
  BY DEF Holding, Item
<1>4. ASSUME NEW q \in Runs \ {r}
      PROVE  TaskSound(q)' /\ AnswerInHand(q)' /\ HeldFresh(q)'
  <2>1. TaskSound(q) /\ AnswerInHand(q) /\ HeldFresh(q)
    BY DEF NewsInv
  <2>2. TaskSound(q)'
    BY <1>4, <2>1 DEF TaskSound
  <2>3. AnswerInHand(q)'
    BY <1>3, <1>4, <2>1 DEF AnswerInHand, Saved
  <2>4. HeldFresh(q)'
    BY <1>3, <1>4, <2>1 DEF HeldFresh, Saved
  <2> QED
    BY <2>2, <2>3, <2>4
<1>5. Apart'
  <2> SUFFICES ASSUME NEW p \in Runs, NEW q \in Runs, p # q, NEW i \in Holding(p)' \cap Holding(q)'
               PROVE  i \in tangled'
    BY DEF Apart
  <2>1. CASE p = r
    BY <1>3, <2>1
  <2>2. CASE q = r
    BY <1>3, <2>2
  <2>3. CASE p # r /\ q # r
    BY <1>3, <2>3 DEF NewsInv, Apart
  <2> QED
    BY <2>1, <2>2, <2>3
<1>6. DraftedIsComplete'
  BY DEF NewsInv, DraftedIsComplete, Saved
<1>7. DraftedOnce'
  <2> SUFFICES ASSUME NEW i \in Items, i \notin tangled'
               PROVE  /\ i \in drafted => Saved(i) = due[i]
                      /\ i \notin drafted =>
                           \/ Saved(i) = 0
                           \/ \E q \in Runs \ {r} :
                                /\ at[q] = "saving" /\ Item(q) = i
                                /\ Saved(i) + Len(task[q].answer) = task[q].batch
    <3>1. \A q \in Runs \ {r} : at'[q] = at[q] /\ task'[q] = task[q] /\ Item(q)' = Item(q)
      BY <1>3
    <3> QED
      BY <1>2, <3>1 DEF DraftedOnce
  <2>1. i \notin tangled /\ ~ (at[r] = "saving" /\ Item(r) = i)
    OBVIOUS
  <2> QED
    BY <2>1 DEF NewsInv, DraftedOnce
<1> QED
  BY <1>1, <1>4, <1>5, <1>6, <1>7 DEF NewsInv

\* A step of a run that stores articles.
LEMMA StoreStep ==
    ASSUME NewsInv, NEW r \in Runs, at[r] \notin Drafting,
           NEW stage \in Phases \ Drafting, NEW t \in Task, Proceed(r, stage, t),
           stage \in Storing => t.feed \in 1..Len(Feeds),
           stage \in WithItem => t.todo # <<>>,
           news' \in Seq(Items), IsInjective(news'), asked' \in Nat, failures' \in Nat,
           running' \in BOOLEAN, SingleFlight',
           UNCHANGED <<drafted, queued, rejected, due, tangled>>
    PROVE  NewsInv'
<1>1. /\ at' \in [Runs -> Phases] /\ task' \in [Runs -> Task]
      /\ at'[r] = stage /\ task'[r] = t
      /\ \A q \in Runs \ {r} : at'[q] = at[q] /\ task'[q] = task[q]
  BY ProceedMoves DEF NewsInv
<1>2. Holding(r)' = {} /\ HeldFresh(r)'
  BY <1>1 DEF Holding, HeldFresh, Drafting
<1>3. TaskSound(r)' /\ AnswerInHand(r)'
  BY <1>1 DEF TaskSound, AnswerInHand, Drafting
<1>4. tangled' \subseteq Items
  BY DEF NewsInv, NewsTypeOK
<1>5. at[r] # "saving"
  BY DEF Drafting
<1> QED
  BY <1>1, <1>2, <1>3, <1>4, <1>5, MoveStep

\* Where a run goes from a feed and from an article.
Goes(r) ==
    \E stage \in Phases \ Drafting, t \in Task :
        /\ stage # "idle" /\ Proceed(r, stage, t)
        /\ stage \in Storing => t.feed \in 1..Len(Feeds)
        /\ stage \in WithItem => t.todo # <<>>

LEMMA NextFeedGoes ==
    ASSUME NewsTypeOK, NEW r \in Runs, task[r].feed \in 1..Len(Feeds), NextFeed(r)
    PROVE  Goes(r)
<1>1. <<>> \in Seq(Items) /\ <<>> \in Seq(Proposals) /\ 0 \in Nat /\ Len(Feeds) \in Nat
  BY NewsAssumption
<1>2. CASE task[r].feed < Len(Feeds)
  <2> DEFINE t == TaskOf(task[r].feed + 1, <<>>, <<>>, 0)
  <2>1. task[r].feed + 1 \in Nat /\ task[r].feed + 1 \in 1..Len(Feeds)
    BY <1>1, <1>2
  <2>2. t \in Task /\ t.feed = task[r].feed + 1
    BY <1>1, <2>1 DEF TaskOf, Task
  <2>3. Proceed(r, "fetching", t)
    BY <1>2 DEF NextFeed
  <2>4. "fetching" \in Phases \ Drafting /\ "fetching" \notin WithItem
    BY DEF Phases, Drafting, WithItem
  <2> HIDE DEF t
  <2> QED
    BY <2>1, <2>2, <2>3, <2>4 DEF Goes
<1>3. CASE ~ task[r].feed < Len(Feeds)
  <2>1. Proceed(r, "listing", NoTask)
    BY <1>3 DEF NextFeed
  <2>2. "listing" \in Phases \ Drafting /\ "listing" \notin WithItem \cup Storing
    BY DEF Phases, Drafting, WithItem, Storing
  <2> QED
    BY <2>1, <2>2, TaskTypes DEF Goes
<1> QED
  BY <1>2, <1>3

LEMMA NextArticleGoes ==
    ASSUME NewsTypeOK, NEW r \in Runs, task[r].feed \in 1..Len(Feeds),
           NEW todo \in Seq(Items), NextArticle(r, todo)
    PROVE  Goes(r)
<1>1. CASE todo = <<>>
  BY <1>1, NextFeedGoes DEF NextArticle
<1>2. CASE todo # <<>>
  <2> DEFINE t == TaskOf(task[r].feed, todo, <<>>, 0)
  <2>1. t \in Task /\ t.feed = task[r].feed /\ t.todo = todo
    <3>1. <<>> \in Seq(Proposals) /\ 0 \in Nat /\ task[r].feed \in Nat
      OBVIOUS
    <3> QED
      BY <3>1 DEF TaskOf, Task
  <2>2. Proceed(r, "finding", t)
    BY <1>2 DEF NextArticle
  <2>3. "finding" \in Phases \ Drafting
    BY DEF Phases, Drafting
  <2> HIDE DEF t
  <2> QED
    BY <1>2, <2>1, <2>2, <2>3 DEF Goes
<1> QED
  BY <1>1, <1>2

\* Such a step of a run that was at its feeds.
LEMMA GoesStep ==
    ASSUME NewsInv, NEW r \in Runs, at[r] \in Storing, Goes(r),
           news' \in Seq(Items), IsInjective(news'), asked' \in Nat, failures' \in Nat,
           running' = running, UNCHANGED <<drafted, queued, rejected, due, tangled>>
    PROVE  NewsInv'
<1>1. PICK stage \in Phases \ Drafting, t \in Task :
        /\ stage # "idle" /\ Proceed(r, stage, t)
        /\ stage \in Storing => t.feed \in 1..Len(Feeds)
        /\ stage \in WithItem => t.todo # <<>>
  BY DEF Goes
<1>2. at[r] # "idle" /\ at[r] \notin Drafting
  BY DEF Storing, Drafting
<1>3. SingleFlight' /\ running' \in BOOLEAN
  BY <1>1, <1>2, FlightGoesOn DEF NewsInv
<1> QED
  BY <1>1, <1>2, <1>3, StoreStep

LEMMA TickStep == ASSUME NewsInv, NEW r \in Runs, Tick(r) PROVE NewsInv'
<1> DEFINE t == TaskOf(1, <<>>, <<>>, 0)
<1>1. t \in Task /\ t.feed = 1 /\ 1 \in 1..Len(Feeds)
  <2>1. <<>> \in Seq(Items) /\ <<>> \in Seq(Proposals) /\ 0 \in Nat /\ 1 \in Nat
    OBVIOUS
  <2>2. t \in Task /\ t.feed = 1
    BY <2>1 DEF TaskOf, Task
  <2> QED
    BY <2>2, NewsAssumption
<1>2. "fetching" \in Phases \ Drafting /\ "fetching" \notin WithItem /\ at[r] \notin Drafting
  BY DEF Tick, Phases, Drafting, WithItem
<1>3. Proceed(r, "fetching", t) /\ r \in Timed /\ ~running /\ running' = TRUE
  BY DEF Tick, InFlight
<1> HIDE DEF t
<1>4. SingleFlight'
  <2>1. \A q \in Timed : at[q] = "idle"
    BY <1>3 DEF NewsInv, SingleFlight
  <2>2. \A q \in Runs \ {r} : at'[q] = at[q]
    BY <1>1, <1>2, <1>3, ProceedMoves DEF NewsInv
  <2>3. \A q \in Timed : at'[q] # "idle" => q = r
    BY <2>1, <2>2 DEF Runs
  <2> QED
    BY <1>3, <2>3 DEF SingleFlight
<1>5. /\ news' \in Seq(Items) /\ IsInjective(news') /\ asked' \in Nat /\ failures' \in Nat
      /\ UNCHANGED <<drafted, queued, rejected, due, tangled>>
  BY DEF Tick, tables, history, NewsInv, NewsTypeOK
<1>6. running' \in BOOLEAN
  BY <1>3
<1> QED
  BY <1>1, <1>2, <1>3, <1>4, <1>5, <1>6, StoreStep

LEMMA AskStep == ASSUME NewsInv, NEW r \in Runs, Ask(r) PROVE NewsInv'
<1> DEFINE t == TaskOf(1, <<>>, <<>>, 0)
<1>1. t \in Task /\ t.feed = 1 /\ 1 \in 1..Len(Feeds)
  <2>1. <<>> \in Seq(Items) /\ <<>> \in Seq(Proposals) /\ 0 \in Nat /\ 1 \in Nat
    OBVIOUS
  <2>2. t \in Task /\ t.feed = 1
    BY <2>1 DEF TaskOf, Task
  <2> QED
    BY <2>2, NewsAssumption
<1>2. "fetching" \in Phases \ Drafting /\ "fetching" \notin WithItem /\ at[r] \notin Drafting
  BY DEF Ask, Phases, Drafting, WithItem
<1>3. Proceed(r, "fetching", t) /\ r \notin Timed /\ running' = running
  BY NewsAssumption DEF Ask
<1> HIDE DEF t
<1>4. SingleFlight' /\ running' \in BOOLEAN
  BY <1>1, <1>2, <1>3, FlightGoesOn DEF NewsInv
<1>5. /\ news' \in Seq(Items) /\ IsInjective(news') /\ asked' \in Nat /\ failures' \in Nat
      /\ UNCHANGED <<drafted, queued, rejected, due, tangled>>
  BY DEF Ask, tables, history, NewsInv, NewsTypeOK
<1> QED
  BY <1>1, <1>2, <1>3, <1>4, <1>5, StoreStep

\* The articles of a feed are fetched, looked up and created, one after the other.
LEMMA StoringStep ==
    ASSUME NewsInv, NEW r \in Runs,
           Fetch(r) \/ FetchFails(r) \/ FindArticle(r) \/ CreateArticle(r) \/ CreateRefused(r)
    PROVE  NewsInv'
<1>1. at[r] \in Storing
  BY DEF Fetch, FetchFails, FindArticle, CreateArticle, CreateRefused, Storing
<1>2. /\ running' = running /\ asked' \in Nat /\ failures' \in Nat
      /\ UNCHANGED <<drafted, queued, rejected, due, tangled>>
  BY DEF Fetch, FetchFails, FindArticle, CreateArticle, CreateRefused, tables, history,
         NewsInv, NewsTypeOK
<1>3. /\ NewsTypeOK /\ news \in Seq(Items) /\ IsInjective(news) /\ task[r] \in Task
      /\ task[r].feed \in 1..Len(Feeds)
      /\ at[r] \in WithItem => task[r].todo # <<>>
  BY <1>1 DEF NewsInv, NewsTypeOK, TaskSound
<1>4. task[r].todo \in Seq(Items)
  BY <1>3, TaskTypes
<1>5. at[r] \in WithItem => Item(r) \in Items /\ Tail(task[r].todo) \in Seq(Items)
  BY <1>3, <1>4, Behind DEF Item
<1>6. CASE Fetch(r)
  <2>1. Goes(r)
    BY <1>3, <1>6, ParsedTypes, NextArticleGoes DEF Fetch
  <2> QED
    BY <1>1, <1>2, <1>3, <1>6, <2>1, GoesStep DEF Fetch, tables
<1>7. CASE FetchFails(r) \/ CreateRefused(r)
  <2>1. Goes(r)
    BY <1>3, <1>7, NextFeedGoes DEF FetchFails, CreateRefused
  <2>2. news' = news
    BY <1>7 DEF FetchFails, CreateRefused, tables
  <2> QED
    BY <1>1, <1>2, <1>3, <2>1, <2>2, GoesStep
<1>8. CASE FindArticle(r)
  <2>1. at[r] \in WithItem /\ news' = news
    BY <1>8 DEF FindArticle, WithItem, tables
  <2>2. CASE Item(r) \in Known
    <3>1. Goes(r)
      BY <1>3, <1>5, <1>8, <2>1, <2>2, NextArticleGoes DEF FindArticle
    <3> QED
      BY <1>1, <1>2, <1>3, <2>1, <3>1, GoesStep
  <2>3. CASE Item(r) \notin Known
    <3>1. Proceed(r, "creating", task[r])
      BY <1>8, <2>3 DEF FindArticle
    <3>2. "creating" \in Phases \ Drafting
      BY DEF Phases, Drafting
    <3>3. Goes(r)
      BY <1>3, <2>1, <3>1, <3>2 DEF Goes
    <3> QED
      BY <1>1, <1>2, <1>3, <2>1, <3>3, GoesStep
  <2> QED
    BY <2>2, <2>3
<1>9. CASE CreateArticle(r)
  <2>1. at[r] \in WithItem /\ news' = Append(news, Item(r)) /\ Item(r) \notin InSeq(news)
    BY <1>9 DEF CreateArticle, WithItem, IsNew, Known
  <2>2. Goes(r)
    BY <1>3, <1>5, <1>9, <2>1, NextArticleGoes DEF CreateArticle
  <2>3. news' \in Seq(Items)
    BY <1>3, <1>5, <2>1
  <2>4. IsInjective(news')
    <3>1. /\ DOMAIN news' = 1..(Len(news) + 1) /\ Len(news) \in Nat
          /\ \A i \in 1..Len(news) : news'[i] = news[i]
          /\ news'[Len(news) + 1] = Item(r)
      BY <1>3, <1>5, <2>1
    <3>2. \A i \in 1..Len(news) : news[i] # Item(r)
      BY <2>1 DEF InSeq
    <3> QED
      BY <1>3, <3>1, <3>2 DEF IsInjective
  <2> QED
    BY <1>1, <1>2, <2>2, <2>3, <2>4, GoesStep
<1> QED
  BY <1>6, <1>7, <1>8, <1>9

\* Where a run goes from an item.
LEMMA NextItemGoes ==
    ASSUME NewsTypeOK, SingleFlight, NEW r \in Runs, at[r] # "idle",
           NEW todo \in Seq(Items), NextItem(r, todo)
    PROVE  /\ at' \in [Runs -> Phases] /\ task' \in [Runs -> Task]
           /\ \A q \in Runs \ {r} : at'[q] = at[q] /\ task'[q] = task[q]
           /\ running' \in BOOLEAN /\ SingleFlight'
           /\ \/ at'[r] = "idle"
              \/ at'[r] = "asking" /\ task'[r].todo = todo /\ todo # <<>>
<1>1. CASE todo = <<>>
  <2>1. Finish(r)
    BY <1>1 DEF NextItem
  <2>2. Proceed(r, "idle", NoTask) /\ "idle" \in Phases
    BY <2>1 DEF Finish, Phases
  <2>3. SingleFlight' /\ running' \in BOOLEAN
    BY <2>1, FlightEnds
  <2> QED
    BY <2>2, <2>3, ProceedMoves, TaskTypes
<1>2. CASE todo # <<>>
  <2> DEFINE t == TaskOf(0, todo, <<>>, 0)
  <2>1. t \in Task /\ t.todo = todo
    <3>1. <<>> \in Seq(Proposals) /\ 0 \in Nat
      OBVIOUS
    <3> QED
      BY <3>1 DEF TaskOf, Task
  <2>2. Proceed(r, "asking", t) /\ running' = running /\ "asking" \in Phases
    BY <1>2 DEF NextItem, Phases
  <2> HIDE DEF t
  <2>3. SingleFlight' /\ running' \in BOOLEAN
    BY <2>1, <2>2, FlightGoesOn
  <2> QED
    BY <1>2, <2>1, <2>2, <2>3, ProceedMoves
<1> QED
  BY <1>1, <1>2

\* The items of a run are those of its task.
LEMMA HoldingTypes ==
    ASSUME NewsInv, NEW r \in Runs, at[r] \in Drafting
    PROVE  /\ task[r].todo \in Seq(Items) /\ task[r].todo # <<>> /\ IsInjective(task[r].todo)
           /\ Holding(r) = InSeq(task[r].todo) /\ Item(r) \in Holding(r) /\ Item(r) \in Items
           /\ Tail(task[r].todo) \in Seq(Items) /\ IsInjective(Tail(task[r].todo))
           /\ InSeq(Tail(task[r].todo)) \subseteq Holding(r)
           /\ Item(r) \notin InSeq(Tail(task[r].todo))
<1>1. task[r].todo \in Seq(Items) /\ task[r].todo # <<>> /\ IsInjective(task[r].todo)
  BY TaskTypes DEF NewsInv, NewsTypeOK, TaskSound, Drafting, WithItem
<1>2. Holding(r) = InSeq(task[r].todo)
  BY DEF Holding, Drafting
<1> QED
  BY <1>1, <1>2, Behind DEF Item

\* A run that has done with an item goes on with items that are fresh.
LEMMA NextItemStep ==
    ASSUME NewsInv, NEW r \in Runs, at[r] # "idle",
           NEW todo \in Seq(Items), IsInjective(todo), NextItem(r, todo),
           UNCHANGED <<tables, due>>, asked' \in Nat, failures' \in Nat,
           tangled \subseteq tangled', tangled' \subseteq Items,
           \A q \in Runs \ {r} : \A i \in InSeq(todo) \cap Holding(q) : i \in tangled',
           \A i \in InSeq(todo) \ tangled' : i \notin drafted /\ Saved(i) = 0,
           at[r] = "saving" => Item(r) \in tangled'
    PROVE  NewsInv'
<1>1. /\ at' \in [Runs -> Phases] /\ task' \in [Runs -> Task]
      /\ \A q \in Runs \ {r} : at'[q] = at[q] /\ task'[q] = task[q]
      /\ running' \in BOOLEAN /\ SingleFlight'
      /\ \/ at'[r] = "idle"
         \/ at'[r] = "asking" /\ task'[r].todo = todo /\ todo # <<>>
  BY NextItemGoes DEF NewsInv
<1>2. Holding(r)' \subseteq InSeq(todo)
  BY <1>1 DEF Holding
<1>3. TaskSound(r)' /\ AnswerInHand(r)'
  BY <1>1 DEF TaskSound, AnswerInHand, Storing, WithItem, Drafting
<1>4. HeldFresh(r)'
  <2>1. at'[r] # "saving"
    BY <1>1
  <2>2. drafted' = drafted /\ queued' = queued /\ rejected' = rejected
    BY DEF tables
  <2> QED
    BY <1>2, <2>1, <2>2 DEF HeldFresh, Saved
<1>5. /\ news' \in Seq(Items) /\ IsInjective(news')
      /\ drafted' = drafted /\ queued' = queued /\ rejected' = rejected /\ due' = due
  BY DEF tables, NewsInv, NewsTypeOK
<1>6. \A q \in Runs \ {r} : \A i \in Holding(r)' \cap Holding(q) : i \in tangled'
  BY <1>2
<1> QED
  BY <1>1, <1>3, <1>4, <1>5, <1>6, MoveStep

LEMMA ListStep == ASSUME NewsInv, NEW r \in Runs, List(r) PROVE NewsInv'
<1>1. /\ at[r] = "listing" /\ NextItem(r, Pending)
      /\ UNCHANGED <<tables, due>> /\ asked' = asked /\ failures' = failures
      /\ tangled' = tangled \cup {i \in InSeq(Pending) : \E q \in Runs \ {r} :
                                    {q, r} \cap Admins # {} /\ i \in Holding(q)}
  BY DEF List
<1>2. /\ Pending \in Seq(Items) /\ IsInjective(Pending)
      /\ \A i \in InSeq(Pending) : i \in Items /\ i \notin drafted
  BY PendingFresh DEF NewsInv
<1>3. tangled \subseteq tangled' /\ tangled' \subseteq Items
  BY <1>1, <1>2 DEF NewsInv, NewsTypeOK
<1>4. ASSUME NEW q \in Runs \ {r}, NEW i \in InSeq(Pending) \cap Holding(q)
      PROVE  i \in tangled'
  <2>1. at[q] # "idle" /\ at[r] # "idle"
    BY <1>1, <1>4 DEF Holding
  <2>2. q \in Admins \/ r \in Admins
    BY <2>1 DEF NewsInv, SingleFlight, Runs
  <2> QED
    BY <1>1, <1>4, <2>2
<1>5. ASSUME NEW i \in InSeq(Pending) \ tangled'
      PROVE  i \notin drafted /\ Saved(i) = 0
  <2>1. i \in Items \ tangled /\ i \notin drafted
    BY <1>2, <1>3
  <2>2. ASSUME NEW q \in Runs, at[q] = "saving", Item(q) = i
        PROVE  FALSE
    <3>1. q # r
      BY <1>1, <2>2
    <3>2. i \in Holding(q)
      BY <2>2, HoldingTypes DEF Drafting
    <3> QED
      BY <1>4, <3>1, <3>2
  <2>3. Saved(i) = 0
    BY <2>1, <2>2 DEF NewsInv, DraftedOnce
  <2> QED
    BY <2>1, <2>3
<1>6. asked' \in Nat /\ failures' \in Nat
  BY <1>1 DEF NewsInv, NewsTypeOK
<1> QED
  BY <1>1, <1>2, <1>3, <1>4, <1>5, <1>6, NextItemStep

LEMMA AskFailsStep == ASSUME NewsInv, NEW r \in Runs, AskFails(r) PROVE NewsInv'
<1>1. /\ at[r] = "asking" /\ NextItem(r, Tail(task[r].todo))
      /\ UNCHANGED <<tables, due>> /\ asked' = asked /\ failures' = failures
      /\ tangled' = tangled
  BY DEF AskFails, history
<1>2. /\ Tail(task[r].todo) \in Seq(Items) /\ IsInjective(Tail(task[r].todo))
      /\ InSeq(Tail(task[r].todo)) \subseteq Holding(r)
  BY <1>1, HoldingTypes DEF Drafting
<1>3. asked' \in Nat /\ failures' \in Nat /\ tangled' \subseteq Items
  BY <1>1 DEF NewsInv, NewsTypeOK
<1>4. \A q \in Runs \ {r} : \A i \in InSeq(Tail(task[r].todo)) \cap Holding(q) : i \in tangled'
  BY <1>1, <1>2 DEF NewsInv, Apart
<1>5. \A i \in InSeq(Tail(task[r].todo)) \ tangled' : i \notin drafted /\ Saved(i) = 0
  BY <1>1, <1>2 DEF NewsInv, HeldFresh
<1> QED
  BY <1>1, <1>2, <1>3, <1>4, <1>5, NextItemStep

LEMMA AnsweredStep == ASSUME NewsInv, NEW r \in Runs, Answered(r) PROVE NewsInv'
<1>1. PICK answer \in Answers :
        /\ at[r] = "asking"
        /\ Proceed(r, "saving", TaskOf(0, task[r].todo, Select(answer, Usable),
                                       Len(Select(answer, Usable))))
        /\ UNCHANGED <<tables, running, asked, failures, history>>
  BY DEF Answered, AnsweredOn
<1>2. /\ task[r].todo \in Seq(Items) /\ task[r].todo # <<>> /\ IsInjective(task[r].todo)
      /\ Holding(r) = InSeq(task[r].todo)
  BY <1>1, HoldingTypes DEF Drafting
<1>3. PICK u \in Seq(Proposals) : u = Select(answer, Usable)
  BY UsableTypes
<1> DEFINE t == TaskOf(0, task[r].todo, u, Len(u))
<1>4. /\ t \in Task /\ t.todo = task[r].todo /\ t.answer = u /\ t.batch = Len(u)
      /\ Len(u) \in Nat
  BY <1>2 DEF TaskOf, Task
<1>5. Proceed(r, "saving", t) /\ "saving" \in Phases
  BY <1>1, <1>3 DEF Phases
<1> HIDE DEF t
<1>6. /\ at' \in [Runs -> Phases] /\ task' \in [Runs -> Task]
      /\ at'[r] = "saving" /\ task'[r] = t
      /\ \A q \in Runs \ {r} : at'[q] = at[q] /\ task'[q] = task[q]
  BY <1>4, <1>5, ProceedMoves DEF NewsInv
<1>7. SingleFlight' /\ running' \in BOOLEAN
  BY <1>1, <1>4, <1>5, FlightGoesOn DEF NewsInv
<1>8. /\ news' \in Seq(Items) /\ IsInjective(news') /\ asked' \in Nat /\ failures' \in Nat
      /\ drafted' = drafted /\ queued' = queued /\ rejected' = rejected /\ due' = due
      /\ tangled' = tangled /\ tangled' \subseteq Items
  BY <1>1 DEF tables, history, NewsInv, NewsTypeOK
<1>9. Holding(r)' = Holding(r) /\ Item(r)' = Item(r)
  BY <1>2, <1>4, <1>6 DEF Holding, Item
<1>10. TaskSound(r)'
  BY <1>2, <1>4, <1>6 DEF TaskSound, Storing
<1>11. \A i \in Items : Saved(i)' = Saved(i) /\ Saved(i) \in Nat
  BY <1>8 DEF Saved, NewsInv, NewsTypeOK
<1>12. Item(r) \in Items /\ Holding(r) \subseteq Items
  BY <1>1, <1>2, HoldingTypes DEF Drafting, InSeq
<1>13. AnswerInHand(r)'
  BY <1>4, <1>6, <1>9, <1>11, <1>12 DEF AnswerInHand
<1>14. HeldFresh(r)'
  <2> SUFFICES ASSUME NEW i \in Holding(r), i \notin tangled
               PROVE  i \notin drafted /\ Saved(i) = 0 /\ Saved(i) + Len(u) = Len(u)
    BY <1>4, <1>6, <1>8, <1>9, <1>11, <1>12 DEF HeldFresh
  <2>1. i \notin drafted /\ Saved(i) = 0
    BY <1>1 DEF NewsInv, HeldFresh
  <2> QED
    BY <1>4, <2>1
<1>15. \A q \in Runs \ {r} : \A i \in Holding(r)' \cap Holding(q) : i \in tangled'
  BY <1>8, <1>9 DEF NewsInv, Apart
<1> QED
  BY <1>1, <1>6, <1>7, <1>8, <1>10, <1>13, <1>14, <1>15, MoveStep
\* Saving and marking touch the item at hand.
LEMMA SaveStep == ASSUME NewsInv, NEW r \in Runs, Save(r) PROVE NewsInv'
<1> DEFINE answer == task[r].answer
<1>0. PICK i \in Items : i = Item(r)
  BY HoldingTypes DEF Save, Drafting
<1>1. /\ at[r] = "saving" /\ answer # <<>>
      /\ \/ queued' = queued /\ rejected' = [rejected EXCEPT ![i] = @ + 1]
         \/ queued' = [queued EXCEPT ![i] = @ + 1] /\ rejected' = rejected
      /\ Proceed(r, "saving", TaskOf(0, task[r].todo, Tail(answer), task[r].batch))
      /\ UNCHANGED <<news, drafted, running, asked, failures, history>>
  BY <1>0 DEF Save, Low
<1>2. /\ task[r].todo \in Seq(Items) /\ task[r].todo # <<>> /\ IsInjective(task[r].todo)
      /\ Holding(r) = InSeq(task[r].todo) /\ i \in Holding(r) /\ i \in Items
  BY <1>0, <1>1, HoldingTypes DEF Drafting
<1>3. answer \in Seq(Proposals) /\ task[r].batch \in Nat
  BY TaskTypes DEF NewsInv, NewsTypeOK
<1>4. /\ Tail(answer) \in Seq(Proposals) /\ Len(Tail(answer)) = Len(answer) - 1
      /\ Len(answer) \in Nat /\ Len(answer) > 0
  BY <1>1, <1>3
<1> DEFINE t == TaskOf(0, task[r].todo, Tail(answer), task[r].batch)
<1>5. /\ t \in Task /\ t.todo = task[r].todo /\ t.answer = Tail(answer) /\ t.batch = task[r].batch
  BY <1>2, <1>3, <1>4 DEF TaskOf, Task
<1>6. Proceed(r, "saving", t) /\ "saving" \in Phases
  BY <1>1 DEF Phases
<1> HIDE DEF t
<1>7. /\ at' \in [Runs -> Phases] /\ task' \in [Runs -> Task]
      /\ at'[r] = "saving" /\ task'[r] = t
      /\ \A q \in Runs \ {r} : at'[q] = at[q] /\ task'[q] = task[q]
  BY <1>5, <1>6, ProceedMoves DEF NewsInv
<1>8. SingleFlight' /\ running' \in BOOLEAN
  BY <1>1, <1>5, <1>6, FlightGoesOn DEF NewsInv
<1>9. queued' \in [Items -> Nat] /\ rejected' \in [Items -> Nat]
  <2>1. queued \in [Items -> Nat] /\ rejected \in [Items -> Nat]
    BY DEF NewsInv, NewsTypeOK
  <2>2. /\ [queued EXCEPT ![i] = @ + 1] \in [Items -> Nat]
        /\ [rejected EXCEPT ![i] = @ + 1] \in [Items -> Nat]
    BY <2>1
  <2> QED
    BY <1>1, <2>1, <2>2
<1>10. /\ \A k \in Items : Saved(k) \in Nat
       /\ \A k \in Items \ {i} : Saved(k)' = Saved(k)
       /\ Saved(i)' = Saved(i) + 1
  <2>1. queued \in [Items -> Nat] /\ rejected \in [Items -> Nat]
    BY DEF NewsInv, NewsTypeOK
  <2>2. CASE queued' = queued /\ rejected' = [rejected EXCEPT ![i] = @ + 1]
    <3>1. \A k \in Items : /\ queued'[k] = queued[k]
                           /\ rejected'[k] = IF k = i THEN rejected[k] + 1 ELSE rejected[k]
      BY <1>1, <2>1, <2>2
    <3>2. \A k \in Items : queued[k] \in Nat /\ rejected[k] \in Nat
      BY <2>1
    <3>3. \A k \in Items : /\ Saved(k) = queued[k] + rejected[k]
                           /\ Saved(k)' = queued'[k] + rejected'[k]
      BY DEF Saved
    <3>4. \A k \in Items : Saved(k) \in Nat
      BY <3>2, <3>3
    <3>5. \A k \in Items \ {i} : Saved(k)' = Saved(k)
      BY <3>1, <3>3
    <3>6. Saved(i)' = Saved(i) + 1
      <4>1. rejected'[i] = rejected[i] + 1 /\ queued'[i] = queued[i]
        BY <1>2, <3>1
      <4>2. queued[i] \in Nat /\ rejected[i] \in Nat
        BY <1>2, <3>2
      <4> QED
        BY <4>1, <4>2 DEF Saved
    <3> QED
      BY <3>4, <3>5, <3>6
  <2>3. CASE queued' = [queued EXCEPT ![i] = @ + 1] /\ rejected' = rejected
    <3>1. \A k \in Items : /\ rejected'[k] = rejected[k]
                           /\ queued'[k] = IF k = i THEN queued[k] + 1 ELSE queued[k]
      BY <1>1, <2>1, <2>3
    <3>2. \A k \in Items : queued[k] \in Nat /\ rejected[k] \in Nat
      BY <2>1
    <3>3. \A k \in Items : /\ Saved(k) = queued[k] + rejected[k]
                           /\ Saved(k)' = queued'[k] + rejected'[k]
      BY DEF Saved
    <3>4. \A k \in Items : Saved(k) \in Nat
      BY <3>2, <3>3
    <3>5. \A k \in Items \ {i} : Saved(k)' = Saved(k)
      BY <3>1, <3>3
    <3>6. Saved(i)' = Saved(i) + 1
      <4>1. queued'[i] = queued[i] + 1 /\ rejected'[i] = rejected[i]
        BY <1>2, <3>1
      <4>2. queued[i] \in Nat /\ rejected[i] \in Nat
        BY <1>2, <3>2
      <4> QED
        BY <4>1, <4>2 DEF Saved
    <3> QED
      BY <3>4, <3>5, <3>6
  <2> QED
    BY <1>1, <2>2, <2>3
<1>11. \A q \in Runs : Holding(q)' = Holding(q)
  BY <1>1, <1>2, <1>5, <1>7 DEF Holding
<1>12. /\ \A q \in Runs \ {r} : Item(q)' = Item(q)
       /\ Item(r)' = i
  BY <1>0, <1>5, <1>7 DEF Item
<1>13. NewsTypeOK'
  BY <1>1, <1>7, <1>8, <1>9 DEF NewsInv, NewsTypeOK, history
<1>14. tangled' = tangled /\ drafted' = drafted /\ due' = due
  BY <1>1 DEF history
<1> HIDE DEF answer
<1>15. \A q \in Runs : TaskSound(q)'
  BY <1>1, <1>2, <1>5, <1>7 DEF TaskSound, NewsInv, Storing
<1>16. Apart'
  BY <1>11, <1>14 DEF NewsInv, Apart
<1>17. ASSUME NEW q \in Runs \ {r}, at[q] = "saving"
       PROVE  Item(q) \in Items
  BY <1>17, HoldingTypes DEF Drafting
<1>18. ASSUME NEW q \in Runs PROVE AnswerInHand(q)'
  <2>1. CASE q = r
    <3>1. Saved(i) + Len(answer) >= task[r].batch
      BY <1>0, <1>1 DEF NewsInv, AnswerInHand, answer
    <3>2. Saved(i) + 1 + (Len(answer) - 1) >= task[r].batch
      BY <1>2, <1>3, <1>4, <1>10, <3>1
    <3> QED
      BY <1>4, <1>5, <1>7, <1>10, <1>12, <2>1, <3>2 DEF AnswerInHand
  <2>2. CASE q # r
    <3> SUFFICES ASSUME at[q] = "saving" PROVE AnswerInHand(q)'
      BY <1>7, <2>2 DEF AnswerInHand
    <3>1. PICK k \in Items : k = Item(q)
      BY <1>17, <2>2
    <3>2. Saved(k) + Len(task[q].answer) >= task[q].batch
      BY <3>1 DEF NewsInv, AnswerInHand
    <3>3. Saved(k)' = Saved(k) \/ Saved(k)' = Saved(k) + 1
      BY <1>10
    <3>4. Len(task[q].answer) \in Nat /\ task[q].batch \in Nat /\ Saved(k) \in Nat
      BY <1>10, TaskTypes DEF NewsInv, NewsTypeOK
    <3>5. Saved(k)' + Len(task[q].answer) >= task[q].batch
      BY <3>2, <3>3, <3>4
    <3> QED
      BY <1>7, <1>12, <2>2, <3>1, <3>5 DEF AnswerInHand
  <2> QED
    BY <2>1, <2>2
<1>19. ASSUME NEW q \in Runs PROVE HeldFresh(q)'
  <2> SUFFICES ASSUME NEW k \in Holding(q), k \notin tangled
               PROVE  /\ k \notin drafted
                      /\ IF at'[q] = "saving" /\ Item(q)' = k
                         THEN Saved(k)' + Len(task'[q].answer) = task'[q].batch
                         ELSE Saved(k)' = 0
    BY <1>11, <1>14 DEF HeldFresh
  <2>1. k \in Items
    BY HoldingTypes DEF Holding, Drafting, InSeq
  <2>2. /\ k \notin drafted
        /\ IF at[q] = "saving" /\ Item(q) = k
           THEN Saved(k) + Len(task[q].answer) = task[q].batch
           ELSE Saved(k) = 0
    BY DEF NewsInv, HeldFresh
  <2>3. CASE q = r
    <3>1. CASE k = i
      <4>1. Saved(i) + Len(answer) = task[r].batch
        BY <1>0, <1>1, <2>2, <2>3, <3>1 DEF answer
      <4>2. Saved(i) + 1 + (Len(answer) - 1) = task[r].batch
        BY <1>2, <1>4, <1>10, <4>1
      <4>3. Saved(k)' + Len(task'[q].answer) = task'[q].batch
        BY <1>4, <1>5, <1>7, <1>10, <2>3, <3>1, <4>2
      <4> QED
        BY <1>7, <1>12, <2>2, <2>3, <3>1, <4>3
    <3>2. CASE k # i
      BY <1>0, <1>10, <1>12, <2>1, <2>2, <2>3, <3>2
    <3> QED
      BY <3>1, <3>2
  <2>4. CASE q # r
    <3>1. k # i
      BY <1>2, <2>4 DEF NewsInv, Apart
    <3>2. Saved(k)' = Saved(k)
      BY <1>10, <2>1, <3>1
    <3> QED
      BY <1>7, <1>12, <2>2, <2>4, <3>2
  <2> QED
    BY <2>3, <2>4
<1>20. DraftedIsComplete'
  <2> SUFFICES ASSUME NEW k \in drafted PROVE Saved(k)' >= due[k]
    BY <1>14 DEF DraftedIsComplete
  <2>1. k \in Items /\ due[k] \in Nat /\ Saved(k) >= due[k]
    BY DEF NewsInv, NewsTypeOK, DraftedIsComplete
  <2>2. Saved(k)' = Saved(k) \/ Saved(k)' = Saved(k) + 1
    BY <1>10, <2>1
  <2> QED
    BY <1>10, <2>1, <2>2
<1>21. DraftedOnce'
  <2> SUFFICES ASSUME NEW k \in Items, k \notin tangled
               PROVE  /\ k \in drafted => Saved(k)' = due[k]
                      /\ k \notin drafted =>
                           \/ Saved(k)' = 0
                           \/ \E q \in Runs :
                                /\ at'[q] = "saving" /\ Item(q)' = k
                                /\ Saved(k)' + Len(task'[q].answer) = task'[q].batch
    BY <1>14 DEF DraftedOnce
  <2>1. CASE k = i
    <3>1. k \in Holding(r) /\ k \in Holding(r)'
      BY <1>2, <1>11, <2>1
    <3>2. k \notin drafted' /\ Saved(k)' + Len(task'[r].answer) = task'[r].batch
      BY <1>7, <1>12, <1>14, <1>19, <2>1, <3>1 DEF HeldFresh
    <3> QED
      BY <1>7, <1>12, <1>14, <2>1, <3>2
  <2>2. CASE k # i
    <3>1. Saved(k)' = Saved(k)
      BY <1>10, <2>2
    <3>2. \A q \in Runs : at[q] = "saving" /\ Item(q) = k =>
             at'[q] = "saving" /\ Item(q)' = k /\ task'[q] = task[q]
      BY <1>0, <1>7, <1>12, <2>2
    <3> QED
      BY <3>1, <3>2 DEF NewsInv, DraftedOnce
  <2> QED
    BY <2>1, <2>2
<1> QED
  BY <1>8, <1>13, <1>15, <1>16, <1>18, <1>19, <1>20, <1>21 DEF NewsInv

LEMMA MarkStep == ASSUME NewsInv, NEW r \in Runs, Mark(r) PROVE NewsInv'
<1> DEFINE todo == Tail(task[r].todo)
<1>0. PICK i \in Items : i = Item(r)
  BY HoldingTypes DEF Mark, Drafting
<1>1. /\ at[r] = "saving" /\ task[r].answer = <<>>
      /\ drafted' = drafted \cup {i} /\ due' = [due EXCEPT ![i] = task[r].batch]
      /\ NextItem(r, todo)
      /\ UNCHANGED <<news, queued, rejected, asked, failures, tangled>>
  BY <1>0 DEF Mark, AllSaved
<1>2. /\ i \in Holding(r) /\ todo \in Seq(Items) /\ IsInjective(todo)
      /\ InSeq(todo) \subseteq Holding(r) /\ i \notin InSeq(todo)
  BY <1>0, <1>1, HoldingTypes DEF Drafting
<1>3. task[r].batch \in Nat /\ due \in [Items -> Nat] /\ drafted \subseteq Items
  BY TaskTypes DEF NewsInv, NewsTypeOK
<1> HIDE DEF todo
<1>4. /\ at' \in [Runs -> Phases] /\ task' \in [Runs -> Task]
      /\ \A q \in Runs \ {r} : at'[q] = at[q] /\ task'[q] = task[q]
      /\ running' \in BOOLEAN /\ SingleFlight'
      /\ \/ at'[r] = "idle"
         \/ at'[r] = "asking" /\ task'[r].todo = todo /\ todo # <<>>
  BY <1>1, <1>2, NextItemGoes DEF NewsInv
<1>5. NewsTypeOK'
  BY <1>1, <1>3, <1>4 DEF NewsInv, NewsTypeOK
<1>6. \A k \in Items : Saved(k)' = Saved(k) /\ Saved(k) \in Nat
  BY <1>1 DEF Saved, NewsInv, NewsTypeOK
<1>7. /\ \A q \in Runs \ {r} : Holding(q)' = Holding(q) /\ Item(q)' = Item(q)
      /\ Holding(r)' \subseteq InSeq(todo)
  BY <1>4 DEF Holding, Item
<1>8. /\ due'[i] = task[r].batch
      /\ \A k \in Items \ {i} : due'[k] = due[k] /\ (k \in drafted' <=> k \in drafted)
  BY <1>1, <1>3
<1>9. ASSUME NEW q \in Runs PROVE TaskSound(q)'
  <2>1. CASE q = r
    BY <1>2, <1>4, <2>1 DEF TaskSound, Storing, WithItem, Drafting
  <2>2. CASE q # r
    BY <1>4, <2>2 DEF TaskSound, NewsInv
  <2> QED
    BY <2>1, <2>2
<1>10. ASSUME NEW q \in Runs PROVE AnswerInHand(q)'
  <2>1. CASE q = r
    BY <1>4, <2>1 DEF AnswerInHand
  <2>2. CASE q # r
    <3> SUFFICES ASSUME at[q] = "saving" PROVE AnswerInHand(q)'
      BY <1>4, <2>2 DEF AnswerInHand
    <3>1. PICK k \in Items : k = Item(q)
      BY HoldingTypes DEF Drafting
    <3>2. Saved(k) + Len(task[q].answer) >= task[q].batch
      BY <3>1 DEF NewsInv, AnswerInHand
    <3> QED
      BY <1>4, <1>6, <1>7, <2>2, <3>1, <3>2 DEF AnswerInHand
  <2> QED
    BY <2>1, <2>2
<1>11. Apart'
  <2> SUFFICES ASSUME NEW p \in Runs, NEW q \in Runs, p # q,
                      NEW k \in Holding(p)' \cap Holding(q)'
               PROVE  k \in tangled
    BY <1>1 DEF Apart
  <2>1. k \in Holding(p) \cap Holding(q)
    BY <1>2, <1>7
  <2> QED
    BY <2>1 DEF NewsInv, Apart
<1>12. ASSUME NEW q \in Runs PROVE HeldFresh(q)'
  <2> SUFFICES ASSUME NEW k \in Holding(q)', k \notin tangled
               PROVE  /\ k \notin drafted'
                      /\ IF at'[q] = "saving" /\ Item(q)' = k
                         THEN Saved(k)' + Len(task'[q].answer) = task'[q].batch
                         ELSE Saved(k)' = 0
    BY <1>1 DEF HeldFresh
  <2>1. k \in Holding(q) /\ k \in Items /\ k # i
    <3>1. k \in Holding(q)
      BY <1>2, <1>7
    <3>2. k \in Items
      BY <3>1, HoldingTypes DEF Holding, Drafting, InSeq
    <3>3. CASE q = r
      BY <1>2, <1>7, <3>1, <3>2, <3>3
    <3>4. CASE q # r
      BY <1>2, <3>1, <3>2, <3>4 DEF NewsInv, Apart
    <3> QED
      BY <3>3, <3>4
  <2>2. /\ k \notin drafted
        /\ IF at[q] = "saving" /\ Item(q) = k
           THEN Saved(k) + Len(task[q].answer) = task[q].batch
           ELSE Saved(k) = 0
    BY <2>1 DEF NewsInv, HeldFresh
  <2>3. CASE q = r
    BY <1>0, <1>4, <1>6, <1>8, <2>1, <2>2, <2>3
  <2>4. CASE q # r
    BY <1>4, <1>6, <1>7, <1>8, <2>1, <2>2, <2>4
  <2> QED
    BY <2>3, <2>4
<1>13. DraftedIsComplete'
  <2> SUFFICES ASSUME NEW k \in drafted' PROVE Saved(k)' >= due'[k]
    BY DEF DraftedIsComplete
  <2>1. CASE k = i
    <3>1. Saved(i) + 0 >= task[r].batch
      BY <1>0, <1>1 DEF NewsInv, AnswerInHand
    <3> QED
      BY <1>3, <1>6, <1>8, <2>1, <3>1
  <2>2. CASE k # i
    <3>1. k \in drafted /\ k \in Items
      BY <1>1, <1>3, <2>2
    <3> QED
      BY <1>6, <1>8, <2>2, <3>1 DEF NewsInv, DraftedIsComplete
  <2> QED
    BY <2>1, <2>2
<1>14. DraftedOnce'
  <2> SUFFICES ASSUME NEW k \in Items, k \notin tangled
               PROVE  /\ k \in drafted' => Saved(k)' = due'[k]
                      /\ k \notin drafted' =>
                           \/ Saved(k)' = 0
                           \/ \E q \in Runs :
                                /\ at'[q] = "saving" /\ Item(q)' = k
                                /\ Saved(k)' + Len(task'[q].answer) = task'[q].batch
    BY <1>1 DEF DraftedOnce
  <2>1. CASE k = i
    <3>1. Saved(i) + 0 = task[r].batch
      BY <1>0, <1>1, <1>2, <2>1 DEF NewsInv, HeldFresh
    <3> QED
      BY <1>1, <1>3, <1>6, <1>8, <2>1, <3>1
  <2>2. CASE k # i
    <3>1. \A q \in Runs : at[q] = "saving" /\ Item(q) = k =>
             at'[q] = "saving" /\ Item(q)' = k /\ task'[q] = task[q]
      BY <1>0, <1>4, <1>7, <2>2
    <3>2. Saved(k)' = Saved(k) /\ due'[k] = due[k] /\ (k \in drafted' <=> k \in drafted)
      BY <1>6, <1>8, <2>2
    <3> QED
      BY <3>1, <3>2 DEF NewsInv, DraftedOnce
  <2> QED
    BY <2>1, <2>2
<1> QED
  BY <1>4, <1>5, <1>9, <1>10, <1>11, <1>12, <1>13, <1>14 DEF NewsInv

LEMMA CallThrowsStep == ASSUME NewsInv, NEW r \in Runs, CallThrows(r) PROVE NewsInv'
<1>1. /\ news' = news /\ drafted' = drafted /\ queued' = queued /\ rejected' = rejected
      /\ due' = due /\ asked' = asked /\ failures' = failures + 1
      /\ tangled' = tangled \cup HalfWay(r)
  BY DEF CallThrows, Fails, tables
<1>2. /\ news \in Seq(Items) /\ IsInjective(news) /\ asked' \in Nat /\ failures' \in Nat
      /\ tangled \subseteq Items /\ NewsTypeOK /\ SingleFlight
  BY <1>1 DEF NewsInv, NewsTypeOK
<1>3. CASE at[r] \in {"finding", "creating"} /\ NextFeed(r) /\ running' = running
  <2>1. at[r] \in Storing /\ task[r].feed \in 1..Len(Feeds)
    BY <1>3 DEF NewsInv, TaskSound, Storing
  <2>2. Goes(r)
    BY <1>2, <1>3, <2>1, NextFeedGoes
  <2>3. tangled' = tangled
    BY <1>1, <1>3 DEF HalfWay
  <2> QED
    BY <1>1, <1>2, <1>3, <2>1, <2>2, <2>3, GoesStep
<1>4. CASE at[r] \in {"listing", "saving"} /\ Finish(r)
  <2>1. SingleFlight' /\ running' \in BOOLEAN
    BY <1>2, <1>4, FlightEnds
  <2>2. Proceed(r, "idle", NoTask) /\ "idle" \in Phases
    BY <1>4 DEF Finish, Phases
  <2>3. /\ at' \in [Runs -> Phases] /\ task' \in [Runs -> Task] /\ at'[r] = "idle"
        /\ \A q \in Runs \ {r} : at'[q] = at[q] /\ task'[q] = task[q]
    BY <1>2, <2>2, ProceedMoves, TaskTypes
  <2>4. Holding(r)' = {} /\ TaskSound(r)' /\ AnswerInHand(r)'
    BY <2>3 DEF Holding, TaskSound, AnswerInHand, Storing, WithItem, Drafting
  <2>5. HeldFresh(r)'
    BY <2>4 DEF HeldFresh
  <2>6. tangled' \subseteq Items /\ (at[r] = "saving" => Item(r) \in tangled')
    <3>1. at[r] = "saving" => Item(r) \in Items
      BY HoldingTypes DEF Drafting
    <3> QED
      BY <1>1, <1>2, <3>1 DEF HalfWay
  <2> QED
    BY <1>1, <1>2, <2>1, <2>3, <2>4, <2>5, <2>6, MoveStep
<1> QED
  BY <1>3, <1>4 DEF CallThrows

LEMMA RestartStep == ASSUME NewsInv, Restart PROVE NewsInv'
<1>1. /\ news' = news /\ drafted' = drafted /\ queued' = queued /\ rejected' = rejected
      /\ due' = due /\ asked' = asked /\ failures' = failures + 1 /\ running' = FALSE
      /\ at' = [r \in Runs |-> "idle"] /\ task' = [r \in Runs |-> NoTask]
      /\ tangled' = tangled \cup UNION {HalfWay(r) : r \in Runs}
  BY DEF Restart, Fails, tables
<1>2. \A r \in Runs : at[r] = "saving" => Item(r) \in Items /\ Item(r) \in tangled'
  <2>1. ASSUME NEW r \in Runs, at[r] = "saving"
        PROVE  Item(r) \in Items /\ Item(r) \in tangled'
    <3>1. Item(r) \in Items
      BY <2>1, HoldingTypes DEF Drafting
    <3>2. Item(r) \in HalfWay(r)
      BY <2>1 DEF HalfWay
    <3> QED
      BY <1>1, <3>1, <3>2
  <2> QED
    BY <2>1
<1>3. tangled \subseteq tangled' /\ tangled' \subseteq Items
  <2>1. \A r \in Runs : HalfWay(r) \subseteq Items
    BY <1>2 DEF HalfWay
  <2> QED
    BY <1>1, <2>1 DEF NewsInv, NewsTypeOK
<1>4. NewsTypeOK'
  <2>1. "idle" \in Phases /\ NoTask \in Task
    BY TaskTypes DEF Phases
  <2>2. at' \in [Runs -> Phases] /\ task' \in [Runs -> Task] /\ running' \in BOOLEAN
    BY <1>1, <2>1
  <2>3. /\ news' \in Seq(Items) /\ IsInjective(news') /\ drafted' \subseteq Items
        /\ queued' \in [Items -> Nat] /\ rejected' \in [Items -> Nat]
        /\ due' \in [Items -> Nat] /\ asked' \in Nat /\ failures' \in Nat
    BY <1>1 DEF NewsInv, NewsTypeOK
  <2> QED
    BY <1>3, <2>2, <2>3 DEF NewsTypeOK
<1>5. \A r \in Runs : at'[r] = "idle" /\ Holding(r)' = {}
  BY <1>1 DEF Holding
<1>6. \A r \in Runs : TaskSound(r)' /\ AnswerInHand(r)' /\ HeldFresh(r)'
  BY <1>5 DEF TaskSound, AnswerInHand, HeldFresh, Storing, WithItem, Drafting
<1>7. SingleFlight'
  BY <1>5 DEF SingleFlight, Runs
<1>8. Apart'
  BY <1>5 DEF Apart
<1>9. DraftedIsComplete'
  BY <1>1 DEF NewsInv, DraftedIsComplete, Saved
<1>10. DraftedOnce'
  <2> SUFFICES ASSUME NEW i \in Items, i \notin tangled'
               PROVE  /\ i \in drafted => Saved(i) = due[i]
                      /\ i \notin drafted => Saved(i) = 0
    BY <1>1 DEF DraftedOnce, Saved
  <2> QED
    BY <1>2, <1>3 DEF NewsInv, DraftedOnce
<1> QED
  BY <1>4, <1>6, <1>7, <1>8, <1>9, <1>10 DEF NewsInv

LEMMA NewsInitInv == ASSUME NewsInit PROVE NewsInv
<1>1. NewsTypeOK
  <2>1. "idle" \in Phases /\ NoTask \in Task
    BY TaskTypes DEF Phases
  <2>2. news \in Seq(Items) /\ IsInjective(news)
    BY DEF NewsInit, IsInjective
  <2> QED
    BY <2>1, <2>2 DEF NewsInit, NewsTypeOK
<1>2. \A r \in Runs : at[r] = "idle" /\ Holding(r) = {}
  BY DEF NewsInit, Holding
<1>3. \A r \in Runs : TaskSound(r) /\ AnswerInHand(r) /\ HeldFresh(r)
  BY <1>2 DEF TaskSound, AnswerInHand, HeldFresh, Storing, WithItem, Drafting
<1>4. SingleFlight /\ Apart
  BY <1>2 DEF SingleFlight, Apart, Runs
<1>5. DraftedIsComplete /\ DraftedOnce
  BY DEF NewsInit, DraftedIsComplete, DraftedOnce, Saved
<1> QED
  BY <1>1, <1>3, <1>4, <1>5 DEF NewsInv

LEMMA NewsNextInv == ASSUME NewsInv, [NewsNext]_pipeline PROVE NewsInv'
<1>1. ASSUME NEW r \in Runs, Tick(r) \/ Ask(r) \/ Step(r) \/ CallThrows(r)
      PROVE  NewsInv'
  BY <1>1, TickStep, AskStep, StoringStep, ListStep, AnsweredStep, AskFailsStep, SaveStep,
     MarkStep, CallThrowsStep DEF Step
<1>2. CASE Restart
  BY <1>2, RestartStep
<1>3. CASE UNCHANGED pipeline
  BY <1>3 DEF pipeline, NewsInv, NewsTypeOK, TaskSound, AnswerInHand, HeldFresh, SingleFlight,
     Apart, DraftedIsComplete, DraftedOnce, Holding, Item, Saved
<1> QED
  BY <1>1, <1>2, <1>3 DEF NewsNext

LEMMA NewsInvariance == NewsSpec => []NewsInv
  BY NewsInitInv, NewsNextInv, PTL DEF NewsSpec

\* News keeps its types and no article is stored twice, for any feeds, runs, answers
\* and failures: two ingests that overlap are kept apart by the unique address.
THEOREM NewsTypes == NewsSpec => []NewsTypeOK
<1>1. NewsInv => NewsTypeOK
  BY DEF NewsInv
<1> QED
  BY <1>1, NewsInvariance, PTL

\* However runs overlap, fail and restart, an item that draftPending has marked has all
\* the drafts of the answer it was marked for.
THEOREM NoDraftLost == NewsSpec => []DraftedIsComplete
<1>1. NewsInv => DraftedIsComplete
  BY DEF NewsInv
<1> QED
  BY <1>1, NewsInvariance, PTL

\* An item that no admin's run held together with another, and that no run left half-way,
\* has the drafts of one answer: the scheduler's single-flight flag and the order of the
\* writes see to it through every failed call and every restart.
THEOREM DraftsOnce == NewsSpec => []DraftedOnce
<1>1. NewsInv => DraftedOnce
  BY DEF NewsInv
<1> QED
  BY <1>1, NewsInvariance, PTL

-----------------------------------------------------------------------------
(* Review *)

\* The variables the handlers work on.
served == <<queue, markets, charted, pc, job, suspect>>

ServedTypes ==
    /\ queue \in Seq(Draft)
    /\ markets \in Seq(Nat)
    /\ charted \subseteq Nat
    /\ pc \in [Handlers -> Stages]
    /\ job \in [Handlers -> Job]
    /\ tab \in Statuses

\* A review is about a draft that is there, and knows the market it created for it.
JobSound(h) ==
    /\ pc[h] \in Reviewing => job[h].draft \in Drafts
    /\ pc[h] \in {"seeding", "closing"} =>
          /\ job[h].market \in 1..Len(markets)
          /\ markets[job[h].market] = job[h].draft
    /\ pc[h] = "closing" => job[h].market \in charted

\* A draft that is in one review only is as that review found it.
StillThere(h) ==
    pc[h] \in Reviewing /\ job[h].draft \notin suspect => Status(job[h].draft) = "PENDING"

\* Two reviews of one draft make it suspect.
OverlapKnown ==
    \A g, h \in Handlers :
        g # h /\ pc[g] \in Reviewing /\ pc[h] \in Reviewing /\ job[g].draft = job[h].draft
          => job[h].draft \in suspect

\* A market was created for a draft that is there: the draft names it, unless the
\* review that created it is still to write the draft.
Named(d, m) == Status(d) = "APPROVED" /\ queue[d].market = m
Closing(h, d, m) == pc[h] \in {"seeding", "closing"} /\ job[h].draft = d /\ job[h].market = m
MarketsKnown ==
    /\ \A m \in 1..Len(markets) : markets[m] \in Drafts
    /\ \A d \in Drafts \ suspect : \A m \in 1..Len(markets) :
          markets[m] = d => Named(d, m) \/ \E h \in Handlers : Closing(h, d, m)

IInv ==
    /\ ServedTypes
    /\ \A h \in Handlers : JobSound(h) /\ StillThere(h)
    /\ OverlapKnown
    /\ MarketsKnown
    /\ ApprovedHasMarket

-----------------------------------------------------------------------------
(* Drafts, jobs and sequences *)

LEMMA DraftTypes ==
    /\ NewDraft \in Draft /\ NewDraft.status = "PENDING"
    /\ \A s \in Statuses, m \in Nat :
          DraftOf(s, m) \in Draft /\ DraftOf(s, m).status = s /\ DraftOf(s, m).market = m
    /\ \A d \in Draft : d.status \in Statuses /\ d.market \in Nat
  BY DEF Draft, DraftOf, NewDraft, Statuses

LEMMA JobTypes ==
    /\ NoJob \in Job
    /\ \A d \in Nat, m \in Nat, t \in Statuses :
          JobOf(d, m, t) \in Job /\ JobOf(d, m, t).draft = d /\ JobOf(d, m, t).market = m
    /\ \A j \in Job : j.draft \in Nat /\ j.market \in Nat /\ j.tab \in Statuses
  BY DEF Job, JobOf, NoJob, Statuses

LEMMA Queue ==
    ASSUME queue \in Seq(Draft), markets \in Seq(Nat)
    PROVE  /\ Drafts \subseteq Nat \ {0} /\ Len(queue) \in Nat /\ Len(markets) \in Nat
           /\ \A d \in Drafts : queue[d] \in Draft /\ Status(d) \in Statuses /\ queue[d].market \in Nat
  BY LenProperties, DraftTypes DEF Drafts, Status

LEMMA GotoMoves ==
    ASSUME ServedTypes, NEW h \in Handlers, NEW stage \in Stages, NEW j \in Job, Goto(h, stage, j)
    PROVE  /\ pc' \in [Handlers -> Stages] /\ job' \in [Handlers -> Job]
           /\ pc'[h] = stage /\ job'[h] = j
           /\ \A g \in Handlers \ {h} : pc'[g] = pc[g] /\ job'[g] = job[g]
  BY DEF Goto, ServedTypes

\* What a step of handler h leaves to every other handler.
Alone(h) ==
    /\ pc' \in [Handlers -> Stages] /\ job' \in [Handlers -> Job]
    /\ \A g \in Handlers \ {h} : pc'[g] = pc[g] /\ job'[g] = job[g]
    /\ suspect \subseteq suspect' /\ tab' \in Statuses
    /\ Len(queue) \in Nat /\ Len(queue') = Len(queue) /\ queue' \in Seq(Draft)
    /\ markets' \in Seq(Nat) /\ charted' \subseteq Nat /\ charted \subseteq charted'
    /\ Len(markets) \in Nat /\ Len(markets) <= Len(markets')
    /\ \A m \in 1..Len(markets) : markets'[m] = markets[m]

\* Everything stays known when a handler that is reviewing goes on with its draft, or
\* stops, and no other handler's draft that is not suspect is written.
LEMMA StepKeeps ==
    ASSUME IInv, NEW h \in Handlers, Alone(h),
           pc'[h] \in Reviewing => (pc[h] \in Reviewing /\ job'[h].draft = job[h].draft)
              \/ job'[h].draft \in suspect' \/ ~Held(job'[h].draft),
           \A g \in Handlers \ {h} : pc[g] \in Reviewing /\ job[g].draft \notin suspect'
              => queue'[job[g].draft] = queue[job[g].draft],
           JobSound(h)', StillThere(h)', MarketsKnown', ApprovedHasMarket'
    PROVE  IInv'
<1>1. ServedTypes'
  BY DEF Alone, ServedTypes
<1>2. OverlapKnown'
  <2> SUFFICES ASSUME NEW g \in Handlers, NEW k \in Handlers, g # k,
                      pc'[g] \in Reviewing, pc'[k] \in Reviewing, job'[g].draft = job'[k].draft
               PROVE  job'[k].draft \in suspect'
    BY DEF OverlapKnown
  <2>1. ASSUME NEW a \in Handlers, a # h, pc'[a] \in Reviewing, pc'[h] \in Reviewing,
               job'[a].draft = job'[h].draft
        PROVE  job'[h].draft \in suspect'
    <3>1. pc[a] \in Reviewing /\ job[a] = job'[a]
      BY <2>1 DEF Alone
    <3>2. Held(job'[h].draft)
      BY <2>1, <3>1 DEF Held
    <3>3. CASE pc[h] \in Reviewing /\ job'[h].draft = job[h].draft
      BY <2>1, <3>1, <3>3 DEF IInv, OverlapKnown, Alone
    <3> QED
      BY <2>1, <3>2, <3>3
  <2>2. CASE g = h
    BY <2>1, <2>2
  <2>3. CASE k = h
    BY <2>1, <2>3
  <2>4. CASE g # h /\ k # h
    BY <2>4 DEF IInv, OverlapKnown, Alone
  <2> QED
    BY <2>2, <2>3, <2>4
<1>3. ASSUME NEW g \in Handlers, g # h PROVE JobSound(g)' /\ StillThere(g)'
  <2>1. pc'[g] = pc[g] /\ job'[g] = job[g] /\ JobSound(g) /\ StillThere(g)
    BY <1>3 DEF Alone, IInv
  <2>2. Drafts' = Drafts
    BY DEF Drafts, Alone
  <2>3. JobSound(g)'
    <3>1. pc[g] \in {"seeding", "closing"} => job[g].market \in 1..Len(markets')
      BY <2>1 DEF JobSound, Alone
    <3> QED
      BY <2>1, <2>2, <3>1 DEF JobSound, Alone
  <2>4. StillThere(g)'
    BY <1>3, <2>1 DEF StillThere, Status, Alone
  <2> QED
    BY <2>3, <2>4
<1> QED
  BY <1>1, <1>2, <1>3 DEF IInv

\* A step that leaves drafts and markets alone.
LEMMA QuietStep ==
    ASSUME IInv, NEW h \in Handlers, UNCHANGED <<queue, markets>>,
           charted \subseteq charted', charted' \subseteq Nat, suspect \subseteq suspect', tab' \in Statuses,
           NEW stage \in Stages, NEW j \in Job, Goto(h, stage, j),
           stage \in Reviewing => (pc[h] \in Reviewing /\ j.draft = job[h].draft)
              \/ j.draft \in suspect' \/ ~Held(j.draft),
           pc[h] \in {"seeding", "closing"} =>
              job[h].draft \in suspect' \/ (stage \in {"seeding", "closing"} /\ j = job[h]),
           JobSound(h)', StillThere(h)'
    PROVE  IInv'
<1>1. /\ pc' \in [Handlers -> Stages] /\ job' \in [Handlers -> Job]
      /\ pc'[h] = stage /\ job'[h] = j
      /\ \A g \in Handlers \ {h} : pc'[g] = pc[g] /\ job'[g] = job[g]
  BY GotoMoves DEF IInv
<1>2. Alone(h)
  BY <1>1, Queue DEF Alone, IInv, ServedTypes
<1>3. ApprovedHasMarket'
  BY DEF IInv, ApprovedHasMarket, Drafts, Status
<1>4. MarketsKnown'
  <2>1. \A m \in 1..Len(markets') : markets'[m] \in Drafts'
    BY DEF IInv, MarketsKnown, Drafts
  <2> SUFFICES ASSUME NEW d \in Drafts \ suspect', NEW m \in 1..Len(markets), markets[m] = d
               PROVE  Named(d, m) \/ \E k \in Handlers : Closing(k, d, m)'
    BY <2>1 DEF MarketsKnown, Drafts, Named, Status
  <2>2. Named(d, m) \/ \E k \in Handlers : Closing(k, d, m)
    BY DEF IInv, MarketsKnown
  <2>3. ASSUME NEW k \in Handlers, Closing(k, d, m) PROVE Closing(k, d, m)'
    BY <1>1, <2>3 DEF Closing
  <2> QED
    BY <2>2, <2>3
<1> QED
  BY <1>1, <1>2, <1>3, <1>4, StepKeeps

LEMMA BeginStep ==
    ASSUME IInv, NEW h \in Handlers, NEW d \in Drafts, NEW stage \in {"creating", "rejecting"},
           Begin(h, d, stage)
    PROVE  IInv'
<1> USE DEF Stages, Reviewing
<1>1. PICK j : j = JobOf(d, 0, "PENDING")
  OBVIOUS
<1>2. j \in Job /\ j.draft = d
  BY <1>1, Queue, JobTypes DEF Statuses, IInv, ServedTypes
<1>3. Goto(h, stage, j) /\ pc[h] = "idle" /\ Status(d) = "PENDING" /\ (Held(d) => d \in suspect')
      /\ suspect \subseteq suspect' /\ UNCHANGED <<queue, markets, charted, tab>>
  BY <1>1 DEF Begin, MaySend, IsPending, rows, page
<1>4. pc'[h] = stage /\ job'[h] = j
  BY <1>2, <1>3, GotoMoves DEF IInv
<1>5. JobSound(h)' /\ StillThere(h)'
  BY <1>2, <1>3, <1>4 DEF JobSound, StillThere, Drafts, Status
<1>6. charted' \subseteq Nat /\ tab' \in Statuses
  BY <1>3 DEF IInv, ServedTypes
<1> QED
  BY <1>2, <1>3, <1>5, <1>6, QuietStep

LEMMA SeedSnapshotStep == ASSUME IInv, NEW h \in Handlers, SeedSnapshot(h) PROVE IInv'
<1> USE DEF Stages, Reviewing
<1>1. pc[h] = "seeding" /\ charted' = charted \cup {job[h].market} /\ Goto(h, "closing", job[h])
      /\ UNCHANGED <<queue, markets, tab, suspect>>
  BY DEF SeedSnapshot, page
<1>2. JobSound(h) /\ StillThere(h) /\ job[h] \in Job
  BY DEF IInv, ServedTypes
<1>3. pc'[h] = "closing" /\ job'[h] = job[h]
  BY <1>1, <1>2, GotoMoves DEF IInv
<1>4. JobSound(h)' /\ StillThere(h)'
  BY <1>1, <1>2, <1>3 DEF JobSound, StillThere, Drafts, Status
<1>5. charted' \subseteq Nat /\ tab' \in Statuses
  <2>1. job[h].market \in Nat
    BY <1>2, JobTypes
  <2>2. charted \subseteq Nat /\ tab \in Statuses
    BY DEF IInv, ServedTypes
  <2> QED
    BY <1>1, <2>1, <2>2
<1>6. PICK j \in Job : j = job[h]
  BY <1>2
<1> QED
  BY <1>1, <1>4, <1>5, <1>6, QuietStep

\* A handler that is no longer in a review, or was in none.
LEMMA LeavesStep ==
    ASSUME IInv, NEW h \in Handlers, UNCHANGED <<queue, markets, charted>>,
           suspect \subseteq suspect', tab' \in Statuses,
           NEW stage \in Stages \ Reviewing, NEW j \in Job, Goto(h, stage, j),
           pc[h] \in {"seeding", "closing"} => job[h].draft \in suspect'
    PROVE  IInv'
<1>1. pc'[h] = stage /\ job'[h] = j
  BY GotoMoves DEF IInv
<1>2. JobSound(h)' /\ StillThere(h)'
  BY <1>1 DEF JobSound, StillThere, Reviewing
<1>3. charted \subseteq charted' /\ charted' \subseteq Nat
  BY DEF IInv, ServedTypes
<1>4. UNCHANGED <<queue, markets>> /\ stage \in Stages /\ stage \notin Reviewing
  OBVIOUS
<1> QED
  BY <1>2, <1>3, <1>4, QuietStep

LEMMA AbortStep == ASSUME IInv, NEW h \in Handlers, Abort(h) PROVE IInv'
<1>1. Goto(h, "idle", NoJob) /\ NoJob \in Job /\ UNCHANGED <<queue, markets, charted, tab>>
  BY JobTypes DEF Abort, rows, page
<1>2. suspect \subseteq suspect' /\ (pc[h] \in {"seeding", "closing"} => job[h].draft \in suspect')
  BY DEF Abort
<1>3. tab' \in Statuses
  BY <1>1 DEF IInv, ServedTypes
<1> QED
  BY <1>1, <1>2, <1>3, LeavesStep DEF Stages, Reviewing

LEMMA IngestedStep == ASSUME IInv, NEW h \in Handlers, Ingested(h) PROVE IInv'
<1>1. JobOf(0, 0, tab) \in Job /\ tab \in Statuses
  BY JobTypes DEF IInv, ServedTypes
<1> QED
  BY <1>1, LeavesStep DEF Ingested, rows, page, Stages, Reviewing

LEMMA ReloadStep == ASSUME IInv, NEW h \in Handlers, Reload(h) PROVE IInv'
<1>1. NoJob \in Job /\ tab \in Statuses
  BY JobTypes DEF IInv, ServedTypes
<1>2. tab' = tab
  BY DEF Reload, Load
<1> QED
  BY <1>1, <1>2, LeavesStep DEF Reload, rows, Stages, Reviewing

LEMMA LeaveStep == ASSUME IInv, NEW h \in Handlers, Leave(h) PROVE IInv'
<1>1. NoJob \in Job /\ "PENDING" \in Statuses
  BY JobTypes DEF Statuses
<1>2. tab' = "PENDING"
  BY DEF Leave, Opened
<1> QED
  BY <1>1, <1>2, LeavesStep DEF Leave, rows, Stages, Reviewing

\* A step of the page alone.
LEMMA PageStep ==
    ASSUME IInv, UNCHANGED <<queue, markets, charted, pc, job, suspect>>, tab' \in Statuses
    PROVE  IInv'
  BY DEF IInv, ServedTypes, JobSound, StillThere, OverlapKnown, MarketsKnown, ApprovedHasMarket,
         Named, Closing, Drafts, Status

LEMMA CreateMarketStep == ASSUME IInv, NEW h \in Handlers, CreateMarket(h) PROVE IInv'
<1> USE DEF Stages, Reviewing
<1>1. JobSound(h) /\ StillThere(h) /\ job[h] \in Job /\ queue \in Seq(Draft) /\ markets \in Seq(Nat)
  BY DEF IInv, ServedTypes
<1>2. PICK d \in Nat, n \in Nat : d = job[h].draft /\ n = Len(markets)
  BY <1>1, Queue, JobTypes
<1>3. PICK j : j = JobOf(d, n + 1, job[h].tab)
  OBVIOUS
<1>4. j \in Job /\ j.draft = d /\ j.market = n + 1
  BY <1>1, <1>2, <1>3, JobTypes
<1>5. /\ pc[h] = "creating" /\ markets' = Append(markets, d) /\ Goto(h, "seeding", j)
      /\ UNCHANGED <<queue, charted, tab, suspect>>
  BY <1>2, <1>3 DEF CreateMarket, page
<1>6. /\ pc' \in [Handlers -> Stages] /\ job' \in [Handlers -> Job]
      /\ pc'[h] = "seeding" /\ job'[h] = j
      /\ \A g \in Handlers \ {h} : pc'[g] = pc[g] /\ job'[g] = job[g]
  BY <1>4, <1>5, GotoMoves DEF IInv
<1>7. /\ markets' \in Seq(Nat) /\ Len(markets') = n + 1 /\ markets'[n + 1] = d
      /\ \A m \in 1..n : markets'[m] = markets[m]
  BY <1>1, <1>2, <1>5, AppendProperties
<1>8. Alone(h)
  BY <1>1, <1>2, <1>5, <1>6, <1>7, Queue DEF Alone, IInv, ServedTypes
<1>9. d \in Drafts
  BY <1>1, <1>2, <1>5 DEF JobSound
<1>10. JobSound(h)' /\ StillThere(h)'
  BY <1>1, <1>2, <1>4, <1>5, <1>6, <1>7, <1>9 DEF JobSound, StillThere, Drafts, Status
<1>11. ApprovedHasMarket'
  <2> SUFFICES ASSUME NEW e \in Drafts, Status(e) = "APPROVED"
               PROVE  /\ queue[e].market \in 1..Len(markets') /\ markets'[queue[e].market] = e
                      /\ queue[e].market \in charted
    BY <1>5 DEF ApprovedHasMarket, Drafts, Status
  <2>1. queue[e].market \in 1..n /\ markets[queue[e].market] = e /\ queue[e].market \in charted
    BY <1>2 DEF IInv, ApprovedHasMarket
  <2> QED
    BY <1>7, <2>1
<1>12. MarketsKnown'
  <2>1. \A m \in 1..Len(markets') : markets'[m] \in Drafts'
    BY <1>2, <1>5, <1>7, <1>9 DEF IInv, MarketsKnown, Drafts
  <2> SUFFICES ASSUME NEW e \in Drafts \ suspect, NEW m \in 1..(n + 1), markets'[m] = e
               PROVE  Named(e, m) \/ \E k \in Handlers : Closing(k, e, m)'
    BY <1>5, <1>7, <2>1 DEF MarketsKnown, Drafts, Named, Status
  <2>2. CASE m = n + 1
    <3>1. Closing(h, e, m)'
      BY <1>4, <1>6, <1>7, <2>2 DEF Closing
    <3> QED
      BY <3>1
  <2>3. CASE m # n + 1
    <3>1. m \in 1..n /\ markets[m] = e
      BY <1>7, <2>3
    <3>2. Named(e, m) \/ \E k \in Handlers : Closing(k, e, m)
      BY <1>2, <3>1 DEF IInv, MarketsKnown
    <3>3. ASSUME NEW k \in Handlers, Closing(k, e, m) PROVE Closing(k, e, m)'
      BY <1>5, <1>6, <3>3 DEF Closing
    <3> QED
      BY <3>2, <3>3
  <2> QED
    BY <2>2, <2>3
<1> QED
  BY <1>2, <1>4, <1>5, <1>6, <1>8, <1>10, <1>11, <1>12, StepKeeps

\* The one draft that a review writes.
LEMMA WritesDraft ==
    ASSUME queue \in Seq(Draft), NEW d \in Drafts, NEW r \in Draft, queue' = [queue EXCEPT ![d] = r]
    PROVE  /\ queue' \in Seq(Draft) /\ Len(queue') = Len(queue) /\ queue'[d] = r
           /\ \A e \in Drafts : e # d => queue'[e] = queue[e]
  BY ExceptSeq DEF Drafts

\* A review that writes its draft is over.
LEMMA CloseStep ==
    ASSUME IInv, NEW h \in Handlers, pc[h] \in Reviewing, NEW d \in Drafts, d = job[h].draft,
           NEW status \in {"APPROVED", "REJECTED"}, NEW m \in Nat,
           queue' = [queue EXCEPT ![d] = DraftOf(status, m)],
           UNCHANGED <<markets, charted, tab, suspect>>,
           NEW stage \in Stages \ Reviewing, NEW j \in Job, Goto(h, stage, j),
           IF status = "APPROVED" THEN pc[h] = "closing" /\ m = job[h].market ELSE pc[h] = "rejecting"
    PROVE  IInv'
<1> USE DEF Stages, Reviewing
<1>1. /\ JobSound(h) /\ StillThere(h) /\ OverlapKnown /\ MarketsKnown
      /\ queue \in Seq(Draft) /\ markets \in Seq(Nat)
  BY DEF IInv, ServedTypes
<1>2. DraftOf(status, m) \in Draft /\ DraftOf(status, m).status = status /\ DraftOf(status, m).market = m
  BY DraftTypes DEF Statuses
<1>3. /\ queue' \in Seq(Draft) /\ Len(queue') = Len(queue) /\ Drafts' = Drafts
      /\ queue'[d].status = status /\ queue'[d].market = m
      /\ \A e \in Drafts : e # d => queue'[e] = queue[e]
  BY <1>1, <1>2, WritesDraft DEF Drafts
<1>4. /\ pc' \in [Handlers -> Stages] /\ job' \in [Handlers -> Job]
      /\ pc'[h] = stage /\ job'[h] = j
      /\ \A g \in Handlers \ {h} : pc'[g] = pc[g] /\ job'[g] = job[g]
  BY GotoMoves DEF IInv
<1>5. Alone(h)
  BY <1>1, <1>3, <1>4, Queue DEF Alone, IInv, ServedTypes
<1>6. JobSound(h)' /\ StillThere(h)'
  BY <1>4 DEF JobSound, StillThere
<1>7. ASSUME NEW g \in Handlers \ {h}, pc[g] \in Reviewing, job[g].draft \notin suspect
      PROVE  queue'[job[g].draft] = queue[job[g].draft]
  <2>1. job[g].draft # d
    BY <1>1, <1>7 DEF OverlapKnown
  <2>2. job[g].draft \in Drafts
    BY <1>7 DEF IInv, JobSound
  <2> QED
    BY <1>3, <2>1, <2>2
<1>8. ApprovedHasMarket'
  <2> SUFFICES ASSUME NEW e \in Drafts, queue'[e].status = "APPROVED"
               PROVE  /\ queue'[e].market \in 1..Len(markets) /\ markets[queue'[e].market] = e
                      /\ queue'[e].market \in charted
    BY <1>3 DEF ApprovedHasMarket, Status
  <2>1. CASE e = d
    BY <1>1, <1>3, <2>1 DEF JobSound
  <2>2. CASE e # d
    BY <1>3, <2>2 DEF IInv, ApprovedHasMarket, Status
  <2> QED
    BY <2>1, <2>2
<1>9. MarketsKnown'
  <2> SUFFICES ASSUME NEW e \in Drafts \ suspect, NEW n \in 1..Len(markets), markets[n] = e
               PROVE  Named(e, n)' \/ \E k \in Handlers : Closing(k, e, n)'
    BY <1>1, <1>3 DEF MarketsKnown
  <2>1. Named(e, n) \/ \E k \in Handlers : Closing(k, e, n)
    BY <1>1 DEF MarketsKnown
  <2>2. CASE e # d
    <3>1. Named(e, n) => Named(e, n)'
      BY <1>3, <2>2 DEF Named, Status
    <3>2. ASSUME NEW k \in Handlers, Closing(k, e, n) PROVE Closing(k, e, n)'
      BY <1>4, <2>2, <3>2 DEF Closing
    <3> QED
      BY <2>1, <3>1, <3>2
  <2>3. CASE e = d
    <3>1. Status(e) = "PENDING"
      BY <1>1, <2>3 DEF StillThere
    <3>2. PICK k \in Handlers : Closing(k, e, n)
      BY <2>1, <3>1 DEF Named
    <3>3. k = h
      BY <1>1, <2>3, <3>2 DEF Closing, OverlapKnown
    <3>4. status = "APPROVED" /\ m = n
      BY <3>2, <3>3 DEF Closing
    <3> QED
      BY <1>3, <2>3, <3>4 DEF Named, Status
  <2> QED
    BY <2>2, <2>3
<1> QED
  BY <1>4, <1>5, <1>6, <1>7, <1>8, <1>9, StepKeeps

LEMMA DoneGoes ==
    ASSUME ServedTypes, NEW h \in Handlers, NEW stage \in {"leaving", "reloading"}, Done(h, stage)
    PROVE  \E s \in Stages \ Reviewing, j \in Job : Goto(h, s, j)
<1>1. JobOf(0, 0, job[h].tab) \in Job /\ NoJob \in Job
  BY JobTypes DEF ServedTypes
<1>2. (IF h \in Mine THEN JobOf(0, 0, job[h].tab) ELSE NoJob) \in Job
      /\ (IF h \in Mine THEN stage ELSE "idle") \in Stages \ Reviewing
  BY <1>1 DEF Stages, Reviewing
<1> QED
  BY <1>2 DEF Done

LEMMA CloseApprovalStep == ASSUME IInv, NEW h \in Handlers, CloseApproval(h) PROVE IInv'
<1>1. pc[h] = "closing" /\ Done(h, "leaving") /\ UNCHANGED <<markets, charted, tab, suspect>>
  BY DEF CloseApproval, page
<1>2. PICK d \in Drafts, m \in Nat : d = job[h].draft /\ m = job[h].market
  BY <1>1, JobTypes DEF IInv, ServedTypes, JobSound, Reviewing
<1>3. queue' = [queue EXCEPT ![d] = DraftOf("APPROVED", m)]
  BY <1>2 DEF CloseApproval, Approved
<1>4. PICK s \in Stages \ Reviewing, j \in Job : Goto(h, s, j)
  BY <1>1, DoneGoes DEF IInv
<1> QED
  BY <1>1, <1>2, <1>3, <1>4, CloseStep DEF Reviewing

LEMMA CloseRejectionStep == ASSUME IInv, NEW h \in Handlers, CloseRejection(h) PROVE IInv'
<1>1. pc[h] = "rejecting" /\ Done(h, "reloading") /\ UNCHANGED <<markets, charted, tab, suspect>>
  BY DEF CloseRejection, page
<1>2. PICK d \in Drafts : d = job[h].draft
  BY <1>1 DEF IInv, JobSound, Reviewing
<1>3. PICK m \in Nat : m = queue[d].market
  BY Queue DEF IInv, ServedTypes
<1>4. queue' = [queue EXCEPT ![d] = DraftOf("REJECTED", m)]
  BY <1>2, <1>3 DEF CloseRejection
<1>5. PICK s \in Stages \ Reviewing, j \in Job : Goto(h, s, j)
  BY <1>1, DoneGoes DEF IInv
<1> QED
  BY <1>1, <1>2, <1>4, <1>5, CloseStep DEF Reviewing

\* The drafts a bulk rejection takes were pending and, unless they are suspect from then
\* on, in no review, so that no market was made for them.
LEMMA BulkRejectStep ==
    ASSUME IInv, NEW h \in Handlers, NEW chosen \in SUBSET Drafts, BulkReject(h, chosen)
    PROVE  IInv'
<1> USE DEF Stages, Reviewing
<1> DEFINE gone == {d \in chosen : Status(d) = "PENDING"}
<1>1. /\ queue' = [d \in Drafts |-> IF d \in gone THEN DraftOf("REJECTED", queue[d].market) ELSE queue[d]]
      /\ suspect' = suspect \cup {d \in gone : Held(d)}
      /\ pc[h] = "idle" /\ Goto(h, IF h \in Mine THEN "reloading" ELSE "idle", NoJob)
      /\ UNCHANGED <<markets, charted, tab>>
  BY DEF BulkReject, StillPending, page
<1>2. /\ queue \in Seq(Draft) /\ markets \in Seq(Nat) /\ MarketsKnown /\ Len(queue) \in Nat
      /\ \A d \in Drafts : queue[d] \in Draft /\ queue[d].market \in Nat
  BY Queue DEF IInv, ServedTypes
<1>3. \A d \in Drafts : DraftOf("REJECTED", queue[d].market) \in Draft
                        /\ DraftOf("REJECTED", queue[d].market).status = "REJECTED"
  BY <1>2, DraftTypes DEF Statuses
<1>4. queue' \in [1..Len(queue) -> Draft]
  BY <1>1, <1>2, <1>3 DEF Drafts
<1>5. queue' \in Seq(Draft) /\ Len(queue') = Len(queue)
  BY <1>2, <1>4, SeqDef
<1>6. /\ Drafts' = Drafts
      /\ \A d \in Drafts : d \notin gone => queue'[d] = queue[d]
      /\ \A d \in gone : queue'[d].status = "REJECTED"
  BY <1>1, <1>3, <1>5 DEF Drafts
<1> HIDE DEF gone
<1>7. PICK stage \in Stages \ Reviewing : stage = IF h \in Mine THEN "reloading" ELSE "idle"
  OBVIOUS
<1>8. /\ pc' \in [Handlers -> Stages] /\ job' \in [Handlers -> Job]
      /\ pc'[h] = stage /\ job'[h] = NoJob
      /\ \A g \in Handlers \ {h} : pc'[g] = pc[g] /\ job'[g] = job[g]
  BY <1>1, <1>7, GotoMoves, JobTypes DEF IInv
<1>9. Alone(h)
  <2>1. suspect \subseteq suspect' /\ UNCHANGED <<markets, charted, tab>>
    BY <1>1
  <2>2. /\ markets' \in Seq(Nat) /\ charted' \subseteq Nat /\ tab' \in Statuses
        /\ Len(markets) \in Nat /\ Len(markets) <= Len(markets')
    BY <1>2, <2>1, Queue DEF IInv, ServedTypes
  <2> QED
    BY <1>2, <1>5, <1>8, <2>1, <2>2 DEF Alone
<1>10. JobSound(h)' /\ StillThere(h)'
  BY <1>7, <1>8 DEF JobSound, StillThere
<1>11. ASSUME NEW g \in Handlers, pc[g] \in Reviewing, job[g].draft \notin suspect'
       PROVE  job[g].draft \notin gone
  BY <1>1, <1>11 DEF Held
<1>12. ASSUME NEW g \in Handlers \ {h}, pc[g] \in Reviewing, job[g].draft \notin suspect'
       PROVE  queue'[job[g].draft] = queue[job[g].draft]
  <2>1. job[g].draft \in Drafts
    BY <1>12 DEF IInv, JobSound
  <2> QED
    BY <1>6, <1>11, <1>12, <2>1
<1>13. ApprovedHasMarket'
  <2> SUFFICES ASSUME NEW d \in Drafts, queue'[d].status = "APPROVED"
               PROVE  /\ queue'[d].market \in 1..Len(markets) /\ markets[queue'[d].market] = d
                      /\ queue'[d].market \in charted
    BY <1>1, <1>6 DEF ApprovedHasMarket, Status
  <2>1. queue'[d] = queue[d]
    BY <1>6
  <2> QED
    BY <2>1 DEF IInv, ApprovedHasMarket, Status
<1>14. MarketsKnown'
  <2> SUFFICES ASSUME NEW d \in Drafts \ suspect', NEW m \in 1..Len(markets), markets[m] = d
               PROVE  Named(d, m)' \/ \E k \in Handlers : Closing(k, d, m)'
    BY <1>1, <1>2, <1>6 DEF MarketsKnown
  <2>1. Named(d, m) \/ \E k \in Handlers : Closing(k, d, m)
    BY <1>1, <1>2 DEF MarketsKnown
  <2>2. Named(d, m) => Named(d, m)'
    <3>1. Named(d, m) => d \notin gone
      BY DEF Named, gone
    <3> QED
      BY <1>6, <3>1 DEF Named, Status
  <2>3. ASSUME NEW k \in Handlers, Closing(k, d, m) PROVE Closing(k, d, m)'
    BY <1>1, <1>8, <2>3 DEF Closing
  <2> QED
    BY <2>1, <2>2, <2>3
<1> QED
  BY <1>7, <1>8, <1>9, <1>10, <1>12, <1>13, <1>14, StepKeeps

LEMMA ArriveStep == ASSUME IInv, Arrive PROVE IInv'
<1>1. queue \in Seq(Draft) /\ markets \in Seq(Nat)
  BY DEF IInv, ServedTypes
<1>2. PICK n \in Nat : n = Len(queue)
  BY <1>1, Queue
<1>3. /\ queue' = Append(queue, NewDraft) /\ UNCHANGED <<markets, charted, pc, job, tab, suspect>>
  BY DEF Arrive, page
<1>4. /\ queue' \in Seq(Draft) /\ Len(queue') = n + 1 /\ queue'[n + 1] = NewDraft
      /\ \A d \in 1..n : queue'[d] = queue[d]
  BY <1>1, <1>2, <1>3, DraftTypes, AppendProperties
<1>5. Drafts = 1..n /\ Drafts' = 1..(n + 1)
  BY <1>2, <1>4 DEF Drafts
<1>6. ServedTypes'
  BY <1>3, <1>4 DEF IInv, ServedTypes
<1>7. ASSUME NEW h \in Handlers PROVE JobSound(h)' /\ StillThere(h)'
  <2>1. JobSound(h) /\ StillThere(h)
    BY DEF IInv
  <2>2. JobSound(h)'
    BY <1>2, <1>3, <1>5, <2>1 DEF JobSound
  <2>3. StillThere(h)'
    <3> SUFFICES ASSUME pc[h] \in Reviewing, job[h].draft \notin suspect
                 PROVE  queue'[job[h].draft].status = "PENDING"
      BY <1>3 DEF StillThere, Status
    <3>1. job[h].draft \in 1..n
      BY <1>5, <2>1 DEF JobSound
    <3> QED
      BY <1>4, <2>1, <3>1 DEF StillThere, Status
  <2> QED
    BY <2>2, <2>3
<1>8. OverlapKnown'
  BY <1>3 DEF IInv, OverlapKnown
<1>9. ApprovedHasMarket'
  <2> SUFFICES ASSUME NEW d \in 1..(n + 1), queue'[d].status = "APPROVED"
               PROVE  /\ queue'[d].market \in 1..Len(markets) /\ markets[queue'[d].market] = d
                      /\ queue'[d].market \in charted
    BY <1>3, <1>5 DEF ApprovedHasMarket, Status
  <2>1. d # n + 1
    BY <1>4, DraftTypes
  <2>2. d \in 1..n
    BY <2>1
  <2> QED
    BY <1>4, <1>5, <2>2 DEF IInv, ApprovedHasMarket, Status
<1>10. MarketsKnown'
  <2>1. MarketsKnown
    BY DEF IInv
  <2>2. \A m \in 1..Len(markets') : markets'[m] \in Drafts /\ markets'[m] \in Drafts'
    BY <1>2, <1>3, <1>5, <2>1 DEF MarketsKnown
  <2> SUFFICES ASSUME NEW d \in 1..(n + 1), d \notin suspect, NEW m \in 1..Len(markets), markets[m] = d
               PROVE  Named(d, m)' \/ \E k \in Handlers : Closing(k, d, m)'
    BY <1>3, <1>5, <2>2 DEF MarketsKnown
  <2>3. d \in Drafts
    BY <1>3, <2>2
  <2>4. Named(d, m) \/ \E k \in Handlers : Closing(k, d, m)
    BY <2>1, <2>3 DEF MarketsKnown
  <2>5. Named(d, m) => Named(d, m)'
    BY <1>4, <1>5, <2>3 DEF Named, Status
  <2>6. \A k \in Handlers : Closing(k, d, m) => Closing(k, d, m)'
    BY <1>3 DEF Closing
  <2> QED
    BY <2>4, <2>5, <2>6
<1> QED
  BY <1>6, <1>7, <1>8, <1>9, <1>10 DEF IInv

-----------------------------------------------------------------------------
(* The invariant, and the theorems *)

LEMMA InitIInv == ASSUME Init PROVE IInv
<1>1. queue = <<NewDraft, NewDraft>> /\ markets = <<>> /\ charted = {} /\ tab = "PENDING"
  BY DEF Init
<1>2. queue \in Seq(Draft) /\ Len(queue) = 2 /\ queue[1] = NewDraft /\ queue[2] = NewDraft
  BY <1>1, DraftTypes
<1>3. \A d \in Drafts : Status(d) = "PENDING"
  BY <1>2, DraftTypes DEF Drafts, Status
<1>4. markets \in Seq(Nat) /\ Len(markets) = 0
  BY <1>1
<1>5. ServedTypes
  BY <1>1, <1>2, <1>4, JobTypes DEF Init, ServedTypes, Stages, Statuses
<1>6. /\ OverlapKnown
      /\ \A h \in Handlers : JobSound(h) /\ StillThere(h)
  BY DEF Init, OverlapKnown, JobSound, StillThere, Reviewing
<1>7. MarketsKnown /\ ApprovedHasMarket
  BY <1>3, <1>4 DEF MarketsKnown, ApprovedHasMarket
<1> QED
  BY <1>5, <1>6, <1>7 DEF IInv

LEMMA NextIInv == ASSUME IInv, [Next]_vars PROVE IInv'
<1>1. tab \in Statuses /\ Tabs \subseteq Statuses
  BY ReviewAssumption DEF IInv, ServedTypes, Statuses
<1>2. CASE UNCHANGED vars
  BY <1>1, <1>2, PageStep DEF vars
<1>3. ASSUME NEW of \in Tabs, Switch(of) PROVE IInv'
  BY <1>1, <1>3, PageStep DEF Switch, Load, rows
<1>4. ASSUME NEW l \in Slots, More(l) \/ Read(l) \/ Answer(l) \/ NoAnswer(l) PROVE IInv'
  BY <1>1, <1>4, PageStep DEF More, Read, Answer, NoAnswer, rows
<1>5. ASSUME NEW h \in Handlers, NEW d \in Drafts, Approve(h, d) \/ Reject(h, d) PROVE IInv'
  BY <1>5, BeginStep DEF Approve, Reject
<1> QED
  BY <1>2, <1>3, <1>4, <1>5, CreateMarketStep, SeedSnapshotStep, CloseApprovalStep, CloseRejectionStep,
     BulkRejectStep, AbortStep, IngestedStep, ReloadStep, LeaveStep, ArriveStep
     DEF Next

THEOREM Invariance == Spec => []IInv
  BY InitIInv, NextIInv, PTL DEF Spec

\* An approved draft names a market that was created for it and has its first snapshot,
\* whatever reviews overlap and wherever they break off.
THEOREM Approvals == Spec => []ApprovedHasMarket
<1>1. IInv => ApprovedHasMarket
  BY DEF IInv
<1> QED
  BY <1>1, Invariance, PTL

\* A draft that no two reviews overlapped about becomes one market at most.
THEOREM OneMarket == Spec => []OneMarketPerDraft
<1>1. ASSUME IInv, NEW d \in Drafts \ suspect
      PROVE  LET made == {m \in 1..Len(markets) : markets[m] = d} IN
             /\ Cardinality(made) <= 1
             /\ made # {} => \/ Status(d) = "APPROVED"
                             \/ \E h \in Handlers : pc[h] \in {"seeding", "closing"} /\ job[h].draft = d
  <2> DEFINE made == {m \in 1..Len(markets) : markets[m] = d}
  <2>1. \A m \in made : Named(d, m) \/ \E h \in Handlers : Closing(h, d, m)
    BY <1>1 DEF IInv, MarketsKnown
  <2>2. ASSUME NEW h \in Handlers, NEW m, Closing(h, d, m) PROVE Status(d) = "PENDING"
    BY <1>1, <2>2 DEF IInv, StillThere, Closing, Reviewing
  <2>3. ASSUME NEW g \in Handlers, NEW h \in Handlers, NEW m, NEW n, Closing(g, d, m), Closing(h, d, n)
        PROVE  m = n
    BY <1>1, <2>3 DEF IInv, OverlapKnown, Closing, Reviewing
  <2>4. ASSUME NEW m \in made, NEW n \in made PROVE m = n
    <3>1. CASE Named(d, m) /\ Named(d, n)
      BY <3>1 DEF Named
    <3>2. CASE ~Named(d, m)
      BY <2>1, <2>2, <2>3, <3>2 DEF Named
    <3>3. CASE ~Named(d, n)
      BY <2>1, <2>2, <2>3, <3>3 DEF Named
    <3> QED
      BY <3>1, <3>2, <3>3
  <2>5. made # {} => \/ Status(d) = "APPROVED"
                     \/ \E h \in Handlers : pc[h] \in {"seeding", "closing"} /\ job[h].draft = d
    BY <2>1 DEF Named, Closing
  <2> HIDE DEF made
  <2>6. Cardinality(made) <= 1
    <3>1. CASE made = {}
      BY <3>1, FS_EmptySet
    <3>2. CASE made # {}
      <4>1. PICK m : made = {m}
        BY <2>4, <3>2
      <4>2. Cardinality({m}) = 1
        BY FS_Singleton
      <4> QED
        BY <4>1, <4>2
    <3> QED
      BY <3>1, <3>2
  <2> QED
    BY <2>5, <2>6 DEF made
<1>2. IInv => OneMarketPerDraft
  BY <1>1 DEF OneMarketPerDraft
<1> QED
  BY <1>2, Invariance, PTL

LEMMA StepFinal ==
    ASSUME IInv, [Next]_vars, NEW d \in Drafts \ suspect', Status(d) # "PENDING"
    PROVE  queue'[d] = queue[d]
<1>1. queue \in Seq(Draft) /\ Len(queue) \in Nat
  BY Queue DEF IInv, ServedTypes
<1>2. CASE UNCHANGED queue
  BY <1>2
<1>3. ASSUME NEW h \in Handlers, CloseApproval(h) \/ CloseRejection(h) PROVE queue'[d] = queue[d]
  <2>1. pc[h] \in Reviewing /\ suspect' = suspect
    BY <1>3 DEF CloseApproval, CloseRejection, Reviewing
  <2>2. job[h].draft # d
    BY <2>1 DEF IInv, StillThere
  <2>3. \E r : queue' = [queue EXCEPT ![job[h].draft] = r]
    BY <1>3 DEF CloseApproval, CloseRejection
  <2>4. queue \in [Drafts -> Draft]
    BY <1>1, LenProperties DEF Drafts
  <2> QED
    BY <2>2, <2>3, <2>4
<1>4. ASSUME NEW h \in Handlers, NEW chosen \in SUBSET Drafts, BulkReject(h, chosen)
      PROVE  queue'[d] = queue[d]
  <2>1. d \notin {e \in chosen : StillPending(e)}
    BY DEF StillPending
  <2> QED
    BY <1>4, <2>1 DEF BulkReject
<1>5. CASE Arrive
  BY <1>1, <1>5, DraftTypes, AppendProperties DEF Arrive, Drafts
<1>6. UNCHANGED queue
      \/ (\E h \in Handlers : CloseApproval(h) \/ CloseRejection(h))
      \/ (\E h \in Handlers : \E chosen \in SUBSET Drafts : BulkReject(h, chosen))
      \/ Arrive
  BY DEF Next, vars, rows, Switch, More, Read, Answer, NoAnswer, Approve, Reject, Begin, CreateMarket,
         SeedSnapshot, Abort, Ingested, Reload, Leave
<1> QED
  BY <1>2, <1>3, <1>4, <1>5, <1>6

\* No later review changes a decision, single or in bulk, unless two reviews of the
\* draft overlapped.
THEOREM Final == Spec => DecisionFinal
<1>1. IInv /\ [Next]_vars =>
        [\A d \in Drafts \ suspect' : Status(d) # "PENDING" => queue'[d] = queue[d]]_vars
  BY StepFinal
<1> QED
  BY <1>1, Invariance, PTL DEF Spec, DecisionFinal

-----------------------------------------------------------------------------
(* The list of Review's page *)

PageTypes ==
    /\ loaded \in BOOLEAN /\ spoiled \in BOOLEAN
    /\ shown \in Seq(Nat)
    /\ cursor \in Nat
    /\ list \in [Slots -> Request]
    /\ touched \subseteq Nat

Down(s) == \A i, j \in 1..Len(s) : i < j => s[i] > s[j]

\* The items are the drafts of the tab below one draft and not below another, but for
\* those that changed; where there are more, the last item is where they begin.
Covers(items, from, next) ==
    /\ Down(items)
    /\ InSeq(items) \subseteq Drafts
    /\ from # 0 => \A d \in InSeq(items) : d < from
    /\ next # 0 => items # <<>> /\ next = items[Len(items)]
    /\ \A d \in InSeq(items) \ touched : Status(d) = tab
    /\ \A d \in Drafts \ touched :
          Status(d) = tab /\ d >= next /\ (from = 0 \/ d < from) => d \in InSeq(items)

\* The page has one request under way at most, for the tab it is on: for the first page
\* while it has no list, for the next one after that.
OneRequest ==
    /\ \A k, l \in UnderWay : k = l
    /\ \A l \in UnderWay :
          /\ list[l].tab = tab
          /\ list[l].from = cursor
          /\ list[l].from # 0 <=> loaded
          /\ list[l].stage = "read" => Covers(list[l].items, list[l].from, list[l].next)

PageInv ==
    /\ PageTypes
    /\ ~spoiled => /\ OneRequest
                   /\ cursor # 0 => loaded
                   /\ loaded => Covers(shown, 0, cursor)

\* What the server selects for a page: the drafts of the status, from the newest.
LEMMA NewestFrom ==
    ASSUME queue \in Seq(Draft), NEW of, NEW from \in Nat
    PROVE  /\ Newest(of, from) \in Seq(Nat) /\ Down(Newest(of, from))
           /\ InSeq(Newest(of, from)) = {d \in Drafts : Status(d) = of /\ (from = 0 \/ d <= from)}
<1> DEFINE n == Len(queue)
           rev == [i \in Drafts |-> n + 1 - i]
           K == {i \in 1..Len(rev) : Status(rev[i]) = of /\ (from = 0 \/ rev[i] <= from)}
           e == InOrder(K)
           new == Newest(of, from)
<1>1. n \in Nat /\ Drafts = 1..n
  BY DEF Drafts
<1>2. /\ rev \in Seq(Nat) /\ Len(rev) = n
      /\ \A i \in 1..n : rev[i] = n + 1 - i /\ rev[i] \in 1..n
  BY <1>1
<1>3. new = AtPlaces(rev, K)
  BY DEF Newest, Select
<1>4. K = {i \in 1..n : Status(n + 1 - i) = of /\ (from = 0 \/ n + 1 - i <= from)}
  BY <1>2
<1>5. K \in SUBSET (1..n) /\ K \in SUBSET (1..Len(rev))
  BY <1>2
<1> HIDE DEF n, rev, K, new
<1>6. /\ new \in Seq(Nat) /\ Len(new) = Cardinality(K) /\ Cardinality(K) \in Nat
      /\ \A i \in 1..Cardinality(K) : e[i] \in K /\ new[i] = rev[e[i]]
      /\ InSeq(new) = {rev[k] : k \in K}
  <2>1. rev \in Seq(Nat)
    BY <1>2
  <2>2. /\ AtPlaces(rev, K) \in Seq(Nat)
        /\ Len(AtPlaces(rev, K)) = Cardinality(K) /\ Cardinality(K) \in Nat
        /\ \A i \in 1..Cardinality(K) :
              InOrder(K)[i] \in K /\ AtPlaces(rev, K)[i] = rev[InOrder(K)[i]]
        /\ InSeq(AtPlaces(rev, K)) = {rev[k] : k \in K}
    <3> HIDE DEF e
    <3> QED
      BY <1>5, <2>1, Places
  <2> QED
    BY <1>3, <2>2
<1>7. \A i, j \in 1..Cardinality(K) : i < j => e[i] < e[j]
  BY <1>1, <1>5, Ordered
<1> HIDE DEF e
<1>8. Down(new)
  <2> SUFFICES ASSUME NEW i \in 1..Cardinality(K), NEW j \in 1..Cardinality(K), i < j
               PROVE  new[i] > new[j]
    BY <1>6 DEF Down
  <2>1. PICK a, b \in 1..n : a = e[i] /\ b = e[j]
    BY <1>5, <1>6
  <2>2. a < b /\ new[i] = n + 1 - a /\ new[j] = n + 1 - b
    BY <1>2, <1>6, <1>7, <2>1
  <2> QED
    BY <1>1, <2>2
<1>9. InSeq(new) = {d \in Drafts : Status(d) = of /\ (from = 0 \/ d <= from)}
  <2>1. ASSUME NEW k \in K
        PROVE  rev[k] \in Drafts /\ Status(rev[k]) = of /\ (from = 0 \/ rev[k] <= from)
    <3>1. k \in 1..n /\ rev[k] = n + 1 - k /\ rev[k] \in 1..n
      BY <1>2, <1>5
    <3> QED
      BY <1>1, <1>4, <3>1
  <2>2. ASSUME NEW d \in Drafts, Status(d) = of, from = 0 \/ d <= from
        PROVE  \E k \in K : rev[k] = d
    <3>1. PICK k \in 1..n : k = n + 1 - d /\ n + 1 - k = d
      BY <1>1
    <3>2. k \in K
      BY <1>4, <2>2, <3>1
    <3>3. rev[k] = d
      BY <1>2, <3>1
    <3> QED
      BY <3>2, <3>3
  <2> QED
    BY <1>6, <2>1, <2>2
<1> QED
  BY <1>6, <1>8, <1>9 DEF new

LEMMA AfterCursorFrom ==
    ASSUME queue \in Seq(Draft), NEW of, NEW from \in Nat,
           from # 0 => from \in Drafts /\ Status(from) = of
    PROVE  /\ AfterCursor(of, from) \in Seq(Nat) /\ Down(AfterCursor(of, from))
           /\ InSeq(AfterCursor(of, from)) =
                {d \in Drafts : Status(d) = of /\ (from = 0 \/ d < from)}
<1> DEFINE new == Newest(of, from)
           all == AfterCursor(of, from)
<1>1. /\ new \in Seq(Nat) /\ Down(new)
      /\ InSeq(new) = {d \in Drafts : Status(d) = of /\ (from = 0 \/ d <= from)}
  BY NewestFrom
<1>2. CASE from = 0
  <2>1. all = new
    BY <1>2 DEF AfterCursor
  <2> QED
    BY <1>1, <1>2, <2>1
<1>3. CASE from # 0
  <2>1. all = SubSeq(new, 2, Len(new))
    BY <1>3 DEF AfterCursor
  <2> HIDE DEF new, all
  <2>2. \A d \in Drafts : d \in Nat
    BY DEF Drafts
  <2>3. PICK k \in 1..Len(new) : new[k] = from
    <3>1. from \in InSeq(new)
      BY <1>1, <1>3
    <3> QED
      BY <3>1 DEF InSeq
  <2>4. Len(new) \in Nat /\ 1 \in 1..Len(new)
    BY <1>1, <2>3
  <2>5. \A i \in 1..Len(new) : new[i] \in Nat /\ new[i] <= from
    BY <1>1, <1>3 DEF InSeq
  <2>6. new[1] = from
    <3>1. ~ 1 < k
      BY <1>1, <2>3, <2>4, <2>5 DEF Down
    <3> QED
      BY <2>3, <2>4, <3>1
  <2>7. /\ all \in Seq(Nat) /\ Len(all) = Len(new) - 1
        /\ \A i \in 1..Len(all) : i + 1 \in 1..Len(new) /\ all[i] = new[i + 1]
    <3>1. 2 \in Nat /\ Len(new) \in Nat /\ \A i \in 2..Len(new) : new[i] \in Nat
      BY <1>1, <2>4
    <3>2. all = [i \in 1..(Len(new) - 1) |-> new[i + 1]]
      BY <1>1, <2>1, <2>4
    <3>3. \A i \in 1..(Len(new) - 1) : i + 1 \in 1..Len(new) /\ new[i + 1] \in Nat
      BY <1>1, <2>4
    <3>4. Len(new) - 1 \in Nat
      BY <2>4
    <3> QED
      BY <3>2, <3>3, <3>4
  <2>8. Down(all)
    <3> SUFFICES ASSUME NEW i \in 1..Len(all), NEW j \in 1..Len(all), i < j
                 PROVE  all[i] > all[j]
      BY DEF Down
    <3>1. i + 1 < j + 1 /\ i + 1 \in 1..Len(new) /\ j + 1 \in 1..Len(new)
      BY <2>7
    <3> QED
      BY <1>1, <2>7, <3>1 DEF Down
  <2>9. \A i \in 1..Len(all) : all[i] \in InSeq(new) /\ all[i] < from
    <3> SUFFICES ASSUME NEW i \in 1..Len(all) PROVE all[i] \in InSeq(new) /\ all[i] < from
      OBVIOUS
    <3>1. i + 1 \in 1..Len(new) /\ 1 < i + 1 /\ all[i] = new[i + 1]
      BY <2>7
    <3>2. new[1] > new[i + 1]
      BY <1>1, <2>4, <3>1 DEF Down
    <3> QED
      BY <2>5, <2>6, <3>1, <3>2 DEF InSeq
  <2>10. \A d \in InSeq(new) : d < from => d \in InSeq(all)
    <3> SUFFICES ASSUME NEW k2 \in 1..Len(new), new[k2] < from PROVE new[k2] \in InSeq(all)
      BY DEF InSeq
    <3>1. k2 # 1
      BY <2>5, <2>6
    <3>2. k2 - 1 \in 1..Len(all) /\ all[k2 - 1] = new[k2]
      BY <2>4, <2>7, <3>1
    <3> QED
      BY <3>2 DEF InSeq
  <2>11. \A d \in InSeq(all) : d \in InSeq(new) /\ d < from
    BY <2>9 DEF InSeq
  <2>12. InSeq(all) = {d \in InSeq(new) : d < from}
    BY <2>10, <2>11
  <2>13. \A d \in Drafts : d < from => d <= from
    BY <2>2
  <2>14. InSeq(all) = {d \in Drafts : Status(d) = of /\ (from = 0 \/ d < from)}
    BY <1>1, <1>3, <2>12, <2>13
  <2> QED
    BY <2>7, <2>8, <2>14 DEF all
<1> QED
  BY <1>2, <1>3

LEMMA AfterCursorTypes ==
    ASSUME queue \in Seq(Draft), NEW of, NEW from \in Nat
    PROVE  AfterCursor(of, from) \in Seq(Nat)
<1>1. Newest(of, from) \in Seq(Nat)
  BY NewestFrom
<1>2. PICK new \in Seq(Nat) : new = Newest(of, from)
  BY <1>1
<1>3. SubSeq(new, 2, Len(new)) \in Seq(Nat)
  <2>1. Len(new) \in Int /\ \A i \in 2..Len(new) : new[i] \in Nat
    OBVIOUS
  <2> QED
    BY <2>1, SubSeqProperties
<1> QED
  BY <1>2, <1>3 DEF AfterCursor

\* The items are the first of a list, and the next one starts where they end.
Heads(all, items, next) ==
    /\ items \in Seq(Nat) /\ next \in Nat
    /\ InSeq(items) \subseteq InSeq(all)
    /\ next # 0 => items # <<>> /\ next = items[Len(items)]
    /\ Down(all) => /\ Down(items)
                    /\ \A d \in InSeq(all) : d >= next => d \in InSeq(items)

\* A page takes the first of them and knows where the next one starts.
LEMMA FirstTaken ==
    ASSUME NEW all \in Seq(Nat), NEW items, NEW next,
           items = IF Len(all) > Take THEN SubSeq(all, 1, Take) ELSE all,
           next = IF HasMore(all) THEN items[Len(items)] ELSE 0
    PROVE  Heads(all, items, next)
<1> USE DEF Heads
<1>1. Len(all) \in Nat /\ Take \in Nat \ {0}
  BY ReviewAssumption
<1>2. CASE Len(all) > Take
  <2>1. /\ items \in Seq(Nat) /\ Len(items) = Take
        /\ \A i \in 1..Take : i \in 1..Len(all) /\ items[i] = all[i]
    BY <1>1, <1>2
  <2>2. next = items[Take] /\ Take \in 1..Take
    BY <1>1, <1>2, <2>1 DEF HasMore
  <2>3. next = all[Take] /\ next \in Nat /\ Take \in 1..Len(all)
    BY <2>1, <2>2
  <2>4. Down(all) => Down(items)
    BY <2>1 DEF Down
  <2>5. InSeq(items) \subseteq InSeq(all)
    BY <2>1 DEF InSeq
  <2>6. ASSUME Down(all), NEW k \in 1..Len(all), all[k] >= next
        PROVE  all[k] \in InSeq(items)
    <3>1. ~ Take < k
      <4>1. Take < k => all[Take] > all[k]
        BY <2>3, <2>6 DEF Down
      <4> QED
        BY <2>3, <2>6, <4>1
    <3>2. k \in 1..Take
      BY <1>1, <3>1
    <3> QED
      BY <2>1, <3>2 DEF InSeq
  <2>7. Down(all) => \A d \in InSeq(all) : d >= next => d \in InSeq(items)
    BY <2>6 DEF InSeq
  <2> QED
    BY <1>1, <2>1, <2>2, <2>3, <2>4, <2>5, <2>7
<1>3. CASE ~ Len(all) > Take
  BY <1>3 DEF HasMore
<1> QED
  BY <1>2, <1>3

\* The list and a further page are one list.
LEMMA Joined ==
    ASSUME NEW a \in Seq(Nat), NEW b \in Seq(Nat), NEW c \in Nat \ {0}, NEW n \in Nat,
           Covers(a, 0, c), Covers(b, c, n)
    PROVE  Covers(a \o b, 0, n)
<1>0. Len(a) \in Nat /\ Len(b) \in Nat
  OBVIOUS
<1>1. /\ a \o b \in Seq(Nat) /\ Len(a \o b) = Len(a) + Len(b)
      /\ \A i \in 1..Len(a) : (a \o b)[i] = a[i]
      /\ \A i \in 1..Len(b) : Len(a) + i \in 1..Len(a \o b) /\ (a \o b)[Len(a) + i] = b[i]
  OBVIOUS
<1> DEFINE s == a \o b
<1> HIDE DEF s
<1>2. \A i \in 1..Len(s) :
         \/ i \in 1..Len(a) /\ s[i] = a[i]
         \/ i - Len(a) \in 1..Len(b) /\ s[i] = b[i - Len(a)]
  <2> SUFFICES ASSUME NEW i \in 1..Len(s), i \notin 1..Len(a)
               PROVE  i - Len(a) \in 1..Len(b) /\ s[i] = b[i - Len(a)]
    BY <1>1 DEF s
  <2>1. Len(s) = Len(a) + Len(b) /\ i \in Int
    BY <1>1 DEF s
  <2>2. i - Len(a) \in 1..Len(b) /\ Len(a) + (i - Len(a)) = i
    BY <1>0, <2>1
  <2>3. (a \o b)[Len(a) + (i - Len(a))] = b[i - Len(a)]
    BY <1>1, <2>2
  <2> QED
    BY <2>2, <2>3 DEF s
<1>3. InSeq(s) = InSeq(a) \cup InSeq(b)
  <2>1. InSeq(s) \subseteq InSeq(a) \cup InSeq(b)
    BY <1>2 DEF InSeq
  <2>2. InSeq(a) \subseteq InSeq(s)
    BY <1>0, <1>1 DEF InSeq, s
  <2>3. InSeq(b) \subseteq InSeq(s)
    BY <1>1 DEF InSeq, s
  <2> QED
    BY <2>1, <2>2, <2>3
<1>4. a # <<>> /\ c = a[Len(a)] /\ Len(a) \in 1..Len(a)
  BY <1>0 DEF Covers
<1>5. \A i \in 1..Len(a) : a[i] \in Nat /\ a[i] >= c
  <2>1. \A i, j \in 1..Len(a) : i < j => a[i] > a[j]
    BY DEF Covers, Down
  <2>2. PICK k \in Nat : k = Len(a) /\ \A i \in 1..k : a[i] \in Nat
    OBVIOUS
  <2>3. ASSUME NEW i \in 1..k PROVE a[i] >= a[k]
    <3>1. CASE i = k
      BY <2>2, <3>1
    <3>2. CASE i < k
      <4>1. a[i] > a[k] /\ a[i] \in Nat /\ a[k] \in Nat
        BY <1>4, <2>1, <2>2, <3>2
      <4> QED
        BY <4>1
    <3> QED
      BY <3>1, <3>2
  <2> QED
    BY <1>4, <2>2, <2>3
<1>6. \A i \in 1..Len(b) : b[i] \in Nat /\ b[i] < c
  BY DEF Covers, InSeq
<1>7. Down(s)
  <2> SUFFICES ASSUME NEW i \in 1..Len(s), NEW j \in 1..Len(s), i < j PROVE s[i] > s[j]
    BY DEF Down
  <2>1. CASE i \in 1..Len(a) /\ j \in 1..Len(a)
    BY <1>1, <2>1 DEF Covers, Down, s
  <2>2. CASE i \in 1..Len(a) /\ j \notin 1..Len(a)
    <3>1. s[i] >= c /\ s[i] \in Nat
      BY <1>1, <1>5, <2>2 DEF s
    <3>2. s[j] < c /\ s[j] \in Nat
      BY <1>2, <1>6, <2>2
    <3> QED
      BY <3>1, <3>2
  <2>3. CASE i \notin 1..Len(a)
    <3>1. j \notin 1..Len(a)
      BY <1>0, <2>3
    <3>2. PICK k \in 1..Len(b), l \in 1..Len(b) : /\ k = i - Len(a) /\ l = j - Len(a)
                                                  /\ s[i] = b[k] /\ s[j] = b[l]
      BY <1>2, <2>3, <3>1
    <3>3. k < l
      BY <1>0, <3>2
    <3> QED
      BY <3>2, <3>3 DEF Covers, Down
  <2> QED
    BY <2>1, <2>2, <2>3
<1>8. n # 0 => s # <<>> /\ n = s[Len(s)]
  <2> SUFFICES ASSUME n # 0 PROVE s # <<>> /\ n = s[Len(s)]
    OBVIOUS
  <2>1. b # <<>> /\ n = b[Len(b)] /\ Len(b) \in 1..Len(b)
    BY <1>0 DEF Covers
  <2>2. Len(s) = Len(a) + Len(b) /\ s[Len(s)] = b[Len(b)]
    BY <1>1, <2>1 DEF s
  <2> QED
    BY <1>0, <2>1, <2>2
<1>9. InSeq(s) \subseteq Drafts /\ \A d \in InSeq(s) \ touched : Status(d) = tab
  BY <1>3 DEF Covers
<1>10. ASSUME NEW d \in Drafts \ touched, Status(d) = tab, d >= n
       PROVE  d \in InSeq(s)
  <2>1. d \in Nat
    BY DEF Drafts
  <2>2. CASE d >= c
    BY <1>3, <1>10, <2>2 DEF Covers
  <2>3. CASE d < c
    BY <1>3, <1>10, <2>3 DEF Covers
  <2> QED
    BY <2>1, <2>2, <2>3
<1>11. Covers(s, 0, n)
  BY <1>7, <1>8, <1>9, <1>10 DEF Covers
<1> QED
  BY <1>11 DEF s

LEMMA RequestTypes ==
    /\ NoRequest \in Request /\ NoRequest.stage = "idle"
    /\ \A r \in Request : /\ r.stage \in {"idle", "sent", "read"} /\ r.tab \in Statuses
                          /\ r.from \in Nat /\ r.items \in Seq(Nat) /\ r.next \in Nat
  BY DEF NoRequest, Request, RequestOf, Statuses

LEMMA RequestMade ==
    ASSUME NEW of \in Statuses, NEW from \in Nat, NEW r,
           r = RequestOf("sent", of, from, <<>>, 0)
    PROVE  r \in Request /\ r.stage = "sent" /\ r.tab = of /\ r.from = from
<1>1. <<>> \in Seq(Nat) /\ 0 \in Nat
  OBVIOUS
<1> QED
  BY <1>1 DEF RequestOf, Request

LEMMA AnswerMade ==
    ASSUME NEW of \in Statuses, NEW from \in Nat, NEW items \in Seq(Nat), NEW next \in Nat,
           NEW r, r = RequestOf("read", of, from, items, next)
    PROVE  /\ r \in Request /\ r.stage = "read" /\ r.tab = of /\ r.from = from
           /\ r.items = items /\ r.next = next
  BY DEF RequestOf, Request

\* Steps that leave the page and the drafts alone.
LEMMA QuietPage ==
    ASSUME PageInv, UNCHANGED <<queue, tab, loaded, shown, cursor, list, touched, spoiled>>
    PROVE  PageInv'
  BY DEF PageInv, PageTypes, OneRequest, Covers, UnderWay, Drafts, Status

\* A list asked for anew.
LEMMA FreshPage ==
    ASSUME NEW l \in Slots, list' \in [Slots -> Request],
           loaded' = FALSE, shown' = <<>>, cursor' = 0, touched' = {}, spoiled' \in BOOLEAN,
           ~spoiled' => /\ list'[l].stage = "sent" /\ list'[l].tab = tab' /\ list'[l].from = 0
                        /\ \A k \in Slots \ {l} : list'[k].stage = "idle"
    PROVE  PageInv'
<1>1. PageTypes'
  <2>1. loaded' \in BOOLEAN
    OBVIOUS
  <2>2. shown' \in Seq(Nat) /\ cursor' \in Nat /\ touched' \subseteq Nat
    OBVIOUS
  <2> QED
    BY <2>1, <2>2 DEF PageTypes
<1>2. ASSUME ~spoiled' PROVE OneRequest'
  <2>1. UnderWay' = {l}
    BY <1>2 DEF UnderWay
  <2> QED
    BY <1>2, <2>1 DEF OneRequest
<1> QED
  BY <1>1, <1>2 DEF PageInv

LEMMA LoadPage ==
    ASSUME PageInv, NEW of \in Statuses, NEW on, Load(of, on)
    PROVE  PageInv'
<1>1. PICK l \in Slots \ UnderWay :
        /\ list' = [list EXCEPT ![l] = RequestOf("sent", of, 0, <<>>, 0)]
        /\ loaded' = FALSE /\ shown' = <<>> /\ cursor' = 0 /\ tab' = on /\ touched' = {}
        /\ spoiled' = (of # on \/ UnderWay # {})
  BY DEF Load
<1>2. PICK r \in Request : /\ r = RequestOf("sent", of, 0, <<>>, 0)
                           /\ r.stage = "sent" /\ r.tab = of /\ r.from = 0
  BY RequestMade
<1>3. list \in [Slots -> Request]
  BY DEF PageInv, PageTypes
<1>4. /\ list' \in [Slots -> Request] /\ list'[l] = r
      /\ \A k \in Slots \ {l} : list'[k] = list[k]
  BY <1>1, <1>2, <1>3
<1>5. spoiled' \in BOOLEAN
  BY <1>1
<1>6. ~spoiled' => of = on /\ UnderWay = {}
  BY <1>1
<1>7. UnderWay = {} => \A k \in Slots : list[k].stage = "idle"
  BY DEF UnderWay
<1> QED
  BY <1>1, <1>2, <1>4, <1>5, <1>6, <1>7, FreshPage

LEMMA FirstPage ==
    ASSUME NEW l \in Slots, list' = FirstList(l), tab' = "PENDING",
           loaded' = FALSE, shown' = <<>>, cursor' = 0, touched' = {}, spoiled' = FALSE
    PROVE  PageInv'
<1>1. PICK r \in Request : /\ r = RequestOf("sent", "PENDING", 0, <<>>, 0)
                           /\ r.stage = "sent" /\ r.tab = "PENDING" /\ r.from = 0
  <2>1. "PENDING" \in Statuses /\ 0 \in Nat
    BY DEF Statuses
  <2> QED
    BY <2>1, RequestMade
<1>2. list' = [k \in Slots |-> IF k = l THEN r ELSE NoRequest]
  BY <1>1 DEF FirstList
<1>3. /\ list' \in [Slots -> Request] /\ list'[l] = r
      /\ \A k \in Slots \ {l} : list'[k] = NoRequest
  BY <1>2, RequestTypes
<1> QED
  BY <1>1, <1>3, RequestTypes, FreshPage

\* Drafts that are written or arrive are touched.
LEMMA WritePage ==
    ASSUME PageInv, UNCHANGED page, NEW ds \in SUBSET Nat, Touch(ds),
           Drafts \subseteq Drafts',
           \A d \in Drafts' \ ds : d \in Drafts /\ Status(d)' = Status(d)
    PROVE  PageInv'
<1>1. /\ tab' = tab /\ loaded' = loaded /\ shown' = shown /\ cursor' = cursor
      /\ list' = list /\ spoiled' = spoiled
  BY DEF page
<1>2. touched' = IF spoiled THEN touched ELSE touched \cup ds
  BY DEF Touch
<1>3. PageTypes'
  BY <1>1, <1>2 DEF PageInv, PageTypes
<1>4. ASSUME ~spoiled PROVE touched' = touched \cup ds
  BY <1>2, <1>4
<1>5. ASSUME ~spoiled, NEW items, NEW from, NEW next, Covers(items, from, next)
      PROVE  Covers(items, from, next)'
  <2>1. touched' = touched \cup ds
    BY <1>4, <1>5
  <2>2. InSeq(items) \subseteq Drafts'
    BY <1>5 DEF Covers
  <2>3. \A d \in InSeq(items) \ touched' : Status(d)' = tab
    BY <1>5, <2>1, <2>2 DEF Covers
  <2>4. \A d \in Drafts' \ touched' :
          Status(d)' = tab /\ d >= next /\ (from = 0 \/ d < from) => d \in InSeq(items)
    BY <1>5, <2>1 DEF Covers
  <2> QED
    BY <1>1, <1>5, <2>2, <2>3, <2>4 DEF Covers
<1>6. UnderWay' = UnderWay
  BY <1>1 DEF UnderWay
<1>7. ASSUME ~spoiled PROVE OneRequest'
  <2>1. OneRequest
    BY <1>7 DEF PageInv
  <2>2. \A l \in UnderWay : list[l].stage = "read" =>
          Covers(list[l].items, list[l].from, list[l].next)'
    <3> SUFFICES ASSUME NEW l \in UnderWay, list[l].stage = "read"
                 PROVE  Covers(list[l].items, list[l].from, list[l].next)'
      OBVIOUS
    <3>1. PICK items, from, next : /\ items = list[l].items /\ from = list[l].from
                                   /\ next = list[l].next
      OBVIOUS
    <3>2. Covers(items, from, next)'
      BY <1>5, <1>7, <2>1, <3>1 DEF OneRequest
    <3> QED
      BY <1>1, <3>1, <3>2
  <2> QED
    BY <1>1, <1>6, <2>1, <2>2 DEF OneRequest
<1>8. ASSUME ~spoiled, loaded PROVE Covers(shown, 0, cursor)'
  <2>1. PICK items, next : items = shown /\ next = cursor
    OBVIOUS
  <2>2. Covers(items, 0, next)'
    BY <1>5, <1>8, <2>1 DEF PageInv
  <2> QED
    BY <1>1, <2>1, <2>2
<1>9. ASSUME ~spoiled PROVE cursor' # 0 => loaded'
  BY <1>1, <1>9 DEF PageInv
<1> QED
  BY <1>1, <1>3, <1>7, <1>8, <1>9 DEF PageInv

LEMMA Spoils ==
    ASSUME PageTypes, NEW now, now \in BOOLEAN, Spoil(now)
    PROVE  /\ spoiled' \in BOOLEAN /\ touched' \subseteq Nat
           /\ ~spoiled' => ~spoiled /\ ~now /\ touched' = touched
<1>1. spoiled' = (spoiled \/ now)
  BY DEF Spoil
<1>2. touched' = IF now THEN {} ELSE touched
  BY DEF Spoil
<1>3. spoiled' \in BOOLEAN /\ (~spoiled' => ~spoiled /\ ~now)
  BY <1>1 DEF PageTypes
<1>4. touched' \subseteq Nat
  BY <1>2 DEF PageTypes
<1> QED
  BY <1>2, <1>3, <1>4

LEMMA MorePage == ASSUME PageInv, tab \in Statuses, NEW l \in Slots, More(l) PROVE PageInv'
<1>1. /\ cursor # 0 /\ (\A k \in UnderWay : list[k].from = 0) /\ list[l].stage = "idle"
      /\ list' = [list EXCEPT ![l] = RequestOf("sent", tab, cursor, <<>>, 0)]
      /\ UNCHANGED <<queue, tab, loaded, shown, cursor, touched, spoiled>>
  BY DEF More, rows
<1>2. list \in [Slots -> Request] /\ cursor \in Nat
  BY DEF PageInv, PageTypes
<1>3. PICK r \in Request : /\ r = RequestOf("sent", tab, cursor, <<>>, 0)
                           /\ r.stage = "sent" /\ r.tab = tab /\ r.from = cursor
  BY <1>2, RequestMade
<1>4. /\ list' \in [Slots -> Request] /\ list'[l] = r
      /\ \A k \in Slots \ {l} : list'[k] = list[k]
  BY <1>1, <1>2, <1>3
<1>5. PageTypes'
  BY <1>1, <1>4 DEF PageInv, PageTypes
<1>6. ASSUME ~spoiled
      PROVE  OneRequest' /\ loaded /\ Covers(shown, 0, cursor)
  <2>1. loaded /\ OneRequest /\ Covers(shown, 0, cursor)
    BY <1>1, <1>6 DEF PageInv
  <2>2. UnderWay = {}
    <3>1. ASSUME NEW k \in UnderWay PROVE FALSE
      <4>1. list[k].from # 0
        BY <2>1 DEF OneRequest
      <4> QED
        BY <1>1, <4>1
    <3> QED
      BY <3>1
  <2>3. UnderWay' = {l}
    BY <1>3, <1>4, <2>2 DEF UnderWay
  <2>4. list'[l].tab = tab' /\ list'[l].from = cursor' /\ list'[l].from # 0 /\ list'[l].stage # "read"
    BY <1>1, <1>3, <1>4
  <2>5. loaded'
    BY <1>1, <2>1
  <2> QED
    BY <2>1, <2>3, <2>4, <2>5 DEF OneRequest
<1>7. Covers(shown, 0, cursor) => Covers(shown, 0, cursor)'
  BY <1>1 DEF Covers, Drafts, Status
<1>8. ASSUME ~spoiled PROVE loaded'
  BY <1>1, <1>6, <1>8
<1> QED
  BY <1>1, <1>5, <1>6, <1>7, <1>8 DEF PageInv

\* A request of a list that is what it should be.
LEMMA RequestSound ==
    ASSUME PageInv, ~spoiled, NEW l \in Slots, list[l].stage # "idle"
    PROVE  /\ UnderWay = {l}
           /\ list[l].tab = tab /\ list[l].from = cursor
           /\ list[l].from # 0 <=> loaded
           /\ list[l].stage = "read" => Covers(list[l].items, list[l].from, list[l].next)
           /\ cursor # 0 => cursor \in Drafts /\ Covers(shown, 0, cursor)
           /\ loaded => Covers(shown, 0, cursor)
<1>1. OneRequest /\ (cursor # 0 => loaded) /\ (loaded => Covers(shown, 0, cursor))
  BY DEF PageInv
<1>2. l \in UnderWay
  BY DEF UnderWay
<1>3. UnderWay = {l}
  BY <1>1, <1>2 DEF OneRequest
<1>4. ASSUME cursor # 0 PROVE cursor \in Drafts
  <2>1. Covers(shown, 0, cursor) /\ shown \in Seq(Nat)
    BY <1>1, <1>4 DEF PageInv, PageTypes
  <2>2. shown # <<>> /\ cursor = shown[Len(shown)]
    BY <1>4, <2>1 DEF Covers
  <2>3. Len(shown) \in 1..Len(shown)
    BY <2>1, <2>2
  <2>4. cursor \in InSeq(shown)
    BY <2>2, <2>3 DEF InSeq
  <2> QED
    BY <2>1, <2>4 DEF Covers
<1> QED
  BY <1>1, <1>2, <1>3, <1>4 DEF OneRequest

LEMMA ReadPage ==
    ASSUME PageInv, queue \in Seq(Draft), NEW l \in Slots, Read(l)
    PROVE  PageInv'
<1> DEFINE of == list[l].tab
           from == list[l].from
           all == AfterCursor(of, from)
<1>1. PICK items : items = IF Len(all) > Take THEN SubSeq(all, 1, Take) ELSE all
  OBVIOUS
<1>2. PICK next : next = IF HasMore(all) THEN items[Len(items)] ELSE 0
  OBVIOUS
<1>3. PICK now \in BOOLEAN : now = (from # 0 /\ Status(from) # of)
  OBVIOUS
<1>4. /\ list[l].stage = "sent"
      /\ list' = [list EXCEPT ![l] = RequestOf("read", of, from, items, next)]
      /\ UNCHANGED <<queue, tab, loaded, shown, cursor>>
  BY <1>1, <1>2 DEF Read, rows
<1>5. Spoil(now)
  BY <1>3 DEF Read
<1>6. list \in [Slots -> Request] /\ from \in Nat /\ of \in Statuses
  BY RequestTypes DEF PageInv, PageTypes
<1>7. /\ spoiled' \in BOOLEAN /\ touched' \subseteq Nat
      /\ ~spoiled' => ~spoiled /\ ~now /\ touched' = touched
  BY <1>5, Spoils DEF PageInv
<1>8. Heads(all, items, next)
  <2>1. all \in Seq(Nat)
    BY <1>6, AfterCursorTypes
  <2> HIDE DEF all
  <2> QED
    BY <1>1, <1>2, <2>1, FirstTaken
<1>9. PICK r \in Request :
        /\ r = RequestOf("read", of, from, items, next)
        /\ r.stage = "read" /\ r.tab = of /\ r.from = from /\ r.items = items /\ r.next = next
  <2>1. PICK r : r = RequestOf("read", of, from, items, next)
    OBVIOUS
  <2> HIDE DEF of, from
  <2> QED
    BY <1>6, <1>8, <2>1, AnswerMade DEF Heads
<1>10. /\ list' \in [Slots -> Request] /\ list'[l] = r
       /\ \A k \in Slots \ {l} : list'[k] = list[k]
  BY <1>4, <1>6, <1>9
<1>11. PageTypes'
  BY <1>4, <1>7, <1>10 DEF PageInv, PageTypes
<1>12. ASSUME ~spoiled'
       PROVE  OneRequest' /\ (cursor # 0 => loaded) /\ (loaded => Covers(shown, 0, cursor)')
  <2>1. ~spoiled /\ ~now /\ touched' = touched
    BY <1>7, <1>12
  <2>2. /\ UnderWay = {l} /\ of = tab /\ from = cursor /\ (from # 0 <=> loaded)
        /\ cursor # 0 => cursor \in Drafts
        /\ loaded => Covers(shown, 0, cursor)
    BY <1>4, <2>1, RequestSound
  <2>3. from # 0 => from \in Drafts /\ Status(from) = of
    BY <1>3, <2>1, <2>2
  <2>4. Down(all) /\ InSeq(all) = {d \in Drafts : Status(d) = of /\ (from = 0 \/ d < from)}
    BY <1>6, <2>3, AfterCursorFrom
  <2>5. Covers(items, from, next)
    <3> HIDE DEF of, from, all
    <3> QED
      BY <1>8, <2>2, <2>4 DEF Covers, Heads
  <2>6. \A a, b, c : Covers(a, b, c) => Covers(a, b, c)'
    BY <1>4, <2>1 DEF Covers, Drafts, Status
  <2>7. UnderWay' = {l}
    BY <1>9, <1>10, <2>2 DEF UnderWay
  <2>8. list'[l].tab = tab' /\ list'[l].from = cursor' /\ (list'[l].from # 0 <=> loaded)
    BY <1>4, <1>9, <1>10, <2>2
  <2>9. Covers(list[l].items, list[l].from, list[l].next)'
    <3>1. PICK a, b, c : a = items /\ b = from /\ c = next
      OBVIOUS
    <3>2. Covers(a, b, c)'
      BY <2>5, <2>6, <3>1
    <3> QED
      BY <1>9, <1>10, <3>1, <3>2
  <2>10. loaded' = loaded
    BY <1>4
  <2>11. OneRequest'
    BY <2>7, <2>8, <2>9, <2>10 DEF OneRequest
  <2>12. loaded => Covers(shown, 0, cursor)'
    <3>1. PICK a, c : a = shown /\ c = cursor
      OBVIOUS
    <3> QED
      BY <1>4, <2>2, <2>6, <3>1
  <2> QED
    BY <2>2, <2>11, <2>12
<1>13. loaded' = loaded /\ cursor' = cursor
  BY <1>4
<1> QED
  BY <1>11, <1>12, <1>13 DEF PageInv

LEMMA AnswerPage == ASSUME PageInv, NEW l \in Slots, Answer(l) PROVE PageInv'
<1>1. /\ list[l].stage = "read" /\ list' = [list EXCEPT ![l] = NoRequest]
      /\ shown' = IF list[l].from = 0 THEN list[l].items ELSE shown \o list[l].items
      /\ cursor' = list[l].next /\ loaded' = TRUE
      /\ UNCHANGED <<queue, tab, touched, spoiled>>
  BY DEF Answer, rows
<1>2. /\ list \in [Slots -> Request] /\ shown \in Seq(Nat) /\ cursor \in Nat
  BY DEF PageInv, PageTypes
<1>3. PICK items \in Seq(Nat), from \in Nat, next \in Nat :
        items = list[l].items /\ from = list[l].from /\ next = list[l].next
  BY <1>2, RequestTypes
<1>4. /\ list' \in [Slots -> Request] /\ list'[l].stage = "idle"
      /\ \A k \in Slots \ {l} : list'[k] = list[k]
  BY <1>1, <1>2, RequestTypes
<1>5. PICK now \in Seq(Nat) : now = IF from = 0 THEN items ELSE shown \o items
  <2>1. shown \o items \in Seq(Nat)
    BY <1>2, <1>3
  <2> QED
    BY <1>3, <2>1
<1>6. shown' = now /\ cursor' = next
  BY <1>1, <1>3, <1>5
<1>7. PageTypes'
  <2>1. loaded' \in BOOLEAN /\ spoiled' \in BOOLEAN
    BY <1>1 DEF PageInv, PageTypes
  <2>2. touched' \subseteq Nat
    BY <1>1 DEF PageInv, PageTypes
  <2> QED
    BY <1>4, <1>6, <2>1, <2>2 DEF PageTypes
<1>8. ASSUME ~spoiled
      PROVE  OneRequest' /\ Covers(shown, 0, cursor)'
  <2>1. /\ UnderWay = {l} /\ from = cursor /\ Covers(items, from, next)
        /\ cursor # 0 => Covers(shown, 0, cursor)
    BY <1>1, <1>3, <1>8, RequestSound
  <2>2. UnderWay' = {}
    BY <1>4, <2>1 DEF UnderWay
  <2>3. OneRequest'
    BY <2>2 DEF OneRequest
  <2>4. Covers(now, 0, next)
    <3>1. CASE from = 0
      BY <1>5, <2>1, <3>1
    <3>2. CASE from # 0
      BY <1>2, <1>5, <2>1, <3>2, Joined
    <3> QED
      BY <3>1, <3>2
  <2>5. Covers(now, 0, next)'
    BY <1>1, <2>4 DEF Covers, Drafts, Status
  <2> QED
    BY <1>6, <2>3, <2>5
<1>9. loaded' /\ spoiled' = spoiled
  BY <1>1
<1> QED
  BY <1>7, <1>8, <1>9 DEF PageInv

LEMMA NoAnswerPage == ASSUME PageInv, NEW l \in Slots, NoAnswer(l) PROVE PageInv'
<1>1. PICK now \in BOOLEAN : now = (list[l].from = 0)
  OBVIOUS
<1>2. /\ list[l].stage = "sent" /\ list' = [list EXCEPT ![l] = NoRequest]
      /\ shown' = IF list[l].from = 0 THEN <<>> ELSE shown
      /\ loaded' = TRUE /\ Spoil(now)
      /\ UNCHANGED <<queue, tab, cursor>>
  BY <1>1 DEF NoAnswer, rows
<1>3. list \in [Slots -> Request] /\ shown \in Seq(Nat) /\ cursor \in Nat
  BY DEF PageInv, PageTypes
<1>4. /\ list' \in [Slots -> Request] /\ list'[l].stage = "idle"
      /\ \A k \in Slots \ {l} : list'[k] = list[k]
  BY <1>2, <1>3, RequestTypes
<1>5. /\ spoiled' \in BOOLEAN /\ touched' \subseteq Nat
      /\ ~spoiled' => ~spoiled /\ ~now /\ touched' = touched
  BY <1>2, Spoils DEF PageInv
<1>6. PageTypes'
  <2>1. loaded' \in BOOLEAN
    BY <1>2
  <2>2. shown' \in Seq(Nat) /\ cursor' \in Nat
    BY <1>2, <1>3
  <2> QED
    BY <1>4, <1>5, <2>1, <2>2 DEF PageTypes
<1>7. ASSUME ~spoiled'
      PROVE  OneRequest' /\ Covers(shown, 0, cursor)'
  <2>1. ~spoiled /\ list[l].from # 0 /\ touched' = touched
    BY <1>1, <1>5, <1>7
  <2>2. UnderWay = {l} /\ Covers(shown, 0, cursor)
    BY <1>2, <2>1, RequestSound
  <2>3. UnderWay' = {}
    BY <1>4, <2>2 DEF UnderWay
  <2>4. OneRequest'
    BY <2>3 DEF OneRequest
  <2>5. shown' = shown
    BY <1>2, <2>1
  <2>6. Covers(shown, 0, cursor)'
    BY <1>2, <2>1, <2>2, <2>5 DEF Covers, Drafts, Status
  <2> QED
    BY <2>4, <2>6
<1>8. loaded'
  BY <1>2
<1> QED
  BY <1>6, <1>7, <1>8 DEF PageInv

LEMMA InitPage == ASSUME Init PROVE PageInv
<1>1. PICK l \in Slots : list = FirstList(l)
  BY DEF Init
<1>2. /\ tab = "PENDING" /\ loaded = FALSE /\ shown = <<>> /\ cursor = 0
      /\ touched = {} /\ spoiled = FALSE
  BY DEF Init
<1>3. PICK r \in Request : /\ r = RequestOf("sent", "PENDING", 0, <<>>, 0)
                           /\ r.stage = "sent" /\ r.tab = "PENDING" /\ r.from = 0
  <2>1. "PENDING" \in Statuses /\ 0 \in Nat
    BY DEF Statuses
  <2> QED
    BY <2>1, RequestMade
<1>4. list = [k \in Slots |-> IF k = l THEN r ELSE NoRequest]
  BY <1>1, <1>3 DEF FirstList
<1>5. /\ list \in [Slots -> Request] /\ list[l] = r
      /\ \A k \in Slots \ {l} : list[k].stage = "idle"
  BY <1>4, RequestTypes
<1>6. PageTypes
  <2>1. loaded \in BOOLEAN /\ spoiled \in BOOLEAN
    BY <1>2
  <2>2. shown \in Seq(Nat) /\ cursor \in Nat /\ touched \subseteq Nat
    BY <1>2
  <2> QED
    BY <1>5, <2>1, <2>2 DEF PageTypes
<1>7. UnderWay = {l}
  BY <1>3, <1>5 DEF UnderWay
<1>8. list[l].tab = tab /\ list[l].from = 0 /\ cursor = 0 /\ list[l].stage # "read"
  BY <1>2, <1>3, <1>5
<1>9. ~loaded
  BY <1>2
<1>10. OneRequest
  BY <1>7, <1>8, <1>9 DEF OneRequest
<1> QED
  BY <1>6, <1>8, <1>9, <1>10 DEF PageInv

\* What an action leaves alone, seen from the page.
LEMMA BeginPage ==
    ASSUME PageInv, NEW h \in Handlers, NEW d, NEW stage, Begin(h, d, stage)
    PROVE  PageInv'
  BY QuietPage DEF Begin, rows, page

LEMMA ServePage ==
    ASSUME PageInv, NEW h \in Handlers,
           CreateMarket(h) \/ SeedSnapshot(h) \/ Abort(h) \/ Ingested(h)
    PROVE  PageInv'
<1>1. UNCHANGED <<queue, tab, loaded, shown, cursor, list, touched, spoiled>>
  BY DEF CreateMarket, SeedSnapshot, Abort, Ingested, rows, page
<1> QED
  BY <1>1, QuietPage

LEMMA ReloadPage == ASSUME IInv, PageInv, NEW h \in Handlers, Reload(h) PROVE PageInv'
<1>1. job[h].tab \in Statuses
  BY JobTypes DEF IInv, ServedTypes
<1>2. Load(job[h].tab, tab)
  BY DEF Reload
<1> QED
  BY <1>1, <1>2, LoadPage

LEMMA LeavePage == ASSUME NEW h \in Handlers, Leave(h) PROVE PageInv'
<1>1. Opened
  BY DEF Leave
<1> QED
  BY <1>1, FirstPage DEF Opened

\* A review writes its draft and no other.
LEMMA ClosePage ==
    ASSUME IInv, PageInv, NEW h \in Handlers, CloseApproval(h) \/ CloseRejection(h)
    PROVE  PageInv'
<1>1. pc[h] \in Reviewing /\ UNCHANGED page
  BY DEF CloseApproval, CloseRejection, Reviewing
<1>2. PICK d \in Drafts : d = job[h].draft
  BY <1>1 DEF IInv, JobSound
<1>3. queue \in Seq(Draft) /\ d \in Nat /\ queue[d].market \in Nat /\ job[h].market \in Nat
  BY Queue, JobTypes DEF IInv, ServedTypes
<1>4. Touch({d})
  BY <1>2 DEF CloseApproval, CloseRejection
<1>5. \E q \in Draft : queue' = [queue EXCEPT ![d] = q]
  <2>1. CASE CloseApproval(h)
    <3>1. queue' = [queue EXCEPT ![d] = DraftOf("APPROVED", job[h].market)]
      BY <1>2, <2>1 DEF CloseApproval, Approved
    <3>2. DraftOf("APPROVED", job[h].market) \in Draft
      BY <1>3, DraftTypes DEF Statuses
    <3> QED
      BY <3>1, <3>2
  <2>2. CASE CloseRejection(h)
    <3>1. queue' = [queue EXCEPT ![d] = DraftOf("REJECTED", queue[d].market)]
      BY <1>2, <2>2 DEF CloseRejection
    <3>2. DraftOf("REJECTED", queue[d].market) \in Draft
      BY <1>3, DraftTypes DEF Statuses
    <3> QED
      BY <3>1, <3>2
  <2> QED
    BY <2>1, <2>2
<1>6. PICK q \in Draft : queue' = [queue EXCEPT ![d] = q]
  BY <1>5
<1>7. /\ queue' \in Seq(Draft) /\ Len(queue') = Len(queue)
      /\ \A k \in 1..Len(queue) : k # d => queue'[k] = queue[k]
  BY <1>3, <1>6 DEF Drafts
<1>8. Drafts' = Drafts /\ \A k \in Drafts' \ {d} : k \in Drafts /\ Status(k)' = Status(k)
  BY <1>7 DEF Drafts, Status
<1> QED
  BY <1>1, <1>3, <1>4, <1>8, WritePage

\* A bulk rejection writes the chosen drafts that are pending.
LEMMA BulkRejectPage ==
    ASSUME IInv, PageInv, NEW h \in Handlers, NEW chosen \in SUBSET Drafts, BulkReject(h, chosen)
    PROVE  PageInv'
<1> DEFINE gone == {d \in chosen : Status(d) = "PENDING"}
<1>1. /\ queue' = [d \in Drafts |-> IF d \in gone THEN DraftOf("REJECTED", queue[d].market) ELSE queue[d]]
      /\ Touch(gone) /\ UNCHANGED page
  BY DEF BulkReject, StillPending
<1>2. /\ queue \in Seq(Draft) /\ Len(queue) \in Nat /\ Drafts \subseteq Nat
      /\ \A d \in Drafts : queue[d] \in Draft /\ queue[d].market \in Nat
  BY Queue DEF IInv, ServedTypes
<1>3. \A d \in Drafts : DraftOf("REJECTED", queue[d].market) \in Draft
  BY <1>2, DraftTypes DEF Statuses
<1>4. queue' \in [1..Len(queue) -> Draft]
  BY <1>1, <1>2, <1>3 DEF Drafts
<1>5. Len(queue') = Len(queue)
  BY <1>2, <1>4, SeqDef
<1>6. gone \in SUBSET Nat
  BY <1>2
<1>7. Drafts' = Drafts /\ \A d \in Drafts' \ gone : d \in Drafts /\ Status(d)' = Status(d)
  BY <1>1, <1>5 DEF Drafts, Status
<1> HIDE DEF gone
<1> QED
  BY <1>1, <1>6, <1>7, WritePage

LEMMA ArrivePage == ASSUME IInv, PageInv, Arrive PROVE PageInv'
<1>1. PICK n \in Nat : queue \in Seq(Draft) /\ n = Len(queue)
  BY Queue DEF IInv, ServedTypes
<1>2. queue' = Append(queue, NewDraft) /\ Touch({n + 1}) /\ UNCHANGED page
  BY <1>1 DEF Arrive
<1>3. Len(queue') = n + 1 /\ \A d \in 1..n : queue'[d] = queue[d]
  BY <1>1, <1>2, DraftTypes, AppendProperties
<1>4. Drafts = 1..n /\ Drafts' = 1..(n + 1)
  BY <1>1, <1>3 DEF Drafts
<1>5. Drafts \subseteq Drafts' /\ {n + 1} \in SUBSET Nat
  BY <1>4
<1>6. \A d \in Drafts' \ {n + 1} : d \in Drafts /\ Status(d)' = Status(d)
  BY <1>3, <1>4 DEF Status
<1> QED
  BY <1>2, <1>5, <1>6, WritePage

LEMMA NextPage == ASSUME IInv, PageInv, [Next]_vars PROVE PageInv'
<1>1. tab \in Statuses /\ Tabs \subseteq Statuses
  BY ReviewAssumption DEF IInv, ServedTypes, Statuses
<1>2. CASE UNCHANGED vars
  BY <1>2, QuietPage DEF vars
<1>3. ASSUME NEW of \in Tabs, Switch(of) PROVE PageInv'
  BY <1>1, <1>3, LoadPage DEF Switch
<1>4. ASSUME NEW l \in Slots, More(l) \/ Read(l) \/ Answer(l) \/ NoAnswer(l) PROVE PageInv'
  BY <1>1, <1>4, MorePage, ReadPage, AnswerPage, NoAnswerPage DEF IInv, ServedTypes
<1>5. ASSUME NEW h \in Handlers, NEW d \in Drafts, Approve(h, d) \/ Reject(h, d) PROVE PageInv'
  BY <1>5, BeginPage DEF Approve, Reject
<1> QED
  BY <1>2, <1>3, <1>4, <1>5, ServePage, ClosePage, BulkRejectPage, ReloadPage, LeavePage, ArrivePage
     DEF Next

THEOREM PageInvariance == Spec => []PageInv
  BY InitPage, NextPage, Invariance, PTL DEF Spec

\* While admins decide and drafts arrive between the requests for its pages, the list of
\* AdminDrafts shows every draft once, under the status GET /api/admin/drafts was asked
\* for, and at its end lacks none that stayed as it was; unless its requests crossed or
\* failed, or the draft its cursor names was decided before the next page was read.
THEOREM ListKept == Spec => []ListFaithful
<1>1. ASSUME PageInv, loaded, ~spoiled
      PROVE  /\ IsInjective(shown)
             /\ \A d \in InSeq(shown) \ touched : Status(d) = tab
             /\ cursor = 0 /\ UnderWay = {} =>
                  \A d \in Drafts \ touched : Status(d) = tab => d \in InSeq(shown)
  <2>1. shown \in Seq(Nat) /\ Covers(shown, 0, cursor)
    BY <1>1 DEF PageInv, PageTypes
  <2>2. IsInjective(shown)
    <3>1. PICK n \in Nat : n = Len(shown) /\ DOMAIN shown = 1..n /\ \A i \in 1..n : shown[i] \in Nat
      BY <2>1, LenProperties
    <3>2. ASSUME NEW i \in 1..n, NEW j \in 1..n, i # j PROVE shown[i] # shown[j]
      <4>1. i < j \/ j < i
        BY <3>2
      <4>2. shown[i] > shown[j] \/ shown[j] > shown[i]
        BY <2>1, <3>1, <4>1 DEF Covers, Down
      <4>3. shown[i] \in Nat /\ shown[j] \in Nat
        BY <3>1
      <4> QED
        BY <4>2, <4>3
    <3> QED
      BY <3>1, <3>2 DEF IsInjective
  <2>3. \A d \in InSeq(shown) \ touched : Status(d) = tab
    BY <2>1 DEF Covers
  <2>4. ASSUME cursor = 0, NEW d \in Drafts \ touched, Status(d) = tab PROVE d \in InSeq(shown)
    <3>1. d >= cursor
      BY <2>4 DEF Drafts
    <3> QED
      BY <2>1, <2>4, <3>1 DEF Covers
  <2> QED
    BY <2>2, <2>3, <2>4
<1>2. PageInv => ListFaithful
  BY <1>1 DEF ListFaithful
<1> QED
  BY <1>2, PageInvariance, PTL
=============================================================================
