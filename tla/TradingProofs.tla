--------------------------- MODULE TradingProofs ---------------------------
(* Theorems about Trading, for every set of users, outcomes and amounts and *)
(* every cost function that satisfies the assumptions of Trading.           *)
(* Then, of the two market makers: the classic one is such a function, and  *)
(* the sensitive one keeps its spread over it.                              *)
EXTENDS Makers, Sums, TLAPS

LEMMA InitialQType == InitialQ \in Quantities
  BY NumbersAssumption DEF InitialQ, Quantities, Stock

LEMMA NoJobType == NoJob \in Job
<1>1. (CHOOSE u \in Users : TRUE) \in Users /\ (CHOOSE i \in Outcomes : TRUE) \in Outcomes
  BY NumbersAssumption
<1> QED
  BY <1>1, InitialQType, NumbersAssumption DEF NoJob, Job, Request

\* Moving s shares of one outcome keeps the quantities well typed.
LEMMA MoveType ==
    ASSUME NEW v \in Quantities, NEW i \in Outcomes, NEW d \in Int, v[i] + d \in Stock
    PROVE  [v EXCEPT ![i] = @ + d] \in Quantities
  BY DEF Quantities

\* Buying costs a non-negative amount.
LEMMA CostOfBuyingNat ==
    ASSUME NEW v \in Quantities, NEW i \in Outcomes, NEW s \in Lots, v[i] + s \in Stock
    PROVE  CostOfBuying(v, i, s) \in Nat
<1>1. s \in Int
  BY NumbersAssumption
<1>2. Cost(v) \in Int /\ Cost([v EXCEPT ![i] = @ + s]) \in Int
  BY <1>1, MoveType, CostAssumption
<1> QED
  BY <1>2, CostAssumption DEF CostOfBuying, NewQ

\* A refund is an integer.
LEMMA RefundInt ==
    ASSUME NEW v \in Quantities, NEW i \in Outcomes, NEW s \in Lots, v[i] >= s
    PROVE  RefundForSelling(v, i, s) \in Int
<1>1. s \in Nat /\ v[i] \in Stock
  BY NumbersAssumption DEF Quantities
<1>2. v[i] + (-s) \in Stock
  BY <1>1, NumbersAssumption DEF Stock
<1>3. [v EXCEPT ![i] = @ + (-s)] \in Quantities
  BY <1>1, <1>2, MoveType
<1>4. [v EXCEPT ![i] = @ - s] = [v EXCEPT ![i] = @ + (-s)]
  BY <1>1 DEF Stock
<1> QED
  BY <1>3, <1>4, CostAssumption DEF RefundForSelling, NewQ

\* What is left of a cost basis lies between zero and the basis.
LEMMA BasisShrinks ==
    ASSUME NEW c \in Nat, NEW n \in Nat, NEW s \in Nat, 0 < s, s <= n
    PROVE  /\ RemainingBasis(c, n, s) \in Int
           /\ RemainingBasis(c, n, s) >= 0
           /\ RemainingBasis(c, n, s) <= c
           /\ s = n => RemainingBasis(c, n, s) = 0
<1>1. c * (n - s) \in Nat /\ c * (n - s) <= c * n
  BY Z3
<1>2. DEFINE x == c * (n - s)
<1>3. x \div n \in Nat /\ n * (x \div n) <= x
  <2> HIDE DEF x
  <2> QED BY <1>1 DEF x
<1> QED
  BY <1>1, <1>3 DEF RemainingBasis

-----------------------------------------------------------------------------
(* Any number of requests in flight. *)

\* What a handler carries between its reads and its commit.
JobsSound ==
    \A h \in Handlers :
        /\ pc[h] \in {"buyPriced", "seller", "sellPriced"} => job[h].lot \in Lots
        /\ pc[h] = "buyPriced" => /\ job[h].money >= 0
                                  /\ job[h].money - job[h].chips < Tolerance
        /\ pc[h] = "sellPriced" => /\ job[h].money > 0
                                   /\ job[h].basis >= 0
                                   /\ job[h].basis <= staked[job[h].user]

Inv == TypeOK /\ BasisWithinStake /\ JobsSound

LEMMA InitInv == Init => Inv
  BY NoJobType, NumbersAssumption
  DEF Init, Inv, TypeOK, BasisWithinStake, JobsSound, Quantities, Stock, InitialQ, Positions

LEMMA BuyStartInv ==
    ASSUME Inv, NEW h \in Handlers, BuyStart(h)
    PROVE  Inv'
<1>1. PICK u \in Users, i \in Outcomes, chips \in Budgets :
          /\ job' = [job EXCEPT ![h] =
                        Request(u, i, chips, firstTradeAt[u], 0, InitialQ)]
          /\ Arrives(u)
  BY DEF BuyStart
<1>2. Request(u, i, chips, firstTradeAt[u], 0, InitialQ) \in Job
  BY InitialQType, NumbersAssumption DEF Inv, TypeOK, Job, Request
<1>3. TypeOK'
  BY <1>1, <1>2 DEF Inv, TypeOK, BuyStart, Arrives, Meets, user, book
<1>4. JobsSound'
  BY <1>1 DEF Inv, TypeOK, JobsSound, BuyStart, user, book
<1> QED
  BY <1>3, <1>4 DEF Inv, BasisWithinStake, BuyStart, user, book

LEMMA BuyPriceInv ==
    ASSUME Inv, NEW h \in Handlers, BuyPrice(h)
    PROVE  Inv'
<1> DEFINE i == job[h].outcome
<1>1. job[h] \in Job /\ i \in Outcomes /\ q \in Quantities
  BY DEF Inv, TypeOK, Job
<1>2. PICK s \in SharesForChips(q, i, job[h].chips) :
          job' = [job EXCEPT ![h] = Priced(@, s, CostOfBuying(q, @.outcome, s), 0, q)]
  BY DEF BuyPrice
<1>3. /\ s \in Lots /\ s \in Nat /\ CostOfBuying(q, i, s) \in Nat
      /\ CostOfBuying(q, i, s) - job[h].chips < Tolerance
  BY <1>1, <1>2, CostOfBuyingNat, NumbersAssumption DEF SharesForChips
<1>4. Priced(job[h], s, CostOfBuying(q, i, s), 0, q) \in Job
  BY <1>1, <1>3 DEF Job, Priced
<1>5. job' = [job EXCEPT ![h] = Priced(job[h], s, CostOfBuying(q, i, s), 0, q)]
  BY <1>2
<1>6. TypeOK'
  BY <1>4, <1>5 DEF Inv, TypeOK, BuyPrice, user, book, history
<1>7. JobsSound'
  BY <1>1, <1>3, <1>5 DEF Inv, TypeOK, JobsSound, BuyPrice, user, book, history, Priced
<1> QED
  BY <1>6, <1>7 DEF Inv, BasisWithinStake, BuyPrice, user, book, history

LEMMA BuyCommitInv ==
    ASSUME Inv, NEW h \in Handlers, BuyCommit(h)
    PROVE  Inv'
<1> DEFINE j == job[h]
           p == <<j.user, j.outcome>>
<1>1. /\ j \in Job /\ j.user \in Users /\ j.outcome \in Outcomes /\ j.lot \in Lots
      /\ j.lot \in Nat /\ j.money \in Nat /\ j.stamp \in 0..MaxTime /\ p \in Positions
      /\ \A i \in Outcomes : j.seen[i] \in Int
  BY NumbersAssumption
     DEF Inv, TypeOK, JobsSound, Job, BuyCommit, Positions, Quantities, Stock
<1>2. job' = [job EXCEPT ![h] = NoJob] /\ pc' = [pc EXCEPT ![h] = "idle"]
  BY DEF BuyCommit, Finish
<1> HIDE DEF j
<1>3. TypeOK'
  <2>1. /\ balance' \in [Users -> Int] /\ staked' \in [Users -> Nat]
        /\ ledger' \in [Users -> Int] /\ firstTradeAt' \in [Users -> 0..MaxTime]
    BY <1>1, NumbersAssumption
       DEF Inv, TypeOK, BuyCommit, j, LedgerEntry, AddStake, StampFirst
  <2>2. q' \in Quantities
    <3>1. q' = [q EXCEPT ![j.outcome] = @ + j.lot] /\ q[j.outcome] + j.lot \in Stock
      BY DEF BuyCommit, j, NewQ
    <3>2. q \in Quantities /\ j.outcome \in Outcomes /\ j.lot \in Int
      BY <1>1 DEF Inv, TypeOK
    <3> QED
      BY <3>1, <3>2, MoveType
  <2>3. shares' \in [Positions -> Int] /\ spent' \in [Positions -> Int]
    BY <1>1 DEF Inv, TypeOK, BuyCommit, j, AddShares
  <2>4. collected' \in Int /\ trades' \in 0..MaxTrades
    BY <1>1, NumbersAssumption DEF Inv, TypeOK, BuyCommit, j
  <2>5. snapshot' \in [Outcomes -> Int]
    <3>1. j.seen \in [Outcomes -> Int]
      BY <1>1 DEF Job, Quantities, Stock
    <3> QED BY <1>1, <3>1 DEF BuyCommit, j, NewQ, Quoted
  <2>6. /\ job' \in [Handlers -> Job]
        /\ pc' \in [Handlers -> {"idle", "buyer", "buyPriced", "seller", "sellPriced"}]
    BY <1>2, NoJobType DEF Inv, TypeOK
  <2> QED
    BY <2>1, <2>2, <2>3, <2>4, <2>5, <2>6 DEF Inv, TypeOK, BuyCommit, history
<1>4. BasisWithinStake'
  <2> SUFFICES ASSUME NEW u \in Users, NEW i \in Outcomes
               PROVE  spent'[<<u, i>>] >= 0 /\ spent'[<<u, i>>] <= staked'[u]
    BY DEF BasisWithinStake
  <2>1. /\ spent[<<u, i>>] \in Int /\ staked[u] \in Nat
        /\ spent[<<u, i>>] >= 0 /\ spent[<<u, i>>] <= staked[u]
    BY DEF Inv, TypeOK, BasisWithinStake, Positions
  <2>2. staked'[u] = IF u = j.user THEN staked[u] + j.money ELSE staked[u]
    BY DEF Inv, TypeOK, BuyCommit, j, AddStake
  <2>3. spent'[<<u, i>>] = IF <<u, i>> = p THEN spent[<<u, i>>] + j.money ELSE spent[<<u, i>>]
    BY DEF Inv, TypeOK, BuyCommit, j, Positions
  <2> QED
    BY <1>1, <2>1, <2>2, <2>3
<1>5. JobsSound'
  <2> SUFFICES ASSUME NEW g \in Handlers, g # h
               PROVE  /\ pc[g] \in {"buyPriced", "seller", "sellPriced"} => job[g].lot \in Lots
                      /\ pc[g] = "buyPriced" => /\ job[g].money >= 0
                                                /\ job[g].money - job[g].chips < Tolerance
                      /\ pc[g] = "sellPriced" => /\ job[g].money > 0
                                                 /\ job[g].basis >= 0
                                                 /\ job[g].basis <= staked'[job[g].user]
    BY <1>2 DEF Inv, TypeOK, JobsSound
  <2>1. job[g].user \in Users /\ job[g].basis \in Int
    BY DEF Inv, TypeOK, Job
  <2>2. /\ staked'[job[g].user] >= staked[job[g].user]
        /\ staked[job[g].user] \in Nat /\ staked'[job[g].user] \in Nat
    BY <1>1, <2>1 DEF Inv, TypeOK, BuyCommit, j, AddStake
  <2> QED
    BY <2>1, <2>2 DEF Inv, JobsSound
<1> QED
  BY <1>3, <1>4, <1>5 DEF Inv

LEMMA SellStartInv ==
    ASSUME Inv, NEW h \in Handlers, SellStart(h)
    PROVE  Inv'
<1>1. PICK u \in Users, i \in Outcomes, s \in Lots :
          /\ job' = [job EXCEPT ![h] = Request(u, i, 0, 0, s, q)]
          /\ Arrives(u)
  BY DEF SellStart
<1>2. Request(u, i, 0, 0, s, q) \in Job
  BY NumbersAssumption DEF Inv, TypeOK, Job, Request
<1>3. TypeOK'
  BY <1>1, <1>2 DEF Inv, TypeOK, SellStart, Arrives, Meets, user, book
<1>4. JobsSound'
  BY <1>1 DEF Inv, TypeOK, JobsSound, SellStart, user, book, Request
<1> QED
  BY <1>3, <1>4 DEF Inv, BasisWithinStake, SellStart, user, book

LEMMA SellPriceInv ==
    ASSUME Inv, NEW h \in Handlers, SellPrice(h)
    PROVE  Inv'
<1> DEFINE j == job[h]
           p == <<j.user, j.outcome>>
           basis == RemainingBasis(spent[p], shares[p], j.lot)
           refund == RefundForSelling(j.seen, j.outcome, j.lot)
<1>1. /\ j \in Job /\ j.user \in Users /\ j.outcome \in Outcomes /\ j.lot \in Lots
      /\ j.lot \in Nat /\ j.lot > 0 /\ p \in Positions /\ j.seen \in Quantities
  BY NumbersAssumption DEF Inv, TypeOK, JobsSound, Job, SellPrice, Positions
<1>2. /\ spent[p] \in Nat /\ spent[p] <= staked[j.user] /\ staked[j.user] \in Nat
      /\ shares[p] \in Nat /\ j.lot <= shares[p]
  BY <1>1 DEF Inv, TypeOK, BasisWithinStake, SellPrice, Covers
<1>3. basis \in Int /\ basis >= 0 /\ basis <= spent[p]
  BY <1>1, <1>2, BasisShrinks
<1>4. refund \in Int /\ refund > 0
  BY <1>1, RefundInt DEF SellPrice
<1>5. job' = [job EXCEPT ![h] = Priced(j, j.lot, refund, basis, j.seen)]
  BY DEF SellPrice
<1> HIDE DEF basis, refund, j
<1>6. Priced(j, j.lot, refund, basis, j.seen) \in Job
  BY <1>1, <1>3, <1>4 DEF Job, Priced
<1>7. TypeOK'
  BY <1>5, <1>6 DEF Inv, TypeOK, SellPrice, user, book, history
<1>8. JobsSound'
  BY <1>1, <1>2, <1>3, <1>4, <1>5 DEF Inv, TypeOK, JobsSound, SellPrice, user, book, history, Priced
<1> QED
  BY <1>7, <1>8 DEF Inv, BasisWithinStake, SellPrice, user, book, history

LEMMA SellCommitInv ==
    ASSUME Inv, NEW h \in Handlers, SellCommit(h)
    PROVE  Inv'
<1> DEFINE j == job[h]
           p == <<j.user, j.outcome>>
<1>1. /\ j \in Job /\ j.user \in Users /\ j.outcome \in Outcomes /\ j.lot \in Lots
      /\ j.lot \in Nat /\ j.money \in Int /\ p \in Positions
      /\ j.basis \in Int /\ j.basis >= 0 /\ j.basis <= staked[j.user]
      /\ \A i \in Outcomes : j.seen[i] \in Int
  BY NumbersAssumption
     DEF Inv, TypeOK, JobsSound, Job, SellCommit, Positions, Quantities, Stock
<1>2. job' = [job EXCEPT ![h] = NoJob] /\ pc' = [pc EXCEPT ![h] = "idle"]
  BY DEF SellCommit, Finish
<1> HIDE DEF j
<1>3. TypeOK'
  <2>1. balance' \in [Users -> Int] /\ ledger' \in [Users -> Int]
    BY <1>1 DEF Inv, TypeOK, SellCommit, j, LedgerEntry
  <2>2. q' \in Quantities
    <3>1. q' = [q EXCEPT ![j.outcome] = @ - j.lot] /\ q[j.outcome] - j.lot \in Stock
      BY DEF SellCommit, j, NewQ
    <3>2. q \in Quantities /\ j.outcome \in Outcomes /\ j.lot \in Int
      BY <1>1 DEF Inv, TypeOK
    <3> QED
      BY <3>1, <3>2 DEF Quantities
  <2>3. shares' \in [Positions -> Int] /\ spent' \in [Positions -> Int]
    BY <1>1 DEF Inv, TypeOK, SellCommit, j, AddShares
  <2>4. collected' \in Int /\ trades' \in 0..MaxTrades
    BY <1>1, NumbersAssumption DEF Inv, TypeOK, SellCommit, j
  <2>5. snapshot' \in [Outcomes -> Int]
    <3>1. j.seen \in [Outcomes -> Int]
      BY <1>1 DEF Job, Quantities, Stock
    <3> QED BY <1>1, <3>1 DEF SellCommit, j, NewQ, Quoted
  <2>6. /\ job' \in [Handlers -> Job]
        /\ pc' \in [Handlers -> {"idle", "buyer", "buyPriced", "seller", "sellPriced"}]
    BY <1>2, NoJobType DEF Inv, TypeOK
  <2> QED
    BY <2>1, <2>2, <2>3, <2>4, <2>5, <2>6 DEF Inv, TypeOK, SellCommit, history
<1>4. BasisWithinStake'
  <2> SUFFICES ASSUME NEW u \in Users, NEW i \in Outcomes
               PROVE  spent'[<<u, i>>] >= 0 /\ spent'[<<u, i>>] <= staked[u]
    BY DEF BasisWithinStake, SellCommit, LedgerEntry, AddShares, NewQ, Quoted
  <2>1. spent[<<u, i>>] >= 0 /\ spent[<<u, i>>] <= staked[u]
    BY DEF Inv, BasisWithinStake
  <2>2. spent'[<<u, i>>] = IF <<u, i>> = p THEN j.basis ELSE spent[<<u, i>>]
    BY DEF Inv, TypeOK, SellCommit, j, Positions
  <2> QED
    BY <1>1, <2>1, <2>2
<1>5. JobsSound'
  BY <1>2 DEF Inv, TypeOK, JobsSound, SellCommit
<1> QED
  BY <1>3, <1>4, <1>5 DEF Inv

LEMMA AbandonInv ==
    ASSUME Inv, NEW h \in Handlers, Abandon(h)
    PROVE  Inv'
  BY NoJobType DEF Inv, TypeOK, BasisWithinStake, JobsSound, Abandon, Finish, user, book, history

\* What one handler holds stays sound whatever the other handlers do in between.
LEMMA NextInv == Inv /\ [Next]_vars => Inv'
<1> SUFFICES ASSUME Inv, [Next]_vars PROVE Inv'
  OBVIOUS
<1>1. ASSUME NEW h \in Handlers,
             \/ BuyStart(h) \/ BuyPrice(h) \/ BuyCommit(h)
             \/ SellStart(h) \/ SellPrice(h) \/ SellCommit(h)
             \/ Abandon(h)
      PROVE  Inv'
  BY <1>1, BuyStartInv, BuyPriceInv, BuyCommitInv, SellStartInv, SellPriceInv,
     SellCommitInv, AbandonInv
<1>2. ASSUME NEW h \in Handlers, Close(h) PROVE Inv'
  BY <1>2 DEF Inv, TypeOK, BasisWithinStake, JobsSound, Close, Meets, user, book
<1>3. CASE Tick
  BY <1>3, NumbersAssumption DEF Inv, TypeOK, BasisWithinStake, JobsSound, Tick, user, book, history
<1>4. CASE UNCHANGED vars
  BY <1>4 DEF Inv, TypeOK, BasisWithinStake, JobsSound, vars
<1> QED
  BY <1>1, <1>2, <1>3, <1>4 DEF Next

LEMMA SpecInv == Spec => []Inv
  BY InitInv, NextInv, PTL DEF Spec

\* Every variable keeps its type, however the requests interleave.
THEOREM TypeCorrect == Spec => []TypeOK
<1>1. Inv => TypeOK
  BY DEF Inv
<1> QED
  BY <1>1, SpecInv, PTL

\* tradeSell overwrites a position's cost basis with a value computed from an
\* earlier read, yet with any number of requests in flight the basis stays
\* between zero and what the owner has ever staked.
THEOREM BasisBounded == Spec => []BasisWithinStake
<1>1. Inv => BasisWithinStake
  BY DEF Inv
<1> QED
  BY <1>1, SpecInv, PTL

-----------------------------------------------------------------------------
(* What is conserved whatever the requests do: chips and shares are sums    *)
(* over all users, and a trade moves one user's addend as far as the total. *)

\* The positions of one outcome, by user.
Held(i) == [u \in Users |-> shares[<<u, i>>]]

Conserved == ChipsConserved /\ SharesBacked

LEMMA InitConserved == Init => Conserved
<1> SUFFICES ASSUME Init PROVE Conserved
  OBVIOUS
<1>1. IsFiniteSet(Users) /\ StartChips \in Int /\ Seed \in Int
  BY NumbersAssumption
<1>2. Cardinality(Users) \in Nat
  BY <1>1, FS_CardinalityType
<1>3. Total(balance) = StartChips * Cardinality(Users)
  <2>1. DOMAIN balance = Users /\ \A u \in Users : balance[u] = StartChips
    BY DEF Init
  <2> QED
    BY <1>1, <2>1, SumConstant DEF Total, SumFunction
<1>4. ChipsConserved
  <2>1. StartChips * Cardinality(Users) \in Int
    BY <1>1, <1>2
  <2> QED
    BY <1>3, <2>1 DEF Init, ChipsConserved
<1>5. ASSUME NEW i \in Outcomes PROVE Total(Held(i)) = 0
  <2>1. DOMAIN Held(i) = Users /\ \A u \in Users : Held(i)[u] = 0
    BY DEF Init, Held, Positions
  <2>2. SumFunctionOnSet(Held(i), Users) = 0 * Cardinality(Users)
    BY <1>1, <2>1, SumConstant
  <2> QED
    BY <1>2, <2>1, <2>2 DEF Total, SumFunction
<1>6. SharesBacked
  BY <1>1, <1>5 DEF Init, InitialQ, SharesBacked, Held
<1> QED
  BY <1>4, <1>6 DEF Conserved

\* From f to g the addend of u changes by d.
Moves(f, g, u, d) ==
    /\ f \in [Users -> Int] /\ g \in [Users -> Int]
    /\ g[u] = f[u] + d /\ \A v \in Users \ {u} : g[v] = f[v]

\* A total over the users changes with one addend.
LEMMA TotalMoves ==
    ASSUME NEW f, NEW g, NEW u \in Users, NEW d \in Int, Moves(f, g, u, d)
    PROVE  Total(g) = Total(f) + d /\ Total(f) \in Int
<1>1. IsFiniteSet(Users) /\ DOMAIN f = Users /\ \A v \in Users : f[v] \in Int
  BY NumbersAssumption DEF Moves
<1>2. SumFunction(g) = SumFunction(f) + d
  BY <1>1, SumChange DEF Moves
<1>3. SumFunctionOnSet(f, Users) \in Int
  BY <1>1, SumInt
<1> QED
  BY <1>1, <1>2, <1>3 DEF Total, SumFunction

\* A user gains some chips and some shares, either of them negative.
LEMMA TradeConserves ==
    ASSUME Inv, Conserved, NEW u \in Users, NEW i \in Outcomes,
           NEW gain \in Int, NEW lot \in Int,
           balance' = [balance EXCEPT ![u] = @ + gain],
           ledger' = [ledger EXCEPT ![u] = @ + gain],
           collected' = collected - gain,
           q' = [q EXCEPT ![i] = @ + lot],
           shares' = [shares EXCEPT ![<<u, i>>] = @ + lot]
    PROVE  Conserved'
<1>1. /\ IsFiniteSet(Users) /\ StartChips \in Int /\ Seed \in Int
      /\ balance \in [Users -> Int] /\ ledger \in [Users -> Int]
      /\ shares \in [Positions -> Int] /\ collected \in Int
      /\ q \in [Outcomes -> Int] /\ <<u, i>> \in Positions
  BY NumbersAssumption DEF Inv, TypeOK, Quantities, Stock, Positions
<1>2. StartChips * Cardinality(Users) \in Int
  BY <1>1, FS_CardinalityType
<1>3. ChipsConserved'
  <2>1. Total(balance') = Total(balance) + gain /\ Total(balance) \in Int
    <3>1. Moves(balance, balance', u, gain)
      BY <1>1 DEF Moves
    <3> QED
      BY <3>1, TotalMoves
  <2>2. ASSUME NEW v \in Users PROVE ledger'[v] = balance'[v]
    BY <1>1 DEF Conserved, ChipsConserved
  <2> QED
    BY <1>1, <1>2, <2>1, <2>2 DEF Conserved, ChipsConserved
<1>4. ASSUME NEW k \in Outcomes
      PROVE  q'[k] = Seed + Total(Held(k)')
  <2>1. /\ Held(k) \in [Users -> Int] /\ q[k] = Seed + Total(Held(k))
        /\ Held(k)' \in [Users -> Int]
    BY <1>1 DEF Held, Positions, Conserved, SharesBacked
  <2>2. CASE k # i
    <3>1. Held(k)' = Held(k)
      BY <1>1, <2>2 DEF Held, Positions
    <3> QED
      BY <1>1, <2>1, <2>2, <3>1
  <2>3. CASE k = i
    <3>1. Moves(Held(i), Held(i)', u, lot)
      BY <1>1, <2>1, <2>3 DEF Moves, Held, Positions
    <3>2. Total(Held(i)') = Total(Held(i)) + lot /\ Total(Held(i)) \in Int
      BY <3>1, TotalMoves
    <3> QED
      BY <1>1, <2>1, <2>3, <3>2
  <2> QED
    BY <2>2, <2>3
<1> QED
  BY <1>3, <1>4 DEF Conserved, SharesBacked, Held

LEMMA NextConserved == Inv /\ Conserved /\ [Next]_vars => Conserved'
<1> SUFFICES ASSUME Inv, Conserved, [Next]_vars PROVE Conserved'
  OBVIOUS
<1>1. ASSUME NEW h \in Handlers, BuyCommit(h) PROVE Conserved'
  <2> DEFINE j == job[h]
  <2>1. /\ j.user \in Users /\ j.outcome \in Outcomes /\ j.lot \in Int
        /\ j.money \in Int /\ -j.money \in Int
    BY DEF Inv, TypeOK, Job
  <2>2. /\ balance' = [balance EXCEPT ![j.user] = @ - j.money]
        /\ balance \in [Users -> Int]
    BY <1>1 DEF BuyCommit, Inv, TypeOK
  <2>3. balance' = [balance EXCEPT ![j.user] = @ + (-j.money)]
    BY <2>1, <2>2
  <2>4. collected' = collected - (-j.money)
    <3>1. collected' = collected + j.money /\ collected \in Int
      BY <1>1 DEF BuyCommit, Inv, TypeOK
    <3> HIDE DEF j
    <3> QED
      BY <2>1, <3>1
  <2>5. /\ ledger' = [ledger EXCEPT ![j.user] = @ + (-j.money)]
        /\ q' = [q EXCEPT ![j.outcome] = @ + j.lot]
        /\ shares' = [shares EXCEPT ![<<j.user, j.outcome>>] = @ + j.lot]
    BY <1>1 DEF BuyCommit, LedgerEntry, NewQ, AddShares
  <2> HIDE DEF j
  <2> QED
    BY <2>1, <2>3, <2>4, <2>5, TradeConserves
<1>2. ASSUME NEW h \in Handlers, SellCommit(h) PROVE Conserved'
  <2> DEFINE j == job[h]
  <2>1. /\ j.user \in Users /\ j.outcome \in Outcomes /\ j.money \in Int /\ -j.lot \in Int
    BY DEF Inv, TypeOK, Job
  <2>2. /\ balance' = [balance EXCEPT ![j.user] = @ + j.money]
        /\ ledger' = [ledger EXCEPT ![j.user] = @ + j.money]
        /\ collected' = collected - j.money
        /\ q' = [q EXCEPT ![j.outcome] = @ + (-j.lot)]
        /\ shares' = [shares EXCEPT ![<<j.user, j.outcome>>] = @ + (-j.lot)]
    BY <1>2 DEF SellCommit, LedgerEntry, NewQ, AddShares
  <2> HIDE DEF j
  <2> QED
    BY <2>1, <2>2, TradeConserves
<1>3. CASE UNCHANGED <<balance, ledger, collected, q, shares>>
  BY <1>3 DEF Conserved, ChipsConserved, SharesBacked
<1> QED
  BY <1>1, <1>2, <1>3
  DEF Next, vars, user, book, BuyStart, BuyPrice, SellStart, SellPrice, Abandon, Close, Tick

LEMMA SpecConserved == Spec => []Conserved
<1>1. Inv /\ Conserved /\ [Next]_vars => Conserved'
  BY NextConserved
<1> QED
  BY InitConserved, <1>1, SpecInv, PTL DEF Spec

\* However many requests are in flight, chips only move between the users and
\* the market maker, and every ledger reconstructs its balance.
THEOREM Conservation == Spec => []ChipsConserved
<1>1. Conserved => ChipsConserved
  BY DEF Conserved
<1> QED
  BY <1>1, SpecConserved, PTL

\* However many requests are in flight, every outstanding share above the seed
\* belongs to a position.
THEOREM SharesAccounted == Spec => []SharesBacked
<1>1. Conserved => SharesBacked
  BY DEF Conserved
<1> QED
  BY <1>1, SpecConserved, PTL

-----------------------------------------------------------------------------
(* A user with one request in flight: what the request has read of the user *)
(* still holds when it commits, whatever other users do in between.         *)

UserRead(h) ==
    LET j == job[h]
        p == <<j.user, j.outcome>> IN
    /\ pc[h] \in {"buyer", "buyPriced"} =>
          /\ balance[j.user] >= j.chips
          /\ j.stamp = firstTradeAt[j.user]
    /\ pc[h] = "sellPriced" =>
          /\ shares[p] >= j.lot
          /\ j.basis = RemainingBasis(spent[p], shares[p], j.lot)

UserReads == \A h \in Handlers : job[h].user \in Alone => UserRead(h)

OneEach ==
    \A g, h \in Handlers :
        Busy(g) /\ Busy(h) /\ job[g].user = job[h].user /\ job[h].user \in Alone => g = h

Accounts == NoOverdraft /\ NoShortPosition /\ SoldOutHasNoBasis

UserInv == OneEach /\ UserReads /\ Accounts

LEMMA InitUser == Init => UserInv
  BY NumbersAssumption
  DEF Init, UserInv, UserReads, UserRead, OneEach, Busy, Accounts, NoOverdraft,
      NoShortPosition, SoldOutHasNoBasis, Alone, Positions

\* A request that arrives to find another of its user makes the two rivals.
LEMMA ArrivalUser ==
    ASSUME Inv, UserInv, NEW h \in Handlers, NEW u \in Users, NEW j \in Job, j.user = u,
           ~Busy(h), job' = [job EXCEPT ![h] = j], NEW stage, pc' = [pc EXCEPT ![h] = stage],
           stage \in {"buyer", "seller"}, Arrives(u), UNCHANGED <<user, book>>,
           stage = "buyer" => balance[u] >= j.chips /\ j.stamp = firstTradeAt[u]
    PROVE  UserInv'
<1>1. Alone' \subseteq Alone
  BY DEF Alone, Arrives
<1>2. \A g \in Handlers : g # h => pc'[g] = pc[g] /\ job'[g] = job[g]
  BY DEF Inv, TypeOK
<1>3. pc'[h] = stage /\ job'[h] = j
  BY DEF Inv, TypeOK
<1>4. OneEach'
  <2>1. \A g \in Handlers : Busy(g) /\ job[g].user = u => u \notin Alone'
    BY DEF Alone, Arrives
  <2> QED
    BY <1>1, <1>2, <1>3, <2>1 DEF UserInv, OneEach, Busy
<1>5. UserReads'
  <2> SUFFICES ASSUME NEW g \in Handlers, job'[g].user \in Alone' PROVE UserRead(g)'
    BY DEF UserReads
  <2>1. CASE g = h
    BY <1>3, <2>1 DEF UserRead, user, book
  <2>2. CASE g # h
    BY <1>1, <1>2, <2>2 DEF UserInv, UserReads, UserRead, user, book
  <2> QED
    BY <2>1, <2>2
<1>6. Accounts'
  BY <1>1 DEF UserInv, Accounts, NoOverdraft, NoShortPosition, SoldOutHasNoBasis, user, book
<1> QED
  BY <1>4, <1>5, <1>6 DEF UserInv

LEMMA BuyStartUser ==
    ASSUME Inv, UserInv, NEW h \in Handlers, BuyStart(h)
    PROVE  UserInv'
<1>1. PICK u \in Users, i \in Outcomes, chips \in Budgets :
          /\ balance[u] >= chips
          /\ job' = [job EXCEPT ![h] =
                        Request(u, i, chips, firstTradeAt[u], 0, InitialQ)]
          /\ Arrives(u)
  BY DEF BuyStart, CanAfford
<1> DEFINE j == Request(u, i, chips, firstTradeAt[u], 0, InitialQ)
<1>2. /\ j \in Job /\ j.user = u /\ j.chips = chips /\ j.stamp = firstTradeAt[u]
  BY InitialQType, NumbersAssumption DEF Inv, TypeOK, Job, Request
<1>3. /\ ~Busy(h) /\ pc' = [pc EXCEPT ![h] = "buyer"] /\ UNCHANGED <<user, book>>
      /\ job' = [job EXCEPT ![h] = j]
  BY <1>1 DEF BuyStart, Busy
<1> HIDE DEF j
<1> QED
  BY <1>1, <1>2, <1>3, ArrivalUser

LEMMA SellStartUser ==
    ASSUME Inv, UserInv, NEW h \in Handlers, SellStart(h)
    PROVE  UserInv'
<1>1. PICK u \in Users, i \in Outcomes, s \in Lots :
          /\ job' = [job EXCEPT ![h] = Request(u, i, 0, 0, s, q)]
          /\ Arrives(u)
  BY DEF SellStart
<1> DEFINE j == Request(u, i, 0, 0, s, q)
<1>2. j \in Job /\ j.user = u
  BY NumbersAssumption DEF Inv, TypeOK, Job, Request
<1>3. /\ ~Busy(h) /\ pc' = [pc EXCEPT ![h] = "seller"] /\ UNCHANGED <<user, book>>
      /\ job' = [job EXCEPT ![h] = j]
  BY <1>1 DEF SellStart, Busy
<1> HIDE DEF j
<1> QED
  BY <1>1, <1>2, <1>3, ArrivalUser

\* A request that is priced keeps its user, its chips and its stamp.
LEMMA PricedUser ==
    ASSUME Inv, UserInv, NEW h \in Handlers, Busy(h), NEW j, j.user = job[h].user,
           job' = [job EXCEPT ![h] = j], NEW stage, pc' = [pc EXCEPT ![h] = stage],
           UNCHANGED <<user, book, history>>,
           job[h].user \in Alone => UserRead(h)'
    PROVE  UserInv'
<1>1. Alone' = Alone
  BY DEF Alone, history
<1>2. \A g \in Handlers : g # h => pc'[g] = pc[g] /\ job'[g] = job[g]
  BY DEF Inv, TypeOK
<1>3. pc'[h] = stage /\ job'[h] = j
  BY DEF Inv, TypeOK
<1>4. OneEach'
  BY <1>1, <1>2, <1>3 DEF UserInv, OneEach, Busy
<1>5. UserReads'
  <2> SUFFICES ASSUME NEW g \in Handlers, job'[g].user \in Alone' PROVE UserRead(g)'
    BY DEF UserReads
  <2>1. CASE g = h
    BY <1>1, <1>3, <2>1
  <2>2. CASE g # h
    BY <1>1, <1>2, <2>2 DEF UserInv, UserReads, UserRead, user, book
  <2> QED
    BY <2>1, <2>2
<1>6. Accounts'
  BY <1>1 DEF UserInv, Accounts, NoOverdraft, NoShortPosition, SoldOutHasNoBasis, user, book
<1> QED
  BY <1>4, <1>5, <1>6 DEF UserInv

LEMMA BuyPriceUser ==
    ASSUME Inv, UserInv, NEW h \in Handlers, BuyPrice(h)
    PROVE  UserInv'
<1>1. PICK s \in SharesForChips(q, job[h].outcome, job[h].chips) :
          job' = [job EXCEPT ![h] = Priced(@, s, CostOfBuying(q, @.outcome, s), 0, q)]
  BY DEF BuyPrice
<1> DEFINE j == Priced(job[h], s, CostOfBuying(q, job[h].outcome, s), 0, q)
<1>2. /\ j.user = job[h].user /\ j.chips = job[h].chips /\ j.stamp = job[h].stamp
  BY DEF Priced
<1>3. /\ Busy(h) /\ pc' = [pc EXCEPT ![h] = "buyPriced"] /\ job' = [job EXCEPT ![h] = j]
      /\ UNCHANGED <<user, book, history>>
  BY <1>1 DEF BuyPrice, Busy
<1> HIDE DEF j
<1>4. job[h].user \in Alone => UserRead(h)'
  <2> SUFFICES ASSUME job[h].user \in Alone PROVE UserRead(h)'
    OBVIOUS
  <2>1. balance[j.user] >= j.chips /\ j.stamp = firstTradeAt[j.user]
    BY <1>2 DEF UserInv, UserReads, UserRead, BuyPrice
  <2>2. pc'[h] = "buyPriced" /\ job'[h] = j
    BY <1>3 DEF Inv, TypeOK
  <2> QED
    BY <1>3, <2>1, <2>2 DEF UserRead, user
<1> QED
  BY <1>2, <1>3, <1>4, PricedUser

LEMMA SellPriceUser ==
    ASSUME Inv, UserInv, NEW h \in Handlers, SellPrice(h)
    PROVE  UserInv'
<1> DEFINE p == <<job[h].user, job[h].outcome>>
           basis == RemainingBasis(spent[p], shares[p], job[h].lot)
           refund == RefundForSelling(job[h].seen, job[h].outcome, job[h].lot)
           j == Priced(job[h], job[h].lot, refund, basis, job[h].seen)
<1>1. /\ Busy(h) /\ pc' = [pc EXCEPT ![h] = "sellPriced"] /\ job' = [job EXCEPT ![h] = j]
      /\ UNCHANGED <<user, book, history>> /\ shares[p] >= job[h].lot
  BY DEF SellPrice, Busy, Covers
<1>2. /\ j.user = job[h].user /\ j.outcome = job[h].outcome /\ j.lot = job[h].lot
      /\ j.basis = basis
  BY DEF Priced
<1>3. pc'[h] = "sellPriced" /\ job'[h] = j
  BY <1>1 DEF Inv, TypeOK
<1> HIDE DEF j
<1>4. UserRead(h)'
  BY <1>1, <1>2, <1>3 DEF UserRead, book
<1> QED
  BY <1>1, <1>2, <1>4, PricedUser

\* A commit changes the rows of its own user only, and ends the request.
LEMMA CommitUser ==
    ASSUME Inv, UserInv, NEW h \in Handlers, Busy(h), Finish(h), UNCHANGED history,
           NEW u \in Users, u = job[h].user,
           \A v \in Users \ {u} :
               /\ balance'[v] = balance[v] /\ firstTradeAt'[v] = firstTradeAt[v]
               /\ \A i \in Outcomes : /\ shares'[<<v, i>>] = shares[<<v, i>>]
                                      /\ spent'[<<v, i>>] = spent[<<v, i>>],
           u \in Alone =>
               /\ balance'[u] > -Tolerance
               /\ \A i \in Outcomes : /\ shares'[<<u, i>>] >= 0
                                      /\ shares'[<<u, i>>] = 0 => spent'[<<u, i>>] = 0
    PROVE  UserInv'
<1>1. Alone' = Alone
  BY DEF Alone, history
<1>2. \A g \in Handlers : g # h => pc'[g] = pc[g] /\ job'[g] = job[g]
  BY DEF Inv, TypeOK, Finish
<1>3. pc'[h] = "idle"
  BY DEF Inv, TypeOK, Finish
<1>4. OneEach'
  BY <1>1, <1>2, <1>3 DEF UserInv, OneEach, Busy
<1>5. UserReads'
  <2> SUFFICES ASSUME NEW g \in Handlers, job'[g].user \in Alone', g # h PROVE UserRead(g)'
    BY <1>3 DEF UserReads, UserRead
  <2>1. pc'[g] = pc[g] /\ job'[g] = job[g] /\ job[g].user \in Alone
    BY <1>1, <1>2
  <2>2. CASE ~Busy(g)
    BY <2>1, <2>2 DEF Busy, UserRead
  <2>3. CASE Busy(g)
    <3>1. job[g].user # u /\ job[g].user \in Users /\ job[g].outcome \in Outcomes
      BY <2>1, <2>3 DEF UserInv, OneEach, Inv, TypeOK, Job
    <3> QED
      BY <2>1, <3>1 DEF UserInv, UserReads, UserRead
  <2> QED
    BY <2>2, <2>3
<1>6. Accounts'
  <2> SUFFICES ASSUME NEW v \in Alone
               PROVE  /\ balance'[v] > -Tolerance
                      /\ \A i \in Outcomes : /\ shares'[<<v, i>>] >= 0
                                             /\ shares'[<<v, i>>] = 0 => spent'[<<v, i>>] = 0
    BY <1>1 DEF Accounts, NoOverdraft, NoShortPosition, SoldOutHasNoBasis
  <2>1. CASE v = u
    BY <2>1
  <2>2. CASE v # u
    BY <2>2 DEF UserInv, Accounts, NoOverdraft, NoShortPosition, SoldOutHasNoBasis, Alone
  <2> QED
    BY <2>1, <2>2
<1> QED
  BY <1>4, <1>5, <1>6 DEF UserInv

LEMMA BuyCommitUser ==
    ASSUME Inv, UserInv, NEW h \in Handlers, BuyCommit(h)
    PROVE  UserInv'
<1> DEFINE j == job[h]
           u == j.user
           p == <<u, j.outcome>>
<1>1. /\ u \in Users /\ j.outcome \in Outcomes /\ p \in Positions
      /\ j.lot \in Nat /\ j.lot > 0 /\ j.money \in Nat /\ j.chips \in Nat
      /\ j.money - j.chips < Tolerance
  BY NumbersAssumption DEF Inv, TypeOK, JobsSound, Job, BuyCommit, Positions
<1>2. /\ balance' = [balance EXCEPT ![u] = @ - j.money]
      /\ firstTradeAt' = [firstTradeAt EXCEPT ![u] = IF j.stamp = 0 THEN now ELSE @]
      /\ shares' = [shares EXCEPT ![p] = @ + j.lot]
      /\ spent' = [spent EXCEPT ![p] = @ + j.money]
  BY DEF BuyCommit, StampFirst, AddShares
<1>3. Busy(h) /\ Finish(h) /\ UNCHANGED history
  BY DEF BuyCommit, Busy
<1>4. u \in Alone => balance[u] >= j.chips
  BY DEF UserInv, UserReads, UserRead, BuyCommit
<1> HIDE DEF j
<1>5. ASSUME NEW v \in Users, NEW i \in Outcomes
      PROVE  /\ balance'[v] = IF v = u THEN balance[v] - j.money ELSE balance[v]
             /\ v # u => firstTradeAt'[v] = firstTradeAt[v]
             /\ shares'[<<v, i>>] = IF <<v, i>> = p THEN shares[<<v, i>>] + j.lot
                                    ELSE shares[<<v, i>>]
             /\ spent'[<<v, i>>] = IF <<v, i>> = p THEN spent[<<v, i>>] + j.money
                                   ELSE spent[<<v, i>>]
             /\ balance[v] \in Int /\ shares[<<v, i>>] \in Int
  BY <1>2 DEF Inv, TypeOK, Positions
<1>6. \A v \in Users \ {u} :
          /\ balance'[v] = balance[v] /\ firstTradeAt'[v] = firstTradeAt[v]
          /\ \A i \in Outcomes : /\ shares'[<<v, i>>] = shares[<<v, i>>]
                                 /\ spent'[<<v, i>>] = spent[<<v, i>>]
  BY <1>1, <1>5
<1>7. ASSUME u \in Alone
      PROVE  /\ balance'[u] > -Tolerance
             /\ \A i \in Outcomes : /\ shares'[<<u, i>>] >= 0
                                    /\ shares'[<<u, i>>] = 0 => spent'[<<u, i>>] = 0
  <2>1. balance'[u] > -Tolerance
    BY <1>1, <1>4, <1>5, <1>7, NumbersAssumption
  <2>2. \A i \in Outcomes : /\ shares[<<u, i>>] >= 0
                            /\ shares[<<u, i>>] = 0 => spent[<<u, i>>] = 0
    BY <1>7 DEF UserInv, Accounts, NoShortPosition, SoldOutHasNoBasis
  <2> QED
    BY <1>1, <1>5, <2>1, <2>2
<1> QED
  BY <1>1, <1>3, <1>6, <1>7, CommitUser DEF j

LEMMA SellCommitUser ==
    ASSUME Inv, UserInv, NEW h \in Handlers, SellCommit(h)
    PROVE  UserInv'
<1> DEFINE j == job[h]
           u == j.user
           p == <<u, j.outcome>>
<1>1. /\ u \in Users /\ j.outcome \in Outcomes /\ p \in Positions
      /\ j.lot \in Nat /\ j.lot > 0 /\ j.money \in Int /\ j.money > 0
  BY NumbersAssumption DEF Inv, TypeOK, JobsSound, Job, SellCommit, Positions
<1>2. /\ balance' = [balance EXCEPT ![u] = @ + j.money]
      /\ firstTradeAt' = firstTradeAt
      /\ shares' = [shares EXCEPT ![p] = @ + (-j.lot)]
      /\ spent' = [spent EXCEPT ![p] = j.basis]
  BY DEF SellCommit, AddShares
<1>3. Busy(h) /\ Finish(h) /\ UNCHANGED history
  BY DEF SellCommit, Busy
<1>4. u \in Alone => /\ shares[p] >= j.lot
                     /\ j.basis = RemainingBasis(spent[p], shares[p], j.lot)
  BY DEF UserInv, UserReads, UserRead, SellCommit
<1> HIDE DEF j
<1>5. ASSUME NEW v \in Users, NEW i \in Outcomes
      PROVE  /\ balance'[v] = IF v = u THEN balance[v] + j.money ELSE balance[v]
             /\ shares'[<<v, i>>] = IF <<v, i>> = p THEN shares[<<v, i>>] - j.lot
                                    ELSE shares[<<v, i>>]
             /\ spent'[<<v, i>>] = IF <<v, i>> = p THEN j.basis ELSE spent[<<v, i>>]
             /\ balance[v] \in Int /\ shares[<<v, i>>] \in Int /\ spent[<<v, i>>] \in Nat
  BY <1>1, <1>2 DEF Inv, TypeOK, Positions, BasisWithinStake
<1>6. \A v \in Users \ {u} :
          /\ balance'[v] = balance[v] /\ firstTradeAt'[v] = firstTradeAt[v]
          /\ \A i \in Outcomes : /\ shares'[<<v, i>>] = shares[<<v, i>>]
                                 /\ spent'[<<v, i>>] = spent[<<v, i>>]
  BY <1>1, <1>2, <1>5
<1>7. ASSUME u \in Alone
      PROVE  /\ balance'[u] > -Tolerance
             /\ \A i \in Outcomes : /\ shares'[<<u, i>>] >= 0
                                    /\ shares'[<<u, i>>] = 0 => spent'[<<u, i>>] = 0
  <2>1. balance'[u] > -Tolerance
    BY <1>1, <1>5, <1>7, NumbersAssumption DEF UserInv, Accounts, NoOverdraft
  <2>2. \A i \in Outcomes : /\ shares[<<u, i>>] >= 0
                            /\ shares[<<u, i>>] = 0 => spent[<<u, i>>] = 0
    BY <1>7 DEF UserInv, Accounts, NoShortPosition, SoldOutHasNoBasis
  <2>3. shares[p] \in Nat /\ spent[p] \in Nat
    BY <1>1, <1>5, <2>2
  <2>4. shares[p] = j.lot => j.basis = 0
    BY <1>1, <1>4, <1>7, <2>3, BasisShrinks
  <2> QED
    BY <1>1, <1>4, <1>5, <1>7, <2>1, <2>2, <2>4
<1> QED
  BY <1>1, <1>3, <1>6, <1>7, CommitUser DEF j

\* What is promised to a user with one request in flight is kept whatever the
\* other users' requests do.
LEMMA NextUser == Inv /\ UserInv /\ [Next]_vars => UserInv'
<1> SUFFICES ASSUME Inv, UserInv, [Next]_vars PROVE UserInv'
  OBVIOUS
<1>1. ASSUME NEW h \in Handlers,
             \/ BuyStart(h) \/ BuyPrice(h) \/ BuyCommit(h)
             \/ SellStart(h) \/ SellPrice(h) \/ SellCommit(h)
      PROVE  UserInv'
  BY <1>1, BuyStartUser, BuyPriceUser, BuyCommitUser, SellStartUser, SellPriceUser,
     SellCommitUser
<1>2. ASSUME NEW h \in Handlers, Abandon(h) PROVE UserInv'
  <2>1. job[h].user \in Users /\ Busy(h) /\ Finish(h) /\ UNCHANGED <<user, book, history>>
    BY <1>2 DEF Abandon, Busy, Inv, TypeOK, Job
  <2>2. job[h].user \in Alone =>
            /\ balance[job[h].user] > -Tolerance
            /\ \A i \in Outcomes :
                  /\ shares[<<job[h].user, i>>] >= 0
                  /\ shares[<<job[h].user, i>>] = 0 => spent[<<job[h].user, i>>] = 0
    BY DEF UserInv, Accounts, NoOverdraft, NoShortPosition, SoldOutHasNoBasis
  <2> QED
    BY <2>1, <2>2, CommitUser DEF user, book
<1>3. ASSUME UNCHANGED <<user, book, pc, job, rivals>> PROVE UserInv'
  BY <1>3 DEF UserInv, UserReads, UserRead, OneEach, Busy, Accounts, NoOverdraft,
              NoShortPosition, SoldOutHasNoBasis, Alone, user, book
<1> QED
  BY <1>1, <1>2, <1>3 DEF Next, Close, Tick, vars, user, book, history

LEMMA SpecUser == Spec => [](Inv /\ UserInv)
<1>1. Init => Inv /\ UserInv
  BY InitInv, InitUser
<1>2. Inv /\ UserInv /\ [Next]_vars => (Inv /\ UserInv)'
  BY NextInv, NextUser
<1> QED
  BY <1>1, <1>2, PTL DEF Spec

\* Users who never have two requests in flight are overdrawn by less than the
\* tolerance of the bisection and never sell shares they do not hold, however
\* the requests of others interleave with theirs.
THEOREM NoOverdraftNoShort == Spec => [](NoOverdraft /\ NoShortPosition)
<1>1. Inv /\ UserInv => NoOverdraft /\ NoShortPosition
  BY DEF UserInv, Accounts
<1> QED
  BY <1>1, SpecUser, PTL

\* A user with one request at a time never holds fewer than no shares.
THEOREM NeverShort == Spec => []NoShortPosition
<1>1. Inv /\ UserInv => NoShortPosition
  BY DEF UserInv, Accounts
<1> QED
  BY <1>1, SpecUser, PTL

\* Such a user's sold-out positions carry no cost basis.
THEOREM SoldOutBasis == Spec => []SoldOutHasNoBasis
<1>1. Inv /\ UserInv => SoldOutHasNoBasis
  BY DEF UserInv, Accounts
<1> QED
  BY <1>1, SpecUser, PTL

\* Such a user's first trade is stamped once and never again.
THEOREM FirstTradeOnce == Spec => FirstTradeStampedOnce
<1> DEFINE A == \A u \in Alone :
                   firstTradeAt[u] # 0 => firstTradeAt'[u] = firstTradeAt[u]
<1>1. ASSUME Inv, UserInv, [Next]_vars
      PROVE  A
  <2>1. ASSUME NEW h \in Handlers, BuyCommit(h) PROVE A
    BY <2>1, <1>1 DEF BuyCommit, UserInv, UserReads, UserRead, Inv, TypeOK, StampFirst
  <2>2. CASE UNCHANGED firstTradeAt
    BY <2>2
  <2> QED
    BY <1>1, <2>1, <2>2
    DEF Next, vars, user, BuyStart, BuyPrice, SellStart, SellPrice, SellCommit,
        Abandon, Close, Tick
<1>2. Inv /\ UserInv /\ [Next]_vars => [A]_vars
  BY <1>1
<1> QED
  BY <1>2, SpecUser, PTL DEF Spec, FirstTradeStampedOnce

\* The basis that is left is the proportional share of the old one, rounded down.
LEMMA BasisProportional ==
    ASSUME NEW c \in Nat, NEW n \in Nat, NEW s \in Nat, 0 < s, s <= n
    PROVE  /\ RemainingBasis(c, n, s) * n <= c * (n - s)
           /\ (RemainingBasis(c, n, s) + 1) * n >= c * (n - s)
<1> DEFINE x == c * (n - s)
<1>1. x \in Nat
  BY Z3
<1>2. x \div n \in Nat /\ (x \div n) * n <= x /\ (x \div n + 1) * n >= x
  <2> HIDE DEF x
  <2> QED BY <1>1
<1> QED
  BY <1>2 DEF RemainingBasis

\* A sale of such a user keeps the average cost of what remains.
THEOREM AverageCostKept == Spec => SaleKeepsAverageCost
<1> DEFINE K(p) == shares'[p] < shares[p] =>
                      /\ spent'[p] * shares[p] <= spent[p] * shares'[p]
                      /\ (spent'[p] + 1) * shares[p] >= spent[p] * shares'[p]
           A == \A u \in Alone, i \in Outcomes : K(<<u, i>>)
<1>1. ASSUME Inv, UserInv, [Next]_vars
      PROVE  A
  <2> SUFFICES ASSUME NEW u \in Alone, NEW i \in Outcomes, shares'[<<u, i>>] < shares[<<u, i>>]
               PROVE  K(<<u, i>>)
    OBVIOUS
  <2> DEFINE p == <<u, i>>
  <2>1. p \in Positions /\ u \in Users
    BY DEF Alone, Positions
  <2>2. ASSUME NEW h \in Handlers, BuyCommit(h) PROVE FALSE
    <3>1. job[h].lot \in Nat
      BY <1>1 DEF Inv, TypeOK, Job
    <3> QED
      BY <2>1, <2>2, <3>1, <1>1 DEF BuyCommit, Inv, TypeOK, AddShares
  <2>3. ASSUME NEW h \in Handlers, SellCommit(h) PROVE K(p)
    <3> DEFINE j == job[h]
               r == <<j.user, j.outcome>>
    <3>1. /\ j.lot \in Nat /\ j.lot > 0 /\ r \in Positions
          /\ shares[r] \in Int /\ spent[r] \in Nat
      BY <1>1, <2>3, NumbersAssumption
      DEF Inv, TypeOK, BasisWithinStake, JobsSound, Job, SellCommit, Positions
    <3>2. /\ shares' = [shares EXCEPT ![r] = @ + (-j.lot)]
          /\ spent' = [spent EXCEPT ![r] = j.basis]
      BY <2>3 DEF SellCommit, AddShares
    <3>3. p = r /\ shares'[r] = shares[r] - j.lot /\ spent'[r] = j.basis
      BY <1>1, <2>1, <3>1, <3>2 DEF Inv, TypeOK
    <3>4. j.lot <= shares[r] /\ j.basis = RemainingBasis(spent[r], shares[r], j.lot)
      BY <1>1, <2>3, <3>3 DEF UserInv, UserReads, UserRead, SellCommit
    <3> HIDE DEF j
    <3> QED
      BY <3>1, <3>3, <3>4, BasisProportional
  <2>4. CASE UNCHANGED shares
    BY <1>1, <2>1, <2>4 DEF Inv, TypeOK
  <2> QED
    BY <1>1, <2>2, <2>3, <2>4
    DEF Next, vars, book, BuyStart, BuyPrice, SellStart, SellPrice, Abandon, Close, Tick
<1>2. Inv /\ UserInv /\ [Next]_vars => [A]_vars
  BY <1>1
<1> QED
  BY <1>2, SpecUser, PTL DEF Spec, SaleKeepsAverageCost

-----------------------------------------------------------------------------
(* While no two requests have met: what a request has read of the market    *)
(* still holds when it commits.                                             *)

MarketRead(h) ==
    LET j == job[h] IN
    /\ pc[h] \in {"buyPriced", "seller", "sellPriced"} => j.seen = q /\ status = "LIVE"
    /\ pc[h] = "buyPriced" => j.money = CostOfBuying(q, j.outcome, j.lot)
    /\ pc[h] = "sellPriced" => j.money = RefundForSelling(q, j.outcome, j.lot)

MarketInv ==
    traffic = "single" =>
        /\ \A g, h \in Handlers : Busy(g) /\ Busy(h) => g = h
        /\ \A h \in Handlers : MarketRead(h)
        /\ collected = Cost(q) - Cost(InitialQ)
        /\ snapshot = q

LEMMA InitMarket == Init => MarketInv
<1>1. InitialQ \in Quantities /\ Cost(InitialQ) \in Int
  BY InitialQType, CostAssumption
<1> QED
  BY <1>1 DEF Init, MarketInv, MarketRead, Busy

\* A request that arrives alone finds every other handler idle.
LEMMA ArrivalMarket ==
    ASSUME Inv, MarketInv, NEW h \in Handlers, ~Busy(h), NEW j,
           job' = [job EXCEPT ![h] = j], NEW stage, pc' = [pc EXCEPT ![h] = stage],
           Meets, UNCHANGED <<user, book, status>>,
           stage = "buyer" \/ (stage = "seller" /\ j.seen = q /\ status = "LIVE")
    PROVE  MarketInv'
<1> SUFFICES ASSUME traffic' = "single" PROVE MarketInv'
  BY DEF MarketInv
<1>1. traffic = "single" /\ \A g \in Handlers : ~Busy(g)
  BY DEF Meets
<1>2. \A g \in Handlers : g # h => pc'[g] = pc[g] /\ job'[g] = job[g]
  BY DEF Inv, TypeOK
<1>3. pc'[h] = stage /\ job'[h] = j
  BY DEF Inv, TypeOK
<1>4. \A g \in Handlers : MarketRead(g)'
  BY <1>1, <1>2, <1>3 DEF MarketRead, Busy, book
<1> QED
  BY <1>1, <1>2, <1>3, <1>4 DEF MarketInv, Busy, book

\* The one request in flight goes on to be priced.
LEMMA PricedMarket ==
    ASSUME Inv, MarketInv, NEW h \in Handlers, Busy(h), NEW j, job' = [job EXCEPT ![h] = j],
           NEW stage, pc' = [pc EXCEPT ![h] = stage], UNCHANGED <<user, book, status, history>>,
           traffic = "single" => MarketRead(h)'
    PROVE  MarketInv'
<1> SUFFICES ASSUME traffic' = "single" PROVE MarketInv'
  BY DEF MarketInv
<1>1. traffic = "single" /\ \A g \in Handlers : Busy(g) => g = h
  BY DEF MarketInv, history
<1>2. \A g \in Handlers : g # h => pc'[g] = pc[g] /\ job'[g] = job[g]
  BY DEF Inv, TypeOK
<1>3. \A g \in Handlers : MarketRead(g)'
  BY <1>1, <1>2 DEF MarketRead, Busy
<1> QED
  BY <1>1, <1>2, <1>3 DEF MarketInv, Busy, book

LEMMA BuyPriceMarket ==
    ASSUME Inv, MarketInv, NEW h \in Handlers, BuyPrice(h)
    PROVE  MarketInv'
<1>1. PICK s \in SharesForChips(q, job[h].outcome, job[h].chips) :
          job' = [job EXCEPT ![h] = Priced(@, s, CostOfBuying(q, @.outcome, s), 0, q)]
  BY DEF BuyPrice
<1> DEFINE j == Priced(job[h], s, CostOfBuying(q, job[h].outcome, s), 0, q)
<1>2. /\ j.outcome = job[h].outcome /\ j.lot = s /\ j.seen = q
      /\ j.money = CostOfBuying(q, job[h].outcome, s)
  BY DEF Priced
<1>3. /\ Busy(h) /\ pc' = [pc EXCEPT ![h] = "buyPriced"] /\ job' = [job EXCEPT ![h] = j]
      /\ UNCHANGED <<user, book, status, history>> /\ status = "LIVE"
  BY <1>1 DEF BuyPrice, Busy, Open
<1> HIDE DEF j
<1>4. pc'[h] = "buyPriced" /\ job'[h] = j
  BY <1>3 DEF Inv, TypeOK
<1>5. MarketRead(h)'
  BY <1>2, <1>3, <1>4 DEF MarketRead, book
<1> QED
  BY <1>3, <1>5, PricedMarket

LEMMA SellPriceMarket ==
    ASSUME Inv, MarketInv, NEW h \in Handlers, SellPrice(h)
    PROVE  MarketInv'
<1> DEFINE p == <<job[h].user, job[h].outcome>>
           basis == RemainingBasis(spent[p], shares[p], job[h].lot)
           refund == RefundForSelling(job[h].seen, job[h].outcome, job[h].lot)
           j == Priced(job[h], job[h].lot, refund, basis, job[h].seen)
<1>1. /\ Busy(h) /\ pc' = [pc EXCEPT ![h] = "sellPriced"] /\ job' = [job EXCEPT ![h] = j]
      /\ UNCHANGED <<user, book, status, history>>
  BY DEF SellPrice, Busy
<1>2. /\ j.outcome = job[h].outcome /\ j.lot = job[h].lot /\ j.seen = job[h].seen
      /\ j.money = refund
  BY DEF Priced
<1>3. pc'[h] = "sellPriced" /\ job'[h] = j
  BY <1>1 DEF Inv, TypeOK
<1> HIDE DEF j
<1>4. traffic = "single" => MarketRead(h)'
  <2> SUFFICES ASSUME traffic = "single" PROVE MarketRead(h)'
    OBVIOUS
  <2>1. job[h].seen = q /\ status = "LIVE"
    BY DEF MarketInv, MarketRead, SellPrice
  <2> QED
    BY <1>1, <1>2, <1>3, <2>1 DEF MarketRead, book
<1> QED
  BY <1>1, <1>4, PricedMarket

\* A trade that was priced from the current quantities moves the collected
\* chips and the cost function together.
LEMMA CommitMarket ==
    ASSUME Inv, MarketInv, NEW h \in Handlers, Busy(h), Finish(h),
           UNCHANGED <<status, history>>,
           traffic = "single" => collected' = Cost(q') - Cost(InitialQ) /\ snapshot' = q'
    PROVE  MarketInv'
<1> SUFFICES ASSUME traffic' = "single" PROVE MarketInv'
  BY DEF MarketInv
<1>1. traffic = "single" /\ \A g \in Handlers : Busy(g) => g = h
  BY DEF MarketInv, history
<1>2. \A g \in Handlers : ~Busy(g)'
  BY <1>1 DEF Inv, TypeOK, Finish, Busy
<1>3. \A g \in Handlers : MarketRead(g)'
  BY <1>2 DEF MarketRead, Busy
<1> QED
  BY <1>1, <1>2, <1>3 DEF MarketInv

LEMMA BuyCommitMarket ==
    ASSUME Inv, MarketInv, NEW h \in Handlers, BuyCommit(h)
    PROVE  MarketInv'
<1> DEFINE j == job[h]
<1>1. /\ Busy(h) /\ Finish(h) /\ UNCHANGED <<status, history>>
      /\ q' = NewQ(q, j.outcome, j.lot) /\ collected' = collected + j.money
      /\ snapshot' = Quoted(j.seen, j.outcome, j.lot)
  BY DEF BuyCommit, Busy
<1>2. q \in Quantities /\ q' \in Quantities
  BY NextInv DEF Inv, TypeOK, Next
<1>3. ASSUME traffic = "single"
      PROVE  collected' = Cost(q') - Cost(InitialQ) /\ snapshot' = q'
  <2>1. j.seen = q /\ j.money = CostOfBuying(q, j.outcome, j.lot)
    BY <1>3 DEF MarketInv, MarketRead, BuyCommit
  <2>2. collected = Cost(q) - Cost(InitialQ)
    BY <1>3 DEF MarketInv
  <2>3. Cost(q) \in Int /\ Cost(q') \in Int /\ Cost(InitialQ) \in Int
    BY <1>2, InitialQType, CostAssumption
  <2>4. j.money = Cost(q') - Cost(q)
    BY <1>1, <2>1 DEF CostOfBuying
  <2> HIDE DEF j
  <2> QED
    BY <1>1, <2>1, <2>2, <2>3, <2>4 DEF Quoted
<1> QED
  BY <1>1, <1>3, CommitMarket

LEMMA SellCommitMarket ==
    ASSUME Inv, MarketInv, NEW h \in Handlers, SellCommit(h)
    PROVE  MarketInv'
<1> DEFINE j == job[h]
<1>1. /\ Busy(h) /\ Finish(h) /\ UNCHANGED <<status, history>>
      /\ q' = NewQ(q, j.outcome, -j.lot) /\ collected' = collected - j.money
      /\ snapshot' = Quoted(j.seen, j.outcome, -j.lot)
  BY DEF SellCommit, Busy
<1>2. q \in Quantities /\ q' \in Quantities
  BY NextInv DEF Inv, TypeOK, Next
<1>3. ASSUME traffic = "single"
      PROVE  collected' = Cost(q') - Cost(InitialQ) /\ snapshot' = q'
  <2>1. j.seen = q /\ j.money = RefundForSelling(q, j.outcome, j.lot)
    BY <1>3 DEF MarketInv, MarketRead, SellCommit
  <2>2. collected = Cost(q) - Cost(InitialQ)
    BY <1>3 DEF MarketInv
  <2>3. Cost(q) \in Int /\ Cost(q') \in Int /\ Cost(InitialQ) \in Int
    BY <1>2, InitialQType, CostAssumption
  <2>4. j.money = Cost(q) - Cost(q')
    BY <1>1, <2>1 DEF RefundForSelling
  <2> HIDE DEF j
  <2> QED
    BY <1>1, <2>1, <2>2, <2>3, <2>4 DEF Quoted
<1> QED
  BY <1>1, <1>3, CommitMarket

LEMMA NextMarket == Inv /\ MarketInv /\ [Next]_vars => MarketInv'
<1> SUFFICES ASSUME Inv, MarketInv, [Next]_vars PROVE MarketInv'
  OBVIOUS
<1>1. ASSUME NEW h \in Handlers, BuyStart(h) PROVE MarketInv'
  <2>1. PICK j : job' = [job EXCEPT ![h] = j]
    BY <1>1 DEF BuyStart
  <2> QED
    BY <1>1, <2>1, ArrivalMarket DEF BuyStart, Busy, Arrives
<1>2. ASSUME NEW h \in Handlers, SellStart(h) PROVE MarketInv'
  <2>1. PICK u \in Users, i \in Outcomes, s \in Lots :
            /\ job' = [job EXCEPT ![h] = Request(u, i, 0, 0, s, q)]
            /\ Arrives(u)
    BY <1>2 DEF SellStart
  <2>2. Request(u, i, 0, 0, s, q).seen = q
    BY DEF Request
  <2> QED
    BY <1>2, <2>1, <2>2, ArrivalMarket DEF SellStart, Busy, Arrives, Open
<1>3. ASSUME NEW h \in Handlers,
             BuyPrice(h) \/ SellPrice(h) \/ BuyCommit(h) \/ SellCommit(h)
      PROVE  MarketInv'
  BY <1>3, BuyPriceMarket, SellPriceMarket, BuyCommitMarket, SellCommitMarket
<1>4. ASSUME NEW h \in Handlers, Abandon(h) PROVE MarketInv'
  <2>1. Busy(h) /\ Finish(h) /\ UNCHANGED <<status, history, q, collected, snapshot>>
    BY <1>4 DEF Abandon, Busy, book
  <2> QED
    BY <2>1, CommitMarket DEF MarketInv
<1>5. ASSUME NEW h \in Handlers, Close(h) PROVE MarketInv'
  <2> SUFFICES ASSUME traffic' = "single" PROVE MarketInv'
    BY DEF MarketInv
  <2>1. traffic = "single" /\ \A g \in Handlers : ~Busy(g)
    BY <1>5 DEF Close, Meets
  <2> QED
    BY <1>5, <2>1 DEF Close, MarketInv, MarketRead, Busy, book
<1>6. CASE Tick \/ UNCHANGED vars
  BY <1>6 DEF MarketInv, MarketRead, Busy, Tick, vars, user, book, history
<1> QED
  BY <1>1, <1>2, <1>3, <1>4, <1>5, <1>6 DEF Next

LEMMA SpecMarket == Spec => [](Inv /\ MarketInv)
<1>1. Init => Inv /\ MarketInv
  BY InitInv, InitMarket
<1>2. Inv /\ MarketInv /\ [Next]_vars => (Inv /\ MarketInv)'
  BY NextInv, NextMarket
<1> QED
  BY <1>1, <1>2, PTL DEF Spec

\* While no two requests have met, trades are path independent: what the market
\* maker has collected depends on the outstanding shares alone.
THEOREM PathIndependence == Spec => []PathIndependent
<1>1. Inv /\ MarketInv => PathIndependent
  BY DEF MarketInv, PathIndependent
<1> QED
  BY <1>1, SpecMarket, PTL

\* While no two requests have met, the newest price snapshot is the price of the
\* outstanding shares.
THEOREM SnapshotIsCurrent == Spec => []SnapshotCurrent
<1>1. Inv /\ MarketInv => SnapshotCurrent
  BY DEF MarketInv, SnapshotCurrent
<1> QED
  BY <1>1, SpecMarket, PTL

\* While no two requests have met, trades cost the market maker at most C(q0)
\* minus the seed's payout, which is b ln(N), whatever outcome wins.
THEOREM SubsidyBound == Spec => []SubsidyBounded
<1>1. Inv /\ MarketInv => SubsidyBounded
  <2> SUFFICES ASSUME Inv, MarketInv, traffic = "single", NEW i \in Outcomes
               PROVE  Payout * (q[i] - Seed) - collected
                         <= Cost(InitialQ) - Payout * Seed
    BY DEF SubsidyBounded, LossBounded
  <2>1. q \in Quantities /\ q[i] \in Int /\ Seed \in Int /\ Payout \in Int
    BY NumbersAssumption DEF Inv, TypeOK, Quantities, Stock
  <2>2. Cost(q) \in Int /\ Cost(InitialQ) \in Int /\ Cost(q) >= Payout * q[i]
    BY <2>1, InitialQType, CostAssumption, CostAboveMax
  <2>3. collected = Cost(q) - Cost(InitialQ)
    BY DEF MarketInv
  <2>4. Payout * (q[i] - Seed) = Payout * q[i] - Payout * Seed
    BY <2>1
  <2>5. Payout * q[i] \in Int /\ Payout * Seed \in Int
    BY <2>1
  <2> QED
    BY <2>2, <2>3, <2>4, <2>5
<1> QED
  BY <1>1, SpecMarket, PTL

\* While no two requests have met, no trade is written once the market has left
\* LIVE.
THEOREM TradesWhileLive == Spec => TradesOnlyWhileLive
<1> DEFINE A == trades' # trades /\ traffic = "single" => status = "LIVE"
<1>1. ASSUME Inv, MarketInv, [Next]_vars
      PROVE  A
  <2>1. ASSUME NEW h \in Handlers, BuyCommit(h) \/ SellCommit(h) PROVE A
    BY <2>1, <1>1 DEF BuyCommit, SellCommit, MarketInv, MarketRead
  <2>2. CASE UNCHANGED trades
    BY <2>2
  <2> QED
    BY <1>1, <2>1, <2>2
    DEF Next, vars, book, BuyStart, BuyPrice, SellStart, SellPrice, Abandon, Close, Tick
<1>2. Inv /\ MarketInv /\ [Next]_vars => [A]_vars
  BY <1>1
<1> QED
  BY <1>2, SpecMarket, PTL DEF Spec, TradesOnlyWhileLive

-----------------------------------------------------------------------------
(* The market makers: what a cost function of max(q) + b softplus(...) with *)
(* a convex softplus guarantees for two outcomes, first in numbers, then of *)
(* either maker.                                                            *)

\* Of some natural numbers one is the least.
LEMMA LeastNumber ==
    ASSUME NEW B, B \subseteq Nat, B # {}
    PROVE  \E n \in B : \A m \in B : n <= m
<1>1. PICK b \in B : TRUE
  OBVIOUS
<1>2. PICK F : F = {0..n : n \in {m \in B : m <= b}}
  OBVIOUS
<1>3. F \subseteq SUBSET (0..b) /\ F # {} /\ IsFiniteSet(0..b)
  <2>1. \A m \in B : m \in Nat
    OBVIOUS
  <2>2. F \subseteq SUBSET (0..b)
    BY <1>2, <2>1
  <2>3. b \in {m \in B : m <= b}
    BY <2>1
  <2>4. 0..b \in F
    BY <1>2, <2>3
  <2>5. IsFiniteSet(0..b)
    BY <2>1, FS_Interval
  <2> QED BY <2>2, <2>4, <2>5
<1>4. PICK T \in F : \A U \in F : U \subseteq T => U = T
  <2>1. PICK S : S = 0..b
    OBVIOUS
  <2>2. IsFiniteSet(S) /\ F \subseteq SUBSET S /\ F # {}
    BY <1>3, <2>1
  <2> QED BY <2>2, LeastSubset, Z3
<1>5. PICK n \in B : n <= b /\ T = 0..n
  BY <1>2, <1>4
<1>6. ASSUME NEW m \in B, m < n PROVE FALSE
  <2>1. m \in Nat /\ n \in Nat /\ b \in Nat
    OBVIOUS
  <2>2. 0..m \in F /\ 0..m \subseteq T
    BY <1>2, <1>5, <1>6, <2>1
  <2>3. 0..m = 0..n
    BY <1>4, <1>5, <2>2
  <2>4. n \in 0..n /\ n \notin 0..m
    BY <1>6, <2>1
  <2> QED BY <2>3, <2>4
<1>7. \A m \in B : m \in Int /\ n \in Int
  OBVIOUS
<1> QED
  BY <1>6, <1>7

\* What softplus falls by from quarter j to the next.
Fall(j) == SoftplusAt(j) - SoftplusAt(j + 1)

LEMMA Table ==
    /\ \A k \in Nat : SoftplusAt(k) \in Nat
    /\ \A k \in Nat : 0 <= Fall(k) /\ 8 * Fall(k) <= Whole
    /\ \A k \in Nat : Fall(k + 1) <= Fall(k)
<1>1. Len(Softplus) = 43
  BY DEF Softplus
<1>2. \A k \in 1..43 : Softplus[k] \in Nat
  BY DEF Softplus
<1>3. \A k \in 1..42 : Softplus[k + 1] <= Softplus[k] /\ Softplus[k] - Softplus[k + 1] <= 12500
  BY DEF Softplus
<1>4. \A k \in 1..41 : Softplus[k + 1] - Softplus[k + 2] <= Softplus[k] - Softplus[k + 1]
  BY DEF Softplus
<1>5. Softplus[43] = 1 /\ Softplus[42] = 2
  BY DEF Softplus
<1>6. /\ SoftplusAt(41) = 2 /\ SoftplusAt(42) = 1 /\ SoftplusAt(42 + 1) = 0
      /\ \A k \in Nat : k >= 43 => SoftplusAt(k) = 0
  BY <1>1, <1>5 DEF SoftplusAt
<1>7. ASSUME NEW k \in Nat PROVE SoftplusAt(k) \in Nat
  BY <1>1, <1>2 DEF SoftplusAt
<1>8. ASSUME NEW k \in Nat PROVE 0 <= Fall(k) /\ Fall(k) <= 12500
  <2>1. CASE k < 42
    <3>1. k + 1 \in 1..42 /\ (k + 1) + 1 = k + 2
      BY <2>1
    <3>2. SoftplusAt(k) = Softplus[k + 1] /\ SoftplusAt(k + 1) = Softplus[(k + 1) + 1]
      BY <1>1, <2>1, <3>1 DEF SoftplusAt
    <3>3. Softplus[k + 1] \in Nat /\ Softplus[(k + 1) + 1] \in Nat
      <4>1. (k + 1) + 1 \in 1..43 /\ k + 1 \in 1..43
        BY <2>1
      <4> QED BY <1>2, <4>1
    <3>4. /\ Softplus[(k + 1) + 1] <= Softplus[k + 1]
          /\ Softplus[k + 1] - Softplus[(k + 1) + 1] <= 12500
      BY <1>3, <3>1
    <3> QED BY <3>2, <3>3, <3>4 DEF Fall
  <2>2. CASE k = 42
    BY <1>6, <2>2 DEF Fall
  <2>3. CASE k > 42
    <3>1. SoftplusAt(k) = 0 /\ SoftplusAt(k + 1) = 0
      BY <1>6, <2>3
    <3> QED BY <3>1 DEF Fall
  <2> QED BY <2>1, <2>2, <2>3
<1>9. ASSUME NEW k \in Nat PROVE Fall(k + 1) <= Fall(k)
  <2>1. CASE k < 41
    <3>1. k + 1 \in 1..41 /\ (k + 1) + 1 = k + 2 /\ (k + 1) + 2 = k + 3 /\ (k + 2) + 1 = k + 3
      BY <2>1
    <3>2. /\ SoftplusAt(k) = Softplus[k + 1] /\ SoftplusAt(k + 1) = Softplus[k + 2]
          /\ SoftplusAt(k + 2) = Softplus[k + 3]
      BY <1>1, <2>1, <3>1 DEF SoftplusAt
    <3>3. Softplus[k + 2] - Softplus[k + 3] <= Softplus[k + 1] - Softplus[k + 2]
      BY <1>4, <3>1
    <3>4. (k + 1) + 1 = k + 2
      OBVIOUS
    <3> QED BY <3>2, <3>3, <3>4 DEF Fall
  <2>2. CASE k >= 41
    <3>1. (k + 1) + 1 = k + 2 /\ SoftplusAt(k + 2) = 0
      BY <1>6, <2>2
    <3>2. SoftplusAt(k + 1) - 0 <= SoftplusAt(k) - SoftplusAt(k + 1)
      <4>1. CASE k = 41
        <5>1. SoftplusAt(k) = 2 /\ SoftplusAt(k + 1) = 1
          BY <1>6, <4>1
        <5> QED BY <5>1
      <4>2. CASE k > 41
        <5>1. SoftplusAt(k + 1) = 0 /\ SoftplusAt(k) \in Nat
          BY <1>6, <1>7, <4>2
        <5> QED BY <5>1
      <4> QED BY <2>2, <4>1, <4>2
    <3> QED BY <3>1, <3>2 DEF Fall
  <2> QED BY <2>1, <2>2
<1>10. ASSUME NEW k \in Nat PROVE 8 * Fall(k) <= Whole
  <2>1. Fall(k) \in Int /\ Fall(k) <= 12500
    BY <1>7, <1>8 DEF Fall
  <2> QED BY <2>1 DEF Whole
<1> QED BY <1>7, <1>8, <1>9, <1>10

\* The later, the less it falls.
LEMMA FallsLess ==
    ASSUME NEW j \in Nat, NEW k \in Nat, j <= k
    PROVE  Fall(k) <= Fall(j)
<1> DEFINE B == {n \in Nat : ~ Fall(j + n) <= Fall(j)}
<1> SUFFICES ASSUME B # {} PROVE FALSE
  <2>1. k - j \in Nat /\ j + (k - j) = k
    OBVIOUS
  <2> QED BY <2>1
<1>1. PICK n \in B : \A m \in B : n <= m
  <2>1. B \subseteq Nat
    OBVIOUS
  <2> HIDE DEF B
  <2> QED BY <2>1, LeastNumber
<1>2. \A m \in Nat : Fall(m) \in Int
  BY Table DEF Fall
<1>3. n # 0
  <2>1. j + 0 = j
    OBVIOUS
  <2> QED BY <1>2, <2>1
<1>4. PICK m \in Nat : n = m + 1
  <2>1. n - 1 \in Nat /\ n = (n - 1) + 1
    BY <1>3
  <2> QED BY <2>1
<1>5. m \notin B
  BY <1>1, <1>4
<1>6. Fall(j + m) <= Fall(j)
  BY <1>5
<1>7. j + n = (j + m) + 1 /\ j + m \in Nat
  BY <1>4
<1>8. Fall((j + m) + 1) <= Fall(j + m)
  BY <1>7, Table
<1>9. Fall(j + n) <= Fall(j)
  BY <1>2, <1>6, <1>7, <1>8
<1> QED BY <1>9

\* softplus is above its slopes everywhere: it is convex.
LEMMA AboveSlopes ==
    ASSUME NEW j \in Nat, NEW k \in Nat
    PROVE  SoftplusAt(j) - Fall(j) * (k - j) <= SoftplusAt(k)
<1> DEFINE Above(n) == SoftplusAt(j) - Fall(j) * (n - j) <= SoftplusAt(n)
<1>1. \A m \in Nat : SoftplusAt(m) \in Int /\ Fall(m) \in Int
  BY Table DEF Fall
<1>2. PICK a \in Int, f \in Int : a = SoftplusAt(j) /\ f = Fall(j)
  BY <1>1
<1>3. ASSUME NEW m \in Nat, j <= m, Above(m) PROVE Above(m + 1)
  <2>1. PICK x \in Int, y \in Int : x = SoftplusAt(m) /\ y = SoftplusAt(m + 1)
    BY <1>1
  <2>2. x - y <= f
    BY <1>2, <1>3, <2>1, FallsLess DEF Fall
  <2>3. a - f * (m - j) <= x
    BY <1>2, <1>3, <2>1
  <2>4. a - f * ((m + 1) - j) = (a - f * (m - j)) - f
    OBVIOUS
  <2>5. PICK z \in Int : z = a - f * (m - j)
    OBVIOUS
  <2> QED BY <1>2, <2>1, <2>2, <2>3, <2>4, <2>5
<1>4. ASSUME NEW m \in Nat, m + 1 <= j, Above(m + 1) PROVE Above(m)
  <2>1. PICK x \in Int, y \in Int : x = SoftplusAt(m) /\ y = SoftplusAt(m + 1)
    BY <1>1
  <2>2. x - y >= f
    <3>1. m <= j
      BY <1>4
    <3> QED BY <1>2, <2>1, <3>1, FallsLess DEF Fall
  <2>3. a - f * ((m + 1) - j) <= y
    BY <1>2, <1>4, <2>1
  <2>4. a - f * ((m + 1) - j) = (a - f * (m - j)) - f
    OBVIOUS
  <2>5. PICK z \in Int : z = a - f * (m - j)
    OBVIOUS
  <2> QED BY <1>2, <2>1, <2>2, <2>3, <2>4, <2>5
<1>5. Above(j)
  <2>1. a - f * (j - j) = a
    OBVIOUS
  <2> QED BY <1>2, <2>1
<1> HIDE DEF Above
<1>6. ASSUME NEW n \in Nat PROVE Above(j + n)
  <2> DEFINE B == {m \in Nat : ~Above(j + m)}
  <2> SUFFICES ASSUME B # {} PROVE FALSE
    OBVIOUS
  <2>1. PICK m \in B : \A i \in B : m <= i
    <3>1. B \subseteq Nat
      OBVIOUS
    <3> HIDE DEF B
    <3> QED BY <3>1, LeastNumber
  <2>2. m # 0
    <3>1. j + 0 = j
      OBVIOUS
    <3> QED BY <1>5, <3>1
  <2>3. PICK i \in Nat : m = i + 1
    <3>1. m - 1 \in Nat /\ m = (m - 1) + 1
      BY <2>2
    <3> QED BY <3>1
  <2>4. i \notin B
    BY <2>1, <2>3
  <2>5. Above(j + i)
    BY <2>4
  <2>6. j + i \in Nat /\ j <= j + i /\ j + m = (j + i) + 1
    BY <2>3
  <2>7. Above((j + i) + 1)
    BY <1>3, <2>5, <2>6
  <2>8. ~Above(j + m)
    OBVIOUS
  <2> QED BY <2>6, <2>7, <2>8
<1>7. ASSUME NEW n \in Nat, n <= j PROVE Above(j - n)
  <2> DEFINE B == {m \in Nat : m <= j /\ ~Above(j - m)}
  <2> SUFFICES ASSUME B # {} PROVE FALSE
    BY <1>7
  <2>1. PICK m \in B : \A i \in B : m <= i
    <3>1. B \subseteq Nat
      OBVIOUS
    <3> HIDE DEF B
    <3> QED BY <3>1, LeastNumber
  <2>2. m # 0
    <3>1. j - 0 = j
      OBVIOUS
    <3> QED BY <1>5, <3>1
  <2>3. PICK i \in Nat : m = i + 1
    <3>1. m - 1 \in Nat /\ m = (m - 1) + 1
      BY <2>2
    <3> QED BY <3>1
  <2>4. i \notin B /\ i <= j
    BY <2>1, <2>3
  <2>5. Above(j - i)
    BY <2>4
  <2>6. j - m \in Nat /\ (j - m) + 1 <= j /\ j - i = (j - m) + 1
    BY <2>3
  <2>7. Above(j - m)
    BY <1>4, <2>5, <2>6
  <2>8. ~Above(j - m)
    OBVIOUS
  <2> QED BY <2>7, <2>8
<1>8. Above(k)
  <2>1. CASE j <= k
    <3>1. k - j \in Nat /\ j + (k - j) = k
      BY <2>1
    <3> QED BY <1>6, <3>1
  <2>2. CASE k <= j
    <3>1. j - k \in Nat /\ j - k <= j /\ j - (j - k) = k
      BY <2>2
    <3> QED BY <1>7, <3>1
  <2> QED BY <2>1, <2>2
<1> QED BY <1>8 DEF Above

\* What logSumExp makes of a liquidity of n and a distance of r, in quarters.
Interpolated(n, r) ==
    SoftplusAt(r \div n) * (n - (r % n)) + SoftplusAt((r \div n) + 1) * (r % n)

\* That a line is nowhere above it.
Supports(a, f) == \A m \in Nat, t \in Nat : m > 0 => a * m - f * t <= Interpolated(m, t)

\* It is the highest of some lines that fall with the distance, by a half at most.
LEMMA Supported ==
    ASSUME NEW n \in Nat, n > 0, NEW r \in Nat
    PROVE  /\ Interpolated(n, r) \in Nat
           /\ \E a \in Nat, f \in Nat :
                 8 * f <= Whole /\ Interpolated(n, r) = a * n - f * r /\ Supports(a, f)
<1>1. ASSUME NEW m \in Nat, m > 0, NEW t \in Nat
      PROVE  \E k \in Nat, e \in Nat : /\ k = t \div m /\ e = t % m
                                      /\ t = k * m + e /\ e < m
  <2>1. t \div m \in Nat /\ t % m \in Nat /\ t = m * (t \div m) + (t % m) /\ (t % m) < m
    BY <1>1
  <2>2. m * (t \div m) = (t \div m) * m
    BY <2>1
  <2> QED BY <2>1, <2>2
<1>2. PICK j \in Nat, e \in Nat : j = r \div n /\ e = r % n /\ r = j * n + e /\ e < n
  BY <1>1
<1>3. PICK s \in Nat, z \in Nat : s = SoftplusAt(j) /\ z = SoftplusAt(j + 1)
  BY Table
<1>4. PICK f \in Nat : f = Fall(j) /\ f = s - z /\ 8 * f <= Whole
  BY <1>3, Table DEF Fall
<1>5. Interpolated(n, r) = s * (n - e) + z * e
  BY <1>2, <1>3 DEF Interpolated
<1>6. PICK a \in Nat : a = s + j * f
  <2>1. s + j * f \in Nat
    OBVIOUS
  <2> QED BY <2>1
<1>7. s * (n - e) + z * e = a * n - f * r
  <2>1. z = s - f
    BY <1>4
  <2>2. s * (n - e) + (s - f) * e = (s + j * f) * n - f * (j * n + e)
    OBVIOUS
  <2> QED BY <1>2, <1>6, <2>1, <2>2
<1>8. ASSUME NEW m \in Nat, m > 0, NEW t \in Nat PROVE a * m - f * t <= Interpolated(m, t)
  <2>1. PICK k \in Nat, d \in Nat : k = t \div m /\ d = t % m /\ t = k * m + d /\ d < m
    BY <1>1, <1>8
  <2>2. PICK x \in Nat, y \in Nat : x = SoftplusAt(k) /\ y = SoftplusAt(k + 1)
    BY Table
  <2>3. s - f * (k - j) <= x /\ s - f * ((k + 1) - j) <= y
    <3>1. \A i \in Nat : SoftplusAt(j) - Fall(j) * (i - j) <= SoftplusAt(i)
      BY AboveSlopes
    <3>2. k + 1 \in Nat
      OBVIOUS
    <3>3. s - f * (k - j) <= SoftplusAt(k) /\ s - f * ((k + 1) - j) <= SoftplusAt(k + 1)
      BY <1>3, <1>4, <3>1, <3>2
    <3> QED BY <2>2, <3>3
  <2>4. Interpolated(m, t) = x * (m - d) + y * d
    BY <2>1, <2>2 DEF Interpolated
  <2>5. PICK g \in Int, h \in Int : g = s - f * (k - j) /\ h = s - f * ((k + 1) - j)
    OBVIOUS
  <2>6. g * (m - d) + h * d <= x * (m - d) + y * d
    <3>1. PICK c \in Nat : c = m - d
      <4>1. m - d \in Nat
        BY <2>1
      <4> QED BY <4>1
    <3>2. g * c <= x * c /\ h * d <= y * d
      BY <2>3, <2>5
    <3> QED BY <3>1, <3>2
  <2>7. g * (m - d) + h * d = a * m - f * t
    <3>1. (s - f * (k - j)) * (m - d) + (s - f * ((k + 1) - j)) * d
              = (s + j * f) * m - f * (k * m + d)
      OBVIOUS
    <3> QED BY <1>6, <2>1, <2>5, <3>1
  <2> QED BY <2>4, <2>6, <2>7
<1>9. Interpolated(n, r) \in Nat
  <2>1. PICK c \in Nat : c = n - e
    BY <1>2
  <2>2. s * c + z * e \in Nat
    OBVIOUS
  <2> QED BY <1>5, <2>1, <2>2
<1>10. Supports(a, f)
  BY <1>8 DEF Supports
<1> QED BY <1>4, <1>5, <1>7, <1>9, <1>10

\* The cost of two outcomes of which hi and lo shares are out, when a share pays p and r
\* quarters are a share; no line is as steep as half of that.
CostOfTwo(p, r, n, hi, lo) == p * hi + Interpolated(n, r * (hi - lo))
Gentle(p, r) == \A f \in Nat : 8 * f <= Whole => 2 * (f * r) <= p
Touched(p, r, n, hi, lo) ==
    \E a \in Nat, f \in Nat :
        /\ 2 * (f * r) <= p /\ Supports(a, f)
        /\ CostOfTwo(p, r, n, hi, lo) = p * hi + a * n - f * (r * (hi - lo))

LEMMA CostSupported ==
    ASSUME NEW p \in Nat, NEW r \in Nat, Gentle(p, r),
           NEW n \in Nat, n > 0, NEW hi \in Int, NEW lo \in Int, lo <= hi
    PROVE  /\ CostOfTwo(p, r, n, hi, lo) \in Int /\ p * hi <= CostOfTwo(p, r, n, hi, lo)
           /\ Touched(p, r, n, hi, lo)
<1>1. PICK t \in Nat : t = r * (hi - lo)
  <2>1. PICK x \in Nat : x = hi - lo
    <3>1. hi - lo \in Nat
      OBVIOUS
    <3> QED BY <3>1
  <2>2. r * x \in Nat
    OBVIOUS
  <2> QED BY <2>1, <2>2
<1>2. PICK i \in Nat : i = Interpolated(n, t)
  BY Supported
<1>3. PICK w \in Int : w = p * hi
  OBVIOUS
<1>4. CostOfTwo(p, r, n, hi, lo) = w + i
  BY <1>1, <1>2, <1>3 DEF CostOfTwo
<1>5. PICK a \in Nat, f \in Nat : 8 * f <= Whole /\ Interpolated(n, t) = a * n - f * t /\ Supports(a, f)
  BY Supported
<1>6. CostOfTwo(p, r, n, hi, lo) = p * hi + a * n - f * (r * (hi - lo))
  BY <1>1, <1>2, <1>3, <1>4, <1>5
<1>7. CostOfTwo(p, r, n, hi, lo) \in Int /\ p * hi <= CostOfTwo(p, r, n, hi, lo)
  BY <1>3, <1>4
<1>8. 2 * (f * r) <= p
  BY <1>5 DEF Gentle
<1>9. Touched(p, r, n, hi, lo)
  BY <1>5, <1>6, <1>8 DEF Touched
<1> QED BY <1>7, <1>9

\* A supporting line is below the cost of any quantities.
LEMMA CostAboveLine ==
    ASSUME NEW a \in Nat, NEW f \in Nat, Supports(a, f), NEW p \in Nat, NEW r \in Nat,
           NEW n \in Nat, n > 0, NEW hi \in Int, NEW lo \in Int, lo <= hi
    PROVE  p * hi + a * n - f * (r * (hi - lo)) <= CostOfTwo(p, r, n, hi, lo)
<1>1. PICK t \in Nat : t = r * (hi - lo)
  <2>1. PICK x \in Nat : x = hi - lo
    <3>1. hi - lo \in Nat
      OBVIOUS
    <3> QED BY <3>1
  <2>2. r * x \in Nat
    OBVIOUS
  <2> QED BY <2>1, <2>2
<1>2. a * n - f * t <= Interpolated(n, t)
  BY DEF Supports
<1>3. PICK i \in Nat : i = Interpolated(n, t)
  BY Supported
<1>4. PICK w \in Int : w = p * hi
  OBVIOUS
<1>5. CostOfTwo(p, r, n, hi, lo) = w + i
  BY <1>1, <1>3, <1>4 DEF CostOfTwo
<1>6. PICK x \in Int, y \in Int : x = a * n /\ y = f * t
  OBVIOUS
<1> QED BY <1>1, <1>2, <1>3, <1>4, <1>5, <1>6

\* The cost grows with the quantities and with the liquidity.
LEMMA CostGrows ==
    ASSUME NEW p \in Nat, NEW r \in Nat, Gentle(p, r),
           NEW n \in Nat, n > 0, NEW hi \in Int, NEW lo \in Int, lo <= hi,
           NEW m \in Nat, n <= m, NEW top \in Int, NEW low \in Int, low <= top,
           hi <= top, lo <= low
    PROVE  CostOfTwo(p, r, n, hi, lo) <= CostOfTwo(p, r, m, top, low)
<1>1. PICK a \in Nat, f \in Nat :
          /\ 2 * (f * r) <= p /\ Supports(a, f)
          /\ CostOfTwo(p, r, n, hi, lo) = p * hi + a * n - f * (r * (hi - lo))
  <2>1. Touched(p, r, n, hi, lo)
    BY CostSupported
  <2> QED BY <2>1 DEF Touched
<1>2. m > 0
  OBVIOUS
<1>3. p * top + a * m - f * (r * (top - low)) <= CostOfTwo(p, r, m, top, low)
  BY <1>1, <1>2, CostAboveLine
<1>4. PICK e \in Nat : e = f * r
  <2>1. f * r \in Nat
    OBVIOUS
  <2> QED BY <2>1
<1>5. PICK g \in Nat : g = p - e
  <2>1. p - e \in Nat
    BY <1>1, <1>4
  <2> QED BY <2>1
<1>6. /\ p * hi + a * n - f * (r * (hi - lo)) = g * hi + e * lo + a * n
      /\ p * top + a * m - f * (r * (top - low)) = g * top + e * low + a * m
  BY <1>4, <1>5
<1>7. g * hi <= g * top /\ e * lo <= e * low /\ a * n <= a * m
  OBVIOUS
<1>8. CostOfTwo(p, r, n, hi, lo) \in Int /\ CostOfTwo(p, r, m, top, low) \in Int
  BY <1>2, CostSupported
<1>9. PICK u \in Int, v \in Int, w \in Int, x \in Int, y \in Int, z \in Int :
          u = g * hi /\ v = g * top /\ w = e * lo /\ x = e * low /\ y = a * n /\ z = a * m
  OBVIOUS
<1> QED BY <1>1, <1>3, <1>6, <1>7, <1>8, <1>9

\* Shares added to both outcomes cost what they pay.
Raised(p, r, n, hi, lo, s) ==
    CostOfTwo(p, r, n, hi + s, lo + s) = CostOfTwo(p, r, n, hi, lo) + p * s

LEMMA CostOfBoth ==
    ASSUME NEW p \in Nat, NEW r \in Nat, NEW n \in Nat, n > 0,
           NEW hi \in Int, NEW lo \in Int, lo <= hi, NEW s \in Int
    PROVE  Raised(p, r, n, hi, lo, s)
<1>1. (hi + s) - (lo + s) = hi - lo
  OBVIOUS
<1>2. PICK i \in Int : i = Interpolated(n, r * (hi - lo))
  <2>1. r * (hi - lo) \in Nat
    <3>1. PICK x \in Nat : x = hi - lo
      <4>1. hi - lo \in Nat
        OBVIOUS
      <4> QED BY <4>1
    <3>2. r * x \in Nat
      OBVIOUS
    <3> QED BY <3>1, <3>2
  <2>2. Interpolated(n, r * (hi - lo)) \in Int
    BY <2>1, Supported
  <2> QED BY <2>2
<1>3. p * (hi + s) = p * hi + p * s
  OBVIOUS
<1>4. CostOfTwo(p, r, n, hi + s, lo + s) = p * (hi + s) + i
  BY <1>1, <1>2 DEF CostOfTwo
<1>5. CostOfTwo(p, r, n, hi, lo) = p * hi + i
  BY <1>2 DEF CostOfTwo
<1>6. PICK x \in Int, y \in Int : x = p * hi /\ y = p * s
  OBVIOUS
<1> QED BY <1>3, <1>4, <1>5, <1>6 DEF Raised

\* The cost is convex: twice it is no more than the costs on either side.
LEMMA CostConvex ==
    ASSUME NEW p \in Nat, NEW r \in Nat, Gentle(p, r),
           NEW n \in Nat, n > 0, NEW hi \in Int, NEW lo \in Int, lo <= hi,
           NEW n1 \in Nat, n1 > 0, NEW hi1 \in Int, NEW lo1 \in Int, lo1 <= hi1,
           NEW n2 \in Nat, n2 > 0, NEW hi2 \in Int, NEW lo2 \in Int, lo2 <= hi2,
           n1 + n2 = 2 * n, hi1 + lo1 + hi2 + lo2 = 2 * (hi + lo), 2 * hi <= hi1 + hi2
    PROVE  2 * CostOfTwo(p, r, n, hi, lo) <= CostOfTwo(p, r, n1, hi1, lo1) + CostOfTwo(p, r, n2, hi2, lo2)
<1>1. PICK a \in Nat, f \in Nat :
          /\ 2 * (f * r) <= p /\ Supports(a, f)
          /\ CostOfTwo(p, r, n, hi, lo) = p * hi + a * n - f * (r * (hi - lo))
  <2>1. Touched(p, r, n, hi, lo)
    BY CostSupported
  <2> QED BY <2>1 DEF Touched
<1>2. p * hi1 + a * n1 - f * (r * (hi1 - lo1)) <= CostOfTwo(p, r, n1, hi1, lo1)
  BY <1>1, CostAboveLine
<1>3. p * hi2 + a * n2 - f * (r * (hi2 - lo2)) <= CostOfTwo(p, r, n2, hi2, lo2)
  BY <1>1, CostAboveLine
<1>4. PICK e \in Nat : e = f * r
  <2>1. f * r \in Nat
    OBVIOUS
  <2> QED BY <2>1
<1>5. PICK g \in Nat : g = p - 2 * e
  <2>1. p - 2 * e \in Nat
    BY <1>1, <1>4
  <2> QED BY <2>1
<1>7. /\ CostOfTwo(p, r, n, hi, lo) = g * hi + e * (hi + lo) + a * n
      /\ g * hi1 + e * (hi1 + lo1) + a * n1 <= CostOfTwo(p, r, n1, hi1, lo1)
      /\ g * hi2 + e * (hi2 + lo2) + a * n2 <= CostOfTwo(p, r, n2, hi2, lo2)
  <2>1. p * hi + a * n - f * (r * (hi - lo)) = g * hi + e * (hi + lo) + a * n
    BY <1>4, <1>5
  <2>2. p * hi1 + a * n1 - f * (r * (hi1 - lo1)) = g * hi1 + e * (hi1 + lo1) + a * n1
    BY <1>4, <1>5
  <2>3. p * hi2 + a * n2 - f * (r * (hi2 - lo2)) = g * hi2 + e * (hi2 + lo2) + a * n2
    BY <1>4, <1>5
  <2> QED BY <1>1, <1>2, <1>3, <2>1, <2>2, <2>3, Zenon
<1>8. g * (2 * hi) <= g * (hi1 + hi2)
  <2>1. PICK x \in Int, y \in Int : x = 2 * hi /\ y = hi1 + hi2
    OBVIOUS
  <2>2. g * x <= g * y
    BY <2>1
  <2> QED BY <2>1, <2>2
<1>9. /\ g * (2 * hi) = 2 * (g * hi) /\ g * (hi1 + hi2) = g * hi1 + g * hi2
      /\ e * (hi1 + lo1) + e * (hi2 + lo2) = 2 * (e * (hi + lo))
      /\ a * n1 + a * n2 = 2 * (a * n)
  <2>1. e * (hi1 + lo1) + e * (hi2 + lo2) = e * (hi1 + lo1 + hi2 + lo2)
    OBVIOUS
  <2>2. e * (2 * (hi + lo)) = 2 * (e * (hi + lo))
    OBVIOUS
  <2>3. a * n1 + a * n2 = a * (n1 + n2) /\ a * (2 * n) = 2 * (a * n)
    OBVIOUS
  <2>4. g * (2 * hi) = 2 * (g * hi) /\ g * (hi1 + hi2) = g * hi1 + g * hi2
    OBVIOUS
  <2> QED BY <2>1, <2>2, <2>3, <2>4
<1>10. /\ CostOfTwo(p, r, n, hi, lo) \in Int
       /\ CostOfTwo(p, r, n1, hi1, lo1) \in Int /\ CostOfTwo(p, r, n2, hi2, lo2) \in Int
  BY CostSupported
<1>11. PICK u \in Int, u1 \in Int, u2 \in Int : u = g * hi /\ u1 = g * hi1 /\ u2 = g * hi2
  OBVIOUS
<1>12. PICK t \in Int, t1 \in Int, t2 \in Int :
           t = e * (hi + lo) /\ t1 = e * (hi1 + lo1) /\ t2 = e * (hi2 + lo2)
  OBVIOUS
<1>13. PICK l \in Int, l1 \in Int, l2 \in Int : l = a * n /\ l1 = a * n1 /\ l2 = a * n2
  OBVIOUS
<1>14. u + u <= u1 + u2 /\ t1 + t2 = t + t /\ l1 + l2 = l + l
  BY <1>8, <1>9, <1>11, <1>12, <1>13
<1> QED BY <1>7, <1>10, <1>11, <1>12, <1>13, <1>14

\* With d times the liquidity, over a denominator of d, it is no less.
Scaled(p, r, n, hi, lo, d, m) ==
    d * CostOfTwo(p, r, n, hi, lo) <= CostOfTwo(d * p, d * r, m, hi, lo)

LEMMA CostScales ==
    ASSUME NEW p \in Nat, NEW r \in Nat, Gentle(p, r),
           NEW n \in Nat, n > 0, NEW hi \in Int, NEW lo \in Int, lo <= hi,
           NEW d \in Nat, d > 0, NEW m \in Nat, d * n <= m
    PROVE  Scaled(p, r, n, hi, lo, d, m)
<1>1. PICK a \in Nat, f \in Nat :
          /\ 2 * (f * r) <= p /\ Supports(a, f)
          /\ CostOfTwo(p, r, n, hi, lo) = p * hi + a * n - f * (r * (hi - lo))
  <2>1. Touched(p, r, n, hi, lo)
    BY CostSupported
  <2> QED BY <2>1 DEF Touched
<1>2. m > 0
  <2>1. d * n > 0
    OBVIOUS
  <2> QED BY <2>1
<1>3. PICK x \in Nat, y \in Nat : x = d * p /\ y = d * r
  <2>1. d * p \in Nat /\ d * r \in Nat
    OBVIOUS
  <2> QED BY <2>1
<1>4. x * hi + a * m - f * (y * (hi - lo)) <= CostOfTwo(x, y, m, hi, lo)
  BY <1>1, <1>2, CostAboveLine
<1>5. d * (p * hi + a * n - f * (r * (hi - lo))) = x * hi + a * (d * n) - f * (y * (hi - lo))
  BY <1>3
<1>6. a * (d * n) <= a * m
  <2>1. PICK i \in Int : i = d * n
    OBVIOUS
  <2>2. a * i <= a * m
    BY <2>1
  <2> QED BY <2>1, <2>2
<1>7. CostOfTwo(x, y, m, hi, lo) \in Int
  <2>1. Gentle(x, y)
    <3> SUFFICES ASSUME NEW k \in Nat, 8 * k <= Whole PROVE 2 * (k * y) <= x
      BY DEF Gentle
    <3>1. 2 * (k * r) <= p
      BY DEF Gentle
    <3>2. PICK i \in Int : i = 2 * (k * r)
      OBVIOUS
    <3>3. d * i <= d * p
      BY <3>1, <3>2
    <3>4. d * i = 2 * (k * y)
      BY <1>3, <3>2
    <3> QED BY <1>3, <3>3, <3>4
  <2> QED BY <1>2, <2>1, CostSupported
<1>8. PICK w \in Int, i \in Int, j \in Int, z \in Int :
          w = x * hi /\ i = a * (d * n) /\ j = a * m /\ z = f * (y * (hi - lo))
  OBVIOUS
<1>9. d * CostOfTwo(p, r, n, hi, lo) <= CostOfTwo(x, y, m, hi, lo)
  BY <1>1, <1>4, <1>5, <1>6, <1>7, <1>8
<1> QED BY <1>3, <1>9 DEF Scaled

\* While the outcomes are level, it is the liquidity's.
Level(p, r, n, s) == CostOfTwo(p, r, n, s, s) = p * s + SoftplusAt(0) * n

LEMMA CostLevel ==
    ASSUME NEW p \in Nat, NEW r \in Nat, NEW n \in Nat, n > 0, NEW s \in Int
    PROVE  Level(p, r, n, s)
<1>1. r * (s - s) = 0
  OBVIOUS
<1>2. 0 \div n = 0 /\ (0 % n) = 0 /\ n - 0 = n
  OBVIOUS
<1>3. PICK x \in Nat, t \in Nat : x = SoftplusAt(0) /\ t = SoftplusAt(0 + 1)
  BY Table
<1>4. Interpolated(n, 0) = x * n + t * 0
  BY <1>2, <1>3 DEF Interpolated
<1>5. x * n + t * 0 = x * n
  OBVIOUS
<1> QED BY <1>1, <1>3, <1>4, <1>5 DEF CostOfTwo, Level

Larger(x, y) == IF x <= y THEN y ELSE x
Smaller(x, y) == IF x <= y THEN x ELSE y

\* The sum, the maximum and the minimum of two quantities.
LEMMA SumOfTwo ==
    ASSUME NEW a, NEW b, a # b, NEW v \in [{a, b} -> Int]
    PROVE  sumQ(v) = v[a] + v[b]
<1> DEFINE Sums(h) == h = [s \in SUBSET {a, b} |->
                             IF s = {} THEN 0 ELSE v[Pick(s)] + h[s \ {Pick(s)}]]
<1>1. \A h : Sums(h) <=> SumsUp(h, v, {a, b})
  BY DEF SumsUp
<1>2. sumQ(v) = (CHOOSE h : Sums(h))[{a, b}]
  BY DEF sumQ, MapThenSumSet, MapThenFoldSet, Pick
<1>3. IsFiniteSet({a, b}) /\ IsFiniteSet({a}) /\ IsFiniteSet({})
  <2>1. IsFiniteSet({}) /\ IsFiniteSet({a})
    BY FS_EmptySet, FS_Singleton
  <2>2. {a, b} = {a} \cup {b}
    OBVIOUS
  <2> QED BY <2>1, <2>2, FS_AddElement
<1>4. \E h : Sums(h)
  BY <1>1, <1>3, SumsExist
<1>5. sumQ(v) = SumFunctionOnSet(v, {a, b})
  <2> HIDE DEF Sums
  <2>1. PICK g : g = (CHOOSE h : Sums(h)) /\ Sums(g)
    BY <1>4
  <2> QED BY <1>1, <1>2, <1>3, <2>1, SumChosen
<1>6. v[a] \in Int /\ v[b] \in Int
  OBVIOUS
<1>7. SumFunctionOnSet(v, {} \cup {a}) = v[a] + SumFunctionOnSet(v, {})
  <2>1. \A s \in {} : v[s] \in Int
    OBVIOUS
  <2>2. a \notin {}
    OBVIOUS
  <2> QED BY <1>3, <1>6, <2>1, <2>2, SumAdd
<1>8. SumFunctionOnSet(v, {a} \cup {b}) = v[b] + SumFunctionOnSet(v, {a})
  <2>1. b \notin {a} /\ \A s \in {a} : v[s] \in Int
    BY <1>6
  <2> QED BY <1>3, <1>6, <2>1, SumAdd
<1>9. {} \cup {a} = {a} /\ {a} \cup {b} = {a, b} /\ SumFunctionOnSet(v, {}) = 0
  BY SumEmpty
<1> HIDE DEF Sums
<1>10. SumFunctionOnSet(v, {a}) = v[a]
  BY <1>6, <1>7, <1>9
<1>11. SumFunctionOnSet(v, {a, b}) = v[b] + v[a]
  BY <1>8, <1>9, <1>10, Zenon
<1> QED BY <1>5, <1>6, <1>11

LEMMA ExtremesOfTwo ==
    ASSUME NEW a, NEW b, NEW v \in [{a, b} -> Int]
    PROVE  /\ Max({v[i] : i \in DOMAIN v}) = Larger(v[a], v[b])
           /\ Min({v[i] : i \in DOMAIN v}) = Smaller(v[a], v[b])
<1>1. {v[i] : i \in DOMAIN v} = {v[a], v[b]} /\ v[a] \in Int /\ v[b] \in Int
  OBVIOUS
<1>2. PICK x \in Int, y \in Int : x = v[a] /\ y = v[b]
  BY <1>1
<1>3. Max({x, y}) = Larger(x, y)
  <2>1. Larger(x, y) \in {x, y} /\ \A z \in {x, y} : Larger(x, y) >= z
    BY DEF Larger
  <2>2. \A w \in {x, y} : (\A z \in {x, y} : w >= z) => w = Larger(x, y)
    BY DEF Larger
  <2> QED BY <2>1, <2>2 DEF Max
<1>4. Min({x, y}) = Smaller(x, y)
  <2>1. Smaller(x, y) \in {x, y} /\ \A z \in {x, y} : Smaller(x, y) <= z
    BY DEF Smaller
  <2>2. \A w \in {x, y} : (\A z \in {x, y} : w <= z) => w = Smaller(x, y)
    BY DEF Smaller
  <2> QED BY <2>1, <2>2 DEF Min
<1> QED BY <1>1, <1>2, <1>3, <1>4

\* That m prices a and b with a liquidity of c times what is out of both and k more,
\* over d, and starts from z of each.
MadeBy(m, a, b, c, k, d, z) ==
    /\ c \in Nat /\ k \in Nat /\ d \in Nat /\ z \in Nat /\ d > 0
    /\ k > 0 \/ (c > 0 /\ z > 0)
    /\ PayoutOf(m) = Whole * d
    /\ seedPerOutcome(m, Cardinality(Outcomes)) = z
    /\ \A v \in [{a, b} -> Int] : effectiveB(m, v) = <<c * (v[a] + v[b]) + k, d>>

LEMMA ClassicMade ==
    ASSUME NEW a, NEW b
    PROVE  MadeBy(Classic, a, b, 0, Liquidity, 1, 0)
<1>1. PICK L \in Nat \ {0} : L = Liquidity
  BY MakersAssumption DEF MarketRow, Classic
<1>2. /\ PayoutOf(Classic) = Whole * 1
      /\ seedPerOutcome(Classic, Cardinality(Outcomes)) = 0
  BY DEF PayoutOf, Classic, seedPerOutcome
<1>3. ASSUME NEW v \in [{a, b} -> Int]
      PROVE  effectiveB(Classic, v) = <<0 * (v[a] + v[b]) + L, 1>>
  <2>1. PICK x \in Int : x = v[a] + v[b]
    OBVIOUS
  <2>2. 0 * x + L = L
    OBVIOUS
  <2>3. effectiveB(Classic, v) = <<L, 1>>
    BY <1>1 DEF effectiveB, Classic
  <2> QED BY <2>1, <2>2, <2>3
<1>4. 0 \in Nat /\ L \in Nat /\ 1 \in Nat /\ 1 > 0 /\ L > 0
  OBVIOUS
<1>5. MadeBy(Classic, a, b, 0, L, 1, 0)
  BY <1>2, <1>3, <1>4, Zenon DEF MadeBy
<1> QED BY <1>1, <1>5

\* The sensitive maker's seed gives it the liquidity that the classic one has.
LEMMA SensitiveMade ==
    ASSUME Comparable, NEW a, NEW b, a # b
    PROVE  \E z \in Nat : /\ MadeBy(Sensitive, a, b, Alpha[1], 0, Alpha[2], z)
                         /\ Alpha[1] * (2 * z) = Liquidity * Alpha[2]
<1>1. PICK L \in Nat \ {0}, x \in Nat \ {0}, y \in Nat \ {0} :
          L = Liquidity /\ x = Alpha[1] /\ y = Alpha[2] /\ Alpha = <<x, y>>
  BY MakersAssumption DEF MarketRow, Classic, Fraction
<1>2. PICK n \in Nat : n = x * 2 /\ n > 0
  <2>1. x * 2 \in Nat /\ x * 2 > 0
    OBVIOUS
  <2> QED BY <2>1
<1>3. PICK t \in Nat : t = L * y /\ t > 0
  <2>1. L * y \in Nat /\ L * y > 0
    OBVIOUS
  <2> QED BY <2>1
<1>4. (t % n) = 0
  BY <1>1, <1>2, <1>3 DEF Comparable, Binary
<1>5. PICK z \in Nat : z = t \div n /\ t = n * z
  <2>1. t \div n \in Nat /\ t = n * (t \div n) + (t % n)
    BY <1>2
  <2>2. PICK z \in Nat : z = t \div n
    BY <2>1
  <2>3. n * z + 0 = n * z
    OBVIOUS
  <2> QED BY <1>4, <2>1, <2>2, <2>3
<1>6. seedPerOutcome(Sensitive, Cardinality(Outcomes)) = z
  BY <1>1, <1>2, <1>3, <1>5 DEF Comparable, Binary, seedPerOutcome, Sensitive, seedSharesForBudget
<1>7. z > 0 /\ x * (2 * z) = t
  <2>1. z # 0
    BY <1>3, <1>5
  <2>2. x * (2 * z) = (x * 2) * z
    OBVIOUS
  <2> QED BY <1>2, <1>5, <2>1, <2>2
<1>8. PayoutOf(Sensitive) = Whole * y
  BY <1>1 DEF PayoutOf, Sensitive
<1>9. ASSUME NEW v \in [{a, b} -> Int]
      PROVE  effectiveB(Sensitive, v) = <<x * (v[a] + v[b]) + 0, y>>
  <2>1. sumQ(v) = v[a] + v[b]
    BY SumOfTwo
  <2>2. effectiveB(Sensitive, v) = <<x * (v[a] + v[b]), y>>
    BY <1>1, <2>1 DEF effectiveB, Sensitive, bOf
  <2>3. PICK i \in Int : i = x * (v[a] + v[b])
    OBVIOUS
  <2> QED BY <2>2, <2>3
<1>10. x \in Nat /\ 0 \in Nat /\ y \in Nat /\ z \in Nat /\ y > 0 /\ x > 0
  OBVIOUS
<1>11. MadeBy(Sensitive, a, b, x, 0, y, z)
  BY <1>6, <1>7, <1>8, <1>9, <1>10, Zenon DEF MadeBy
<1> QED BY <1>1, <1>3, <1>7, <1>11

LEMMA GentleMade == ASSUME NEW d \in Nat PROVE Gentle(Whole * d, 4 * d)
<1>1. PICK U \in Nat : U = Whole
  BY DEF Whole
<1>2. ASSUME NEW f \in Nat, 8 * f <= U PROVE 2 * (f * (4 * d)) <= U * d
  <2>1. 2 * (f * (4 * d)) = (8 * f) * d
    OBVIOUS
  <2>2. PICK i \in Nat : i = 8 * f
    OBVIOUS
  <2>3. i * d <= U * d
    BY <1>2, <2>2
  <2> QED BY <2>1, <2>2, <2>3
<1> QED BY <1>1, <1>2 DEF Gentle

\* Its liquidity is never zero while as many shares are out as it started one outcome with.
LEMMA Deep ==
    ASSUME NEW a, NEW b, NEW m, NEW c, NEW k, NEW d, NEW z, MadeBy(m, a, b, c, k, d, z),
           NEW t \in Int, c = 0 \/ z <= t
    PROVE  c * t + k \in Nat /\ c * t + k > 0
<1>1. c \in Nat /\ k \in Nat /\ z \in Nat /\ (k > 0 \/ (c > 0 /\ z > 0))
  BY DEF MadeBy
<1>2. CASE c = 0
  <2>1. 0 * t + k = k
    BY <1>1
  <2> QED BY <1>1, <1>2, <2>1
<1>3. CASE z <= t
  <2>1. t \in Nat
    BY <1>1, <1>3
  <2>2. c * t \in Nat
    BY <1>1, <2>1
  <2>3. c > 0 /\ z > 0 => c * t > 0
    BY <1>1, <1>3, <2>1
  <2> QED BY <1>1, <2>2, <2>3
<1> QED BY <1>2, <1>3

\* The numbers a cost is made of.
Numbers(m, v, a, b, p, r, n, hi, lo) ==
    /\ p \in Nat /\ r \in Nat /\ n \in Nat /\ n > 0 /\ hi \in Int /\ lo \in Int /\ lo <= hi
    /\ p = PayoutOf(m) /\ Gentle(p, r)
    /\ hi = Larger(v[a], v[b]) /\ lo = Smaller(v[a], v[b])
    /\ cost(m, v) = CostOfTwo(p, r, n, hi, lo)

LEMMA CostNumbers ==
    ASSUME NEW a, NEW b, a # b, NEW m, NEW c, NEW k, NEW d, NEW z, MadeBy(m, a, b, c, k, d, z),
           NEW v \in [{a, b} -> Int], c = 0 \/ z <= v[a] + v[b]
    PROVE  Numbers(m, v, a, b, Whole * d, 4 * d, c * (v[a] + v[b]) + k,
                   Larger(v[a], v[b]), Smaller(v[a], v[b]))
<1>1. v[a] \in Int /\ v[b] \in Int /\ v[a] + v[b] \in Int
  OBVIOUS
<1>2. PICK hi \in Int, lo \in Int :
          hi = Larger(v[a], v[b]) /\ lo = Smaller(v[a], v[b]) /\ lo <= hi
  BY <1>1 DEF Larger, Smaller
<1>3. d \in Nat /\ PayoutOf(m) = Whole * d
  BY DEF MadeBy
<1>4. Whole * d \in Nat /\ 4 * d \in Nat
  <2>1. PICK U \in Nat : U = Whole
    BY DEF Whole
  <2>2. U * d \in Nat /\ 4 * d \in Nat
    BY <1>3
  <2> QED BY <2>1, <2>2
<1>5. Gentle(Whole * d, 4 * d)
  BY <1>3, GentleMade
<1>6. c * (v[a] + v[b]) + k \in Nat /\ c * (v[a] + v[b]) + k > 0
  BY <1>1, Deep
<1>7. PICK p, r, n : p = Whole * d /\ r = 4 * d /\ n = c * (v[a] + v[b]) + k
  OBVIOUS
<1>8. cost(m, v) = CostOfTwo(p, r, n, hi, lo)
  <2>1. effectiveB(m, v) = <<n, d>> /\ PayoutOf(m) = p
    BY <1>7 DEF MadeBy
  <2>2. effectiveB(m, v)[1] = n /\ effectiveB(m, v)[2] = d
    BY <2>1
  <2>3. logSumExp(v, effectiveB(m, v)) = Interpolated(n, r * (hi - lo))
    BY <1>2, <1>7, <2>2, ExtremesOfTwo DEF logSumExp, Interpolated
  <2>4. cost(m, v) = p * hi + Interpolated(n, r * (hi - lo))
    BY <1>2, <2>1, <2>3, ExtremesOfTwo DEF cost
  <2> QED BY <2>4 DEF CostOfTwo
<1> QED BY <1>2, <1>3, <1>4, <1>5, <1>6, <1>7, <1>8, Zenon DEF Numbers

\* A maker is covered for whichever outcome wins.
LEMMA MakerCovered ==
    ASSUME NEW a, NEW b, a # b, NEW m, NEW c, NEW k, NEW d, NEW z, MadeBy(m, a, b, c, k, d, z),
           NEW v \in [{a, b} -> Int], c = 0 \/ z <= v[a] + v[b]
    PROVE  /\ cost(m, v) \in Int /\ PayoutOf(m) \in Nat
           /\ PayoutOf(m) * v[a] <= cost(m, v) /\ PayoutOf(m) * v[b] <= cost(m, v)
<1>1. PICK p, r, n, hi, lo : Numbers(m, v, a, b, p, r, n, hi, lo)
  BY CostNumbers
<1>2. p \in Nat /\ r \in Nat /\ n \in Nat /\ n > 0 /\ hi \in Int /\ lo \in Int /\ lo <= hi
      /\ p = PayoutOf(m) /\ Gentle(p, r) /\ cost(m, v) = CostOfTwo(p, r, n, hi, lo)
  BY <1>1 DEF Numbers
<1>3. CostOfTwo(p, r, n, hi, lo) \in Int /\ p * hi <= CostOfTwo(p, r, n, hi, lo)
  BY <1>2, CostSupported
<1>4. PICK x \in Int, y \in Int : x = v[a] /\ y = v[b]
  OBVIOUS
<1>5. x <= hi /\ y <= hi
  BY <1>1, <1>4 DEF Numbers, Larger
<1>6. PICK u \in Int : u = CostOfTwo(p, r, n, hi, lo) /\ p * hi <= u
  BY <1>3
<1>7. p * x <= p * hi /\ p * y <= p * hi
  BY <1>2, <1>5
<1>8. p * x <= u /\ p * y <= u
  <2>1. PICK i \in Int, j \in Int, l \in Int : i = p * x /\ j = p * y /\ l = p * hi
    BY <1>2
  <2> QED BY <1>6, <1>7, <2>1
<1> QED BY <1>2, <1>4, <1>6, <1>8

\* Its cost grows with what is out of each outcome.
LEMMA MakerRises ==
    ASSUME NEW a, NEW b, a # b, NEW m, NEW c, NEW k, NEW d, NEW z, MadeBy(m, a, b, c, k, d, z),
           NEW v \in [{a, b} -> Int], c = 0 \/ z <= v[a] + v[b],
           NEW w \in [{a, b} -> Int], v[a] <= w[a], v[b] <= w[b]
    PROVE  cost(m, v) <= cost(m, w)
<1>1. PICK x \in Int, y \in Int, x2 \in Int, y2 \in Int :
          x = v[a] /\ y = v[b] /\ x2 = w[a] /\ y2 = w[b]
  OBVIOUS
<1>2. PICK p, r, n, hi, lo : /\ p = Whole * d /\ r = 4 * d /\ n = c * (x + y) + k
                             /\ hi = Larger(x, y) /\ lo = Smaller(x, y)
  OBVIOUS
<1>3. PICK n2, hi2, lo2 : n2 = c * (x2 + y2) + k /\ hi2 = Larger(x2, y2) /\ lo2 = Smaller(x2, y2)
  OBVIOUS
<1>4. Numbers(m, v, a, b, p, r, n, hi, lo)
  BY <1>1, <1>2, CostNumbers
<1>5. Numbers(m, w, a, b, p, r, n2, hi2, lo2)
  <2>1. z \in Nat
    BY DEF MadeBy
  <2>2. c = 0 \/ z <= w[a] + w[b]
    BY <1>1, <2>1
  <2> QED BY <1>1, <1>2, <1>3, <2>2, CostNumbers
<1>6. hi <= hi2 /\ lo <= lo2
  BY <1>1, <1>2, <1>3 DEF Larger, Smaller
<1>7. n <= n2
  <2>1. c \in Nat /\ k \in Nat
    BY DEF MadeBy
  <2>2. PICK t \in Int, t2 \in Int : t = x + y /\ t2 = x2 + y2 /\ t <= t2
    BY <1>1
  <2>3. c * t <= c * t2
    BY <2>1, <2>2
  <2>4. PICK i \in Int, j \in Int : i = c * t /\ j = c * t2
    BY <2>1
  <2> QED BY <1>2, <1>3, <2>1, <2>2, <2>3, <2>4
<1>8. /\ p \in Nat /\ r \in Nat /\ Gentle(p, r)
      /\ n \in Nat /\ n > 0 /\ hi \in Int /\ lo \in Int /\ lo <= hi
      /\ n2 \in Nat /\ hi2 \in Int /\ lo2 \in Int /\ lo2 <= hi2
      /\ cost(m, v) = CostOfTwo(p, r, n, hi, lo)
      /\ cost(m, w) = CostOfTwo(p, r, n2, hi2, lo2)
  BY <1>4, <1>5 DEF Numbers
<1>9. CostOfTwo(p, r, n, hi, lo) <= CostOfTwo(p, r, n2, hi2, lo2)
  BY <1>6, <1>7, <1>8, CostGrows
<1> QED BY <1>8, <1>9

\* One share more of each costs what the one that wins pays, at least.
LEMMA MakerSet ==
    ASSUME NEW a, NEW b, a # b, NEW m, NEW c, NEW k, NEW d, NEW z, MadeBy(m, a, b, c, k, d, z),
           NEW v \in [{a, b} -> Int], z <= v[a] + v[b],
           NEW w \in [{a, b} -> Int], w[a] = v[a] + 1, w[b] = v[b] + 1
    PROVE  cost(m, v) + PayoutOf(m) <= cost(m, w)
<1>1. PICK x \in Int, y \in Int : x = v[a] /\ y = v[b] /\ x + 1 = w[a] /\ y + 1 = w[b]
  OBVIOUS
<1>2. PICK p, r, n, hi, lo : /\ p = Whole * d /\ r = 4 * d /\ n = c * (x + y) + k
                             /\ hi = Larger(x, y) /\ lo = Smaller(x, y)
  OBVIOUS
<1>3. PICK n2, hi2, lo2 : /\ n2 = c * ((x + 1) + (y + 1)) + k
                          /\ hi2 = Larger(x + 1, y + 1) /\ lo2 = Smaller(x + 1, y + 1)
  OBVIOUS
<1>4. Numbers(m, v, a, b, p, r, n, hi, lo)
  BY <1>1, <1>2, CostNumbers
<1>5. Numbers(m, w, a, b, p, r, n2, hi2, lo2)
  <2>1. z \in Nat
    BY DEF MadeBy
  <2>2. z <= w[a] + w[b]
    BY <1>1, <2>1
  <2> QED BY <1>1, <1>2, <1>3, <2>2, CostNumbers
<1>6. hi2 = hi + 1 /\ lo2 = lo + 1
  BY <1>1, <1>2, <1>3 DEF Larger, Smaller
<1>7. n <= n2
  <2>1. c \in Nat /\ k \in Nat
    BY DEF MadeBy
  <2>2. PICK t \in Int, t2 \in Int : t = x + y /\ t2 = (x + 1) + (y + 1) /\ t <= t2
    BY <1>1
  <2>3. c * t <= c * t2
    BY <2>1, <2>2
  <2>4. PICK i \in Int, j \in Int : i = c * t /\ j = c * t2
    BY <2>1
  <2> QED BY <1>2, <1>3, <2>1, <2>2, <2>3, <2>4
<1>8. /\ p \in Nat /\ r \in Nat /\ Gentle(p, r) /\ p = PayoutOf(m)
      /\ n \in Nat /\ n > 0 /\ hi \in Int /\ lo \in Int /\ lo <= hi
      /\ n2 \in Nat /\ hi2 \in Int /\ lo2 \in Int /\ lo2 <= hi2
      /\ cost(m, v) = CostOfTwo(p, r, n, hi, lo)
      /\ cost(m, w) = CostOfTwo(p, r, n2, hi2, lo2)
  BY <1>4, <1>5 DEF Numbers
<1>9. PICK s \in Int : s = 1
  OBVIOUS
<1>10. CostOfTwo(p, r, n, hi2, lo2) = CostOfTwo(p, r, n, hi, lo) + p * s
  <2>1. Raised(p, r, n, hi, lo, s)
    BY <1>8, CostOfBoth
  <2> QED BY <1>6, <1>9, <2>1 DEF Raised
<1>11. CostOfTwo(p, r, n, hi2, lo2) <= CostOfTwo(p, r, n2, hi2, lo2)
  <2>1. hi2 <= hi2 /\ lo2 <= lo2
    BY <1>8
  <2> QED BY <1>7, <1>8, <2>1, CostGrows
<1>12. p * s = p
  BY <1>8, <1>9
<1>13. CostOfTwo(p, r, n, hi2, lo2) = CostOfTwo(p, r, n, hi, lo) + p
  BY <1>10, <1>12
<1> QED BY <1>8, <1>11, <1>13

\* Shares of an outcome cost no less than as many of them are taken back for.
Bent(m, u, v, w) == 2 * cost(m, v) <= cost(m, u) + cost(m, w)

LEMMA MakerBends ==
    ASSUME NEW a, NEW b, a # b, NEW m, NEW c, NEW k, NEW d, NEW z, MadeBy(m, a, b, c, k, d, z),
           NEW s \in Nat, NEW u \in [{a, b} -> Int], z <= u[a] + u[b],
           NEW v \in [{a, b} -> Int], v[a] = u[a] + s, v[b] = u[b],
           NEW w \in [{a, b} -> Int], w[a] = v[a] + s, w[b] = v[b]
    PROVE  Bent(m, u, v, w)
<1>1. PICK x \in Int, y \in Int : x = v[a] /\ y = v[b] /\ u[a] = x - s /\ w[a] = x + s
  <2>1. u[a] \in Int /\ v[a] \in Int /\ v[b] \in Int
    OBVIOUS
  <2> QED BY <2>1
<1>2. PICK p, r, n, hi, lo : /\ p = Whole * d /\ r = 4 * d /\ n = c * (x + y) + k
                             /\ hi = Larger(x, y) /\ lo = Smaller(x, y)
  OBVIOUS
<1>3. PICK n1, hi1, lo1 : /\ n1 = c * ((x - s) + y) + k
                          /\ hi1 = Larger(x - s, y) /\ lo1 = Smaller(x - s, y)
  OBVIOUS
<1>4. PICK n2, hi2, lo2 : /\ n2 = c * ((x + s) + y) + k
                          /\ hi2 = Larger(x + s, y) /\ lo2 = Smaller(x + s, y)
  OBVIOUS
<1>5. Numbers(m, v, a, b, p, r, n, hi, lo) /\ Numbers(m, w, a, b, p, r, n2, hi2, lo2)
  <2>1. z \in Nat
    BY DEF MadeBy
  <2>2. z <= v[a] + v[b] /\ z <= w[a] + w[b]
    BY <1>1, <2>1
  <2>3. Numbers(m, v, a, b, p, r, n, hi, lo)
    BY <1>1, <1>2, <2>2, CostNumbers
  <2>4. Numbers(m, w, a, b, p, r, n2, hi2, lo2)
    <3>1. Numbers(m, w, a, b, Whole * d, 4 * d, c * (w[a] + w[b]) + k,
                  Larger(w[a], w[b]), Smaller(w[a], w[b]))
      BY <2>2, CostNumbers
    <3> QED BY <1>1, <1>2, <1>4, <3>1, Zenon
  <2> QED BY <2>3, <2>4
<1>6. Numbers(m, u, a, b, p, r, n1, hi1, lo1)
  <2>1. Numbers(m, u, a, b, Whole * d, 4 * d, c * (u[a] + u[b]) + k,
                Larger(u[a], u[b]), Smaller(u[a], u[b]))
    BY CostNumbers
  <2>2. u[a] = x - s /\ u[b] = y
    BY <1>1
  <2> QED BY <1>2, <1>3, <2>1, <2>2, Zenon
<1>7. hi1 + lo1 + hi2 + lo2 = 2 * (hi + lo) /\ 2 * hi <= hi1 + hi2
  BY <1>1, <1>2, <1>3, <1>4 DEF Larger, Smaller
<1>8. n1 + n2 = 2 * n
  <2>1. c \in Nat /\ k \in Nat
    BY DEF MadeBy
  <2>2. (c * ((x - s) + y) + k) + (c * ((x + s) + y) + k) = 2 * (c * (x + y) + k)
    BY <2>1
  <2> QED BY <1>2, <1>3, <1>4, <2>2
<1>9. /\ p \in Nat /\ r \in Nat /\ Gentle(p, r)
      /\ n \in Nat /\ n > 0 /\ hi \in Int /\ lo \in Int /\ lo <= hi
      /\ n1 \in Nat /\ n1 > 0 /\ hi1 \in Int /\ lo1 \in Int /\ lo1 <= hi1
      /\ n2 \in Nat /\ n2 > 0 /\ hi2 \in Int /\ lo2 \in Int /\ lo2 <= hi2
      /\ cost(m, v) = CostOfTwo(p, r, n, hi, lo)
      /\ cost(m, u) = CostOfTwo(p, r, n1, hi1, lo1)
      /\ cost(m, w) = CostOfTwo(p, r, n2, hi2, lo2)
  BY <1>5, <1>6 DEF Numbers
<1>10. 2 * CostOfTwo(p, r, n, hi, lo)
           <= CostOfTwo(p, r, n1, hi1, lo1) + CostOfTwo(p, r, n2, hi2, lo2)
  BY <1>7, <1>8, <1>9, CostConvex
<1> QED BY <1>9, <1>10 DEF Bent

\* The numbers of both makers at the same trades: the sensitive one has at least as much
\* liquidity for its denominator, and as much while nothing has been traded.
Beside(a, b, v, w, z, p, r, n, hi, lo, d, m) ==
    /\ p \in Nat /\ r \in Nat /\ n \in Nat /\ n > 0 /\ hi \in Int /\ lo \in Int /\ lo <= hi
    /\ d \in Nat /\ d > 0 /\ m \in Nat /\ d * n <= m /\ z \in Nat
    /\ Gentle(p, r) /\ d = Alpha[2]
    /\ hi = Larger(v[a], v[b]) /\ lo = Smaller(v[a], v[b])
    /\ PayoutOf(Classic) = p /\ PayoutOf(Sensitive) = d * p
    /\ cost(Classic, v) = CostOfTwo(p, r, n, hi, lo)
    /\ cost(Sensitive, w) = CostOfTwo(d * p, d * r, m, hi + z, lo + z)
    /\ v[a] = 0 /\ v[b] = 0 => m = d * n

LEMMA BothMakers ==
    ASSUME NEW a, NEW b, a # b, NEW z \in Nat, MadeBy(Sensitive, a, b, Alpha[1], 0, Alpha[2], z),
           Alpha[1] * (2 * z) = Liquidity * Alpha[2],
           NEW v \in [{a, b} -> Int], 0 <= v[a] + v[b],
           NEW w \in [{a, b} -> Int], w[a] = v[a] + z, w[b] = v[b] + z
    PROVE  \E p, r, n, hi, lo, d, m : Beside(a, b, v, w, z, p, r, n, hi, lo, d, m)
<1>1. PICK L \in Nat, c \in Nat, d \in Nat :
          /\ L = Liquidity /\ c = Alpha[1] /\ d = Alpha[2] /\ L > 0 /\ d > 0
  BY MakersAssumption DEF MarketRow, Classic, Fraction
<1>2. PICK x \in Int, y \in Int : x = v[a] /\ y = v[b] /\ w[a] = x + z /\ w[b] = y + z
  OBVIOUS
<1>3. PICK hi \in Int, lo \in Int : hi = Larger(x, y) /\ lo = Smaller(x, y) /\ lo <= hi
  BY DEF Larger, Smaller
<1>4. PICK p \in Nat, r \in Nat : p = Whole /\ r = 4
  BY DEF Whole
<1>5. Larger(x + z, y + z) = hi + z /\ Smaller(x + z, y + z) = lo + z
  BY <1>3 DEF Larger, Smaller
<1>6. /\ PayoutOf(Classic) = p /\ Gentle(p, r)
      /\ cost(Classic, v) = CostOfTwo(p, r, L, hi, lo)
  <2>1. MadeBy(Classic, a, b, 0, L, 1, 0)
    BY <1>1, ClassicMade
  <2>2. Numbers(Classic, v, a, b, Whole * 1, 4 * 1, 0 * (v[a] + v[b]) + L,
                Larger(v[a], v[b]), Smaller(v[a], v[b]))
    BY <2>1, CostNumbers
  <2>3. Whole * 1 = p /\ 4 * 1 = r /\ 0 * (v[a] + v[b]) + L = L
    BY <1>2, <1>4
  <2>4. Numbers(Classic, v, a, b, p, r, L, hi, lo)
    BY <1>2, <1>3, <2>2, <2>3, Zenon
  <2> QED BY <2>4 DEF Numbers
<1>7. PICK m : m = c * (w[a] + w[b]) + 0
  OBVIOUS
<1>8. /\ PayoutOf(Sensitive) = d * p /\ m \in Nat
      /\ cost(Sensitive, w) = CostOfTwo(d * p, d * r, m, hi + z, lo + z)
  <2>1. MadeBy(Sensitive, a, b, c, 0, d, z)
    BY <1>1
  <2>2. z <= w[a] + w[b]
    BY <1>2
  <2>3. Numbers(Sensitive, w, a, b, Whole * d, 4 * d, c * (w[a] + w[b]) + 0,
                Larger(w[a], w[b]), Smaller(w[a], w[b]))
    BY <2>1, <2>2, CostNumbers
  <2>4. Whole * d = d * p /\ 4 * d = d * r
    BY <1>4
  <2>5. Numbers(Sensitive, w, a, b, d * p, d * r, m, hi + z, lo + z)
    BY <1>2, <1>5, <1>7, <2>3, <2>4, Zenon
  <2> QED BY <2>5 DEF Numbers
<1>9. PICK t \in Nat : t = x + y
  BY <1>2
<1>10. m = c * t + d * L
  <2>1. (x + z) + (y + z) = t + 2 * z
    BY <1>9
  <2>2. c * (t + 2 * z) + 0 = c * t + c * (2 * z)
    OBVIOUS
  <2>3. L * d = d * L
    OBVIOUS
  <2> QED BY <1>1, <1>2, <1>7, <2>1, <2>2, <2>3
<1>11. d * L <= m
  <2>1. PICK i \in Nat, j \in Nat : i = c * t /\ j = d * L
    <3>1. c * t \in Nat /\ d * L \in Nat
      OBVIOUS
    <3> QED BY <3>1
  <2> QED BY <1>10, <2>1
<1>12. v[a] = 0 /\ v[b] = 0 => m = d * L
  <2>1. PICK j \in Nat : j = d * L
    <3>1. d * L \in Nat
      OBVIOUS
    <3> QED BY <3>1
  <2>2. c * 0 = 0
    OBVIOUS
  <2> QED BY <1>2, <1>9, <1>10, <2>1, <2>2
<1>13. hi = Larger(v[a], v[b]) /\ lo = Smaller(v[a], v[b])
  BY <1>2, <1>3
<1>14. Beside(a, b, v, w, z, p, r, L, hi, lo, d, m)
  BY <1>1, <1>3, <1>6, <1>8, <1>11, <1>12, <1>13 DEF Beside
<1> QED BY <1>14

Compared(a, b, v, w, z) ==
    /\ Alpha[2] * cost(Classic, v) <= cost(Sensitive, w) - PayoutOf(Sensitive) * z
    /\ v[a] = 0 /\ v[b] = 0 =>
          Alpha[2] * cost(Classic, v) = cost(Sensitive, w) - PayoutOf(Sensitive) * z

\* For the same shares the sensitive maker has collected and put up no less than the
\* classic one, and as much while nothing has been traded.
LEMMA MakersCompared ==
    ASSUME NEW a, NEW b, a # b, NEW z \in Nat, MadeBy(Sensitive, a, b, Alpha[1], 0, Alpha[2], z),
           Alpha[1] * (2 * z) = Liquidity * Alpha[2],
           NEW v \in [{a, b} -> Int], 0 <= v[a] + v[b],
           NEW w \in [{a, b} -> Int], w[a] = v[a] + z, w[b] = v[b] + z
    PROVE  Compared(a, b, v, w, z)
<1>1. PICK p, r, n, hi, lo, d, m : Beside(a, b, v, w, z, p, r, n, hi, lo, d, m)
  BY BothMakers
<1>2. /\ p \in Nat /\ r \in Nat /\ n \in Nat /\ n > 0 /\ hi \in Int /\ lo \in Int /\ lo <= hi
      /\ d \in Nat /\ d > 0 /\ m \in Nat /\ d * n <= m /\ z \in Nat
      /\ Gentle(p, r) /\ d = Alpha[2]
  BY <1>1 DEF Beside
<1>3. /\ PayoutOf(Sensitive) = d * p /\ cost(Classic, v) = CostOfTwo(p, r, n, hi, lo)
      /\ cost(Sensitive, w) = CostOfTwo(d * p, d * r, m, hi + z, lo + z)
  BY <1>1 DEF Beside
<1>4. PICK x \in Nat, y \in Nat : x = d * p /\ y = d * r
  <2>1. d * p \in Nat /\ d * r \in Nat
    BY <1>2
  <2> QED BY <2>1
<1>5. m > 0
  <2>1. d * n > 0
    BY <1>2
  <2> QED BY <1>2, <2>1
<1>6. d * CostOfTwo(p, r, n, hi, lo) <= CostOfTwo(x, y, m, hi, lo)
  <2>1. Scaled(p, r, n, hi, lo, d, m)
    BY <1>2, CostScales
  <2> QED BY <1>4, <2>1 DEF Scaled
<1>7. CostOfTwo(x, y, m, hi + z, lo + z) = CostOfTwo(x, y, m, hi, lo) + x * z
  <2>1. z \in Int
    OBVIOUS
  <2>2. Raised(x, y, m, hi, lo, z)
    BY <1>2, <1>5, <2>1, CostOfBoth
  <2> QED BY <2>2 DEF Raised
<1>8. CostOfTwo(p, r, n, hi, lo) \in Int /\ CostOfTwo(x, y, m, hi, lo) \in Int
  <2>1. Gentle(x, y)
    <3> SUFFICES ASSUME NEW k \in Nat, 8 * k <= Whole PROVE 2 * (k * y) <= x
      BY DEF Gentle
    <3>1. 2 * (k * r) <= p
      BY <1>2 DEF Gentle
    <3>2. PICK i \in Int : i = 2 * (k * r)
      BY <1>2
    <3>3. d * i <= d * p
      BY <1>2, <3>1, <3>2
    <3>4. d * i = 2 * (k * y)
      BY <1>2, <1>4, <3>2
    <3> QED BY <1>4, <3>3, <3>4
  <2>2. CostOfTwo(p, r, n, hi, lo) \in Int
    BY <1>2, CostSupported
  <2> QED BY <1>2, <1>5, <2>1, <2>2, CostSupported
<1>9. PICK e \in Int, g \in Int, h \in Int :
          e = CostOfTwo(p, r, n, hi, lo) /\ g = CostOfTwo(x, y, m, hi, lo) /\ h = x * z
  BY <1>8
<1>10. cost(Classic, v) = e /\ cost(Sensitive, w) = g + h /\ PayoutOf(Sensitive) * z = h
  BY <1>3, <1>4, <1>7, <1>9
<1>11. d * e <= g
  BY <1>6, <1>9
<1>12. ASSUME v[a] = 0, v[b] = 0 PROVE d * e = g
  <2>1. hi = 0 /\ lo = 0 /\ m = d * n
    BY <1>1, <1>12 DEF Beside, Larger, Smaller
  <2>2. PICK s \in Int, u \in Nat : s = 0 /\ u = SoftplusAt(0)
    BY Table
  <2>3. Level(p, r, n, s) /\ Level(x, y, m, s)
    BY <1>2, <1>5, CostLevel
  <2>4. e = p * s + u * n /\ g = x * s + u * m
    BY <1>9, <2>1, <2>2, <2>3 DEF Level
  <2>5. p * s = 0 /\ x * s = 0
    BY <1>2, <2>2
  <2>6. PICK i \in Int, j \in Int : i = u * n /\ j = u * m
    BY <1>2
  <2>7. e = i /\ g = j
    BY <2>4, <2>5, <2>6
  <2>8. d * (u * n) = u * (d * n)
    BY <1>2
  <2> QED BY <2>1, <2>6, <2>7, <2>8
<1>13. PICK k \in Int : k = d * e
  BY <1>2
<1>14. Alpha[2] * cost(Classic, v) = k /\ cost(Sensitive, w) - PayoutOf(Sensitive) * z = g
  BY <1>2, <1>10, <1>13
<1> QED BY <1>11, <1>12, <1>13, <1>14 DEF Compared

LEMMA TwoOutcomes == ASSUME Binary PROVE \E a, b : a # b /\ Outcomes = {a, b}
<1>1. IsFiniteSet(Outcomes) /\ Cardinality(Outcomes) = 2
  BY DEF Binary
<1>2. PICK a \in Outcomes : TRUE
  BY <1>1, FS_EmptySet
<1>3. IsFiniteSet(Outcomes \ {a}) /\ Cardinality(Outcomes \ {a}) = 1
  BY <1>1, <1>2, FS_RemoveElement
<1>4. PICK b : Outcomes \ {a} = {b}
  BY <1>3, FS_Singleton
<1> QED BY <1>2, <1>4

\* What SpreadKept says of one maker and one outcome, a.
LEMMA MakerKeeps ==
    ASSUME NEW a, NEW b, a # b, Outcomes = {a, b},
           NEW m, NEW c, NEW k, NEW d, NEW z, MadeBy(m, a, b, c, k, d, z),
           NEW v \in [Outcomes -> Int], \A i \in Outcomes : v[i] >= 0, NEW s \in Nat
    PROVE  /\ CostAbove(m, [i \in Outcomes |-> v[i] + 1]) - CostAbove(m, v) >= PayoutOf(m)
           /\ CostAbove(m, v) >= PayoutOf(m) * v[a]
           /\ previewSell(m, Seeded(m, v), a, s) >= 0
           /\ previewSell(m, Seeded(m, v), a, s) <= costOfBuying(m, Seeded(m, v), a, s)
<1>1. z \in Nat /\ seedPerOutcome(m, Cardinality(Outcomes)) = z
  BY DEF MadeBy
<1>2. PICK x \in Nat, y \in Nat : x = v[a] /\ y = v[b]
  OBVIOUS
<1>3. PICK w : w = Seeded(m, v)
  OBVIOUS
<1>4. w \in [{a, b} -> Int] /\ w[a] = x + z /\ w[b] = y + z
  BY <1>1, <1>2, <1>3 DEF Seeded
<1>5. z <= w[a] + w[b]
  BY <1>1, <1>4
<1>6. /\ cost(m, w) \in Int /\ PayoutOf(m) \in Nat
      /\ PayoutOf(m) * w[a] <= cost(m, w)
  BY <1>4, <1>5, MakerCovered
<1>7. PICK P \in Nat, e \in Int : P = PayoutOf(m) /\ e = cost(m, w)
  BY <1>6
<1>8. CostAbove(m, v) = e - P * z
  BY <1>1, <1>3, <1>7 DEF CostAbove
<1>9. CostAbove(m, [i \in Outcomes |-> v[i] + 1]) - CostAbove(m, v) >= PayoutOf(m)
  <2>1. PICK v2 : v2 = [i \in Outcomes |-> v[i] + 1]
    OBVIOUS
  <2>2. PICK w2 : w2 = Seeded(m, v2)
    OBVIOUS
  <2>3. w2 \in [{a, b} -> Int] /\ w2[a] = w[a] + 1 /\ w2[b] = w[b] + 1
    BY <1>1, <1>2, <1>4, <2>1, <2>2 DEF Seeded
  <2>4. cost(m, w) + PayoutOf(m) <= cost(m, w2)
    BY <1>4, <1>5, <2>3, MakerSet
  <2>5. z <= w2[a] + w2[b]
    BY <1>1, <1>4, <2>3
  <2>6. cost(m, w2) \in Int
    BY <2>3, <2>5, MakerCovered
  <2>7. CostAbove(m, v2) = cost(m, w2) - P * z
    BY <1>1, <1>7, <2>2 DEF CostAbove
  <2>8. PICK g \in Int, t \in Int : g = cost(m, w2) /\ t = P * z
    BY <1>1, <2>6
  <2> QED BY <1>7, <1>8, <2>1, <2>4, <2>7, <2>8
<1>10. CostAbove(m, v) >= PayoutOf(m) * v[a]
  <2>1. P * (x + z) = P * x + P * z
    BY <1>1
  <2>2. P * (x + z) <= e
    BY <1>4, <1>6, <1>7
  <2>3. PICK g \in Int, t \in Int : g = P * x /\ t = P * z
    BY <1>1
  <2> QED BY <1>2, <1>7, <1>8, <2>1, <2>2, <2>3
<1>11. PICK up : up = [w EXCEPT ![a] = @ + s]
  OBVIOUS
<1>12. up \in [{a, b} -> Int] /\ up[a] = w[a] + s /\ up[b] = w[b]
  BY <1>4, <1>11
<1>13. costOfBuying(m, w, a, s) = cost(m, up) - cost(m, w)
  BY <1>11 DEF costOfBuying
<1>14. cost(m, w) <= cost(m, up)
  BY <1>4, <1>5, <1>12, MakerRises
<1>15. cost(m, up) \in Int
  <2>1. z <= up[a] + up[b]
    BY <1>1, <1>4, <1>12
  <2> QED BY <1>12, <2>1, MakerCovered
<1>16. CASE s <= w[a]
  <2>1. PICK down : down = [w EXCEPT ![a] = @ - s]
    OBVIOUS
  <2>2. down \in [{a, b} -> Int] /\ w[a] = down[a] + s /\ w[b] = down[b] /\ down[a] <= w[a]
    BY <1>4, <2>1
  <2>3. z <= down[a] + down[b]
    BY <1>1, <1>4, <1>16, <2>1
  <2>4. previewSell(m, w, a, s) = cost(m, w) - cost(m, down)
    BY <1>16, <2>1 DEF previewSell, Refundable, refundForSelling
  <2>5. cost(m, down) <= cost(m, w)
    <3>1. down[b] <= w[b]
      BY <1>4, <2>2
    <3> QED BY <1>4, <2>2, <2>3, <3>1, MakerRises
  <2>6. cost(m, down) \in Int
    BY <2>2, <2>3, MakerCovered
  <2>7. 2 * cost(m, w) <= cost(m, down) + cost(m, up)
    <3>1. Bent(m, down, w, up)
      BY <1>4, <1>12, <2>2, <2>3, MakerBends
    <3> QED BY <3>1 DEF Bent
  <2>8. PICK g \in Int, h \in Int : g = cost(m, down) /\ h = cost(m, up)
    BY <1>15, <2>6
  <2>9. e - g >= 0 /\ e - g <= h - e
    BY <1>7, <2>5, <2>7, <2>8
  <2> QED BY <1>3, <1>7, <1>9, <1>10, <1>13, <2>4, <2>8, <2>9
<1>17. CASE ~(s <= w[a])
  <2>1. previewSell(m, w, a, s) = 0
    BY <1>17 DEF previewSell, Refundable
  <2>2. cost(m, up) - cost(m, w) >= 0
    BY <1>6, <1>14, <1>15
  <2> QED BY <1>3, <1>9, <1>10, <1>13, <2>1, <2>2
<1> QED BY <1>16, <1>17

LEMMA SpreadAt ==
    ASSUME Comparable, q \in Quantities
    PROVE  SpreadKept
<1> SUFFICES ASSUME \A i \in Outcomes : q[i] >= 0 PROVE SpreadKept
  BY DEF SpreadKept
<1>1. PICK a, b : a # b /\ Outcomes = {a, b}
  BY TwoOutcomes DEF Comparable
<1>2. q \in [Outcomes -> Int] /\ InitialQ = [i \in Outcomes |-> 0]
  <2>1. Seed = 0
    BY DEF Comparable, seedPerOutcome, Classic
  <2> QED BY <2>1, NumbersAssumption DEF Quantities, Stock, InitialQ
<1>3. PICK z \in Nat : /\ MadeBy(Sensitive, a, b, Alpha[1], 0, Alpha[2], z)
                       /\ Alpha[1] * (2 * z) = Liquidity * Alpha[2]
  BY <1>1, SensitiveMade
<1>4. MadeBy(Classic, a, b, 0, Liquidity, 1, 0)
  BY ClassicMade
<1>5. ASSUME NEW v \in [Outcomes -> Int], \A i \in Outcomes : v[i] >= 0
      PROVE  /\ CostAbove(Classic, v) \in Int
             /\ CostAbove(Sensitive, v) \in Int
             /\ Alpha[2] * CostAbove(Classic, v) <= CostAbove(Sensitive, v)
             /\ v[a] = 0 /\ v[b] = 0 =>
                    Alpha[2] * CostAbove(Classic, v) = CostAbove(Sensitive, v)
  <2>1. PICK w : w = Seeded(Sensitive, v)
    OBVIOUS
  <2>2. seedPerOutcome(Sensitive, Cardinality(Outcomes)) = z
    BY <1>3 DEF MadeBy
  <2>3. w \in [{a, b} -> Int] /\ w[a] = v[a] + z /\ w[b] = v[b] + z /\ v \in [{a, b} -> Int]
    BY <1>1, <1>5, <2>1, <2>2 DEF Seeded
  <2>4. 0 <= v[a] + v[b] /\ z <= w[a] + w[b]
    <3>1. v[a] >= 0 /\ v[b] >= 0 /\ v[a] \in Int /\ v[b] \in Int
      BY <1>1, <1>5
    <3> QED BY <2>3, <3>1
  <2>5. /\ Alpha[2] * cost(Classic, v) <= cost(Sensitive, w) - PayoutOf(Sensitive) * z
        /\ v[a] = 0 /\ v[b] = 0 =>
              Alpha[2] * cost(Classic, v) = cost(Sensitive, w) - PayoutOf(Sensitive) * z
    <3>1. Compared(a, b, v, w, z)
      BY <1>1, <1>3, <2>3, <2>4, MakersCompared
    <3> QED BY <3>1 DEF Compared
  <2>6. cost(Sensitive, w) \in Int /\ PayoutOf(Sensitive) \in Nat
    BY <1>1, <1>3, <2>3, <2>4, MakerCovered
  <2>7. cost(Classic, v) \in Int /\ PayoutOf(Classic) \in Nat
    BY <1>1, <1>4, <2>3, <2>4, MakerCovered
  <2>8. CostAbove(Sensitive, v) = cost(Sensitive, w) - PayoutOf(Sensitive) * z
    BY <2>1, <2>2 DEF CostAbove
  <2>9. CostAbove(Classic, v) = cost(Classic, v)
    <3>1. seedPerOutcome(Classic, Cardinality(Outcomes)) = 0
      BY DEF seedPerOutcome, Classic
    <3>2. Seeded(Classic, v) = v
      BY <1>5, <3>1 DEF Seeded
    <3> QED BY <2>7, <3>1, <3>2 DEF CostAbove
  <2>10. PICK t \in Int : t = PayoutOf(Sensitive) * z
    BY <2>6
  <2> QED BY <2>5, <2>6, <2>7, <2>8, <2>9, <2>10
<1>6. PICK D \in Nat, A \in Int, B \in Int, A0 \in Int, B0 \in Int :
          /\ D = Alpha[2] /\ A = CostAbove(Classic, q) /\ B = CostAbove(Sensitive, q)
          /\ A0 = CostAbove(Classic, InitialQ) /\ B0 = CostAbove(Sensitive, InitialQ)
          /\ D * A <= B /\ D * A0 = B0
  <2>1. Alpha[2] \in Nat
    BY MakersAssumption DEF MarketRow, Classic, Fraction
  <2>2. /\ InitialQ \in [Outcomes -> Int] /\ \A i \in Outcomes : InitialQ[i] >= 0
        /\ InitialQ[a] = 0 /\ InitialQ[b] = 0
    BY <1>1, <1>2
  <2>3. /\ CostAbove(Classic, q) \in Int /\ CostAbove(Sensitive, q) \in Int
        /\ Alpha[2] * CostAbove(Classic, q) <= CostAbove(Sensitive, q)
    BY <1>2, <1>5
  <2>4. /\ CostAbove(Classic, InitialQ) \in Int /\ CostAbove(Sensitive, InitialQ) \in Int
        /\ Alpha[2] * CostAbove(Classic, InitialQ) = CostAbove(Sensitive, InitialQ)
    BY <1>5, <2>2
  <2> QED BY <2>1, <2>3, <2>4
<1>7. D * (A - A0) <= B - B0 /\ B0 <= D * A0
  <2>1. D * (A - A0) = D * A - D * A0
    OBVIOUS
  <2>2. PICK g \in Int, h \in Int : g = D * A /\ h = D * A0
    OBVIOUS
  <2> QED BY <1>6, <2>1, <2>2
<1>8. ASSUME NEW m \in {Classic, Sensitive}, NEW i \in Outcomes, NEW s \in Nat
      PROVE  /\ CostAbove(m, [j \in Outcomes |-> q[j] + 1]) - CostAbove(m, q) >= PayoutOf(m)
             /\ CostAbove(m, q) >= PayoutOf(m) * q[i]
             /\ previewSell(m, Seeded(m, q), i, s) >= 0
             /\ previewSell(m, Seeded(m, q), i, s) <= costOfBuying(m, Seeded(m, q), i, s)
  <2>1. PICK j : i # j /\ Outcomes = {i, j}
    BY <1>1
  <2>2. PICK c, k, d, x : MadeBy(m, i, j, c, k, d, x)
    BY <2>1, ClassicMade, SensitiveMade
  <2> QED BY <1>2, <2>1, <2>2, MakerKeeps
<1>9. ASSUME NEW m \in {Classic, Sensitive}
      PROVE  /\ CostAbove(m, [i \in Outcomes |-> q[i] + 1]) - CostAbove(m, q) >= PayoutOf(m)
             /\ \A i \in Outcomes : CostAbove(m, q) >= PayoutOf(m) * q[i]
             /\ \A i \in Outcomes, s \in Lots :
                   LET refund == previewSell(m, Seeded(m, q), i, s) IN
                   refund >= 0 /\ refund <= costOfBuying(m, Seeded(m, q), i, s)
  <2>1. a \in Outcomes /\ 0 \in Nat /\ Lots \subseteq Nat
    BY <1>1, NumbersAssumption
  <2> QED BY <1>8, <2>1
<1> QED BY <1>6, <1>7, <1>9 DEF SpreadKept

\* Dividing a whole number rounds it down, and keeps the order.
LEMMA RoundedDown ==
    ASSUME NEW x \in Int, NEW n \in Nat, n > 0
    PROVE  x \div n \in Int /\ n * (x \div n) <= x /\ x < n * (x \div n) + n
<1>1. x \div n \in Int /\ x = n * (x \div n) + (x % n) /\ (x % n) \in 0..(n - 1)
  OBVIOUS
<1>2. PICK d \in Int, t \in Int : d = n * (x \div n) /\ t = (x % n) /\ 0 <= t /\ t < n
  BY <1>1
<1> QED BY <1>1, <1>2

LEMMA QuotientAtLeast ==
    ASSUME NEW x \in Int, NEW n \in Nat, n > 0, NEW g \in Int, n * g <= x
    PROVE  g <= x \div n
<1>1. PICK f \in Int : f = x \div n /\ x < n * f + n
  BY RoundedDown
<1> SUFFICES ASSUME f + 1 <= g PROVE FALSE
  BY <1>1
<1>2. n * (f + 1) <= n * g
  OBVIOUS
<1>3. n * (f + 1) = n * f + n
  OBVIOUS
<1>4. PICK i \in Int, j \in Int : i = n * f /\ j = n * g
  OBVIOUS
<1> QED BY <1>1, <1>2, <1>3, <1>4

LEMMA QuotientGrows ==
    ASSUME NEW x \in Int, NEW y \in Int, x <= y, NEW n \in Nat, n > 0
    PROVE  x \div n <= y \div n
<1>1. PICK f \in Int : f = x \div n /\ n * f <= x
  BY RoundedDown
<1>2. PICK i \in Int : i = n * f
  OBVIOUS
<1>3. n * f <= y
  BY <1>1, <1>2
<1> QED BY <1>1, <1>3, QuotientAtLeast

\* The classic maker is a cost function that Trading assumes: it is defined for whatever
\* quantities and liquidity, no purchase makes it fall, and it covers every outcome.
THEOREM ClassicMeetsTrading ==
    ASSUME Binary
    PROVE  /\ \A v \in Quantities : InHundredths(Classic, v) \in Int
           /\ \A v \in Quantities, i \in Outcomes, s \in Lots :
                 v[i] + s \in Stock =>
                    InHundredths(Classic, NewQ(v, i, s)) - InHundredths(Classic, v) >= 0
           /\ \A v \in Quantities, i \in Outcomes : InHundredths(Classic, v) >= Payout * v[i]
<1>1. ASSUME NEW v \in [Outcomes -> Int], NEW i \in Outcomes
      PROVE  \E P \in Nat : /\ P = PayoutOf(Classic) /\ P > 0
                           /\ cost(Classic, v) \in Int /\ P * v[i] <= cost(Classic, v)
  <2>1. PICK j : i # j /\ Outcomes = {i, j}
    BY TwoOutcomes
  <2>2. PICK c, k, d, z : MadeBy(Classic, i, j, c, k, d, z) /\ c = 0
    BY ClassicMade
  <2>3. cost(Classic, v) \in Int /\ PayoutOf(Classic) * v[i] <= cost(Classic, v)
    BY <2>1, <2>2, MakerCovered
  <2>4. PayoutOf(Classic) \in Nat /\ PayoutOf(Classic) > 0
    BY DEF PayoutOf, Classic, Whole
  <2> QED BY <2>3, <2>4
<1>2. ASSUME NEW v \in [Outcomes -> Int], NEW i \in Outcomes
      PROVE  /\ InHundredths(Classic, v) \in Int
             /\ 100 * v[i] <= InHundredths(Classic, v)
  <2>1. PICK P \in Nat : /\ P = PayoutOf(Classic) /\ P > 0
                         /\ cost(Classic, v) \in Int /\ P * v[i] <= cost(Classic, v)
    BY <1>1
  <2>2. PICK e \in Int, x \in Int : e = cost(Classic, v) /\ x = v[i] /\ P * x <= e
    BY <2>1
  <2>3. PICK n \in Nat, y \in Int, g \in Int :
            n = 2 * P /\ n > 0 /\ y = 200 * e + P /\ g = 100 * x
    BY <2>1
  <2>4. n * g <= y
    <3>1. n * g = 200 * (P * x)
      BY <2>3
    <3>2. PICK j \in Int : j = P * x
      OBVIOUS
    <3> QED BY <2>2, <2>3, <3>1, <3>2
  <2>5. g <= y \div n /\ y \div n \in Int
    BY <2>3, <2>4, QuotientAtLeast, RoundedDown
  <2>6. InHundredths(Classic, v) = y \div n
    BY <2>1, <2>2, <2>3 DEF InHundredths
  <2> QED BY <2>2, <2>3, <2>5, <2>6
<1>3. ASSUME NEW v \in [Outcomes -> Int], NEW i \in Outcomes, NEW s \in Nat
      PROVE  InHundredths(Classic, v) <= InHundredths(Classic, NewQ(v, i, s))
  <2>1. PICK w : w = NewQ(v, i, s)
    OBVIOUS
  <2>2. PICK j : i # j /\ Outcomes = {i, j}
    BY TwoOutcomes
  <2>3. PICK c, k, d, z : MadeBy(Classic, i, j, c, k, d, z) /\ c = 0
    BY ClassicMade
  <2>4. w \in [Outcomes -> Int] /\ v[i] <= w[i] /\ v[j] <= w[j]
    BY <2>1, <2>2 DEF NewQ
  <2>5. cost(Classic, v) <= cost(Classic, w)
    BY <2>2, <2>3, <2>4, MakerRises
  <2>6. PICK P \in Nat : P = PayoutOf(Classic) /\ P > 0
    BY <1>1
  <2>7. PICK e \in Int, f \in Int : e = cost(Classic, v) /\ f = cost(Classic, w) /\ e <= f
    BY <1>1, <2>4, <2>5
  <2>8. PICK n \in Nat, x \in Int, y \in Int :
            n = 2 * P /\ n > 0 /\ x = 200 * e + P /\ y = 200 * f + P /\ x <= y
    BY <2>6, <2>7
  <2>9. InHundredths(Classic, v) = x \div n /\ InHundredths(Classic, w) = y \div n
    BY <2>6, <2>7, <2>8 DEF InHundredths
  <2> QED BY <2>1, <2>8, <2>9, QuotientGrows
<1>4. ASSUME NEW v \in Quantities PROVE v \in [Outcomes -> Int]
  BY NumbersAssumption DEF Quantities, Stock
<1>5. ASSUME NEW v \in Quantities, NEW i \in Outcomes, NEW s \in Lots, v[i] + s \in Stock
      PROVE  InHundredths(Classic, NewQ(v, i, s)) - InHundredths(Classic, v) >= 0
  <2>1. s \in Nat /\ v \in [Outcomes -> Int]
    BY <1>4, NumbersAssumption
  <2>2. NewQ(v, i, s) \in [Outcomes -> Int]
    BY <2>1 DEF NewQ
  <2>3. PICK x \in Int, y \in Int :
            x = InHundredths(Classic, v) /\ y = InHundredths(Classic, NewQ(v, i, s))
    BY <1>2, <2>1, <2>2
  <2> QED BY <1>3, <2>1, <2>3
<1>6. Payout = 100 /\ \E i \in Outcomes : TRUE
  BY TwoOutcomes DEF Binary
<1>7. ASSUME NEW v \in Quantities, NEW i \in Outcomes
      PROVE  InHundredths(Classic, v) >= Payout * v[i]
  <2>1. v[i] \in Int
    BY <1>4
  <2> QED BY <1>2, <1>4, <1>6, <2>1
<1> QED BY <1>2, <1>4, <1>5, <1>6, <1>7

\* Whatever the liquidity and alpha, and whatever is traded, the sensitive maker collects
\* and risks no worse than the classic one for the same trades, a set of shares is never
\* sold below what it pays, every outcome is covered, and a refund lies between nothing
\* and the price of the next shares.
THEOREM SpreadHolds == ASSUME Comparable PROVE Spec => []SpreadKept
<1>1. TypeOK => q \in Quantities
  BY DEF TypeOK
<1>2. TypeOK => SpreadKept
  BY <1>1, SpreadAt
<1> QED
  BY <1>2, TypeCorrect, PTL
=============================================================================
