---------------------------- MODULE WalletProofs ----------------------------
(* Theorems about Wallet, for every set of users, markets and requests, any *)
(* amounts and any failures.                                                *)
EXTENDS Wallet, FiniteSetTheorems, TLAPS

LEMMA Defaults ==
    /\ (CHOOSE u \in Users : TRUE) \in Users
    /\ NoMarket \in Markets
    /\ NoJob \in Job
<1>1. (CHOOSE u \in Users : TRUE) \in Users /\ NoMarket \in Markets
  BY WalletAssumption DEF NoMarket
<1> QED
  BY <1>1, WalletAssumption DEF NoJob, JobOf, Job

\* How many requests of a user are at a stage, when one handler moves.
At(h, u, stage) == IF pc[h] = stage /\ job[h].user = u THEN 1 ELSE 0

LEMMA InFlightMoves ==
    ASSUME TypeOK, NEW h \in Handlers, NEW s \in Stages, NEW j \in Job, Goto(h, s, j),
           NEW u \in Users, NEW stage \in Stages
    PROVE  /\ Cardinality(InFlight(u, stage)) \in Nat
           /\ Cardinality(InFlight(u, stage))' \in Nat
           /\ Cardinality(InFlight(u, stage))'
                = Cardinality(InFlight(u, stage)) - At(h, u, stage)
                    + (IF s = stage /\ j.user = u THEN 1 ELSE 0)
<1> DEFINE S == InFlight(u, stage)
           R == S \ {h}
<1>1. IsFiniteSet(S) /\ IsFiniteSet(R) /\ Cardinality(R) \in Nat
  BY WalletAssumption, FS_Subset, FS_CardinalityType DEF InFlight
<1>2. R = S' \ {h}
  BY DEF InFlight, Goto, TypeOK
<1>3. IsFiniteSet(S')
  BY WalletAssumption, FS_Subset DEF InFlight
<1>4. S = IF pc[h] = stage /\ job[h].user = u THEN R \cup {h} ELSE R
  BY DEF InFlight
<1>5. S' = IF s = stage /\ j.user = u THEN R \cup {h} ELSE R
  BY <1>2 DEF InFlight, Goto, TypeOK
<1>6. h \notin R
  OBVIOUS
<1> HIDE DEF S, R
<1>7. Cardinality(R \cup {h}) = Cardinality(R) + 1
  BY <1>1, <1>6, FS_AddElement
<1>8. /\ Cardinality(S) = Cardinality(R) + At(h, u, stage)
      /\ Cardinality(S') = Cardinality(R) + (IF s = stage /\ j.user = u THEN 1 ELSE 0)
  BY <1>1, <1>4, <1>5, <1>7 DEF At
<1>9. At(h, u, stage) \in {0, 1} /\ (IF s = stage /\ j.user = u THEN 1 ELSE 0) \in {0, 1}
  BY DEF At
<1>10. /\ Cardinality(S) \in Nat /\ Cardinality(S') \in Nat
       /\ Cardinality(S') = Cardinality(S) - At(h, u, stage)
                              + (IF s = stage /\ j.user = u THEN 1 ELSE 0)
  BY <1>1, <1>8, <1>9
<1> QED
  BY <1>10 DEF S

-----------------------------------------------------------------------------
(* Any number of requests in flight, any failures. *)

\* A request past ensureUser has an account, and pays what the position holds.
JobsSound ==
    \A h \in Handlers :
        /\ pc[h] \notin {"idle", "creating"} => exists[job[h].user]
        /\ pc[h] = "claimDue" => job[h].due = Shares[<<job[h].user, job[h].market>>]

NoAccountNoChips == \A u \in Users : ~exists[u] => balance[u] = 0

Inv == TypeOK /\ JobsSound /\ NoAccountNoChips /\ LedgerAccounts /\ ClaimedIsPaid

LEMMA InitInv == Init => Inv
<1> SUFFICES ASSUME Init PROVE Inv
  OBVIOUS
<1>1. TypeOK
  BY Defaults, WalletAssumption DEF Init, TypeOK, Stages, Positions
<1>2. JobsSound /\ NoAccountNoChips /\ ClaimedIsPaid
  BY WalletAssumption DEF Init, JobsSound, NoAccountNoChips, ClaimedIsPaid, Positions
<1>3. ASSUME NEW u \in Users, NEW stage \in {"signupEntry", "bonusEntry"}
      PROVE  Cardinality(InFlight(u, stage)) = 0
  <2>1. InFlight(u, stage) = {}
    BY DEF Init, InFlight
  <2> QED
    BY <2>1, FS_EmptySet
<1>4. LedgerAccounts
  <2> SUFFICES ASSUME NEW u \in Users
               PROVE  balance[u] = ledger[u] + missing[u]
                         + Signup * Cardinality(InFlight(u, "signupEntry"))
                         + Bonus * Cardinality(InFlight(u, "bonusEntry"))
    BY DEF LedgerAccounts
  <2>1. balance[u] = ledger[u] /\ balance[u] \in Int /\ missing[u] = 0
    BY WalletAssumption DEF Init
  <2> QED
    BY <1>3, <2>1, WalletAssumption
<1> QED
  BY <1>1, <1>2, <1>4 DEF Inv

LEMMA ArrivalType ==
    ASSUME TypeOK, NEW u \in Users, Arrives(u) PROVE served' \in Nat /\ rivals' \subseteq Users
  BY DEF TypeOK, Arrives

\* A handler that moves owes, before and after, what its stages say; the ledger
\* accounts for the balances if the accounts and rows move by the difference.
LEMMA AccountsMove ==
    ASSUME Inv, NEW h \in Handlers, NEW s \in Stages, NEW j \in Job, Goto(h, s, j),
           \A u \in Users : /\ balance'[u] \in Int /\ ledger'[u] \in Int /\ missing'[u] \in Int,
           \A u \in Users :
              (balance'[u] - ledger'[u] - missing'[u]) - (balance[u] - ledger[u] - missing[u])
                 = (IF u = j.user THEN Owed(s) ELSE 0)
                     - (IF u = job[h].user THEN Owed(pc[h]) ELSE 0)
    PROVE  LedgerAccounts'
<1> SUFFICES ASSUME NEW u \in Users
             PROVE  balance'[u] = ledger'[u] + missing'[u]
                         + Signup * Cardinality(InFlight(u, "signupEntry"))'
                         + Bonus * Cardinality(InFlight(u, "bonusEntry"))'
  BY DEF LedgerAccounts
<1> DEFINE a == Cardinality(InFlight(u, "signupEntry"))
           b == Cardinality(InFlight(u, "bonusEntry"))
           da == (IF s = "signupEntry" /\ j.user = u THEN 1 ELSE 0) - At(h, u, "signupEntry")
           db == (IF s = "bonusEntry" /\ j.user = u THEN 1 ELSE 0) - At(h, u, "bonusEntry")
<1>1. "signupEntry" \in Stages /\ "bonusEntry" \in Stages
  BY DEF Stages
<1>2. At(h, u, "signupEntry") \in {0, 1} /\ At(h, u, "bonusEntry") \in {0, 1}
  BY DEF At
<1>3. a \in Nat /\ b \in Nat /\ a' \in Nat /\ b' \in Nat /\ a' = a + da /\ b' = b + db
  BY <1>1, <1>2, InFlightMoves DEF Inv
<1>4. Signup * a' = Signup * a + Signup * da /\ Bonus * b' = Bonus * b + Bonus * db
  <2>1. da \in Int /\ db \in Int
    BY <1>2
  <2> HIDE DEF a, b, da, db
  <2> QED
    BY <1>3, <2>1, WalletAssumption
<1>5. Signup * da + Bonus * db = (IF u = j.user THEN Owed(s) ELSE 0)
                                    - (IF u = job[h].user THEN Owed(pc[h]) ELSE 0)
  BY WalletAssumption DEF At, Owed
<1>6. /\ balance[u] = ledger[u] + missing[u] + Signup * a + Bonus * b
      /\ balance[u] \in Int /\ ledger[u] \in Int /\ missing[u] \in Int
  BY DEF Inv, TypeOK, LedgerAccounts
<1>7. /\ Signup * a \in Int /\ Bonus * b \in Int /\ Signup * da \in Int /\ Bonus * db \in Int
      /\ Signup * a' \in Int /\ Bonus * b' \in Int
  <2>1. da \in Int /\ db \in Int
    BY <1>2
  <2> HIDE DEF a, b, da, db
  <2> QED
    BY <1>3, <2>1, WalletAssumption
<1> HIDE DEF a, b, da, db
<1>8. balance'[u] = ledger'[u] + missing'[u] + Signup * a' + Bonus * b'
  BY <1>4, <1>5, <1>6, <1>7
<1> QED
  BY <1>8 DEF a, b

\* What a handler's move keeps when it changes no account and no row.
LEMMA ReadInv ==
    ASSUME Inv, NEW h \in Handlers, NEW s \in Stages, NEW j \in Job, Goto(h, s, j),
           UNCHANGED <<account, rows, now>>, served' \in Nat, rivals' \subseteq Users,
           Owed(s) = 0, Owed(pc[h]) = 0,
           s \notin {"idle", "creating"} => exists[j.user],
           s = "claimDue" => j.due = Shares[<<j.user, j.market>>]
    PROVE  Inv'
<1>1. TypeOK'
  BY DEF Inv, TypeOK, Goto, account, rows
<1>2. JobsSound'
  BY DEF Inv, TypeOK, JobsSound, Goto, account
<1>3. LedgerAccounts'
  <2>1. \A u \in Users :
           /\ balance'[u] \in Int /\ ledger'[u] \in Int /\ missing'[u] \in Int
           /\ (balance'[u] - ledger'[u] - missing'[u])
                 - (balance[u] - ledger[u] - missing[u]) = 0
    BY DEF Inv, TypeOK, account, rows
  <2> QED
    BY <2>1, AccountsMove
<1> QED
  BY <1>1, <1>2, <1>3 DEF Inv, NoAccountNoChips, ClaimedIsPaid, account, rows

LEMMA FindMissingInv == ASSUME Inv, NEW h \in Handlers, FindMissing(h) PROVE Inv'
<1>1. PICK u \in Users, bonus \in {0, 1} :
         Goto(h, "creating", JobOf(u, bonus, 0, 0, {}, NoMarket, 0)) /\ Arrives(u)
  BY DEF FindMissing
<1>2. JobOf(u, bonus, 0, 0, {}, NoMarket, 0) \in Job
  BY Defaults, WalletAssumption DEF Job, JobOf
<1> QED
  BY <1>1, <1>2, ReadInv, ArrivalType DEF FindMissing, Owed, Stages, Inv

LEMMA BonusStartInv == ASSUME Inv, NEW h \in Handlers, BonusStart(h) PROVE Inv'
<1>1. PICK u \in Users :
         exists[u] /\ Goto(h, "bonusDue", JobOf(u, 1, now, 0, {}, NoMarket, 0)) /\ Arrives(u)
  BY DEF BonusStart
<1>2. JobOf(u, 1, now, 0, {}, NoMarket, 0) \in Job
  BY Defaults, WalletAssumption DEF Inv, TypeOK, Job, JobOf
<1>3. JobOf(u, 1, now, 0, {}, NoMarket, 0).user = u
  BY DEF JobOf
<1> QED
  BY <1>1, <1>2, <1>3, ReadInv, ArrivalType DEF BonusStart, Owed, Stages, Inv

LEMMA ClaimJob ==
    ASSUME NEW u \in Users, NEW todo \in SUBSET Markets, NEW m \in Markets, NEW due \in Nat
    PROVE  /\ JobOf(u, 0, 0, 0, todo, m, due) \in Job
           /\ JobOf(u, 0, 0, 0, todo, m, due).user = u
           /\ JobOf(u, 0, 0, 0, todo, m, due).market = m
           /\ JobOf(u, 0, 0, 0, todo, m, due).due = due
  BY WalletAssumption DEF Job, JobOf

LEMMA ClaimStartInv == ASSUME Inv, NEW h \in Handlers, ClaimStart(h) PROVE Inv'
<1>1. PICK u \in Users, todo \in SUBSET Markets :
         exists[u] /\ Goto(h, "claiming", JobOf(u, 0, 0, 0, todo, NoMarket, 0)) /\ Arrives(u)
  BY DEF ClaimStart
<1>2. /\ JobOf(u, 0, 0, 0, todo, NoMarket, 0) \in Job
      /\ JobOf(u, 0, 0, 0, todo, NoMarket, 0).user = u
  BY Defaults, ClaimJob
<1> QED
  BY <1>1, <1>2, ReadInv, ArrivalType DEF ClaimStart, Owed, Stages, Inv

LEMMA ClaimReadInv == ASSUME Inv, NEW h \in Handlers, ClaimRead(h) PROVE Inv'
<1> DEFINE j == job[h]
<1>1. j.user \in Users /\ j.todo \in SUBSET Markets /\ exists[j.user]
  BY DEF Inv, TypeOK, JobsSound, Job, ClaimRead
<1>2. PICK m \in j.todo :
         Goto(h, "claimDue", JobOf(j.user, 0, 0, 0, j.todo, m, Shares[<<j.user, m>>]))
  BY DEF ClaimRead
<1>3. m \in Markets /\ Shares[<<j.user, m>>] \in Nat
  BY <1>1, WalletAssumption DEF Positions
<1> DEFINE n == JobOf(j.user, 0, 0, 0, j.todo, m, Shares[<<j.user, m>>])
<1>4. n \in Job /\ n.user = j.user /\ n.market = m /\ n.due = Shares[<<j.user, m>>]
  BY <1>1, <1>3, ClaimJob
<1>5. Goto(h, "claimDue", n)
  BY <1>2
<1> HIDE DEF n
<1>6. Owed("claimDue") = 0 /\ Owed(pc[h]) = 0 /\ "claimDue" \in Stages
  BY DEF ClaimRead, Owed, Stages
<1>7. UNCHANGED <<account, rows, now>> /\ served' \in Nat /\ rivals' \subseteq Users
  BY DEF ClaimRead, history, Inv, TypeOK
<1> QED
  BY <1>1, <1>4, <1>5, <1>6, <1>7, ReadInv

\* Going on with the rest of a claim is a move to a stage that owes nothing.
LEMMA ClaimRestMoves ==
    ASSUME NEW h \in Handlers, NEW j, j.user \in Users, NEW todo \in SUBSET Markets,
           ClaimRest(h, j, todo)
    PROVE  \E s \in {"idle", "claiming"}, n \in Job :
              /\ Goto(h, s, n)
              /\ s = "claiming" => n.user = j.user
<1>1. CASE todo = {}
  <2>1. Goto(h, "idle", NoJob)
    BY <1>1 DEF ClaimRest, Finish
  <2> QED
    BY <2>1, Defaults
<1>2. CASE todo # {}
  <2>1. Goto(h, "claiming", JobOf(j.user, 0, 0, 0, todo, NoMarket, 0))
    BY <1>2 DEF ClaimRest
  <2> QED
    BY <2>1, Defaults, ClaimJob
<1> QED
  BY <1>1, <1>2

LEMMA ClaimNothingInv == ASSUME Inv, NEW h \in Handlers, ClaimNothing(h) PROVE Inv'
<1> DEFINE j == job[h]
<1>1. j.user \in Users /\ j.todo \in SUBSET Markets /\ exists[j.user]
  BY DEF Inv, TypeOK, JobsSound, Job, ClaimNothing
<1>2. PICK m \in j.todo : ClaimRest(h, j, j.todo \ {m})
  BY DEF ClaimNothing
<1>3. PICK s \in {"idle", "claiming"}, n \in Job :
         Goto(h, s, n) /\ (s = "claiming" => n.user = j.user)
  <2> HIDE DEF j
  <2>1. j.todo \ {m} \in SUBSET Markets
    BY <1>1
  <2> QED
    BY <1>1, <1>2, <2>1, ClaimRestMoves
<1>4. Owed(s) = 0 /\ Owed(pc[h]) = 0 /\ s \in Stages
  BY DEF ClaimNothing, Owed, Stages
<1>5. UNCHANGED <<account, rows, now>> /\ served' \in Nat /\ rivals' \subseteq Users
  BY DEF ClaimNothing, history, Inv, TypeOK
<1> QED
  BY <1>1, <1>3, <1>4, <1>5, ReadInv

LEMMA CreateUserInv == ASSUME Inv, NEW h \in Handlers, CreateUser(h) PROVE Inv'
<1> DEFINE j == job[h]
           u == j.user
<1>1. j \in Job /\ u \in Users /\ balance[u] = 0
  BY DEF Inv, TypeOK, Job, NoAccountNoChips, CreateUser, HandleFree
<1>2. Goto(h, "signupEntry", j) /\ "signupEntry" \in Stages
  BY DEF CreateUser, Stages
<1>3. TypeOK'
  BY <1>1, WalletAssumption DEF Inv, TypeOK, Stages, CreateUser, Goto, rows, history
<1>4. JobsSound'
  BY <1>1 DEF Inv, TypeOK, Job, JobsSound, CreateUser, Goto
<1>5. NoAccountNoChips'
  BY <1>1 DEF Inv, TypeOK, NoAccountNoChips, CreateUser
<1>6. LedgerAccounts'
  <2>1. \A v \in Users :
           /\ balance'[v] \in Int /\ ledger'[v] \in Int /\ missing'[v] \in Int
           /\ (balance'[v] - ledger'[v] - missing'[v])
                 - (balance[v] - ledger[v] - missing[v])
                = (IF v = u THEN Owed("signupEntry") ELSE 0)
                    - (IF v = u THEN Owed(pc[h]) ELSE 0)
    BY <1>1, WalletAssumption DEF Inv, TypeOK, CreateUser, Owed, rows
  <2> QED
    BY <1>1, <1>2, <2>1, AccountsMove
<1> QED
  BY <1>3, <1>4, <1>5, <1>6 DEF Inv, ClaimedIsPaid, CreateUser, rows

LEMMA SignupEntryInv == ASSUME Inv, NEW h \in Handlers, SignupEntry(h) PROVE Inv'
<1> DEFINE j == job[h]
           u == j.user
<1>1. u \in Users /\ exists[u]
  BY DEF Inv, TypeOK, Job, JobsSound, SignupEntry
<1>2. PICK s \in {"idle", "bonusDue"}, n \in Job :
         Goto(h, s, n) /\ (s = "bonusDue" => n.user = u)
  <2> DEFINE k == JobOf(u, 1, now, 0, {}, NoMarket, 0)
  <2>1. k \in Job /\ k.user = u /\ NoJob \in Job
    BY <1>1, Defaults, WalletAssumption DEF Inv, TypeOK, Job, JobOf
  <2>2. Goto(h, "bonusDue", k) \/ Goto(h, "idle", NoJob)
    BY DEF SignupEntry, Finish
  <2> HIDE DEF k
  <2> QED
    BY <2>1, <2>2
<1>3. s \in Stages /\ Owed(s) = 0 /\ Owed(pc[h]) = Signup
  BY DEF Stages, Owed, SignupEntry
<1>4. TypeOK'
  BY <1>1, <1>2, <1>3, WalletAssumption
  DEF Inv, TypeOK, SignupEntry, LedgerEntry, Goto, account, history
<1>5. JobsSound'
  BY <1>1, <1>2 DEF Inv, TypeOK, JobsSound, SignupEntry, Goto, account
<1>6. LedgerAccounts'
  <2>1. \A v \in Users :
           /\ balance'[v] \in Int /\ ledger'[v] \in Int /\ missing'[v] \in Int
           /\ (balance'[v] - ledger'[v] - missing'[v])
                 - (balance[v] - ledger[v] - missing[v])
                = (IF v = n.user THEN Owed(s) ELSE 0) - (IF v = u THEN Owed(pc[h]) ELSE 0)
    BY <1>1, <1>3, WalletAssumption
    DEF Inv, TypeOK, SignupEntry, LedgerEntry, account
  <2> QED
    BY <1>2, <1>3, <2>1, AccountsMove
<1> QED
  BY <1>4, <1>5, <1>6 DEF Inv, NoAccountNoChips, ClaimedIsPaid, SignupEntry, account

LEMMA CreditBonusInv == ASSUME Inv, NEW h \in Handlers, CreditBonus(h) PROVE Inv'
<1> DEFINE j == job[h]
           u == j.user
           n == JobOf(u, 1, j.at, balance[u] + Bonus, {}, NoMarket, 0)
<1>1. u \in Users /\ exists[u] /\ j.at \in 0..MaxTime /\ balance[u] \in Int
  BY DEF Inv, TypeOK, Job, JobsSound, CreditBonus, BonusStamp
<1>2. n \in Job /\ n.user = u
  BY <1>1, Defaults, WalletAssumption DEF Job, JobOf
<1>3. Goto(h, "bonusEntry", n) /\ "bonusEntry" \in Stages
  BY DEF CreditBonus, BonusStamp, Stages
<1> HIDE DEF n
<1>4. TypeOK'
  BY <1>1, <1>2, <1>3, WalletAssumption
  DEF Inv, TypeOK, CreditBonus, BonusStamp, Goto, rows, history
<1>5. JobsSound'
  BY <1>1, <1>2, <1>3 DEF Inv, TypeOK, JobsSound, CreditBonus, BonusStamp, Goto
<1>6. NoAccountNoChips'
  BY <1>1 DEF Inv, TypeOK, NoAccountNoChips, CreditBonus, BonusStamp
<1>7. LedgerAccounts'
  <2>1. \A v \in Users :
           /\ balance'[v] \in Int /\ ledger'[v] \in Int /\ missing'[v] \in Int
           /\ (balance'[v] - ledger'[v] - missing'[v])
                 - (balance[v] - ledger[v] - missing[v])
                = (IF v = n.user THEN Owed("bonusEntry") ELSE 0)
                    - (IF v = u THEN Owed(pc[h]) ELSE 0)
    BY <1>1, <1>2, WalletAssumption DEF Inv, TypeOK, CreditBonus, BonusStamp, Owed, rows
  <2> QED
    BY <1>2, <1>3, <2>1, AccountsMove
<1> QED
  BY <1>4, <1>5, <1>6, <1>7 DEF Inv, ClaimedIsPaid, CreditBonus, BonusStamp, rows

LEMMA BonusEntryInv == ASSUME Inv, NEW h \in Handlers, BonusEntry(h) PROVE Inv'
<1> DEFINE j == job[h]
           u == j.user
<1>1. u \in Users /\ j.after \in Int
  BY DEF Inv, TypeOK, Job
<1>2. Goto(h, "idle", NoJob) /\ "idle" \in Stages /\ NoJob \in Job
  BY Defaults DEF BonusEntry, Finish, Stages
<1>3. TypeOK'
  BY <1>1, <1>2, WalletAssumption DEF Inv, TypeOK, BonusEntry, LedgerEntry, Goto, account, history
<1>4. JobsSound'
  BY <1>2 DEF Inv, TypeOK, JobsSound, BonusEntry, Goto, account
<1>5. LedgerAccounts'
  <2>1. \A v \in Users :
           /\ balance'[v] \in Int /\ ledger'[v] \in Int /\ missing'[v] \in Int
           /\ (balance'[v] - ledger'[v] - missing'[v])
                 - (balance[v] - ledger[v] - missing[v])
                = (IF v = NoJob.user THEN Owed("idle") ELSE 0)
                    - (IF v = u THEN Owed(pc[h]) ELSE 0)
    BY <1>1, WalletAssumption DEF Inv, TypeOK, BonusEntry, LedgerEntry, Owed, account
  <2> QED
    BY <1>2, <2>1, AccountsMove
<1> QED
  BY <1>3, <1>4, <1>5 DEF Inv, NoAccountNoChips, ClaimedIsPaid, BonusEntry, account

LEMMA ClaimPayInv == ASSUME Inv, NEW h \in Handlers, ClaimPay(h) PROVE Inv'
<1> DEFINE j == job[h]
           u == j.user
           p == <<j.user, j.market>>
<1>1. /\ u \in Users /\ exists[u] /\ j.market \in Markets /\ p \in Positions
      /\ j.todo \in SUBSET Markets /\ j.due \in Nat /\ j.due = Shares[p]
  BY DEF Inv, TypeOK, Job, JobsSound, ClaimPay, Positions
<1>2. PICK s \in {"idle", "claiming"}, n \in Job :
         Goto(h, s, n) /\ (s = "claiming" => n.user = u)
  <2>1. ClaimRest(h, j, j.todo \ {j.market})
    BY DEF ClaimPay
  <2>2. j.todo \ {j.market} \in SUBSET Markets
    BY <1>1
  <2> HIDE DEF j
  <2> QED
    BY <1>1, <2>1, <2>2, ClaimRestMoves
<1>3. s \in Stages /\ Owed(s) = 0 /\ Owed(pc[h]) = 0
  BY DEF Stages, Owed, ClaimPay
<1>4. TypeOK'
  BY <1>1, <1>2, <1>3
  DEF Inv, TypeOK, ClaimPay, LedgerEntry, MarkClaimed, Goto, history
<1>5. JobsSound'
  BY <1>1, <1>2 DEF Inv, TypeOK, JobsSound, ClaimPay, Goto
<1>6. NoAccountNoChips'
  BY <1>1 DEF Inv, TypeOK, NoAccountNoChips, ClaimPay
<1>7. LedgerAccounts'
  <2>1. \A v \in Users :
           /\ balance'[v] \in Int /\ ledger'[v] \in Int /\ missing'[v] \in Int
           /\ (balance'[v] - ledger'[v] - missing'[v])
                 - (balance[v] - ledger[v] - missing[v])
                = (IF v = n.user THEN Owed(s) ELSE 0) - (IF v = u THEN Owed(pc[h]) ELSE 0)
    BY <1>1, <1>3 DEF Inv, TypeOK, ClaimPay, LedgerEntry
  <2> QED
    BY <1>2, <1>3, <2>1, AccountsMove
<1>8. ClaimedIsPaid'
  <2> SUFFICES ASSUME NEW r \in Positions
               PROVE  IF claimed'[r] THEN payouts'[r] >= Shares[r] ELSE payouts'[r] = 0
    BY DEF ClaimedIsPaid
  <2>1. CASE r = p
    BY <1>1, <2>1 DEF Inv, TypeOK, ClaimPay, MarkClaimed
  <2>2. CASE r # p
    BY <1>1, <2>2 DEF Inv, TypeOK, ClaimedIsPaid, ClaimPay, MarkClaimed
  <2> QED
    BY <2>1, <2>2
<1> QED
  BY <1>4, <1>5, <1>6, <1>7, <1>8 DEF Inv

LEMMA TradeCommitInv == ASSUME Inv, NEW h \in Handlers, TradeCommit(h) PROVE Inv'
<1>1. PICK u \in Users, chips \in Stakes :
         /\ exists[u]
         /\ balance' = [balance EXCEPT ![u] = @ - chips]
         /\ LedgerEntry(u, -chips, balance[u] - chips)
         /\ Arrives(u)
  BY DEF TradeCommit
<1>2. chips \in Int /\ served' \in Nat /\ rivals' \subseteq Users
  BY <1>1, WalletAssumption, ArrivalType DEF Inv
<1>3. TypeOK'
  BY <1>1, <1>2 DEF Inv, TypeOK, TradeCommit, LedgerEntry
<1>4. NoAccountNoChips'
  BY <1>1 DEF Inv, TypeOK, NoAccountNoChips, TradeCommit
<1>5. LedgerAccounts'
  <2> SUFFICES ASSUME NEW v \in Users
               PROVE  balance'[v] = ledger'[v] + missing'[v]
                         + Signup * Cardinality(InFlight(v, "signupEntry"))'
                         + Bonus * Cardinality(InFlight(v, "bonusEntry"))'
    BY DEF LedgerAccounts
  <2>1. \A stage \in Stages : InFlight(v, stage)' = InFlight(v, stage)
    BY DEF InFlight, TradeCommit
  <2>2. balance'[v] - ledger'[v] = balance[v] - ledger[v] /\ missing'[v] = missing[v]
    BY <1>1, <1>2 DEF Inv, TypeOK, TradeCommit, LedgerEntry
  <2>3. /\ balance[v] \in Int /\ ledger[v] \in Int /\ missing[v] \in Int
        /\ balance'[v] \in Int /\ ledger'[v] \in Int
    BY <1>3 DEF Inv, TypeOK
  <2>4. \A stage \in Stages : Cardinality(InFlight(v, stage)) \in Nat
    BY WalletAssumption, FS_Subset, FS_CardinalityType DEF InFlight
  <2> DEFINE a == Signup * Cardinality(InFlight(v, "signupEntry"))
             b == Bonus * Cardinality(InFlight(v, "bonusEntry"))
  <2>5. a \in Int /\ b \in Int
    BY <2>4, WalletAssumption DEF Stages
  <2>6. balance[v] = ledger[v] + missing[v] + a + b
    BY DEF Inv, LedgerAccounts
  <2>7. a' = a /\ b' = b
    BY <2>1 DEF Stages
  <2> HIDE DEF a, b
  <2>8. balance'[v] = ledger'[v] + missing'[v] + a + b
    BY <2>2, <2>3, <2>5, <2>6
  <2> QED
    BY <2>7, <2>8 DEF a, b
<1> QED
  BY <1>3, <1>4, <1>5 DEF Inv, JobsSound, ClaimedIsPaid, TradeCommit

LEMMA FailInv == ASSUME Inv, NEW h \in Handlers, Fail(h) PROVE Inv'
<1> DEFINE j == job[h]
           u == j.user
<1>1. u \in Users /\ Owed(pc[h]) \in Nat
  BY WalletAssumption DEF Inv, TypeOK, Job, Owed
<1>2. Goto(h, "idle", NoJob) /\ "idle" \in Stages /\ NoJob \in Job
  BY Defaults DEF Fail, Finish, Stages
<1>3. TypeOK'
  BY <1>1, <1>2 DEF Inv, TypeOK, Fail, Goto, account, history
<1>4. JobsSound'
  BY <1>2 DEF Inv, TypeOK, JobsSound, Fail, Goto, account
<1>5. LedgerAccounts'
  <2>0. Owed("idle") = 0
    BY DEF Owed
  <2>1. \A v \in Users :
           /\ balance'[v] \in Int /\ ledger'[v] \in Int /\ missing'[v] \in Int
           /\ (balance'[v] - ledger'[v] - missing'[v])
                 - (balance[v] - ledger[v] - missing[v])
                = (IF v = NoJob.user THEN Owed("idle") ELSE 0)
                    - (IF v = u THEN Owed(pc[h]) ELSE 0)
    BY <1>1, <2>0 DEF Inv, TypeOK, Fail, account
  <2> QED
    BY <1>2, <2>1, AccountsMove
<1> QED
  BY <1>3, <1>4, <1>5 DEF Inv, NoAccountNoChips, ClaimedIsPaid, Fail, account

LEMMA StutterInv ==
    ASSUME Inv, UNCHANGED <<account, rows, pc, job, history>>, now' \in 1..MaxTime
    PROVE  Inv'
<1>1. \A u \in Users, stage \in Stages : InFlight(u, stage)' = InFlight(u, stage)
  BY DEF InFlight
<1>2. LedgerAccounts'
  BY <1>1 DEF Inv, LedgerAccounts, Stages, account, rows
<1> QED
  BY <1>2 DEF Inv, TypeOK, JobsSound, NoAccountNoChips, ClaimedIsPaid, account, rows, history

LEMMA NextInv == Inv /\ [Next]_vars => Inv'
<1> SUFFICES ASSUME Inv, [Next]_vars PROVE Inv'
  OBVIOUS
<1>1. ASSUME NEW h \in Handlers,
             \/ FindMissing(h) \/ CreateUser(h) \/ SignupEntry(h)
             \/ BonusStart(h) \/ CreditBonus(h) \/ BonusEntry(h)
      PROVE  Inv'
  BY <1>1, FindMissingInv, CreateUserInv, SignupEntryInv, BonusStartInv, CreditBonusInv,
     BonusEntryInv
<1>2. ASSUME NEW h \in Handlers,
             \/ ClaimStart(h) \/ ClaimRead(h) \/ ClaimNothing(h) \/ ClaimPay(h)
             \/ TradeCommit(h) \/ Fail(h)
      PROVE  Inv'
  BY <1>2, ClaimStartInv, ClaimReadInv, ClaimNothingInv, ClaimPayInv, TradeCommitInv, FailInv
<1>3. CASE Tick
  <2>1. now' \in 1..MaxTime
    BY <1>3, WalletAssumption DEF Inv, TypeOK, Tick
  <2> QED
    BY <1>3, <2>1, StutterInv DEF Tick
<1>4. CASE UNCHANGED vars
  <2>1. now' \in 1..MaxTime
    BY <1>4 DEF Inv, TypeOK, vars
  <2>2. UNCHANGED <<account, rows, pc, job, history>>
    BY <1>4 DEF vars, account, rows, history
  <2> QED
    BY <2>1, <2>2, StutterInv
<1> QED
  BY <1>1, <1>2, <1>3, <1>4 DEF Next

LEMMA SpecInv == Spec => []Inv
  BY InitInv, NextInv, PTL DEF Spec

\* Every variable keeps its type, however the requests interleave and fail.
THEOREM TypeCorrect == Spec => []TypeOK
<1>1. Inv => TypeOK
  BY DEF Inv
<1> QED
  BY <1>1, SpecInv, PTL

\* However requests interleave and fail, a balance is its ledger plus the rows
\* that are still to be written plus the rows that died with their request.
THEOREM BalancesAccounted == Spec => []LedgerAccounts
<1>1. Inv => LedgerAccounts
  BY DEF Inv
<1> QED
  BY <1>1, SpecInv, PTL

\* However requests interleave and fail, a position is claimed exactly when its
\* payout is in the ledger.
THEOREM ClaimsPaid == Spec => []ClaimedIsPaid
<1>1. Inv => ClaimedIsPaid
  BY DEF Inv
<1> QED
  BY <1>1, SpecInv, PTL

-----------------------------------------------------------------------------
(* A user whose requests never overlap: what a request of theirs has read still *)
(* holds when it is used, whatever the requests of others do in between.        *)

Busy(h) == pc[h] # "idle"
Entering == {"signupEntry", "bonusEntry"}

UserRead(h) ==
    LET u == job[h].user IN
    /\ pc[h] = "claimDue" => ~claimed[<<u, job[h].market>>]
    /\ pc[h] = "signupEntry" => lastBonus[u] = 0 /\ balance[u] = Signup
    /\ pc[h] = "bonusDue" => lastBonus[u] = 0 \/ job[h].at - lastBonus[u] >= Cooldown
    /\ pc[h] = "bonusEntry" => job[h].after = balance[u]

UserReads == \A h \in Handlers : job[h].user \in Alone => UserRead(h)

OneEach ==
    \A g, h \in Handlers :
        Busy(g) /\ Busy(h) /\ job[g].user = job[h].user /\ job[h].user \in Alone => g = h

NoAccountNoBonus == \A u \in Users : ~exists[u] => lastBonus[u] = 0

\* Only a request between a credit and its row lets the newest row lag.
RowsFollow ==
    \A u \in Alone :
        \/ newest[u] = balance[u]
        \/ missing[u] > 0
        \/ \E h \in Handlers : job[h].user = u /\ pc[h] \in Entering

UserInv == OneEach /\ UserReads /\ NoAccountNoBonus /\ PaidOnce /\ RowsFollow

LEMMA InitUser == Init => UserInv
  BY WalletAssumption
  DEF Init, UserInv, UserReads, UserRead, OneEach, Busy, NoAccountNoBonus, PaidOnce,
      RowsFollow, Alone, Positions

\* No request in flight but h's is u's.
Only(h, u) == \A g \in Handlers : g # h /\ Busy(g) => job[g].user # u

\* A step of handler h for user u keeps what holds of the users served alone if
\* it leaves the rest of the users as they were.
LEMMA MoveUser ==
    ASSUME Inv, UserInv, NEW h \in Handlers, NEW s \in Stages, NEW j \in Job, Goto(h, s, j),
           NEW u \in Users, rivals \subseteq rivals',
           u \in Alone' => Only(h, u),
           Busy(h) => job[h].user = u,
           s # "idle" => j.user = u,
           \A v \in Users \ {u} :
              /\ exists'[v] = exists[v] /\ balance'[v] = balance[v]
              /\ lastBonus'[v] = lastBonus[v]
              /\ newest'[v] = newest[v] /\ missing'[v] = missing[v]
              /\ \A m \in Markets : /\ claimed'[<<v, m>>] = claimed[<<v, m>>]
                                    /\ payouts'[<<v, m>>] = payouts[<<v, m>>],
           ~exists'[u] => lastBonus'[u] = 0,
           u \in Alone' =>
              /\ s # "idle" => UserRead(h)'
              /\ newest'[u] = balance'[u] \/ missing'[u] > 0 \/ s \in Entering
              /\ \A m \in Markets : payouts'[<<u, m>>] <= Shares[<<u, m>>]
    PROVE  UserInv'
<1>1. Alone' \subseteq Alone
  BY DEF Alone
<1>2. \A g \in Handlers : g # h => pc'[g] = pc[g] /\ job'[g] = job[g]
  BY DEF Inv, TypeOK, Goto
<1>3. pc'[h] = s /\ job'[h] = j
  BY DEF Inv, TypeOK, Goto
<1>4. OneEach'
  BY <1>1, <1>2, <1>3 DEF UserInv, OneEach, Busy, Only
<1>5. UserReads'
  <2> SUFFICES ASSUME NEW g \in Handlers, job'[g].user \in Alone' PROVE UserRead(g)'
    BY DEF UserReads
  <2>1. CASE g = h
    BY <1>3, <2>1 DEF UserRead
  <2>2. CASE g # h /\ ~Busy(g)
    BY <1>2, <2>2 DEF Busy, UserRead
  <2>3. CASE g # h /\ Busy(g)
    <3>1. /\ pc'[g] = pc[g] /\ job'[g] = job[g] /\ job[g].user \in Alone
          /\ job[g].user \in Users \ {u} /\ job[g].market \in Markets
      BY <1>1, <1>2, <2>3 DEF Only, Inv, TypeOK, Job
    <3>2. UserRead(g)
      BY <3>1 DEF UserInv, UserReads
    <3> QED
      BY <3>1, <3>2 DEF UserRead
  <2> QED
    BY <2>1, <2>2, <2>3
<1>6. NoAccountNoBonus'
  BY DEF UserInv, NoAccountNoBonus
<1>7. PaidOnce'
  <2> SUFFICES ASSUME NEW v \in Alone', NEW m \in Markets
               PROVE  payouts'[<<v, m>>] <= Shares[<<v, m>>]
    BY DEF PaidOnce, Positions
  <2>1. v \in Alone /\ v \in Users /\ <<v, m>> \in Positions
    BY <1>1 DEF Alone, Positions
  <2>2. payouts[<<v, m>>] <= Shares[<<v, m>>]
    BY <2>1 DEF UserInv, PaidOnce
  <2> QED
    BY <2>1, <2>2
<1>8. RowsFollow'
  <2> SUFFICES ASSUME NEW v \in Alone'
               PROVE  \/ newest'[v] = balance'[v]
                      \/ missing'[v] > 0
                      \/ \E g \in Handlers : job'[g].user = v /\ pc'[g] \in Entering
    BY DEF RowsFollow
  <2>1. CASE v = u
    BY <1>3, <2>1 DEF Entering
  <2>2. CASE v # u
    <3>1. v \in Alone /\ v \in Users \ {u}
      BY <1>1, <2>2 DEF Alone
    <3>2. CASE newest[v] = balance[v] \/ missing[v] > 0
      BY <3>1, <3>2
    <3>3. CASE \E g \in Handlers : job[g].user = v /\ pc[g] \in Entering
      <4>1. PICK g \in Handlers : job[g].user = v /\ pc[g] \in Entering
        BY <3>3
      <4>2. g # h
        BY <2>2, <4>1 DEF Busy, Entering
      <4> QED
        BY <1>2, <4>1, <4>2
    <3> QED
      BY <3>1, <3>2, <3>3 DEF UserInv, RowsFollow
  <2> QED
    BY <2>1, <2>2
<1> QED
  BY <1>4, <1>5, <1>6, <1>7, <1>8 DEF UserInv

\* A request in flight is the only one of a user served alone ...
LEMMA BusyOnly ==
    ASSUME UserInv, NEW h \in Handlers, Busy(h), job[h].user \in Alone
    PROVE  Only(h, job[h].user)
  BY DEF UserInv, OneEach, Only

\* ... and so is one that arrives and finds none.
LEMMA ArrivalOnly ==
    ASSUME NEW h \in Handlers, NEW u \in Users, Arrives(u)
    PROVE  /\ rivals \subseteq rivals'
           /\ u \in Alone' => Only(h, u)
  BY DEF Arrives, Alone, Only, Busy

\* A user served alone who has no request between credit and row is up to date.
LEMMA RowsCurrent ==
    ASSUME UserInv, NEW h \in Handlers, NEW u \in Alone, Only(h, u), pc[h] \notin Entering
    PROVE  newest[u] = balance[u] \/ missing[u] > 0
  BY DEF UserInv, RowsFollow, Only, Entering, Busy

\* The actions that only read keep what the others rely on.
LEMMA ReadUser ==
    ASSUME Inv, UserInv, NEW h \in Handlers, NEW s \in Stages, NEW j \in Job, Goto(h, s, j),
           NEW u \in Users, rivals \subseteq rivals', u \in Alone' => Only(h, u),
           Busy(h) => job[h].user = u, s # "idle" => j.user = u,
           UNCHANGED <<account, rows>>, s \notin Entering, pc[h] \notin Entering,
           s = "claimDue" => ~claimed[<<u, j.market>>],
           s = "bonusDue" => lastBonus[u] = 0 \/ j.at - lastBonus[u] >= Cooldown
    PROVE  UserInv'
<1>1. pc'[h] = s /\ job'[h] = j
  BY DEF Inv, TypeOK, Goto
<1>2. s # "idle" => UserRead(h)'
  BY <1>1 DEF UserRead, account, Entering
<1>3. u \in Alone' => newest'[u] = balance'[u] \/ missing'[u] > 0
  BY RowsCurrent DEF Alone, account, rows
<1>4. u \in Alone' => \A m \in Markets : payouts'[<<u, m>>] <= Shares[<<u, m>>]
  BY DEF Alone, UserInv, PaidOnce, Positions, rows
<1>5. ~exists'[u] => lastBonus'[u] = 0
  BY DEF UserInv, NoAccountNoBonus, account
<1> QED
  BY <1>2, <1>3, <1>4, <1>5, MoveUser DEF account, rows

LEMMA FindMissingUser == ASSUME Inv, UserInv, NEW h \in Handlers, FindMissing(h) PROVE UserInv'
<1>1. PICK u \in Users, bonus \in {0, 1} :
         Goto(h, "creating", JobOf(u, bonus, 0, 0, {}, NoMarket, 0)) /\ Arrives(u)
  BY DEF FindMissing
<1> DEFINE j == JobOf(u, bonus, 0, 0, {}, NoMarket, 0)
<1>2. j \in Job /\ j.user = u /\ Goto(h, "creating", j)
  BY <1>1, Defaults, WalletAssumption DEF Job, JobOf
<1> HIDE DEF j
<1> QED
  BY <1>1, <1>2, ReadUser, ArrivalOnly DEF FindMissing, Stages, Busy, Entering

LEMMA BonusStartUser == ASSUME Inv, UserInv, NEW h \in Handlers, BonusStart(h) PROVE UserInv'
<1>1. PICK u \in Users :
         /\ BonusDue(lastBonus[u])
         /\ Goto(h, "bonusDue", JobOf(u, 1, now, 0, {}, NoMarket, 0))
         /\ Arrives(u)
  BY DEF BonusStart
<1> DEFINE j == JobOf(u, 1, now, 0, {}, NoMarket, 0)
<1>2. j \in Job /\ j.user = u /\ j.at = now /\ Goto(h, "bonusDue", j)
  BY <1>1, Defaults, WalletAssumption DEF Inv, TypeOK, Job, JobOf
<1> HIDE DEF j
<1> QED
  BY <1>1, <1>2, ReadUser, ArrivalOnly DEF BonusStart, BonusDue, Stages, Busy, Entering

LEMMA ClaimStartUser == ASSUME Inv, UserInv, NEW h \in Handlers, ClaimStart(h) PROVE UserInv'
<1>1. PICK u \in Users, todo \in SUBSET Markets :
         Goto(h, "claiming", JobOf(u, 0, 0, 0, todo, NoMarket, 0)) /\ Arrives(u)
  BY DEF ClaimStart
<1> DEFINE j == JobOf(u, 0, 0, 0, todo, NoMarket, 0)
<1>2. j \in Job /\ j.user = u /\ Goto(h, "claiming", j)
  BY <1>1, Defaults, ClaimJob
<1> HIDE DEF j
<1> QED
  BY <1>1, <1>2, ReadUser, ArrivalOnly DEF ClaimStart, Stages, Busy, Entering

LEMMA ClaimReadUser == ASSUME Inv, UserInv, NEW h \in Handlers, ClaimRead(h) PROVE UserInv'
<1> DEFINE u == job[h].user
<1>1. u \in Users /\ job[h].todo \in SUBSET Markets
  BY DEF Inv, TypeOK, Job
<1>2. PICK m \in job[h].todo :
         /\ Claimable(u, m)
         /\ Goto(h, "claimDue", JobOf(u, 0, 0, 0, job[h].todo, m, Shares[<<u, m>>]))
  BY DEF ClaimRead
<1>3. m \in Markets /\ Shares[<<u, m>>] \in Nat
  BY <1>1, WalletAssumption DEF Positions
<1> DEFINE n == JobOf(u, 0, 0, 0, job[h].todo, m, Shares[<<u, m>>])
<1>4. n \in Job /\ n.user = u /\ n.market = m
  BY <1>1, <1>3, ClaimJob
<1>5. Goto(h, "claimDue", n) /\ ~claimed[<<u, m>>]
  BY <1>2 DEF Claimable
<1>6. /\ UNCHANGED <<account, rows>> /\ rivals' = rivals
      /\ pc[h] = "claiming" /\ "claimDue" \in Stages
  BY DEF ClaimRead, Stages, history
<1>7. u \in Alone' => Only(h, u)
  BY <1>6, BusyOnly DEF Alone, Busy
<1> HIDE DEF n
<1> QED
  BY <1>1, <1>4, <1>5, <1>6, <1>7, ReadUser DEF Entering

LEMMA ClaimNothingUser == ASSUME Inv, UserInv, NEW h \in Handlers, ClaimNothing(h) PROVE UserInv'
<1> DEFINE j == job[h]
<1>1. j.user \in Users /\ j.todo \in SUBSET Markets
  BY DEF Inv, TypeOK, Job
<1>2. PICK m \in j.todo : ClaimRest(h, j, j.todo \ {m})
  BY DEF ClaimNothing
<1>3. PICK s \in {"idle", "claiming"}, n \in Job :
         Goto(h, s, n) /\ (s = "claiming" => n.user = j.user)
  <2> HIDE DEF j
  <2>1. j.todo \ {m} \in SUBSET Markets
    BY <1>1
  <2> QED
    BY <1>1, <1>2, <2>1, ClaimRestMoves
<1>4. /\ UNCHANGED <<account, rows>> /\ rivals' = rivals
      /\ pc[h] = "claiming" /\ s \in Stages
  BY DEF ClaimNothing, Stages, history
<1>5. j.user \in Alone' => Only(h, j.user)
  BY <1>4, BusyOnly DEF Alone, Busy
<1> QED
  BY <1>1, <1>3, <1>4, <1>5, ReadUser DEF Entering

LEMMA CreateUserUser == ASSUME Inv, UserInv, NEW h \in Handlers, CreateUser(h) PROVE UserInv'
<1> DEFINE u == job[h].user
<1>1. job[h] \in Job /\ u \in Users /\ lastBonus[u] = 0
  BY DEF Inv, TypeOK, Job, UserInv, NoAccountNoBonus, CreateUser, HandleFree
<1>2. /\ Goto(h, "signupEntry", job[h]) /\ "signupEntry" \in Stages /\ rivals' = rivals
      /\ Busy(h)
  BY DEF CreateUser, Stages, Busy, history
<1>3. UserRead(h)'
  BY <1>1 DEF Inv, TypeOK, UserRead, CreateUser, Goto
<1>4. u \in Alone' => Only(h, u)
  BY <1>2, BusyOnly DEF Alone
<1>5. \A v \in Users \ {u} : exists'[v] = exists[v] /\ balance'[v] = balance[v]
  BY DEF CreateUser, Inv, TypeOK
<1>6. UNCHANGED <<lastBonus, claimed, newest, payouts, missing>>
  BY DEF CreateUser, rows
<1>7. u \in Alone' => \A m \in Markets : payouts'[<<u, m>>] <= Shares[<<u, m>>]
  BY <1>1, <1>2, <1>6 DEF Alone, UserInv, PaidOnce, Positions
<1> QED
  BY <1>1, <1>2, <1>3, <1>4, <1>5, <1>6, <1>7, MoveUser DEF Entering

LEMMA SignupEntryUser == ASSUME Inv, UserInv, NEW h \in Handlers, SignupEntry(h) PROVE UserInv'
<1> DEFINE u == job[h].user
           k == JobOf(u, 1, now, 0, {}, NoMarket, 0)
<1>1. u \in Users /\ exists[u]
  BY DEF Inv, TypeOK, Job, JobsSound, SignupEntry
<1>2. k \in Job /\ k.user = u /\ NoJob \in Job
  BY <1>1, Defaults, WalletAssumption DEF Inv, TypeOK, Job, JobOf
<1>3. PICK s \in {"idle", "bonusDue"}, n \in Job :
         Goto(h, s, n) /\ (s = "bonusDue" => n.user = u)
  <2>1. Goto(h, "bonusDue", k) \/ Goto(h, "idle", NoJob)
    BY DEF SignupEntry, Finish
  <2> HIDE DEF k
  <2> QED
    BY <1>2, <2>1
<1>4. Busy(h) /\ rivals' = rivals /\ s \in Stages /\ UNCHANGED <<account, payouts, missing>>
  BY DEF SignupEntry, Busy, history, Stages
<1>5. u \in Alone' => Only(h, u) /\ lastBonus[u] = 0 /\ balance[u] = Signup
  BY <1>4, BusyOnly DEF Alone, UserInv, UserReads, UserRead, SignupEntry
<1>6. newest' = [newest EXCEPT ![u] = Signup]
  BY DEF SignupEntry, LedgerEntry
<1>7. u \in Alone' => /\ s # "idle" => UserRead(h)'
                      /\ newest'[u] = balance'[u]
  BY <1>1, <1>3, <1>4, <1>5, <1>6 DEF UserRead, account, Inv, TypeOK, Goto
<1>8. \A v \in Users \ {u} : newest'[v] = newest[v]
  BY <1>6 DEF Inv, TypeOK
<1>9. u \in Alone' => \A m \in Markets : payouts'[<<u, m>>] <= Shares[<<u, m>>]
  BY <1>1, <1>4 DEF Alone, UserInv, PaidOnce, Positions
<1>10. exists'[u]
  BY <1>1, <1>4 DEF account
<1> HIDE DEF k
<1> QED
  BY <1>1, <1>3, <1>4, <1>5, <1>7, <1>8, <1>9, <1>10, MoveUser DEF account

LEMMA CreditBonusUser == ASSUME Inv, UserInv, NEW h \in Handlers, CreditBonus(h) PROVE UserInv'
<1> DEFINE u == job[h].user
           n == JobOf(u, 1, job[h].at, balance[u] + Bonus, {}, NoMarket, 0)
<1>1. u \in Users /\ exists[u] /\ job[h].at \in 0..MaxTime /\ balance[u] \in Int
  BY DEF Inv, TypeOK, Job, JobsSound, CreditBonus, BonusStamp
<1>2. n \in Job /\ n.user = u /\ n.after = balance[u] + Bonus
  BY <1>1, Defaults, WalletAssumption DEF Job, JobOf
<1>3. Goto(h, "bonusEntry", n) /\ "bonusEntry" \in Stages
  BY DEF CreditBonus, BonusStamp, Stages
<1> HIDE DEF n
<1>4. Busy(h) /\ rivals' = rivals /\ UNCHANGED <<exists, claimed, rows>>
  BY DEF CreditBonus, BonusStamp, Busy, history
<1>5. u \in Alone' => Only(h, u)
  BY <1>4, BusyOnly DEF Alone
<1>6. /\ balance'[u] = balance[u] + Bonus
      /\ \A v \in Users \ {u} : balance'[v] = balance[v] /\ lastBonus'[v] = lastBonus[v]
  BY <1>1 DEF CreditBonus, BonusStamp, Inv, TypeOK
<1>7. UserRead(h)'
  BY <1>2, <1>3, <1>6 DEF UserRead, Inv, TypeOK, Goto
<1>8. u \in Alone' => \A m \in Markets : payouts'[<<u, m>>] <= Shares[<<u, m>>]
  BY <1>1, <1>4 DEF Alone, UserInv, PaidOnce, Positions, rows
<1>9. exists'[u]
  BY <1>1, <1>4
<1> QED
  BY <1>1, <1>2, <1>3, <1>4, <1>5, <1>6, <1>7, <1>8, <1>9, MoveUser DEF rows, Entering

LEMMA BonusEntryUser == ASSUME Inv, UserInv, NEW h \in Handlers, BonusEntry(h) PROVE UserInv'
<1> DEFINE u == job[h].user
<1>1. u \in Users
  BY DEF Inv, TypeOK, Job
<1>2. Goto(h, "idle", NoJob) /\ "idle" \in Stages /\ NoJob \in Job
  BY Defaults DEF BonusEntry, Finish, Stages
<1>3. Busy(h) /\ rivals' = rivals /\ UNCHANGED <<account, payouts, missing>>
  BY DEF BonusEntry, Busy, history
<1>4. u \in Alone' => Only(h, u) /\ job[h].after = balance[u]
  BY <1>3, BusyOnly DEF Alone, UserInv, UserReads, UserRead, BonusEntry
<1>5. newest' = [newest EXCEPT ![u] = job[h].after]
  BY DEF BonusEntry, LedgerEntry
<1>6. u \in Alone' => newest'[u] = balance'[u]
  BY <1>1, <1>3, <1>4, <1>5 DEF account, Inv, TypeOK
<1>7. \A v \in Users \ {u} : newest'[v] = newest[v]
  BY <1>5 DEF Inv, TypeOK
<1>8. u \in Alone' => \A m \in Markets : payouts'[<<u, m>>] <= Shares[<<u, m>>]
  BY <1>1, <1>3 DEF Alone, UserInv, PaidOnce, Positions
<1>9. ~exists'[u] => lastBonus'[u] = 0
  BY <1>1, <1>3 DEF UserInv, NoAccountNoBonus, account
<1> QED
  BY <1>1, <1>2, <1>3, <1>4, <1>6, <1>7, <1>8, <1>9, MoveUser DEF account

LEMMA ClaimPayUser == ASSUME Inv, UserInv, NEW h \in Handlers, ClaimPay(h) PROVE UserInv'
<1> DEFINE j == job[h]
           u == job[h].user
           p == <<j.user, j.market>>
<1>1. /\ u \in Users /\ p \in Positions /\ j.due \in Nat /\ j.due = Shares[p]
      /\ exists[u] /\ j.todo \in SUBSET Markets /\ j.user = u
  BY DEF Inv, TypeOK, Job, JobsSound, ClaimPay, Positions
<1>2. PICK s \in {"idle", "claiming"}, n \in Job :
         Goto(h, s, n) /\ (s = "claiming" => n.user = u)
  <2>1. ClaimRest(h, j, j.todo \ {j.market})
    BY DEF ClaimPay
  <2>2. j.todo \ {j.market} \in SUBSET Markets
    BY <1>1
  <2> HIDE DEF j
  <2> QED
    BY <1>1, <2>1, <2>2, ClaimRestMoves
<1>3. Busy(h) /\ rivals' = rivals /\ s \in Stages /\ UNCHANGED <<exists, lastBonus, missing>>
  BY DEF ClaimPay, Busy, history, Stages
<1>4. u \in Alone' => Only(h, u) /\ ~claimed[p]
  BY <1>3, BusyOnly DEF Alone, UserInv, UserReads, UserRead, ClaimPay
<1>5. /\ newest'[u] = balance'[u]
      /\ \A v \in Users \ {u} : balance'[v] = balance[v] /\ newest'[v] = newest[v]
  BY <1>1 DEF ClaimPay, LedgerEntry, Inv, TypeOK
<1>6. \A r \in Positions : r # p => claimed'[r] = claimed[r] /\ payouts'[r] = payouts[r]
  BY <1>1 DEF ClaimPay, MarkClaimed, Inv, TypeOK
<1>7. \A v \in Users \ {u}, m \in Markets :
         claimed'[<<v, m>>] = claimed[<<v, m>>] /\ payouts'[<<v, m>>] = payouts[<<v, m>>]
  BY <1>6 DEF Positions
<1>8. ASSUME u \in Alone', NEW m \in Markets PROVE payouts'[<<u, m>>] <= Shares[<<u, m>>]
  <2>1. payouts[p] = 0
    BY <1>1, <1>4, <1>8 DEF Inv, ClaimedIsPaid
  <2>2. payouts'[p] = Shares[p] /\ Shares[p] \in Nat
    BY <1>1, <2>1, WalletAssumption DEF ClaimPay, Inv, TypeOK
  <2>3. <<u, m>> \in Positions /\ u \in Alone
    BY <1>1, <1>3, <1>8 DEF Positions, Alone
  <2>4. payouts[<<u, m>>] <= Shares[<<u, m>>]
    BY <2>3 DEF UserInv, PaidOnce
  <2>5. CASE <<u, m>> = p
    BY <2>2, <2>5
  <2>6. CASE <<u, m>> # p
    BY <1>6, <2>3, <2>4, <2>6
  <2> QED
    BY <2>5, <2>6
<1>9. s # "idle" => UserRead(h)'
  BY <1>2 DEF UserRead, Inv, TypeOK, Goto
<1>10. exists'[u]
  BY <1>1, <1>3
<1> HIDE DEF j, p
<1> QED
  BY <1>1, <1>2, <1>3, <1>4, <1>5, <1>7, <1>8, <1>9, <1>10, MoveUser

LEMMA TradeCommitUser == ASSUME Inv, UserInv, NEW h \in Handlers, TradeCommit(h) PROVE UserInv'
<1>1. PICK u \in Users, chips \in Stakes :
         /\ exists[u]
         /\ balance' = [balance EXCEPT ![u] = @ - chips]
         /\ LedgerEntry(u, -chips, balance[u] - chips)
         /\ Arrives(u)
  BY DEF TradeCommit
<1>2. Goto(h, "idle", job[h]) /\ job[h] \in Job /\ "idle" \in Stages /\ ~Busy(h)
  BY DEF TradeCommit, Goto, Inv, TypeOK, Stages, Busy
<1>3. UNCHANGED <<exists, lastBonus, claimed, payouts, missing>>
  BY DEF TradeCommit
<1>4. rivals \subseteq rivals' /\ (u \in Alone' => Only(h, u))
  BY <1>1, ArrivalOnly
<1>5. /\ newest'[u] = balance'[u]
      /\ \A v \in Users \ {u} : balance'[v] = balance[v] /\ newest'[v] = newest[v]
  BY <1>1 DEF LedgerEntry, Inv, TypeOK
<1>6. u \in Alone' => \A m \in Markets : payouts'[<<u, m>>] <= Shares[<<u, m>>]
  BY <1>3, <1>4 DEF Alone, UserInv, PaidOnce, Positions
<1>7. exists'[u]
  BY <1>1, <1>3
<1> QED
  BY <1>2, <1>3, <1>4, <1>5, <1>6, <1>7, MoveUser

LEMMA FailUser == ASSUME Inv, UserInv, NEW h \in Handlers, Fail(h) PROVE UserInv'
<1> DEFINE u == job[h].user
<1>1. u \in Users
  BY DEF Inv, TypeOK, Job
<1>2. Goto(h, "idle", NoJob) /\ "idle" \in Stages /\ NoJob \in Job
  BY Defaults DEF Fail, Finish, Stages
<1>3. Busy(h) /\ rivals' = rivals /\ UNCHANGED <<account, newest, payouts>>
  BY DEF Fail, Busy, history
<1>4. u \in Alone' => Only(h, u)
  BY <1>3, BusyOnly DEF Alone
<1>5. /\ missing'[u] = missing[u] + Owed(pc[h])
      /\ \A v \in Users \ {u} : missing'[v] = missing[v]
  BY <1>1 DEF Fail, Inv, TypeOK
<1>6. ASSUME u \in Alone' PROVE newest'[u] = balance'[u] \/ missing'[u] > 0
  <2>1. missing[u] \in Nat /\ Owed(pc[h]) \in Nat
    BY <1>1, WalletAssumption DEF Inv, TypeOK, Owed
  <2>2. CASE pc[h] \in Entering
    BY <1>5, <2>1, <2>2, WalletAssumption DEF Owed, Entering
  <2>3. CASE pc[h] \notin Entering
    <3>1. newest[u] = balance[u] \/ missing[u] > 0
      BY <1>3, <1>4, <1>6, <2>3, RowsCurrent DEF Alone
    <3> QED
      BY <1>3, <1>5, <2>1, <3>1 DEF account
  <2> QED
    BY <2>2, <2>3
<1>7. u \in Alone' => \A m \in Markets : payouts'[<<u, m>>] <= Shares[<<u, m>>]
  BY <1>1, <1>3 DEF Alone, UserInv, PaidOnce, Positions
<1>8. ~exists'[u] => lastBonus'[u] = 0
  BY <1>1, <1>3 DEF UserInv, NoAccountNoBonus, account
<1> QED
  BY <1>1, <1>2, <1>3, <1>4, <1>5, <1>6, <1>7, <1>8, MoveUser DEF account

LEMMA NextUser == Inv /\ UserInv /\ [Next]_vars => UserInv'
<1> SUFFICES ASSUME Inv, UserInv, [Next]_vars PROVE UserInv'
  OBVIOUS
<1>1. ASSUME NEW h \in Handlers,
             \/ FindMissing(h) \/ CreateUser(h) \/ SignupEntry(h)
             \/ BonusStart(h) \/ CreditBonus(h) \/ BonusEntry(h)
      PROVE  UserInv'
  BY <1>1, FindMissingUser, CreateUserUser, SignupEntryUser, BonusStartUser,
     CreditBonusUser, BonusEntryUser
<1>2. ASSUME NEW h \in Handlers,
             \/ ClaimStart(h) \/ ClaimRead(h) \/ ClaimNothing(h) \/ ClaimPay(h)
             \/ TradeCommit(h) \/ Fail(h)
      PROVE  UserInv'
  BY <1>2, ClaimStartUser, ClaimReadUser, ClaimNothingUser, ClaimPayUser,
     TradeCommitUser, FailUser
<1>3. CASE Tick \/ UNCHANGED vars
  BY <1>3 DEF UserInv, OneEach, Busy, UserReads, UserRead, NoAccountNoBonus, PaidOnce,
              RowsFollow, Alone, Tick, account, rows, history, vars
<1> QED
  BY <1>1, <1>2, <1>3 DEF Next

LEMMA SpecUser == Spec => [](Inv /\ UserInv)
<1>1. Init => Inv /\ UserInv
  BY InitInv, InitUser
<1>2. Inv /\ UserInv /\ [Next]_vars => (Inv /\ UserInv)'
  BY NextInv, NextUser
<1> QED
  BY <1>1, <1>2, PTL DEF Spec

\* A user whose claims never overlap is paid no winning share twice.
THEOREM PayoutOnce == Spec => []PaidOnce
<1>1. Inv /\ UserInv => PaidOnce
  BY DEF UserInv
<1> QED
  BY <1>1, SpecUser, PTL

\* A user whose requests never overlap finds the balance in their newest ledger
\* row, but for a row still to be written or lost.
THEOREM NewestRow == Spec => []NewestRowIsBalance
<1>1. Inv /\ UserInv => NewestRowIsBalance
  BY WalletAssumption DEF UserInv, RowsFollow, NewestRowIsBalance, Owed, Entering
<1> QED
  BY <1>1, SpecUser, PTL

\* Only the credit takes a request from "bonusDue" to "bonusEntry".
LEMMA CreditStep ==
    ASSUME Inv, [Next]_vars, NEW h \in Handlers, pc[h] = "bonusDue", pc'[h] = "bonusEntry"
    PROVE  CreditBonus(h)
<1>1. \A g \in Handlers : g # h => \A s, j : ~Goto(g, s, j)
  BY DEF Inv, TypeOK, Goto
<1>2. ASSUME NEW g \in Handlers,
             \/ FindMissing(g) \/ CreateUser(g) \/ SignupEntry(g)
             \/ BonusStart(g) \/ CreditBonus(g) \/ BonusEntry(g)
      PROVE  CreditBonus(h)
  <2>1. g = h
    BY <1>1, <1>2 DEF FindMissing, CreateUser, SignupEntry, BonusStart, CreditBonus,
                      BonusEntry, Finish
  <2> QED
    BY <1>2, <2>1 DEF FindMissing, CreateUser, SignupEntry, BonusStart, BonusEntry
<1>3. ASSUME NEW g \in Handlers,
             \/ ClaimStart(g) \/ ClaimRead(g) \/ ClaimNothing(g) \/ ClaimPay(g)
             \/ TradeCommit(g) \/ Fail(g)
      PROVE  FALSE
  <2>1. ~TradeCommit(g)
    BY DEF TradeCommit
  <2>2. g = h
    BY <1>1, <1>3, <2>1 DEF ClaimStart, ClaimRead, ClaimNothing, ClaimPay, ClaimRest, Fail, Finish
  <2>3. pc[g] = "bonusDue" /\ Fail(g)
    BY <1>3, <2>1, <2>2 DEF ClaimStart, ClaimRead, ClaimNothing, ClaimPay
  <2> QED
    BY <2>2, <2>3 DEF Fail, Finish, Goto, Inv, TypeOK
<1>4. pc' # pc
  OBVIOUS
<1> QED
  BY <1>2, <1>3, <1>4 DEF Next, Tick, vars

\* A user whose requests never overlap is credited the daily bonus at most once
\* a cooldown.
THEOREM DailyBonus == Spec => BonusOncePerCooldown
<1> DEFINE A == \A h \in Handlers : pc[h] = "bonusDue" /\ pc'[h] = "bonusEntry" =>
                   LET u == job[h].user IN
                   \/ u \in rivals
                   \/ lastBonus[u] = 0
                   \/ lastBonus'[u] - lastBonus[u] >= Cooldown
<1>1. ASSUME Inv, UserInv, [Next]_vars
      PROVE  A
  <2> SUFFICES ASSUME NEW h \in Handlers, pc[h] = "bonusDue", pc'[h] = "bonusEntry",
                      job[h].user \notin rivals, lastBonus[job[h].user] # 0
               PROVE  lastBonus'[job[h].user] - lastBonus[job[h].user] >= Cooldown
    OBVIOUS
  <2>1. job[h].user \in Users /\ job[h].at - lastBonus[job[h].user] >= Cooldown
    BY <1>1 DEF Inv, TypeOK, Job, UserInv, UserReads, UserRead, Alone
  <2>2. CreditBonus(h)
    BY <1>1, CreditStep
  <2> QED
    BY <1>1, <2>1, <2>2 DEF CreditBonus, BonusStamp, Inv, TypeOK
<1>2. Inv /\ UserInv /\ [Next]_vars => [A]_vars
  BY <1>1
<1> QED
  BY <1>2, SpecUser, PTL DEF Spec, BonusOncePerCooldown
=============================================================================
