------------------------------ MODULE Accounts ------------------------------
(***************************************************************************)
(* How an account comes to have an owner: the register, login and Google   *)
(* sign-in routes of server/index.js with deriveUniqueHandle and           *)
(* ensureUser, which the pages of a profile call as well.                  *)
(*                                                                         *)
(* A person has a password, a Google identity and an email address.  The   *)
(* register route takes the handle, and perhaps an address, the person     *)
(* gives: his own or anybody's, for nothing is sent to it.  For a Google   *)
(* identity without an account a handle is made up.  A handler             *)
(* is one request being served; each call it awaits is one action, bcrypt  *)
(* and the database alike.  Handles, addresses and Google ids are unique   *)
(* in the User table: a write that would repeat one throws.                *)
(*                                                                         *)
(* The chips and the ledger row of a new account are the matter of Wallet, *)
(* the life of the session that is opened that of Sessions.                *)
(***************************************************************************)
EXTENDS Integers, FiniteSets

CONSTANTS
    People,      \* each with one password, one Google identity, one address
    None,        \* null
    Handles,     \* handles, given or made up
    Base,        \* Base[p]: what deriveUniqueHandle makes of p's address
    Seeded,      \* handles of accounts that exist without a credential
    Handlers,    \* requests that can be in flight at once
    MaxRequests  \* bound: requests served in all

ASSUME AccountsAssumption ==
    /\ None \notin People \cup Handles
    /\ Base \in [People -> Handles]
    /\ Seeded \subseteq Handles
    /\ MaxRequests \in Nat

VARIABLES
    user,      \* user[n]: the User row with handle n
    sessions,  \* sessions opened: who signed in, and to which account
    pc,        \* where each handler is
    job,       \* its request: who, by which way, the handle it is about
    served,    \* requests that have arrived
    rivals,    \* history: handles two requests were about at once
    claimed,   \* history: accounts that were there when a registration took them
    borrowed   \* history: accounts registered with the address of somebody else

excuses == <<claimed, borrowed>>
vars == <<user, sessions, pc, job, served, rivals, claimed, borrowed>>

\* An address is known by the person it belongs to.
Owner == People \cup {None}

Row == [state : {"missing", "there"}, password : Owner, google : Owner, email : Owner]
RowOf(password, google, email) ==
    [state |-> "there", password |-> password, google |-> google, email |-> email]
NoRow == [state |-> "missing", password |-> None, google |-> None, email |-> None]

Exists(n) == user[n].state = "there"
EmailTaken(n, e) == e # None /\ \E m \in Handles \ {n} : Exists(m) /\ user[m].email = e
GoogleTaken(n, p) == \E m \in Handles \ {n} : Exists(m) /\ user[m].google = p

Stages == {"idle", "claiming", "ensuring", "creating", "signing", "byEmail", "linking",
           "deriving", "opening"}
Ways == {"register", "login", "google", "visit"}

Job == [person : Owner, way : Ways, handle : Handles \cup {None}, email : Owner]
JobOf(p, way, n, e) == [person |-> p, way |-> way, handle |-> n, email |-> e]
NoJob == JobOf(None, "login", None, None)

Init ==
    /\ user = [n \in Handles |-> IF n \in Seeded THEN RowOf(None, None, None) ELSE NoRow]
    /\ sessions = {}
    /\ pc = [h \in Handlers |-> "idle"]
    /\ job = [h \in Handlers |-> NoJob]
    /\ served = 0
    /\ rivals = {}
    /\ claimed = {}
    /\ borrowed = {}

\* The handler goes on about handle n: does it meet another request there?
Goto(h, stage, j) ==
    /\ pc' = [pc EXCEPT ![h] = stage]
    /\ job' = [job EXCEPT ![h] = j]
    /\ rivals' = rivals \cup
         {n \in {j.handle} \ {None} : \E g \in Handlers \ {h} : pc[g] # "idle" /\ job[g].handle = n}

Finish(h) ==
    /\ pc' = [pc EXCEPT ![h] = "idle"]
    /\ job' = [job EXCEPT ![h] = NoJob]
    /\ UNCHANGED rivals

Arrives ==
    /\ served < MaxRequests
    /\ served' = served + 1

Write(n, r) == user' = [user EXCEPT ![n] = r]

\* createSession, for the account the request ended up with.
OpenSession(h, way) ==
    /\ pc[h] = "opening" /\ job[h].way = way
    /\ sessions' = sessions \cup {<<job[h].person, job[h].handle>>}
    /\ Finish(h)
    /\ UNCHANGED <<user, served, excuses>>

-----------------------------------------------------------------------------
(* POST /api/auth/register *)

AnyAccount(n) == TRUE                            \* variant: the conflict is not noticed
Claimable(n) == user[n].password = None

\* The row is read, with or without an account, and the password is hashed.  An
\* account that has a password is a conflict, which ends the request.  The schema asks
\* of the address that it looks like one, and nobody asks whose it is.
RegisterRead(h) ==
    /\ pc[h] = "idle"
    /\ Arrives
    /\ \E p \in People, n \in Handles, e \in Owner :
          /\ Claimable(n)
          /\ IF Exists(n)
             THEN Goto(h, "claiming", JobOf(p, "register", n, IF e = None THEN user[n].email ELSE e))
             ELSE Goto(h, "ensuring", JobOf(p, "register", n, e))
    /\ UNCHANGED <<user, sessions, excuses>>

\* An account that was there gets the password, and the address or the one it had.
Claim(h) ==
    LET j == job[h] IN
    /\ pc[h] = "claiming"
    /\ ~EmailTaken(j.handle, j.email)
    /\ Write(j.handle, RowOf(j.person, user[j.handle].google, j.email))
    /\ claimed' = claimed \cup {j.handle}
    /\ Goto(h, "opening", j)
    /\ UNCHANGED <<sessions, served, borrowed>>

RegisterOpens(h) == OpenSession(h, "register")

-----------------------------------------------------------------------------
(* ensureUser, and the credential of the new account *)

\* The scoring report or the badges of any handle are asked for by anyone.
Visit(h) ==
    /\ pc[h] = "idle"
    /\ Arrives
    /\ \E n \in Handles : Goto(h, "ensuring", JobOf(None, "visit", n, None))
    /\ UNCHANGED <<user, sessions, excuses>>

\* A visit has all it wanted; the other requests have a credential to add.
Ensured(h) == IF job[h].way = "visit" THEN Finish(h) ELSE Goto(h, "signing", job[h])

\* findUnique: the account may be there by now, and then it is taken as it is.
EnsureFind(h) ==
    /\ pc[h] = "ensuring"
    /\ IF Exists(job[h].handle) THEN Ensured(h) ELSE Goto(h, "creating", job[h])
    /\ UNCHANGED <<user, sessions, served, excuses>>

EnsureCreate(h) ==
    /\ pc[h] = "creating"
    /\ ~Exists(job[h].handle)
    /\ Write(job[h].handle, RowOf(None, None, None))
    /\ Ensured(h)
    /\ UNCHANGED <<sessions, served, excuses>>

\* update by id: the password and the address if one was given ...
SetPassword(h) ==
    LET j == job[h]
        old == user[j.handle] IN
    /\ pc[h] = "signing" /\ j.way = "register"
    /\ ~EmailTaken(j.handle, j.email)
    /\ Write(j.handle, RowOf(j.person, old.google, IF j.email = None THEN old.email ELSE j.email))
    /\ borrowed' = borrowed \cup {n \in {j.handle} : j.email \notin {None, j.person}}
    /\ Goto(h, "opening", j)
    /\ UNCHANGED <<sessions, served, claimed>>

\* ... or the Google id and the address, null unless it is verified.
SetGoogle(h) ==
    LET j == job[h] IN
    /\ pc[h] = "signing" /\ j.way = "google"
    /\ ~EmailTaken(j.handle, j.email) /\ ~GoogleTaken(j.handle, j.person)
    /\ Write(j.handle, RowOf(user[j.handle].password, j.person, j.email))
    /\ Goto(h, "opening", j)
    /\ UNCHANGED <<sessions, served, excuses>>

-----------------------------------------------------------------------------
(* POST /api/auth/login *)

Matches(p, n) == user[n].password = p

\* The row is read; its password hash is compared with what the person typed.
LoginRead(h) ==
    /\ pc[h] = "idle"
    /\ Arrives
    /\ \E p \in People, n \in Handles :
          /\ Matches(p, n)
          /\ Goto(h, "opening", JobOf(p, "login", n, None))
    /\ UNCHANGED <<user, sessions, excuses>>

LoginOpens(h) == OpenSession(h, "login")

-----------------------------------------------------------------------------
(* POST /api/auth/google *)

\* The payload of a token Google has signed: the person's Google id, and an address
\* that counts only if it is verified.
Verified(p) == {<<p, None>>, <<p, p>>}

\* The token is verified and the account looked up by the Google id; without one, by
\* the address.
GoogleRead(h) ==
    /\ pc[h] = "idle"
    /\ Arrives
    /\ \E p \in People : \E payload \in Verified(p) :
          LET e == payload[2]
              mine == {n \in Handles : user[n].google = payload[1]} IN
          \/ \E n \in mine : Goto(h, "opening", JobOf(p, "google", n, e))
          \/ /\ mine = {}
             /\ IF e # None
                THEN Goto(h, "byEmail", JobOf(p, "google", None, e))
                ELSE Goto(h, "deriving", JobOf(p, "google", Base[p], e))
    /\ UNCHANGED <<user, sessions, excuses>>

EmailRead(h) ==
    LET j == job[h]
        known == {n \in Handles : Exists(n) /\ user[n].email = j.email} IN
    /\ pc[h] = "byEmail"
    /\ \/ \E n \in known : Goto(h, "linking", JobOf(j.person, "google", n, j.email))
       \/ /\ known = {}
          /\ Goto(h, "deriving", JobOf(j.person, "google", Base[j.person], j.email))
    /\ UNCHANGED <<user, sessions, served, excuses>>

\* update by id: the account with the address gets the Google id.
LinkGoogle(h) ==
    LET j == job[h] IN
    /\ pc[h] = "linking"
    /\ ~GoogleTaken(j.handle, j.person)
    /\ Write(j.handle, RowOf(user[j.handle].password, j.person, user[j.handle].email))
    /\ Goto(h, "opening", j)
    /\ UNCHANGED <<sessions, served, excuses>>

\* deriveUniqueHandle: one candidate after another is looked up until one is free.
FirstCandidate(n) == TRUE                        \* variant: not looked up
Free(n) == ~Exists(n)

DeriveFree(h) ==
    /\ pc[h] = "deriving"
    /\ Free(job[h].handle)
    /\ Goto(h, "ensuring", job[h])
    /\ UNCHANGED <<user, sessions, served, excuses>>

DeriveNext(h) ==
    LET j == job[h] IN
    /\ pc[h] = "deriving"
    /\ Exists(j.handle)
    /\ \E n \in Handles \ {j.handle} : Goto(h, "deriving", JobOf(j.person, "google", n, j.email))
    /\ UNCHANGED <<user, sessions, served, excuses>>

GoogleOpens(h) == OpenSession(h, "google")

-----------------------------------------------------------------------------
\* A unique constraint refuses the write, any other call throws, or the worker dies.
Fail(h) ==
    /\ pc[h] # "idle"
    /\ Finish(h)
    /\ UNCHANGED <<user, sessions, served, excuses>>

Next ==
    \E h \in Handlers :
       \/ RegisterRead(h) \/ Claim(h) \/ RegisterOpens(h)
       \/ Visit(h) \/ EnsureFind(h) \/ EnsureCreate(h) \/ SetPassword(h) \/ SetGoogle(h)
       \/ LoginRead(h) \/ LoginOpens(h)
       \/ GoogleRead(h) \/ EmailRead(h) \/ LinkGoogle(h) \/ GoogleOpens(h)
       \/ DeriveFree(h) \/ DeriveNext(h)
       \/ Fail(h)

Spec == Init /\ [][Next]_vars

-----------------------------------------------------------------------------
(* Properties *)

\* Every variable keeps its type.
TypeOK ==
    /\ user \in [Handles -> Row]
    /\ sessions \subseteq People \X Handles
    /\ pc \in [Handlers -> Stages]
    /\ job \in [Handlers -> Job]
    /\ served \in Nat
    /\ rivals \subseteq Handles
    /\ claimed \subseteq Handles
    /\ borrowed \subseteq Handles

\* What a person has on an account: its password, its Google identity, its address,
\* a session, or a request that is about to open one.
Involved(n) ==
    ({user[n].password, user[n].google, user[n].email}
       \cup {s[1] : s \in {t \in sessions : t[2] = n}}
       \cup {job[h].person : h \in {g \in Handlers : pc[g] = "opening" /\ job[g].handle = n}})
    \ {None}

\* An account belongs to one person: whatever ways to sign in are mixed, in whatever
\* order and with requests that end half-way, nobody else's password, Google identity
\* or session comes to be on it.  One that was registered with the address of another
\* belongs to these two, whom a Google sign-in by the address brings together, and to no
\* third.  Neither holds when two requests were about the handle at once, the one making
\* it up and the other registering it, nor when the account was there and a registration
\* took it over.
OneOwner ==
    \A n \in Handles \ (rivals \cup claimed) :
        IF n \in borrowed THEN Involved(n) \subseteq {user[n].password, user[n].email}
        ELSE Cardinality(Involved(n)) <= 1

\* No request replaces a password, unless two registrations read the row before
\* either of them wrote it.
PasswordKept ==
    [][\A n \in Handles :
          user[n].password \notin {None, user'[n].password} => n \in rivals]_vars

=============================================================================
