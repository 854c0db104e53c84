------------------------------ MODULE RateLimit ------------------------------
(***************************************************************************)
(* The fixed-window limiter of server/rateLimit.js and the limiters that   *)
(* server/index.js declares with it.                                       *)
(*                                                                         *)
(* A worker process keeps one map of buckets for all its limiters.  A key  *)
(* is a limiter's prefix with the user or the address it counts, so its    *)
(* limit and its window are the limiter's.  The middleware is synchronous: *)
(* a request is one action.  Workers do not share their maps, and a worker *)
(* that dies is replaced by one with an empty map.                         *)
(*                                                                         *)
(* NODE_ENV = "test", which turns the middleware into a pass, is not       *)
(* modelled.                                                               *)
(***************************************************************************)
EXTENDS Integers, Sequences

CONSTANTS
    Workers,   \* processes behind the same port
    Keys,      \* bucket keys
    Limit,     \* Limit[k]: max of the key's limiter
    Window,    \* Window[k]: windowMs of the key's limiter
    Second,    \* clock ticks in a second
    MaxTime,   \* bound: the clock stops here
    MaxHits,   \* bound: requests a bucket counts
    MaxCrashes \* bound: workers that die

ASSUME RateLimitAssumption ==
    /\ Limit \in [Keys -> Nat \ {0}]
    /\ Window \in [Keys -> Nat \ {0}]
    /\ Second \in Nat \ {0}
    /\ MaxTime \in Nat /\ MaxHits \in Nat /\ MaxCrashes \in Nat

VARIABLES
    buckets,  \* buckets[w][k]: the worker's map, NoBucket where it has no entry
    now,      \* Date.now()
    crashes,  \* workers that have died
    log,      \* history: log[w][k], the admissions of the worker's life in order
    told      \* history: told[w][k], when the last refusal said to try again, or 0

limiter == <<buckets, now, crashes, log, told>>

Bucket == [count : Nat, expiresAt : Nat]
BucketOf(count, expiresAt) == [count |-> count, expiresAt |-> expiresAt]

\* A bucket that was never there and one that has expired are told apart by no one.
NoBucket == BucketOf(0, 0)

\* An admission: its time, and when the window it was counted in had begun.
Admission == [at : Nat, since : Int]
AdmissionOf(at, since) == [at |-> at, since |-> since]

LimiterInit ==
    /\ buckets = [w \in Workers |-> [k \in Keys |-> NoBucket]]
    /\ now = 1
    /\ crashes = 0
    /\ log = [w \in Workers |-> [k \in Keys |-> <<>>]]
    /\ told = [w \in Workers |-> [k \in Keys |-> 0]]

\* The bucket a request is counted in: the one that is there, or a new one.
Expired(b) == b.expiresAt < now

Current(k, b) == IF Expired(b) THEN BucketOf(0, now + Window[k]) ELSE b

\* Refused requests are counted too; they do not move the window.
Counted(k, b) == BucketOf(Current(k, b).count + 1, Current(k, b).expiresAt)

OneTooMany(k, b) == b.count > Limit[k] + 1       \* variant: lets one more through
Exceeds(k, b) == b.count > Limit[k]

\* Retry-After: the rest of the window, in whole seconds, at least one.
RoundedDown(b) == (b.expiresAt - now) \div Second         \* variant: not rounded up
RetryAfter(b) ==
    LET seconds == (b.expiresAt - now + Second - 1) \div Second
    IN  IF seconds < 1 THEN 1 ELSE seconds

\* The middleware lets a request through to its route ...
Admit(w, k) ==
    LET b == Counted(k, buckets[w][k]) IN
    /\ b.count <= MaxHits
    /\ ~Exceeds(k, b)
    /\ buckets' = [buckets EXCEPT ![w][k] = b]
    /\ log' = [log EXCEPT ![w][k] = Append(@, AdmissionOf(now, b.expiresAt - Window[k]))]
    /\ told' = [told EXCEPT ![w][k] = 0]
    /\ UNCHANGED <<now, crashes>>

\* ... or answers 429 with the time to wait.
Refuse(w, k) ==
    LET b == Counted(k, buckets[w][k]) IN
    /\ b.count <= MaxHits
    /\ Exceeds(k, b)
    /\ buckets' = [buckets EXCEPT ![w][k] = b]
    /\ told' = [told EXCEPT ![w][k] = now + Second * RetryAfter(b)]
    /\ UNCHANGED <<now, crashes, log>>

\* The hourly timer of a worker, which may go off at any instant of a window.
Pruned(b) == IF Expired(b) THEN NoBucket ELSE b

Prune(w) ==
    /\ buckets' = [buckets EXCEPT ![w] = [k \in Keys |-> Pruned(buckets[w][k])]]
    /\ UNCHANGED <<now, crashes, log, told>>

\* A worker dies and the primary forks another.
Restart(w) ==
    /\ crashes < MaxCrashes
    /\ crashes' = crashes + 1
    /\ buckets' = [buckets EXCEPT ![w] = [k \in Keys |-> NoBucket]]
    /\ log' = [log EXCEPT ![w] = [k \in Keys |-> <<>>]]
    /\ told' = [told EXCEPT ![w] = [k \in Keys |-> 0]]
    /\ UNCHANGED now

Tick ==
    /\ now < MaxTime
    /\ now' = now + 1
    /\ UNCHANGED <<buckets, crashes, log, told>>

LimiterNext ==
    \/ \E w \in Workers :
          \/ \E k \in Keys : Admit(w, k) \/ Refuse(w, k)
          \/ Prune(w)
          \/ Restart(w)
    \/ Tick

LimiterSpec == LimiterInit /\ [][LimiterNext]_limiter

-----------------------------------------------------------------------------
(* Properties *)

\* Every variable keeps its type.
LimiterTypeOK ==
    /\ buckets \in [Workers -> [Keys -> Bucket]]
    /\ now \in Nat \ {0}
    /\ crashes \in Nat
    /\ log \in [Workers -> [Keys -> Seq(Admission)]]
    /\ told \in [Workers -> [Keys -> Nat]]

\* A fixed window lets a burst through at its end and another at the start of the
\* next, and never more than that: of the requests one worker admits for a key in
\* its life, no more than twice the limit fall within one window's length, wherever
\* that stretch begins and whenever the map is pruned.
AtMostTwice ==
    \A w \in Workers, k \in Keys : \A i, j \in 1..Len(log[w][k]) :
        i + 2 * Limit[k] <= j => log[w][k][j].at - log[w][k][i].at > Window[k]

\* The limit itself is kept per window: of more than limit admissions in a row, the
\* last is counted in a window that began after the first one's was over.
LimitPerWindow ==
    \A w \in Workers, k \in Keys : \A i, j \in 1..Len(log[w][k]) :
        i + Limit[k] <= j => log[w][k][j].since > log[w][k][i].since + Window[k]

\* The Retry-After of a refusal is honest: after that time the worker does not
\* refuse the key again before it has admitted it.  Rounding, a pruned map and
\* requests made too early in the meantime do not change that.
RetryAfterHonest ==
    [][\A w \in Workers, k \in Keys :
          Refuse(w, k) /\ told[w][k] # 0 => now <= told[w][k]]_limiter
=============================================================================
