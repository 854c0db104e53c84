--------------------------- MODULE AccessProofs ----------------------------
(***************************************************************************)
(* The server's edge: theorems about what lets requests in (RateLimit),    *)
(* for every set of workers and limiters, any clock and any number of      *)
(* requests; about who signs in (Accounts), for every set of people,       *)
(* handles and requests, any handles made up from addresses, and requests  *)
(* that end anywhere; and about what an open page is told (Live), for any  *)
(* requests of the page, any trades and any connections cut.               *)
(***************************************************************************)
EXTENDS RateLimit, Accounts, Live, FiniteSetTheorems, TLAPS

-----------------------------------------------------------------------------
(* RateLimit.  A step touches the bucket and the log of one worker and key, *)
(* or maps a function of the bucket over them.  The invariant is therefore  *)
(* stated of one bucket b and one log s, and proved of the four things that *)
(* can happen to the pair: a request is admitted, is refused, the clock     *)
(* moves, the bucket is dropped.                                            *)

\* The limit of a key's windows: what is said of one log.
Spaced(k, s) ==
    \A i, j \in 1..Len(s) :
        i + Limit[k] <= j => s[j].since > s[i].since + Window[k]

\* Every admission lies in the window it was counted in.
InWindow(k, s, t) ==
    \A i \in 1..Len(s) :
        /\ s[i].since <= s[i].at
        /\ s[i].at <= s[i].since + Window[k]
        /\ s[i].at <= t

\* No window of the log reaches beyond the bucket that is there, or it is over.
Behind(k, b, s, t) ==
    \A i \in 1..Len(s) :
        \/ s[i].since + Window[k] < t
        \/ s[i].since + Window[k] <= b.expiresAt

\* While a bucket runs, only its newest count admissions are of its window: those
\* before them are of windows that were over when it began.
Older(k, b, s, t) ==
    b.expiresAt >= t =>
        \A i \in 1..Len(s) :
            i + b.count <= Len(s) =>
                s[i].since + Window[k] < b.expiresAt - Window[k]

\* The bucket's window is not in the future.
Begun(k, b, t) == b.expiresAt <= t + Window[k]

Sound(k, b, s, t) ==
    /\ Spaced(k, s)
    /\ InWindow(k, s, t)
    /\ Behind(k, b, s, t)
    /\ Older(k, b, s, t)
    /\ Begun(k, b, t)

Inv ==
    /\ LimiterTypeOK
    /\ \A w \in Workers, k \in Keys : Sound(k, buckets[w][k], log[w][k], now)

-----------------------------------------------------------------------------
(* One bucket and one log *)

\* What the log holds.
LEMMA LogEntries ==
    ASSUME NEW s \in Seq(Admission)
    PROVE  \A i \in 1..Len(s) : s[i].at \in Nat /\ s[i].since \in Int
<1>1. \A i \in 1..Len(s) : s[i] \in Admission
  OBVIOUS
<1>2. \A a \in Admission : a.at \in Nat /\ a.since \in Int
  BY DEF Admission
<1>3. QED
  BY <1>1, <1>2

\* A request is counted in a window that is not over and began in the past.
LEMMA CountedWindow ==
    ASSUME NEW k \in Keys, NEW b \in Bucket, now \in Nat, Begun(k, b, now)
    PROVE  /\ Counted(k, b) \in Bucket
           /\ Counted(k, b).expiresAt >= now
           /\ Begun(k, Counted(k, b), now)
           /\ Counted(k, b).count >= 1
           /\ Expired(b) => Counted(k, b) = BucketOf(1, now + Window[k])
           /\ ~Expired(b) => Counted(k, b) = BucketOf(b.count + 1, b.expiresAt)
<1>1. Window[k] \in Nat \ {0}
  BY RateLimitAssumption
<1>2. CASE Expired(b)
  <2>1. Counted(k, b) = BucketOf(1, now + Window[k])
    BY <1>2 DEF Counted, Current, BucketOf
  <2>2. QED
    BY <1>1, <1>2, <2>1 DEF BucketOf, Bucket, Begun
<1>3. CASE ~Expired(b)
  <2>1. Counted(k, b) = BucketOf(b.count + 1, b.expiresAt)
    BY <1>3 DEF Counted, Current, BucketOf
  <2>2. QED
    BY <1>1, <1>3, <2>1 DEF BucketOf, Bucket, Begun, Expired
<1>4. QED
  BY <1>2, <1>3

\* Every admission of the log but the newest ones of a running bucket is of a window
\* that was over when the window of the next request began.
LEMMA OlderAreOver ==
    ASSUME NEW k \in Keys, NEW b \in Bucket, NEW s \in Seq(Admission), now \in Nat,
           Sound(k, b, s, now),
           NEW i \in 1..Len(s), i + Counted(k, b).count <= Len(s) + 1
    PROVE  s[i].since + Window[k] < Counted(k, b).expiresAt - Window[k]
<1>1. /\ Window[k] \in Nat
      /\ s[i].since \in Int
      /\ Len(s) \in Nat
  BY RateLimitAssumption, LogEntries
<1>2. Begun(k, b, now)
  BY DEF Sound
<1>3. CASE Expired(b)
  <2>1. Counted(k, b) = BucketOf(1, now + Window[k])
    BY <1>2, <1>3, CountedWindow
  <2>2. Counted(k, b).expiresAt - Window[k] = now
    BY <1>1, <2>1 DEF BucketOf
  <2>3. s[i].since + Window[k] < now
    BY <1>1, <1>3 DEF Sound, Behind, Expired, Bucket
  <2>4. QED
    BY <2>2, <2>3
<1>4. CASE ~Expired(b)
  <2>1. Counted(k, b) = BucketOf(b.count + 1, b.expiresAt)
    BY <1>2, <1>4, CountedWindow
  <2>2. b.expiresAt >= now
    BY <1>4 DEF Expired, Bucket
  <2>3. i + b.count <= Len(s)
    BY <1>1, <2>1 DEF BucketOf, Bucket
  <2>4. QED
    BY <2>1, <2>2, <2>3 DEF Sound, Older, BucketOf
<1>5. QED
  BY <1>3, <1>4

\* An admitted request keeps the invariant.
LEMMA AdmitKeeps ==
    ASSUME NEW k \in Keys, NEW b \in Bucket, NEW s \in Seq(Admission), now \in Nat,
           Sound(k, b, s, now), ~Exceeds(k, Counted(k, b))
    PROVE  Sound(k, Counted(k, b),
                 Append(s, AdmissionOf(now, Counted(k, b).expiresAt - Window[k])), now)
<1> DEFINE c == Counted(k, b)
           a == AdmissionOf(now, c.expiresAt - Window[k])
           r == Append(s, a)
           n == Len(s)
<1>1. /\ Window[k] \in Nat \ {0} /\ Limit[k] \in Nat \ {0}
      /\ n \in Nat
  BY RateLimitAssumption
<1>2. /\ c \in Bucket /\ c.count \in Nat /\ c.expiresAt \in Nat
      /\ c.count >= 1 /\ c.count <= Limit[k]
      /\ c.expiresAt >= now
      /\ Begun(k, c, now)
  <2>1. c \in Bucket /\ c.expiresAt >= now /\ Begun(k, c, now) /\ c.count >= 1
    BY CountedWindow DEF Sound
  <2>2. c.count \in Nat /\ c.expiresAt \in Nat
    BY <2>1 DEF Bucket
  <2>3. QED
    BY <1>1, <2>1, <2>2 DEF Exceeds
<1>3. /\ a \in Admission
      /\ a.at = now /\ a.since = c.expiresAt - Window[k]
  BY <1>1, <1>2 DEF AdmissionOf, Admission
<1>4. /\ r \in Seq(Admission)
      /\ Len(r) = n + 1
      /\ r[n + 1] = a
      /\ \A i \in 1..n : r[i] = s[i]
  BY <1>1, <1>3
<1>5. \A i \in 1..n :
         /\ s[i].since \in Int /\ s[i].at \in Nat
         /\ s[i].since <= s[i].at /\ s[i].at <= s[i].since + Window[k] /\ s[i].at <= now
  BY LogEntries DEF Sound, InWindow
<1>6. \A i \in 1..n : i + c.count <= n + 1 => s[i].since + Window[k] < a.since
  BY <1>3, OlderAreOver
<1>7. Spaced(k, r)
  <2> SUFFICES ASSUME NEW i \in 1..Len(r), NEW j \in 1..Len(r), i + Limit[k] <= j
               PROVE  r[j].since > r[i].since + Window[k]
    BY DEF Spaced
  <2>1. i \in 1..n
    BY <1>1, <1>4
  <2>2. CASE j \in 1..n
    BY <1>4, <2>1, <2>2 DEF Sound, Spaced
  <2>3. CASE j = n + 1
    <3>1. i + c.count <= n + 1
      BY <1>1, <1>2, <2>1, <2>3
    <3>2. s[i].since + Window[k] < a.since
      BY <1>6, <2>1, <3>1
    <3>3. QED
      BY <1>1, <1>3, <1>4, <1>5, <2>1, <2>3, <3>2
  <2>4. QED
    BY <1>1, <1>4, <2>2, <2>3
<1>8. InWindow(k, r, now)
  <2> SUFFICES ASSUME NEW i \in 1..Len(r)
               PROVE  /\ r[i].since <= r[i].at
                      /\ r[i].at <= r[i].since + Window[k]
                      /\ r[i].at <= now
    BY DEF InWindow
  <2>1. CASE i \in 1..n
    BY <1>4, <1>5, <2>1
  <2>2. CASE i = n + 1
    BY <1>1, <1>2, <1>3, <1>4, <2>2 DEF Begun
  <2>3. QED
    BY <1>1, <1>4, <2>1, <2>2
<1>9. Behind(k, c, r, now)
  <2> SUFFICES ASSUME NEW i \in 1..Len(r)
               PROVE  \/ r[i].since + Window[k] < now
                      \/ r[i].since + Window[k] <= c.expiresAt
    BY DEF Behind
  <2>1. CASE i \in 1..n
    <3>1. \/ s[i].since + Window[k] < now
          \/ s[i].since + Window[k] <= b.expiresAt
      BY <2>1 DEF Sound, Behind
    <3>2. c.expiresAt >= b.expiresAt
      <4>1. /\ Expired(b) => c.expiresAt = now + Window[k]
            /\ ~Expired(b) => c.expiresAt = b.expiresAt
        BY CountedWindow DEF Sound, BucketOf
      <4>2. b.expiresAt \in Nat
        BY DEF Bucket
      <4>3. QED
        BY <1>1, <1>2, <4>1, <4>2 DEF Expired
    <3>3. QED
      BY <1>1, <1>2, <1>4, <1>5, <2>1, <3>1, <3>2 DEF Bucket
  <2>2. CASE i = n + 1
    BY <1>1, <1>2, <1>3, <1>4, <2>2
  <2>3. QED
    BY <1>1, <1>4, <2>1, <2>2
<1>10. Older(k, c, r, now)
  <2> SUFFICES ASSUME NEW i \in 1..Len(r), i + c.count <= Len(r)
               PROVE  r[i].since + Window[k] < c.expiresAt - Window[k]
    BY DEF Older
  <2>1. i \in 1..n /\ i + c.count <= n + 1
    BY <1>1, <1>2, <1>4
  <2>2. QED
    BY <1>3, <1>4, <1>6, <2>1
<1>11. QED
  BY <1>2, <1>7, <1>8, <1>9, <1>10 DEF Sound

\* A refusal only comes from a bucket that is still running.
LEMMA RefusedWhileRunning ==
    ASSUME NEW k \in Keys, NEW b \in Bucket, now \in Nat, Begun(k, b, now),
           Exceeds(k, Counted(k, b))
    PROVE  /\ ~Expired(b)
           /\ Counted(k, b) = BucketOf(b.count + 1, b.expiresAt)
<1>1. Limit[k] \in Nat \ {0}
  BY RateLimitAssumption
<1>2. ~Expired(b)
  BY <1>1, CountedWindow DEF Exceeds, BucketOf
<1>3. QED
  BY <1>2, CountedWindow

\* A refused request keeps the invariant.
LEMMA RefuseKeeps ==
    ASSUME NEW k \in Keys, NEW b \in Bucket, NEW s \in Seq(Admission), now \in Nat,
           Sound(k, b, s, now), Exceeds(k, Counted(k, b))
    PROVE  Sound(k, Counted(k, b), s, now)
<1>1. Counted(k, b) = BucketOf(b.count + 1, b.expiresAt)
  BY RefusedWhileRunning DEF Sound
<1>2. Len(s) \in Nat
  OBVIOUS
<1>3. Older(k, Counted(k, b), s, now)
  BY <1>1, <1>2 DEF Sound, Older, BucketOf, Bucket
<1>4. QED
  BY <1>1, <1>3 DEF Sound, Behind, Begun, BucketOf

\* The clock keeps the invariant.
LEMMA TickKeeps ==
    ASSUME NEW k \in Keys, NEW b \in Bucket, NEW s \in Seq(Admission), NEW t \in Nat,
           Sound(k, b, s, t)
    PROVE  Sound(k, b, s, t + 1)
<1>1. Window[k] \in Nat
  BY RateLimitAssumption
<1>2. \A i \in 1..Len(s) : s[i].since \in Int /\ s[i].at \in Nat
  BY LogEntries
<1>3. QED
  BY <1>1, <1>2 DEF Sound, InWindow, Behind, Older, Begun, Bucket

\* So does dropping an expired bucket ...
LEMMA PruneKeeps ==
    ASSUME NEW k \in Keys, NEW b \in Bucket, NEW s \in Seq(Admission), now \in Nat \ {0},
           Sound(k, b, s, now)
    PROVE  Pruned(b) \in Bucket /\ Sound(k, Pruned(b), s, now)
<1>1. Window[k] \in Nat
  BY RateLimitAssumption
<1>2. \A i \in 1..Len(s) : s[i].since \in Int
  BY LogEntries
<1>3. CASE Expired(b)
  <2>1. Pruned(b) = BucketOf(0, 0)
    BY <1>3 DEF Pruned, NoBucket
  <2>2. \A i \in 1..Len(s) : s[i].since + Window[k] < now
    BY <1>1, <1>2, <1>3 DEF Sound, Behind, Expired, Bucket
  <2>3. QED
    BY <1>1, <2>1, <2>2 DEF Sound, Behind, Older, Begun, BucketOf, Bucket
<1>4. CASE ~Expired(b)
  BY <1>4 DEF Pruned
<1>5. QED
  BY <1>3, <1>4

\* ... and starting afresh.
LEMMA FreshIsSound ==
    ASSUME NEW k \in Keys, NEW t \in Nat
    PROVE  NoBucket \in Bucket /\ Sound(k, NoBucket, <<>>, t)
<1>1. Window[k] \in Nat
  BY RateLimitAssumption
<1>2. QED
  BY <1>1 DEF NoBucket, BucketOf, Bucket, Sound, Spaced, InWindow, Behind, Older, Begun

-----------------------------------------------------------------------------
(* The invariant *)

LEMMA InitInv == LimiterInit => Inv
<1> SUFFICES ASSUME LimiterInit PROVE Inv
  OBVIOUS
<1>1. now \in Nat
  BY DEF LimiterInit
<1>2. \A k \in Keys : NoBucket \in Bucket /\ Sound(k, NoBucket, <<>>, now)
  BY <1>1, FreshIsSound
<1>3. LimiterTypeOK
  BY <1>2 DEF LimiterInit, LimiterTypeOK
<1>4. QED
  BY <1>2, <1>3 DEF LimiterInit, Inv

LEMMA AdmitInv ==
    ASSUME Inv, NEW w \in Workers, NEW k \in Keys, Admit(w, k)
    PROVE  Inv'
<1> DEFINE b == buckets[w][k]
           c == Counted(k, b)
           r == Append(log[w][k], AdmissionOf(now, c.expiresAt - Window[k]))
<1>1. /\ b \in Bucket /\ log[w][k] \in Seq(Admission) /\ now \in Nat \ {0}
      /\ Sound(k, b, log[w][k], now) /\ ~Exceeds(k, c)
  BY DEF Inv, LimiterTypeOK, Admit
<1>2. Sound(k, c, r, now)
  BY <1>1, AdmitKeeps
<1>3. c \in Bucket /\ r \in Seq(Admission)
  <2>1. c \in Bucket /\ c.expiresAt \in Nat
    BY <1>1, CountedWindow DEF Sound, Bucket
  <2>2. AdmissionOf(now, c.expiresAt - Window[k]) \in Admission
    BY <1>1, <2>1, RateLimitAssumption DEF AdmissionOf, Admission
  <2>3. QED
    BY <1>1, <2>1, <2>2
<1>4. /\ buckets' = [buckets EXCEPT ![w][k] = c]
      /\ log' = [log EXCEPT ![w][k] = r]
      /\ told' = [told EXCEPT ![w][k] = 0]
      /\ now' = now /\ crashes' = crashes
  BY DEF Admit
<1> HIDE DEF b, c, r
<1>5. LimiterTypeOK'
  BY <1>3, <1>4 DEF Inv, LimiterTypeOK
<1>6. ASSUME NEW v \in Workers, NEW l \in Keys
      PROVE  Sound(l, buckets'[v][l], log'[v][l], now)
  <2>1. CASE v = w /\ l = k
    <3>1. buckets'[v][l] = c /\ log'[v][l] = r
      BY <1>4, <2>1 DEF Inv, LimiterTypeOK
    <3>2. QED
      BY <1>2, <2>1, <3>1
  <2>2. CASE ~(v = w /\ l = k)
    <3>1. buckets'[v][l] = buckets[v][l] /\ log'[v][l] = log[v][l]
      BY <1>4, <2>2 DEF Inv, LimiterTypeOK
    <3>2. QED
      BY <3>1 DEF Inv
  <2>3. QED
    BY <2>1, <2>2
<1>7. QED
  BY <1>4, <1>5, <1>6 DEF Inv

LEMMA RetryAfterType ==
    ASSUME NEW b \in Bucket, now \in Nat
    PROVE  /\ RetryAfter(b) \in Nat
           /\ now + Second * RetryAfter(b) \in Nat
           /\ now + Second * RetryAfter(b) >= b.expiresAt
<1> DEFINE x == b.expiresAt - now
           q == (x + Second - 1) \div Second
<1>1. x \in Int /\ Second \in Nat \ {0}
  BY RateLimitAssumption DEF Bucket
<1>2. q \in Int /\ Second * q >= x
  <2> HIDE DEF x
  <2>1. QED
    BY <1>1
<1>3. RetryAfter(b) = IF q < 1 THEN 1 ELSE q
  BY DEF RetryAfter
<1> HIDE DEF q
<1>4. CASE q < 1
  <2>1. Second * q <= 0
    BY <1>1, <1>2, <1>4
  <2>2. RetryAfter(b) = 1 /\ Second * RetryAfter(b) = Second
    BY <1>1, <1>3, <1>4
  <2>3. QED
    BY <1>1, <1>2, <2>1, <2>2 DEF Bucket
<1>5. CASE ~(q < 1)
  <2>1. RetryAfter(b) = q /\ q \in Nat /\ Second * q \in Nat
    BY <1>1, <1>2, <1>3, <1>5
  <2>2. QED
    BY <1>1, <1>2, <2>1 DEF Bucket
<1>6. QED
  BY <1>4, <1>5

LEMMA RefuseInv ==
    ASSUME Inv, NEW w \in Workers, NEW k \in Keys, Refuse(w, k)
    PROVE  Inv'
<1> DEFINE b == buckets[w][k]
           c == Counted(k, b)
           u == now + Second * RetryAfter(c)
<1>1. /\ b \in Bucket /\ log[w][k] \in Seq(Admission) /\ now \in Nat \ {0}
      /\ Sound(k, b, log[w][k], now) /\ Exceeds(k, c)
  BY DEF Inv, LimiterTypeOK, Refuse
<1>2. Sound(k, c, log[w][k], now)
  BY <1>1, RefuseKeeps
<1>3. c \in Bucket /\ u \in Nat
  <2>1. c \in Bucket
    BY <1>1, CountedWindow DEF Sound
  <2>2. QED
    BY <1>1, <2>1, RetryAfterType
<1>4. /\ buckets' = [buckets EXCEPT ![w][k] = c]
      /\ told' = [told EXCEPT ![w][k] = u]
      /\ log' = log /\ now' = now /\ crashes' = crashes
  BY DEF Refuse
<1> HIDE DEF b, c, u
<1>5. LimiterTypeOK'
  BY <1>3, <1>4 DEF Inv, LimiterTypeOK
<1>6. ASSUME NEW v \in Workers, NEW l \in Keys
      PROVE  Sound(l, buckets'[v][l], log'[v][l], now)
  <2>1. CASE v = w /\ l = k
    <3>1. buckets'[v][l] = c /\ log'[v][l] = log[w][k]
      BY <1>4, <2>1 DEF Inv, LimiterTypeOK
    <3>2. QED
      BY <1>2, <2>1, <3>1
  <2>2. CASE ~(v = w /\ l = k)
    <3>1. buckets'[v][l] = buckets[v][l] /\ log'[v][l] = log[v][l]
      BY <1>4, <2>2 DEF Inv, LimiterTypeOK
    <3>2. QED
      BY <3>1 DEF Inv
  <2>3. QED
    BY <2>1, <2>2
<1>7. QED
  BY <1>4, <1>5, <1>6 DEF Inv

LEMMA PruneInv ==
    ASSUME Inv, NEW w \in Workers, Prune(w)
    PROVE  Inv'
<1>1. \A v \in Workers, k \in Keys :
         /\ buckets[v][k] \in Bucket /\ log[v][k] \in Seq(Admission)
         /\ Sound(k, buckets[v][k], log[v][k], now)
  BY DEF Inv, LimiterTypeOK
<1>2. now \in Nat \ {0}
  BY DEF Inv, LimiterTypeOK
<1>3. \A k \in Keys : /\ Pruned(buckets[w][k]) \in Bucket
                      /\ Sound(k, Pruned(buckets[w][k]), log[w][k], now)
  BY <1>1, <1>2, PruneKeeps
<1>4. LimiterTypeOK'
  BY <1>3 DEF Prune, Inv, LimiterTypeOK
<1>5. ASSUME NEW v \in Workers, NEW k \in Keys
      PROVE  Sound(k, buckets'[v][k], log'[v][k], now')
  <2>1. buckets'[v][k] = IF v = w THEN Pruned(buckets[w][k]) ELSE buckets[v][k]
    BY DEF Prune, Inv, LimiterTypeOK
  <2>2. QED
    BY <1>1, <1>3, <2>1 DEF Prune
<1>6. QED
  BY <1>4, <1>5 DEF Inv

LEMMA RestartInv ==
    ASSUME Inv, NEW w \in Workers, Restart(w)
    PROVE  Inv'
<1>1. now \in Nat
  BY DEF Inv, LimiterTypeOK
<1>2. \A k \in Keys : NoBucket \in Bucket /\ Sound(k, NoBucket, <<>>, now)
  BY <1>1, FreshIsSound
<1>3. LimiterTypeOK'
  BY <1>2 DEF Restart, Inv, LimiterTypeOK
<1>4. ASSUME NEW v \in Workers, NEW k \in Keys
      PROVE  Sound(k, buckets'[v][k], log'[v][k], now')
  <2>1. /\ buckets'[v][k] = IF v = w THEN NoBucket ELSE buckets[v][k]
        /\ log'[v][k] = IF v = w THEN <<>> ELSE log[v][k]
    BY DEF Restart, Inv, LimiterTypeOK
  <2>2. QED
    BY <1>2, <2>1 DEF Restart, Inv
<1>5. QED
  BY <1>3, <1>4 DEF Inv

LEMMA NextInv == Inv /\ [LimiterNext]_limiter => Inv'
<1> SUFFICES ASSUME Inv, [LimiterNext]_limiter PROVE Inv'
  OBVIOUS
<1>1. ASSUME NEW w \in Workers, NEW k \in Keys, Admit(w, k) PROVE Inv'
  BY <1>1, AdmitInv
<1>2. ASSUME NEW w \in Workers, NEW k \in Keys, Refuse(w, k) PROVE Inv'
  BY <1>2, RefuseInv
<1>3. ASSUME NEW w \in Workers, Prune(w) PROVE Inv'
  BY <1>3, PruneInv
<1>4. ASSUME NEW w \in Workers, Restart(w) PROVE Inv'
  BY <1>4, RestartInv
<1>5. CASE Tick
  <2>1. now \in Nat /\ now' = now + 1
    BY <1>5 DEF Inv, LimiterTypeOK, Tick
  <2>2. LimiterTypeOK'
    BY <1>5 DEF Inv, LimiterTypeOK, Tick
  <2>3. ASSUME NEW w \in Workers, NEW k \in Keys
        PROVE  Sound(k, buckets'[w][k], log'[w][k], now')
    <3>1. /\ buckets[w][k] \in Bucket /\ log[w][k] \in Seq(Admission)
          /\ Sound(k, buckets[w][k], log[w][k], now)
      BY DEF Inv, LimiterTypeOK
    <3>2. Sound(k, buckets[w][k], log[w][k], now + 1)
      BY <2>1, <3>1, TickKeeps
    <3>3. QED
      BY <1>5, <2>1, <3>2 DEF Tick
  <2>4. QED
    BY <2>2, <2>3 DEF Inv
<1>6. CASE UNCHANGED limiter
  BY <1>6 DEF limiter, Inv, LimiterTypeOK
<1>7. QED
  BY <1>1, <1>2, <1>3, <1>4, <1>5, <1>6 DEF LimiterNext

LEMMA LimiterInvariance == LimiterSpec => []Inv
  BY InitInv, NextInv, PTL DEF LimiterSpec

-----------------------------------------------------------------------------
(* The theorems *)

\* The limiter keeps its types.
THEOREM LimiterTypes == LimiterSpec => []LimiterTypeOK
<1>1. Inv => LimiterTypeOK
  BY DEF Inv
<1>2. QED
  BY <1>1, LimiterInvariance, PTL

\* No window lets through more than its limit.
THEOREM WindowLimit == LimiterSpec => []LimitPerWindow
<1>1. Inv => LimitPerWindow
  BY DEF Inv, Sound, Spaced, LimitPerWindow
<1>2. QED
  BY <1>1, LimiterInvariance, PTL

\* No stretch of one window's length lets through more than twice the limit: the
\* admissions i, i + Limit and i + 2 Limit are of three windows, each begun after
\* the one before it was over.
THEOREM TwiceTheLimit == LimiterSpec => []AtMostTwice
<1>1. ASSUME Inv PROVE AtMostTwice
  <2> SUFFICES ASSUME NEW w \in Workers, NEW k \in Keys,
                      NEW i \in 1..Len(log[w][k]), NEW j \in 1..Len(log[w][k]),
                      i + 2 * Limit[k] <= j
               PROVE  log[w][k][j].at - log[w][k][i].at > Window[k]
    BY DEF AtMostTwice
  <2> DEFINE s == log[w][k]
             h == i + Limit[k]
  <2>1. Sound(k, buckets[w][k], s, now) /\ s \in Seq(Admission)
    BY <1>1 DEF Inv, LimiterTypeOK
  <2>2. /\ Limit[k] \in Nat \ {0} /\ Window[k] \in Nat
        /\ Len(s) \in Nat
    BY <2>1, RateLimitAssumption
  <2>3. h \in 1..Len(s) /\ h + Limit[k] <= j
    BY <2>2
  <2>4. s[h].since > s[i].since + Window[k] /\ s[j].since > s[h].since + Window[k]
    <3>1. Spaced(k, s)
      BY <2>1 DEF Sound
    <3>2. i + Limit[k] <= h
      BY <2>2
    <3> HIDE DEF s, h
    <3>3. QED
      BY <2>3, <3>1, <3>2 DEF Spaced, s
  <2>5. s[j].at >= s[j].since /\ s[i].at <= s[i].since + Window[k]
    BY <2>1 DEF Sound, InWindow
  <2>6. /\ s[i].since \in Int /\ s[i].at \in Nat /\ s[h].since \in Int
        /\ s[j].since \in Int /\ s[j].at \in Nat
    BY <2>1, <2>3, LogEntries
  <2> HIDE DEF s, h
  <2>7. s[j].at - s[i].at > Window[k]
    <3>1. \A ai, fi, fh, fj, aj, v \in Int :
             /\ fh > fi + v /\ fj > fh + v /\ aj >= fj /\ ai <= fi + v
             => aj - ai > v
      OBVIOUS
    <3>2. Window[k] \in Int /\ s[i].at \in Int /\ s[j].at \in Int
      BY <2>2, <2>6
    <3>3. QED
      BY <2>4, <2>5, <2>6, <3>1, <3>2
  <2>8. QED
    BY <2>7 DEF s
<1>2. QED
  BY <1>1, LimiterInvariance, PTL

\* What a refusal promised is not before the end of the window it came from.
Promised ==
    \A w \in Workers, k \in Keys :
        told[w][k] # 0 => buckets[w][k].expiresAt <= told[w][k]

LEMMA PromisedInv == Inv /\ Promised /\ [LimiterNext]_limiter => Promised'
<1> SUFFICES ASSUME Inv, Promised, [LimiterNext]_limiter,
                    NEW v \in Workers, NEW l \in Keys, told'[v][l] # 0
             PROVE  buckets'[v][l].expiresAt <= told'[v][l]
  BY DEF Promised
<1>1. /\ buckets[v][l] \in Bucket /\ now \in Nat \ {0} /\ told[v][l] \in Nat
      /\ Sound(l, buckets[v][l], log[v][l], now)
  BY DEF Inv, LimiterTypeOK
<1>2. ASSUME NEW w \in Workers, NEW k \in Keys, Admit(w, k)
      PROVE  buckets'[v][l].expiresAt <= told'[v][l]
  <2>1. ~(v = w /\ l = k)
    BY <1>2 DEF Admit, Inv, LimiterTypeOK
  <2>2. buckets'[v][l] = buckets[v][l] /\ told'[v][l] = told[v][l]
    BY <1>2, <2>1 DEF Admit, Inv, LimiterTypeOK
  <2>3. QED
    BY <2>2 DEF Promised
<1>3. ASSUME NEW w \in Workers, NEW k \in Keys, Refuse(w, k)
      PROVE  buckets'[v][l].expiresAt <= told'[v][l]
  <2>1. CASE v = w /\ l = k
    <3> DEFINE c == Counted(l, buckets[v][l])
    <3>1. buckets'[v][l] = c /\ told'[v][l] = now + Second * RetryAfter(c)
      BY <1>3, <2>1 DEF Refuse, Inv, LimiterTypeOK
    <3>2. c \in Bucket
      BY <1>1, CountedWindow DEF Sound
    <3>3. QED
      BY <1>1, <3>1, <3>2, RetryAfterType
  <2>2. CASE ~(v = w /\ l = k)
    <3>1. buckets'[v][l] = buckets[v][l] /\ told'[v][l] = told[v][l]
      BY <1>3, <2>2 DEF Refuse, Inv, LimiterTypeOK
    <3>2. QED
      BY <3>1 DEF Promised
  <2>3. QED
    BY <2>1, <2>2
<1>4. ASSUME NEW w \in Workers, Prune(w)
      PROVE  buckets'[v][l].expiresAt <= told'[v][l]
  <2>1. /\ buckets'[v][l] \in {buckets[v][l], NoBucket}
        /\ told'[v][l] = told[v][l]
    BY <1>4 DEF Prune, Pruned, Inv, LimiterTypeOK
  <2>2. QED
    BY <1>1, <2>1 DEF Promised, NoBucket, BucketOf
<1>5. ASSUME NEW w \in Workers, Restart(w)
      PROVE  buckets'[v][l].expiresAt <= told'[v][l]
  <2>1. v # w
    BY <1>5 DEF Restart, Inv, LimiterTypeOK
  <2>2. buckets'[v][l] = buckets[v][l] /\ told'[v][l] = told[v][l]
    BY <1>5, <2>1 DEF Restart, Inv, LimiterTypeOK
  <2>3. QED
    BY <2>2 DEF Promised
<1>6. CASE Tick \/ UNCHANGED limiter
  BY <1>6 DEF Tick, limiter, Promised
<1>7. QED
  BY <1>2, <1>3, <1>4, <1>5, <1>6 DEF LimiterNext

\* After the time a refusal named, the worker does not refuse the key before it has
\* admitted it again.
THEOREM RetryAfterHolds == LimiterSpec => RetryAfterHonest
<1>1. LimiterInit => Promised
  BY DEF LimiterInit, Promised
<1>2. ASSUME Inv, Promised, NEW w \in Workers, NEW k \in Keys, Refuse(w, k), told[w][k] # 0
      PROVE  now <= told[w][k]
  <2>1. /\ buckets[w][k] \in Bucket /\ now \in Nat /\ told[w][k] \in Nat
        /\ Sound(k, buckets[w][k], log[w][k], now)
        /\ Exceeds(k, Counted(k, buckets[w][k]))
    BY <1>2 DEF Inv, LimiterTypeOK, Refuse
  <2>2. ~Expired(buckets[w][k])
    BY <2>1, RefusedWhileRunning DEF Sound
  <2>3. QED
    BY <1>2, <2>1, <2>2 DEF Promised, Expired, Bucket
<1>3. Inv /\ Promised /\ [LimiterNext]_limiter =>
        [\A w \in Workers, k \in Keys :
            Refuse(w, k) /\ told[w][k] # 0 => now <= told[w][k]]_limiter
  BY <1>2
<1>4. QED
  BY <1>1, <1>3, LimiterInvariance, PromisedInv, PTL DEF LimiterSpec, RetryAfterHonest

-----------------------------------------------------------------------------
(* Accounts. *)

\* A handle without an account has nothing on it.
RowsSound == \A n \in Handles : ~Exists(n) => user[n] = NoRow

\* Two requests that are about one handle are rivals.
MeetingsKnown ==
    \A g, h \in Handlers :
        g # h /\ pc[g] # "idle" /\ pc[h] # "idle" /\ job[g].handle = job[h].handle
          => job[h].handle = None \/ job[h].handle \in rivals

\* What a request at a stage is about.
JobSound(h) ==
    pc[h] # "idle" =>
        /\ job[h].way = "visit" <=> job[h].person = None
        /\ job[h].email \in {None, job[h].person} \/ job[h].way = "register"
        /\ IF pc[h] = "byEmail" THEN job[h].handle = None /\ job[h].email # None
           ELSE job[h].handle \in Handles
        /\ pc[h] = "claiming" => job[h].way = "register"
        /\ pc[h] \in {"byEmail", "linking", "deriving"} => job[h].way = "google"
        /\ job[h].way = "login" => pc[h] = "opening"
        /\ pc[h] \in {"opening", "signing"} => job[h].way # "visit"

\* Sessions, and requests about to open one, are for accounts that are there.
SessionsThere == \A s \in sessions : Exists(s[2])
AccountThere(h) == pc[h] \in {"opening", "signing"} => Exists(job[h].handle)

\* What a request that is alone with its handle has found there is still so.
Found(h) ==
    job[h].handle \notin rivals =>
        /\ pc[h] = "claiming" => user[job[h].handle].password = None
        /\ pc[h] \in {"ensuring", "creating"} /\ job[h].way # "visit" => ~Exists(job[h].handle)
        /\ pc[h] = "signing" => Involved(job[h].handle) = {}
        /\ pc[h] = "linking" => user[job[h].handle].email = job[h].person

HandlerSound(h) == JobSound(h) /\ AccountThere(h) /\ Found(h)

\* One person on an account, or the two whose password and whose address it has.
OneThere(n) == \A x, y \in Involved(n) : x = y
TwoThere(n) == user[n].password # None /\ Involved(n) \subseteq {user[n].password, user[n].email}
OnlyOne ==
    \A n \in Handles \ (rivals \cup claimed) : IF n \in borrowed THEN TwoThere(n) ELSE OneThere(n)

IInv ==
    /\ TypeOK
    /\ RowsSound
    /\ MeetingsKnown
    /\ SessionsThere
    /\ OnlyOne
    /\ \A h \in Handlers : HandlerSound(h)

-----------------------------------------------------------------------------
(* Rows and jobs *)

LEMMA RowTypes ==
    /\ NoRow \in Row /\ NoRow.state = "missing"
    /\ NoRow.password = None /\ NoRow.google = None /\ NoRow.email = None
    /\ \A p, g, e \in Owner :
          LET r == RowOf(p, g, e) IN
          r \in Row /\ r.state = "there" /\ r.password = p /\ r.google = g /\ r.email = e
    /\ \A r \in Row : r.password \in Owner /\ r.google \in Owner /\ r.email \in Owner
  BY DEF Row, RowOf, NoRow, Owner

LEMMA JobTypes ==
    /\ NoJob \in Job /\ NoJob.handle = None
    /\ \A p \in Owner, way \in Ways, n \in Handles \cup {None}, e \in Owner :
          LET j == JobOf(p, way, n, e) IN
          j \in Job /\ j.person = p /\ j.way = way /\ j.handle = n /\ j.email = e
    /\ \A j \in Job : /\ j.person \in Owner /\ j.way \in Ways
                      /\ j.handle \in Handles \cup {None} /\ j.email \in Owner
  BY DEF Job, JobOf, NoJob, Owner, Ways

\* The parts of what people have on an account.
Signs(n) == {user[n].password, user[n].google, user[n].email}
Signed(n) == {s[1] : s \in {t \in sessions : t[2] = n}}
Opening(n) == {job[h].person : h \in {g \in Handlers : pc[g] = "opening" /\ job[g].handle = n}}

LEMMA InvolvedParts == ASSUME NEW n PROVE Involved(n) = (Signs(n) \cup Signed(n) \cup Opening(n)) \ {None}
  BY DEF Involved, Signs, Signed, Opening

\* A handler that goes on, or ends.
Moved(h) ==
    /\ pc' \in [Handlers -> Stages] /\ job' \in [Handlers -> Job]
    /\ \A g \in Handlers \ {h} : pc'[g] = pc[g] /\ job'[g] = job[g]
    /\ rivals \subseteq rivals' /\ rivals' \subseteq Handles
    /\ pc'[h] # "idle" =>
         \A g \in Handlers \ {h} :
             pc[g] # "idle" /\ job[g].handle = job'[h].handle =>
                 job'[h].handle = None \/ job'[h].handle \in rivals'

LEMMA GotoMoves ==
    ASSUME TypeOK, NEW h \in Handlers, NEW stage \in Stages, NEW j \in Job, Goto(h, stage, j)
    PROVE  Moved(h) /\ pc'[h] = stage /\ job'[h] = j
<1>1. j.handle \in Handles \cup {None}
  BY JobTypes
<1>2. /\ pc' \in [Handlers -> Stages] /\ job' \in [Handlers -> Job]
      /\ pc'[h] = stage /\ job'[h] = j
      /\ \A g \in Handlers \ {h} : pc'[g] = pc[g] /\ job'[g] = job[g]
  BY DEF Goto, TypeOK
<1>3. rivals \subseteq rivals' /\ rivals' \subseteq Handles
  BY <1>1 DEF Goto, TypeOK
<1>4. ASSUME NEW g \in Handlers \ {h}, pc[g] # "idle", job[g].handle = j.handle, j.handle # None
      PROVE  j.handle \in rivals'
  BY <1>4 DEF Goto
<1> QED
  BY <1>2, <1>3, <1>4 DEF Moved

LEMMA FinishMoves ==
    ASSUME TypeOK, NEW h \in Handlers, Finish(h)
    PROVE  Moved(h) /\ pc'[h] = "idle" /\ rivals' = rivals
  BY JobTypes DEF Finish, Moved, TypeOK, Stages

LEMMA MovedMeetings ==
    ASSUME IInv, NEW h \in Handlers, Moved(h) PROVE MeetingsKnown'
<1> SUFFICES ASSUME NEW g \in Handlers, NEW k \in Handlers, g # k, pc'[g] # "idle", pc'[k] # "idle",
                    job'[g].handle = job'[k].handle
             PROVE  job'[k].handle = None \/ job'[k].handle \in rivals'
  BY DEF MeetingsKnown
<1>1. CASE g = h
  BY <1>1 DEF Moved
<1>2. CASE k = h
  BY <1>2 DEF Moved
<1>3. CASE g # h /\ k # h
  <2>1. pc'[g] = pc[g] /\ job'[g] = job[g] /\ pc'[k] = pc[k] /\ job'[k] = job[k]
    BY <1>3 DEF Moved
  <2>2. job[k].handle = None \/ job[k].handle \in rivals
    BY <2>1 DEF IInv, MeetingsKnown
  <2> QED
    BY <2>1, <2>2 DEF Moved
<1> QED
  BY <1>1, <1>2, <1>3

-----------------------------------------------------------------------------
(* What a step of a handler leaves alone *)

\* A step of handler h that touches nothing but handle n, which it was or is about.
Local(h, n) ==
    /\ Moved(h)
    /\ user' \in [Handles -> Row] /\ served' \in Nat
    /\ sessions \subseteq sessions' /\ sessions' \subseteq People \X Handles
    /\ claimed \subseteq claimed' /\ claimed' \subseteq Handles
    /\ borrowed' \in {borrowed, borrowed \cup {n}} /\ borrowed' \subseteq Handles
    /\ \A m \in Handles : m # n => user'[m] = user[m]
    /\ \A m \in Handles : Exists(m) => Exists(m)'
    /\ \A s \in sessions' \ sessions : s[2] = n
    /\ pc'[h] # "idle" => job'[h].handle = n
    /\ pc'[h] = "idle" => pc[h] # "idle" /\ job[h].handle = n

LEMMA Apart ==
    ASSUME IInv, NEW h \in Handlers, NEW n, Local(h, n),
           NEW g \in Handlers, g # h, pc[g] # "idle", job[g].handle \notin rivals', n # None
    PROVE  job[g].handle # n
<1>1. CASE pc'[h] # "idle"
  BY <1>1 DEF Local, Moved
<1>2. CASE pc'[h] = "idle"
  <2>1. pc[h] # "idle" /\ job[h].handle = n /\ rivals \subseteq rivals'
    BY <1>2 DEF Local, Moved
  <2> QED
    BY <2>1 DEF IInv, MeetingsKnown
<1> QED
  BY <1>1, <1>2

LEMMA Elsewhere ==
    ASSUME IInv, NEW h \in Handlers, NEW n, Local(h, n), NEW m \in Handles, m # n
    PROVE  Involved(m)' \subseteq Involved(m)
<1>1. Signs(m)' = Signs(m)
  BY DEF Local, Signs
<1>2. Signed(m)' = Signed(m)
  BY DEF Local, Signed
<1>3. Opening(m)' \subseteq Opening(m)
  <2> SUFFICES ASSUME NEW g \in Handlers, pc'[g] = "opening", job'[g].handle = m
               PROVE  job'[g].person \in Opening(m)
    BY DEF Opening
  <2>1. g # h
    BY DEF Local
  <2>2. pc'[g] = pc[g] /\ job'[g] = job[g]
    BY <2>1 DEF Local, Moved
  <2> QED
    BY <2>2 DEF Opening
<1>4. Involved(m)' = ((Signs(m) \cup Signed(m) \cup Opening(m)) \ {None})'
  BY DEF Involved, Signs, Signed, Opening
<1> QED
  BY <1>1, <1>2, <1>3, <1>4, InvolvedParts

LEMMA OthersSound ==
    ASSUME IInv, NEW h \in Handlers, NEW n, Local(h, n), NEW g \in Handlers, g # h
    PROVE  HandlerSound(g)'
<1>1. /\ pc'[g] = pc[g] /\ job'[g] = job[g] /\ rivals \subseteq rivals'
      /\ HandlerSound(g)
  BY DEF Local, Moved, IInv
<1>2. JobSound(g)'
  BY <1>1 DEF HandlerSound, JobSound
<1>3. AccountThere(g)'
  <2> SUFFICES ASSUME pc[g] \in {"opening", "signing"} PROVE Exists(job[g].handle)'
    BY <1>1 DEF AccountThere
  <2>1. PICK m \in Handles : m = job[g].handle
    BY <1>1 DEF HandlerSound, JobSound
  <2>2. Exists(m)
    BY <1>1, <2>1 DEF HandlerSound, AccountThere
  <2>3. Exists(m)'
    BY <2>2 DEF Local
  <2> QED
    BY <1>1, <2>1, <2>3 DEF Exists
<1>4. Found(g)'
  <2> SUFFICES ASSUME job[g].handle \notin rivals', pc[g] \in {"claiming", "ensuring", "creating", "signing", "linking"}
               PROVE  Found(g)'
    BY <1>1 DEF Found
  <2>1. PICK m \in Handles : m = job[g].handle
    BY <1>1 DEF HandlerSound, JobSound
  <2>2. m # n
    BY <2>1, Apart, AccountsAssumption
  <2>3. user'[m] = user[m]
    BY <2>2 DEF Local
  <2>4. Involved(m)' \subseteq Involved(m)
    BY <2>2, Elsewhere
  <2>5. /\ Found(g) /\ job[g].handle \notin rivals /\ job'[g].handle = m
    BY <1>1, <2>1 DEF HandlerSound
  <2>6. Involved(job[g].handle) = Involved(m) /\ Involved(job[g].handle)' = Involved(m)'
    BY <2>1, <2>5 DEF Involved
  <2> QED
    BY <1>1, <2>1, <2>3, <2>4, <2>5, <2>6 DEF Found, Exists
<1> QED
  BY <1>2, <1>3, <1>4 DEF HandlerSound

\* Whoever the step puts on the account is one of P.
Adds(h, n, P) ==
    /\ Signs(n)' \subseteq Signs(n) \cup P \cup {None}
    /\ \A s \in sessions' \ sessions : s[1] \in P
    /\ pc'[h] = "opening" => job'[h].person \in P

LEMMA Here ==
    ASSUME IInv, NEW h \in Handlers, NEW n \in Handles, NEW P, Local(h, n), Adds(h, n, P)
    PROVE  Involved(n)' \subseteq Involved(n) \cup (P \ {None})
<1>1. Signed(n)' \subseteq Signed(n) \cup P
  BY DEF Adds, Signed
<1>2. Opening(n)' \subseteq Opening(n) \cup P
  <2> SUFFICES ASSUME NEW g \in Handlers, pc'[g] = "opening", job'[g].handle = n
               PROVE  job'[g].person \in Opening(n) \cup P
    BY DEF Opening
  <2>1. CASE g = h
    BY <2>1 DEF Adds
  <2>2. CASE g # h
    <3>1. pc'[g] = pc[g] /\ job'[g] = job[g]
      BY <2>2 DEF Local, Moved
    <3> QED
      BY <3>1 DEF Opening
  <2> QED
    BY <2>1, <2>2
<1>3. Involved(n)' = ((Signs(n) \cup Signed(n) \cup Opening(n)) \ {None})'
  BY DEF Involved, Signs, Signed, Opening
<1> QED
  BY <1>1, <1>2, <1>3, InvolvedParts DEF Adds

\* The password and the address stay, and the person was on the account already or
\* nobody was.
Joins(h, n) ==
    /\ n \in borrowed' => n \in borrowed /\ UNCHANGED <<user[n].password, user[n].email>>
    /\ \E p \in Owner : Adds(h, n, {p}) /\ (p = None \/ p \in Involved(n) \/ Involved(n) = {})

\* The account is spoiled, or the step fits the people who are on it.
Fits(h, n) == n \in Handles \ (rivals' \cup claimed') => Joins(h, n) \/ (n \in borrowed' /\ TwoThere(n)')

LEMMA StepKeeps ==
    ASSUME IInv, NEW h \in Handlers, NEW n, Local(h, n), Fits(h, n),
           n \in Handles /\ ~Exists(n)' => user'[n] = NoRow,
           \A s \in sessions' \ sessions : Exists(s[2])',
           HandlerSound(h)'
    PROVE  IInv'
<1>1. TypeOK'
  BY DEF TypeOK, Local, Moved
<1>2. RowsSound'
  BY DEF IInv, RowsSound, Local, Exists
<1>3. MeetingsKnown'
  BY MovedMeetings DEF Local
<1>4. SessionsThere'
  BY DEF IInv, TypeOK, SessionsThere, Local
<1>5. OnlyOne'
  <2> SUFFICES ASSUME NEW m \in Handles \ (rivals' \cup claimed')
               PROVE  IF m \in borrowed' THEN TwoThere(m)' ELSE OneThere(m)'
    BY DEF OnlyOne
  <2>1. IF m \in borrowed THEN TwoThere(m) ELSE OneThere(m)
    BY DEF IInv, OnlyOne, Local, Moved
  <2>2. CASE m # n
    <3>1. Involved(m)' \subseteq Involved(m) /\ user'[m] = user[m]
      BY <2>2, Elsewhere DEF Local
    <3>2. m \in borrowed' <=> m \in borrowed
      BY <2>2 DEF Local
    <3> QED
      BY <2>1, <3>1, <3>2 DEF OneThere, TwoThere
  <2>3. CASE m = n /\ ~Joins(h, n)
    BY <2>3 DEF Fits
  <2>4. CASE m = n /\ Joins(h, n)
    <3>1. PICK p \in Owner : Adds(h, m, {p}) /\ (p = None \/ p \in Involved(m) \/ Involved(m) = {})
      BY <2>4 DEF Joins
    <3>2. Involved(m)' \subseteq Involved(m) \cup ({p} \ {None})
      BY <2>4, <3>1, Here
    <3>3. m \in borrowed => m \in borrowed'
      BY DEF Local
    <3>4. CASE m \notin borrowed'
      BY <2>1, <3>1, <3>2, <3>3, <3>4 DEF OneThere
    <3>5. CASE m \in borrowed'
      <4>1. TwoThere(m) /\ UNCHANGED <<user[m].password, user[m].email>>
        BY <2>1, <2>4, <3>5 DEF Joins
      <4>2. user[m].password \in Involved(m)
        BY <4>1 DEF TwoThere, Involved
      <4> QED
        BY <3>1, <3>2, <3>5, <4>1, <4>2 DEF TwoThere
    <3> QED
      BY <3>4, <3>5
  <2> QED
    BY <2>2, <2>3, <2>4
<1>6. \A g \in Handlers : HandlerSound(g)'
  BY OthersSound
<1> QED
  BY <1>1, <1>2, <1>3, <1>4, <1>5, <1>6 DEF IInv

-----------------------------------------------------------------------------
(* The three kinds of steps *)

LEMMA Served == ASSUME TypeOK, UNCHANGED served \/ Arrives PROVE served' \in Nat
  BY DEF TypeOK, Arrives

\* A request that has read something and goes on, about j.handle.
LEMMA ReadStep ==
    ASSUME IInv, NEW h \in Handlers, NEW stage \in Stages \ {"idle"}, NEW j \in Job,
           Goto(h, stage, j), UNCHANGED <<user, sessions, excuses>>, UNCHANGED served \/ Arrives,
           HandlerSound(h)',
           stage = "opening" /\ j.handle \in Handles => j.person \in Involved(j.handle)
    PROVE  IInv'
<1>1. TypeOK /\ RowsSound
  BY DEF IInv
<1>2. Moved(h) /\ pc'[h] = stage /\ job'[h] = j
  BY <1>1, GotoMoves
<1>3. served' \in Nat
  BY <1>1, Served
<1>4. Local(h, j.handle)
  BY <1>1, <1>2, <1>3 DEF Local, TypeOK, Exists, excuses
<1>5. Fits(h, j.handle)
  <2>1. j.person \in Owner /\ None \in Owner
    BY JobTypes DEF Owner
  <2>2. Signs(j.handle)' = Signs(j.handle)
    BY DEF Signs
  <2>3. CASE stage = "opening"
    <3>1. Adds(h, j.handle, {j.person})
      BY <1>2, <2>2 DEF Adds
    <3> QED
      BY <2>1, <2>3, <3>1 DEF Fits, Joins, excuses
  <2>4. CASE stage # "opening"
    <3>1. Adds(h, j.handle, {None})
      BY <1>2, <2>2, <2>4 DEF Adds
    <3> QED
      BY <2>1, <3>1 DEF Fits, Joins, excuses
  <2> QED
    BY <2>3, <2>4
<1>6. j.handle \in Handles /\ ~Exists(j.handle)' => user'[j.handle] = NoRow
  BY <1>1 DEF RowsSound, Exists
<1> QED
  BY <1>4, <1>5, <1>6, StepKeeps

\* A request that writes the row of its handle and goes on, or ends.
LEMMA WriteStep ==
    ASSUME IInv, NEW h \in Handlers, NEW n \in Handles, NEW p, NEW g, NEW e,
           p \in Owner, g \in Owner, e \in Owner,
           pc[h] # "idle", job[h].handle = n,
           Write(n, RowOf(p, g, e)), Moved(h), pc'[h] # "idle" => job'[h].handle = n,
           UNCHANGED <<sessions, served>>, claimed \subseteq claimed', claimed' \subseteq Handles,
           borrowed' \in {borrowed, borrowed \cup {n}}, borrowed' \subseteq Handles,
           Fits(h, n), HandlerSound(h)'
    PROVE  IInv'
<1>1. TypeOK
  BY DEF IInv
<1>2. RowOf(p, g, e) \in Row /\ RowOf(p, g, e).state = "there"
  BY RowTypes
<1>3. user' \in [Handles -> Row] /\ user'[n] = RowOf(p, g, e) /\ \A m \in Handles : m # n => user'[m] = user[m]
  BY <1>1, <1>2 DEF Write, TypeOK
<1>4. Exists(n)' /\ \A m \in Handles : Exists(m) => Exists(m)'
  BY <1>2, <1>3 DEF Exists
<1>5. Local(h, n)
  BY <1>1, <1>3, <1>4 DEF Local, TypeOK
<1> QED
  BY <1>4, <1>5, StepKeeps

\* A request that ends, with a session or without.
LEMMA EndStep ==
    ASSUME IInv, NEW h \in Handlers, pc[h] # "idle", Finish(h), UNCHANGED <<user, served, excuses>>,
           \/ UNCHANGED sessions
           \/ pc[h] = "opening" /\ sessions' = sessions \cup {<<job[h].person, job[h].handle>>}
    PROVE  IInv'
<1>1. TypeOK /\ RowsSound /\ HandlerSound(h)
  BY DEF IInv
<1>2. Moved(h) /\ pc'[h] = "idle"
  BY <1>1, FinishMoves
<1>3. job[h] \in Job
  BY <1>1 DEF TypeOK
<1>4. pc[h] = "opening" =>
        job[h].person \in People /\ job[h].handle \in Handles /\ Exists(job[h].handle)
  BY <1>1, <1>3, JobTypes DEF HandlerSound, JobSound, AccountThere, Owner
<1>5. sessions \subseteq sessions' /\ sessions' \subseteq People \X Handles
  BY <1>1, <1>4 DEF TypeOK
<1>6. PICK n : n = job[h].handle
  OBVIOUS
<1>7. Local(h, n)
  BY <1>1, <1>2, <1>5, <1>6 DEF Local, TypeOK, Exists, excuses
<1>8. Fits(h, n)
  <2> SUFFICES ASSUME n \in Handles
               PROVE  \E p \in Owner : Adds(h, n, {p}) /\ (p = None \/ p \in Involved(n) \/ Involved(n) = {})
    BY DEF Fits, Joins, excuses
  <2>2. Signs(n)' = Signs(n)
    BY DEF Signs
  <2>3. CASE UNCHANGED sessions
    <3>1. Adds(h, n, {None})
      BY <1>2, <2>2, <2>3 DEF Adds
    <3> QED
      BY <3>1 DEF Owner
  <2>4. CASE pc[h] = "opening" /\ sessions' = sessions \cup {<<job[h].person, job[h].handle>>}
    <3>1. Adds(h, n, {job[h].person})
      BY <1>2, <2>2, <2>4 DEF Adds
    <3>2. job[h].person \in Opening(n)
      BY <1>6, <2>4 DEF Opening
    <3>3. job[h].person \in Involved(n)
      BY <1>4, <2>4, <3>2, InvolvedParts, AccountsAssumption
    <3> QED
      BY <1>4, <2>4, <3>1, <3>3 DEF Owner
  <2> QED
    BY <2>3, <2>4
<1>9. HandlerSound(h)'
  BY <1>2 DEF HandlerSound, JobSound, AccountThere, Found
<1>10. \A s \in sessions' \ sessions : Exists(s[2])'
  BY <1>4 DEF Exists
<1>11. n \in Handles /\ ~Exists(n)' => user'[n] = NoRow
  BY <1>1 DEF RowsSound, Exists
<1> QED
  BY <1>7, <1>8, <1>9, <1>10, <1>11, StepKeeps

-----------------------------------------------------------------------------
(* The actions that read *)

\* The state of the handler after Goto, and what the rules above ask about it.
LEMMA Lands ==
    ASSUME IInv, NEW h \in Handlers, NEW stage \in Stages \ {"idle"}, NEW j \in Job, Goto(h, stage, j),
           j.way = "visit" <=> j.person = None,
           j.email \in {None, j.person} \/ j.way = "register",
           IF stage = "byEmail" THEN j.handle = None /\ j.email # None ELSE j.handle \in Handles,
           stage = "claiming" => j.way = "register",
           stage \in {"byEmail", "linking", "deriving"} => j.way = "google",
           j.way = "login" => stage = "opening",
           stage \in {"opening", "signing"} => j.way # "visit",
           stage \in {"opening", "signing"} => Exists(j.handle)',
           j.handle \notin rivals' =>
              /\ stage = "claiming" => user'[j.handle].password = None
              /\ stage \in {"ensuring", "creating"} /\ j.way # "visit" => ~Exists(j.handle)'
              /\ stage = "signing" => Involved(j.handle)' = {}
              /\ stage = "linking" => user'[j.handle].email = j.person
    PROVE  Moved(h) /\ pc'[h] = stage /\ job'[h] = j /\ HandlerSound(h)'
<1>1. Moved(h) /\ pc'[h] = stage /\ job'[h] = j
  BY GotoMoves DEF IInv
<1>2. JobSound(h)'
  BY <1>1 DEF JobSound
<1>3. AccountThere(h)'
  BY <1>1 DEF AccountThere, Exists
<1>4. Found(h)'
  <2>1. Involved(job[h].handle)' = Involved(j.handle)'
    BY <1>1 DEF Involved
  <2> QED
    BY <1>1, <2>1 DEF Found, Exists
<1> QED
  BY <1>1, <1>2, <1>3, <1>4 DEF HandlerSound

LEMMA SignedIn ==
    ASSUME TypeOK, NEW n \in Handles, NEW p \in People
    PROVE  user[n].password = p \/ user[n].google = p \/ user[n].email = p => p \in Involved(n)
  BY AccountsAssumption DEF Involved

LEMMA SignsThere ==
    ASSUME IInv, NEW n \in Handles, NEW p \in People,
           user[n].password = p \/ user[n].google = p \/ user[n].email = p
    PROVE  Exists(n)
  BY RowTypes, AccountsAssumption DEF IInv, RowsSound

LEMMA RegisterReadStep == ASSUME IInv, NEW h \in Handlers, RegisterRead(h) PROVE IInv'
<1>2. PICK p \in People, n \in Handles, e \in Owner :
          /\ Claimable(n)
          /\ IF Exists(n)
             THEN Goto(h, "claiming", JobOf(p, "register", n, IF e = None THEN user[n].email ELSE e))
             ELSE Goto(h, "ensuring", JobOf(p, "register", n, e))
  BY DEF RegisterRead
<1>3. /\ UNCHANGED <<user, sessions, excuses>> /\ Arrives
      /\ p \in Owner /\ e \in Owner /\ p # None /\ user[n].email \in Owner
  BY AccountsAssumption, RowTypes DEF RegisterRead, IInv, TypeOK, Owner
<1>4. CASE Exists(n)
  <2> DEFINE a == IF e = None THEN user[n].email ELSE e
  <2>1. a \in Owner
    BY <1>3
  <2>2. PICK j : j = JobOf(p, "register", n, a)
    OBVIOUS
  <2>3. j \in Job /\ j.person = p /\ j.way = "register" /\ j.handle = n
    BY <1>3, <2>1, <2>2, JobTypes DEF Ways
  <2>4. Goto(h, "claiming", j) /\ user'[n].password = None
    BY <1>2, <1>3, <1>4, <2>2 DEF Claimable
  <2>5. HandlerSound(h)'
    BY <1>3, <2>3, <2>4, Lands DEF Stages
  <2> QED
    BY <1>3, <2>3, <2>4, <2>5, ReadStep DEF Stages
<1>5. CASE ~Exists(n)
  <2>1. PICK j : j = JobOf(p, "register", n, e)
    OBVIOUS
  <2>2. j \in Job /\ j.person = p /\ j.way = "register" /\ j.handle = n /\ j.email = e
    BY <1>3, <2>1, JobTypes DEF Ways
  <2>3. Goto(h, "ensuring", j) /\ ~Exists(n)'
    BY <1>2, <1>3, <1>5, <2>1 DEF Exists
  <2>4. HandlerSound(h)'
    BY <1>3, <2>2, <2>3, Lands DEF Stages
  <2> QED
    BY <1>3, <2>2, <2>3, <2>4, ReadStep DEF Stages
<1> QED
  BY <1>4, <1>5

LEMMA VisitStep == ASSUME IInv, NEW h \in Handlers, Visit(h) PROVE IInv'
<1>1. PICK n \in Handles : Goto(h, "ensuring", JobOf(None, "visit", n, None))
  BY DEF Visit
<1>2. PICK j : j = JobOf(None, "visit", n, None)
  OBVIOUS
<1>3. j \in Job /\ j.person = None /\ j.way = "visit" /\ j.handle = n /\ j.email = None
  <2>1. None \in Owner /\ "visit" \in Ways /\ n \in Handles \cup {None}
    BY DEF Ways, Owner
  <2> QED
    BY <1>2, <2>1, JobTypes
<1>4. Goto(h, "ensuring", j) /\ UNCHANGED <<user, sessions, excuses>> /\ Arrives
  BY <1>1, <1>2 DEF Visit
<1>5. "ensuring" \in Stages \ {"idle"}
  BY DEF Stages
<1>6. HandlerSound(h)'
  BY <1>3, <1>4, <1>5, Lands
<1> QED
  BY <1>3, <1>4, <1>5, <1>6, ReadStep

LEMMA LoginReadStep == ASSUME IInv, NEW h \in Handlers, LoginRead(h) PROVE IInv'
<1>1. PICK p \in People, n \in Handles :
         user[n].password = p /\ Goto(h, "opening", JobOf(p, "login", n, None))
  BY DEF LoginRead, Matches
<1>2. PICK j : j = JobOf(p, "login", n, None)
  OBVIOUS
<1>3. j \in Job /\ j.person = p /\ j.way = "login" /\ j.handle = n /\ j.email = None
  BY <1>2, JobTypes DEF Ways, Owner
<1>4. p \in Involved(n) /\ Exists(n) /\ p # None
  BY <1>1, SignedIn, SignsThere, AccountsAssumption DEF IInv
<1>5. UNCHANGED <<user, sessions, excuses>> /\ Arrives /\ Exists(n)'
  BY <1>4 DEF LoginRead, Exists
<1>6. HandlerSound(h)'
  BY <1>1, <1>2, <1>3, <1>4, <1>5, Lands DEF Stages
<1> QED
  BY <1>1, <1>2, <1>3, <1>4, <1>5, <1>6, ReadStep DEF Stages

LEMMA GoogleJob ==
    ASSUME NEW p \in People, NEW n \in Handles \cup {None}, NEW e \in Owner
    PROVE  \E j \in Job : j = JobOf(p, "google", n, e) /\ j.person = p /\ j.way = "google"
                          /\ j.handle = n /\ j.email = e /\ p # None
<1>1. p \in Owner /\ "google" \in Ways /\ p # None
  BY AccountsAssumption DEF Owner, Ways
<1> QED
  BY <1>1, JobTypes

LEMMA GoogleReadStep == ASSUME IInv, NEW h \in Handlers, GoogleRead(h) PROVE IInv'
<1> USE DEF Stages
<1>1. PICK p \in People : \E payload \in Verified(p) :
          LET e == payload[2]
              mine == {n \in Handles : user[n].google = payload[1]} IN
          \/ \E n \in mine : Goto(h, "opening", JobOf(p, "google", n, e))
          \/ /\ mine = {}
             /\ IF e # None
                THEN Goto(h, "byEmail", JobOf(p, "google", None, e))
                ELSE Goto(h, "deriving", JobOf(p, "google", Base[p], e))
  BY DEF GoogleRead
<1>2. PICK e \in {None, p} :
          \/ \E n \in Handles : user[n].google = p /\ Goto(h, "opening", JobOf(p, "google", n, e))
          \/ e # None /\ Goto(h, "byEmail", JobOf(p, "google", None, e))
          \/ e = None /\ Goto(h, "deriving", JobOf(p, "google", Base[p], e))
  BY <1>1 DEF Verified
<1>3. UNCHANGED <<user, sessions, excuses>> /\ Arrives /\ e \in Owner
  BY DEF GoogleRead, Owner
<1>4. ASSUME NEW n \in Handles, user[n].google = p, Goto(h, "opening", JobOf(p, "google", n, e))
      PROVE  IInv'
  <2>1. PICK j \in Job : j = JobOf(p, "google", n, e) /\ j.person = p /\ j.way = "google"
                          /\ j.handle = n /\ j.email = e /\ p # None
    BY <1>3, GoogleJob
  <2>2. Goto(h, "opening", j)
    BY <1>4, <2>1
  <2>3. p \in Involved(n) /\ Exists(n)
    BY <1>4, SignedIn, SignsThere DEF IInv
  <2>4. Exists(n)'
    BY <1>3, <2>3 DEF Exists
  <2>5. HandlerSound(h)'
    BY <2>1, <2>2, <2>4, Lands
  <2> QED
    BY <1>3, <2>1, <2>2, <2>3, <2>5, ReadStep
<1>5. CASE e # None /\ Goto(h, "byEmail", JobOf(p, "google", None, e))
  <2>1. PICK j \in Job : j = JobOf(p, "google", None, e) /\ j.person = p /\ j.way = "google"
                          /\ j.handle = None /\ j.email = e /\ p # None
    BY <1>3, GoogleJob
  <2>2. Goto(h, "byEmail", j)
    BY <1>5, <2>1
  <2>3. HandlerSound(h)'
    BY <1>5, <2>1, <2>2, Lands
  <2> QED
    BY <1>3, <2>1, <2>2, <2>3, ReadStep
<1>6. CASE e = None /\ Goto(h, "deriving", JobOf(p, "google", Base[p], e))
  <2>1. Base[p] \in Handles
    BY AccountsAssumption
  <2>2. PICK j \in Job : j = JobOf(p, "google", Base[p], e) /\ j.person = p /\ j.way = "google"
                          /\ j.handle = Base[p] /\ j.email = e /\ p # None
    BY <1>3, <2>1, GoogleJob
  <2>3. Goto(h, "deriving", j)
    BY <1>6, <2>2
  <2>4. HandlerSound(h)'
    BY <1>6, <2>1, <2>2, <2>3, Lands
  <2> QED
    BY <1>3, <2>2, <2>3, <2>4, ReadStep
<1> QED
  BY <1>2, <1>4, <1>5, <1>6

\* A request that is being served, and the job it has.
LEMMA Serving ==
    ASSUME IInv, NEW h \in Handlers, pc[h] # "idle"
    PROVE  \E j \in Job :
             /\ j = job[h] /\ HandlerSound(h)
             /\ j.person \in Owner /\ j.way \in Ways /\ j.handle \in Handles \cup {None} /\ j.email \in Owner
             /\ j.way = "visit" <=> j.person = None
             /\ j.email \in {None, j.person} \/ j.way = "register"
             /\ j.way = "login" => pc[h] = "opening"
             /\ pc[h] # "byEmail" => j.handle \in Handles
<1>1. job[h] \in Job /\ HandlerSound(h)
  BY DEF IInv, TypeOK
<1> QED
  BY <1>1, JobTypes DEF HandlerSound, JobSound

LEMMA EmailReadStep == ASSUME IInv, NEW h \in Handlers, EmailRead(h) PROVE IInv'
<1> USE DEF Stages
<1>1. pc[h] = "byEmail" /\ UNCHANGED <<user, sessions, served, excuses>>
  BY DEF EmailRead
<1>2. PICK k \in Job : /\ k = job[h] /\ HandlerSound(h) /\ k.person \in Owner /\ k.email \in Owner
                       /\ k.way = "visit" <=> k.person = None
                       /\ k.email \in {None, k.person} \/ k.way = "register"
  BY <1>1, Serving
<1>3. k.way = "google" /\ k.email # None
  BY <1>1, <1>2 DEF HandlerSound, JobSound
<1>4. k.person \in People /\ k.email = k.person
  BY <1>2, <1>3 DEF Owner
<1>5. \/ \E n \in Handles : /\ Exists(n) /\ user[n].email = k.person
                            /\ Goto(h, "linking", JobOf(k.person, "google", n, k.person))
      \/ Goto(h, "deriving", JobOf(k.person, "google", Base[k.person], k.person))
  BY <1>2, <1>4 DEF EmailRead
<1>6. ASSUME NEW n \in Handles, user[n].email = k.person,
             Goto(h, "linking", JobOf(k.person, "google", n, k.person))
      PROVE  IInv'
  <2>1. PICK j \in Job : j = JobOf(k.person, "google", n, k.person) /\ j.person = k.person /\ j.way = "google"
                          /\ j.handle = n /\ j.email = k.person /\ k.person # None
    BY <1>2, <1>4, GoogleJob
  <2>2. Goto(h, "linking", j) /\ user'[n].email = j.person
    BY <1>1, <1>6, <2>1
  <2>3. HandlerSound(h)'
    BY <2>1, <2>2, Lands
  <2> QED
    BY <1>1, <2>1, <2>2, <2>3, ReadStep
<1>7. CASE Goto(h, "deriving", JobOf(k.person, "google", Base[k.person], k.person))
  <2>1. Base[k.person] \in Handles
    BY <1>4, AccountsAssumption
  <2>2. PICK j \in Job : j = JobOf(k.person, "google", Base[k.person], k.person) /\ j.person = k.person
                          /\ j.way = "google" /\ j.handle = Base[k.person] /\ j.email = k.person /\ k.person # None
    BY <1>2, <1>4, <2>1, GoogleJob
  <2>3. Goto(h, "deriving", j)
    BY <1>7, <2>2
  <2>4. HandlerSound(h)'
    BY <2>1, <2>2, <2>3, Lands
  <2> QED
    BY <1>1, <2>2, <2>3, <2>4, ReadStep
<1> QED
  BY <1>5, <1>6, <1>7

LEMMA DeriveNextStep == ASSUME IInv, NEW h \in Handlers, DeriveNext(h) PROVE IInv'
<1> USE DEF Stages
<1>1. pc[h] = "deriving" /\ UNCHANGED <<user, sessions, served, excuses>>
  BY DEF DeriveNext
<1>2. PICK k \in Job : /\ k = job[h] /\ HandlerSound(h) /\ k.person \in Owner /\ k.email \in Owner
                       /\ k.way = "visit" <=> k.person = None
                       /\ k.email \in {None, k.person} \/ k.way = "register"
  BY <1>1, Serving
<1>3. k.way = "google"
  BY <1>1, <1>2 DEF HandlerSound, JobSound
<1>4. k.person \in People
  BY <1>2, <1>3 DEF Owner
<1>5. PICK n \in Handles : Goto(h, "deriving", JobOf(k.person, "google", n, k.email))
  BY <1>2 DEF DeriveNext
<1>6. PICK j \in Job : j = JobOf(k.person, "google", n, k.email) /\ j.person = k.person
                        /\ j.way = "google" /\ j.handle = n /\ j.email = k.email /\ k.person # None
  BY <1>2, <1>4, GoogleJob
<1>7. Goto(h, "deriving", j)
  BY <1>5, <1>6
<1>8. HandlerSound(h)'
  BY <1>2, <1>3, <1>6, <1>7, Lands
<1> QED
  BY <1>1, <1>6, <1>7, <1>8, ReadStep

LEMMA DeriveFreeStep == ASSUME IInv, NEW h \in Handlers, DeriveFree(h) PROVE IInv'
<1> USE DEF Stages
<1>1. pc[h] = "deriving" /\ UNCHANGED <<user, sessions, served, excuses>>
  BY DEF DeriveFree
<1>2. PICK j \in Job : /\ j = job[h] /\ HandlerSound(h) /\ j.handle \in Handles
                       /\ j.way = "visit" <=> j.person = None
                       /\ j.email \in {None, j.person} \/ j.way = "register"
                       /\ j.way # "login"
  BY <1>1, Serving
<1>3. Goto(h, "ensuring", j) /\ ~Exists(j.handle)
  BY <1>2 DEF DeriveFree, Free
<1>4. ~Exists(j.handle)'
  BY <1>1, <1>3 DEF Exists
<1>5. HandlerSound(h)'
  BY <1>2, <1>3, <1>4, Lands
<1> QED
  BY <1>1, <1>3, <1>5, ReadStep

LEMMA EnsureFindStep == ASSUME IInv, NEW h \in Handlers, EnsureFind(h) PROVE IInv'
<1> USE DEF Stages
<1>1. pc[h] = "ensuring" /\ UNCHANGED <<user, sessions, served, excuses>>
  BY DEF EnsureFind
<1>2. PICK j \in Job : /\ j = job[h] /\ HandlerSound(h) /\ j.handle \in Handles /\ j.way # "login"
                       /\ j.way = "visit" <=> j.person = None
                       /\ j.email \in {None, j.person} \/ j.way = "register"
  BY <1>1, Serving
<1>3. CASE Exists(j.handle) /\ j.way = "visit"
  <2>1. Finish(h)
    BY <1>2, <1>3 DEF EnsureFind, Ensured
  <2> QED
    BY <1>1, <2>1, EndStep
<1>4. CASE Exists(j.handle) /\ j.way # "visit"
  <2>1. Goto(h, "signing", j)
    BY <1>2, <1>4 DEF EnsureFind, Ensured
  <2>2. rivals \subseteq rivals'
    BY <2>1 DEF Goto
  <2>3. j.handle \in rivals'
    BY <1>1, <1>2, <1>4, <2>2 DEF HandlerSound, Found
  <2>4. Exists(j.handle)'
    BY <1>1, <1>4 DEF Exists
  <2>5. HandlerSound(h)'
    BY <1>2, <1>4, <2>1, <2>3, <2>4, Lands
  <2> QED
    BY <1>1, <2>1, <2>5, ReadStep
<1>5. CASE ~Exists(j.handle)
  <2>1. Goto(h, "creating", j)
    BY <1>2, <1>5 DEF EnsureFind
  <2>2. ~Exists(j.handle)'
    BY <1>1, <1>5 DEF Exists
  <2>3. HandlerSound(h)'
    BY <1>2, <2>1, <2>2, Lands
  <2> QED
    BY <1>1, <2>1, <2>3, ReadStep
<1> QED
  BY <1>3, <1>4, <1>5

-----------------------------------------------------------------------------
(* The actions that write *)

\* A write to the row of the handle the request is about.
LEMMA Written ==
    ASSUME IInv, NEW h \in Handlers, NEW j \in Job, j = job[h], j.handle \in Handles,
           NEW p \in Owner, NEW g \in Owner, NEW e \in Owner, Write(j.handle, RowOf(p, g, e))
    PROVE  /\ Exists(j.handle)' /\ Signs(j.handle)' = {p, g, e}
           /\ user[j.handle].password \in Owner /\ user[j.handle].google \in Owner /\ user[j.handle].email \in Owner
           /\ {user[j.handle].password, user[j.handle].google, user[j.handle].email} = Signs(j.handle)
           /\ user'[j.handle].password = p
<1>1. user'[j.handle] = RowOf(p, g, e)
  BY DEF Write, IInv, TypeOK
<1> QED
  BY <1>1, RowTypes DEF Exists, Signs, IInv, TypeOK

\* A handle without an account, and what a request finds there.
LEMMA NobodyThere ==
    ASSUME IInv, NEW n \in Handles, ~Exists(n)
    PROVE  Involved(n) = {}
<1>1. user[n] = NoRow
  BY DEF IInv, RowsSound
<1>2. Signs(n) = {None}
  BY <1>1, RowTypes DEF Signs
<1>3. Signed(n) = {}
  BY DEF IInv, SessionsThere, Signed
<1>4. Opening(n) = {}
  BY DEF IInv, HandlerSound, AccountThere, Opening
<1> QED
  BY <1>2, <1>3, <1>4, InvolvedParts

\* An account that nobody is on was not registered.
LEMMA NobodyBorrowed ==
    ASSUME IInv, NEW n \in Handles \ (rivals \cup claimed), Involved(n) = {}
    PROVE  n \notin borrowed
<1>1. user[n].password # None => user[n].password \in Involved(n)
  BY DEF Involved
<1> QED
  BY <1>1 DEF IInv, OnlyOne, TwoThere

LEMMA EnsureCreateStep == ASSUME IInv, NEW h \in Handlers, EnsureCreate(h) PROVE IInv'
<1> USE DEF Stages
<1>1. pc[h] = "creating" /\ UNCHANGED <<sessions, served, excuses>>
  BY DEF EnsureCreate
<1>2. PICK j \in Job : /\ j = job[h] /\ HandlerSound(h) /\ j.handle \in Handles /\ j.way # "login"
                       /\ j.way = "visit" <=> j.person = None
                       /\ j.email \in {None, j.person} \/ j.way = "register"
  BY <1>1, Serving
<1>3. PICK n \in Handles : n = j.handle
  BY <1>2
<1>4. ~Exists(n) /\ Write(n, RowOf(None, None, None)) /\ None \in Owner
  BY <1>2, <1>3 DEF EnsureCreate, Owner
<1>5. Exists(n)' /\ Signs(n)' = {None}
  <2>1. Write(j.handle, RowOf(None, None, None)) /\ j = job[h] /\ j.handle \in Handles /\ None \in Owner
    BY <1>2, <1>3, <1>4
  <2>2. Exists(j.handle)' /\ Signs(j.handle)' = {None, None, None}
    BY <2>1, Written
  <2> QED
    BY <1>3, <2>2
<1>6. Involved(n) = {}
  BY <1>4, NobodyThere
<1>7. Ensured(h)
  BY DEF EnsureCreate
<1>8. ASSUME pc'[h] # "opening", Moved(h) PROVE Adds(h, n, {None}) /\ Fits(h, n)
  <2>1. Adds(h, n, {None})
    BY <1>1, <1>4, <1>5, <1>8 DEF Adds
  <2>2. n \notin rivals' \cup claimed' => n \notin borrowed
    BY <1>1, <1>6, <1>8, NobodyBorrowed DEF Moved, excuses
  <2> QED
    BY <1>1, <1>4, <2>1, <2>2 DEF Fits, Joins, excuses
<1>9. CASE j.way = "visit"
  <2>1. Finish(h)
    BY <1>2, <1>7, <1>9 DEF Ensured
  <2>2. Moved(h) /\ pc'[h] = "idle"
    BY <2>1, FinishMoves DEF IInv
  <2>3. HandlerSound(h)'
    BY <2>2 DEF HandlerSound, JobSound, AccountThere, Found
  <2>4. UNCHANGED <<claimed, borrowed>> /\ claimed' \subseteq Handles /\ borrowed' \subseteq Handles
    BY <1>1 DEF IInv, TypeOK, excuses
  <2> QED
    BY <1>1, <1>2, <1>3, <1>4, <1>8, <2>2, <2>3, <2>4, WriteStep
<1>10. CASE j.way # "visit"
  <2>1. Goto(h, "signing", j)
    BY <1>2, <1>7, <1>10 DEF Ensured
  <2>2. Moved(h) /\ pc'[h] = "signing" /\ job'[h] = j
    BY <2>1, GotoMoves DEF IInv
  <2>3. Local(h, n)
    <3>1. user' \in [Handles -> Row] /\ \A m \in Handles : m # n => user'[m] = user[m]
      BY <1>4, RowTypes DEF Write, IInv, TypeOK
    <3>2. \A m \in Handles : Exists(m) => Exists(m)'
      BY <1>4, <3>1 DEF Exists
    <3> QED
      BY <1>1, <1>3, <2>2, <3>1, <3>2 DEF Local, IInv, TypeOK, excuses
  <2>4. Involved(n)' = {}
    BY <1>6, <1>8, <2>2, <2>3, Here
  <2>5. Involved(j.handle)' = {} /\ Exists(j.handle)'
    BY <1>3, <1>5, <2>4
  <2>6. HandlerSound(h)'
    BY <1>2, <1>10, <2>1, <2>5, Lands
  <2>7. UNCHANGED <<claimed, borrowed>> /\ claimed' \subseteq Handles /\ borrowed' \subseteq Handles
    BY <1>1 DEF IInv, TypeOK, excuses
  <2> QED
    BY <1>1, <1>2, <1>3, <1>4, <1>8, <2>2, <2>6, <2>7, WriteStep
<1> QED
  BY <1>9, <1>10

LEMMA ClaimStep == ASSUME IInv, NEW h \in Handlers, Claim(h) PROVE IInv'
<1> USE DEF Stages
<1>1. pc[h] = "claiming" /\ UNCHANGED <<sessions, served, borrowed>>
  BY DEF Claim
<1>2. PICK j \in Job : /\ j = job[h] /\ HandlerSound(h) /\ j.handle \in Handles /\ j.way # "login"
                       /\ j.person \in Owner /\ j.email \in Owner
                       /\ j.way = "visit" <=> j.person = None
  BY <1>1, Serving
<1>3. PICK n \in Handles, g \in Owner : n = j.handle /\ g = user[n].google
  BY <1>2, RowTypes DEF IInv, TypeOK
<1>4. Write(n, RowOf(j.person, g, j.email)) /\ claimed' = claimed \cup {n} /\ Goto(h, "opening", j)
  BY <1>2, <1>3 DEF Claim
<1>5. Exists(j.handle)'
  BY <1>2, <1>3, <1>4, Written
<1>6. j.way = "register"
  BY <1>1, <1>2 DEF HandlerSound, JobSound
<1>7. Moved(h) /\ pc'[h] = "opening" /\ job'[h] = j /\ HandlerSound(h)'
  BY <1>2, <1>4, <1>5, <1>6, Lands
<1>8. Fits(h, n)
  BY <1>4 DEF Fits
<1>9. claimed' \subseteq Handles /\ borrowed' \subseteq Handles
  BY <1>1, <1>4 DEF IInv, TypeOK
<1> QED
  BY <1>1, <1>2, <1>3, <1>4, <1>7, <1>8, <1>9, WriteStep

\* The credential of the new account, or the Google id of the one with the address.
LEMMA SignStep ==
    ASSUME IInv, NEW h \in Handlers, pc[h] \in {"signing", "linking"},
           UNCHANGED <<sessions, served, excuses>>,
           NEW j \in Job, j = job[h], Goto(h, "opening", j),
           NEW n \in Handles, n = j.handle,
           NEW p \in Owner, NEW g \in Owner, NEW e \in Owner, Write(n, RowOf(p, g, e)),
           {p, g, e} \subseteq Signs(n) \cup {j.person, None},
           pc[h] = "linking" => p = user[n].password /\ e = user[n].email
    PROVE  IInv'
<1> USE DEF Stages
<1>1. HandlerSound(h) /\ j.person \in Owner /\ j.way # "login" /\ j.way # "visit" /\ j.person # None
  <2>1. /\ j.person \in Owner
        /\ j.way = "visit" <=> j.person = None
        /\ j.way = "login" => pc[h] = "opening"
    BY Serving
  <2>2. HandlerSound(h)
    BY DEF IInv
  <2> QED
    BY <2>1, <2>2 DEF HandlerSound, JobSound
<1>2. Exists(j.handle)' /\ Signs(n)' = {p, g, e}
  BY Written
<1>3. j.email \in {None, j.person} \/ j.way = "register"
  BY <1>1 DEF HandlerSound, JobSound
<1>4. Moved(h) /\ pc'[h] = "opening" /\ job'[h] = j /\ HandlerSound(h)'
  BY <1>1, <1>2, <1>3, Lands
<1>5. Fits(h, n)
  <2> SUFFICES ASSUME n \notin rivals' \cup claimed'
               PROVE  Joins(h, n)
    BY DEF Fits
  <2>1. Adds(h, n, {j.person})
    BY <1>2, <1>4 DEF Adds
  <2>2. n \notin rivals /\ n \notin claimed
    BY <1>4 DEF Moved, excuses
  <2>3. pc[h] = "signing" => Involved(n) = {}
    BY <1>1, <2>2 DEF HandlerSound, Found
  <2>4. pc[h] = "linking" => user[n].email = j.person
    BY <1>1, <2>2 DEF HandlerSound, Found
  <2>5. pc[h] = "linking" => j.person \in Involved(n)
    BY <1>1, <2>4, SignedIn DEF Owner, IInv
  <2>6. pc[h] = "signing" => n \notin borrowed
    BY <2>2, <2>3, NobodyBorrowed
  <2>7. user'[n].password = p /\ user'[n].email = e
    BY RowTypes DEF Write, IInv, TypeOK
  <2>8. n \in borrowed' => n \in borrowed /\ UNCHANGED <<user[n].password, user[n].email>>
    BY <2>6, <2>7 DEF excuses
  <2> QED
    BY <1>1, <2>1, <2>3, <2>5, <2>8 DEF Joins
<1>6. UNCHANGED <<claimed, borrowed>> /\ claimed' \subseteq Handles /\ borrowed' \subseteq Handles
  BY DEF IInv, TypeOK, excuses
<1> QED
  BY <1>4, <1>5, <1>6, WriteStep

LEMMA SetPasswordStep == ASSUME IInv, NEW h \in Handlers, SetPassword(h) PROVE IInv'
<1>1. PICK j \in Job : /\ j = job[h] /\ j.handle \in Handles /\ j.person \in Owner /\ j.email \in Owner
                       /\ j.email \in {None, j.person} \/ j.way = "register"
  BY Serving DEF SetPassword
<1>2. PICK n \in Handles, g \in Owner, f \in Owner : n = j.handle /\ g = user[n].google /\ f = user[n].email
  BY <1>1, RowTypes DEF IInv, TypeOK
<1>3. PICK e \in Owner : e = IF j.email = None THEN f ELSE j.email
  BY <1>1, <1>2
<1>4. /\ Write(n, RowOf(j.person, g, e)) /\ Goto(h, "opening", j) /\ pc[h] = "signing"
      /\ UNCHANGED <<sessions, served, claimed>>
      /\ borrowed' = borrowed \cup {m \in {n} : j.email \notin {None, j.person}}
  BY <1>1, <1>2, <1>3 DEF SetPassword
<1>5. CASE j.email \in {None, j.person}
  <2>1. UNCHANGED excuses
    BY <1>4, <1>5 DEF excuses
  <2>2. {j.person, g, e} \subseteq Signs(n) \cup {j.person, None}
    BY <1>2, <1>3, <1>5 DEF Signs
  <2> QED
    BY <1>1, <1>2, <1>4, <2>1, <2>2, SignStep
<1>6. CASE j.email \notin {None, j.person}
  <2>1. HandlerSound(h) /\ j.person # None /\ j.way = "register"
    <3>1. HandlerSound(h)
      BY DEF IInv
    <3> QED
      BY <1>1, <1>4, <1>6, <3>1 DEF HandlerSound, JobSound
  <2>2. Exists(j.handle)' /\ Signs(n)' = {j.person, g, e} /\ user'[n].password = j.person /\ user'[n].email = e
    <3>1. user'[n] = RowOf(j.person, g, e) /\ n = j.handle
      BY <1>1, <1>2, <1>4 DEF Write, IInv, TypeOK
    <3>2. Exists(j.handle)'
      BY <3>1 DEF Exists, RowOf
    <3>3. Signs(n)' = {j.person, g, e}
      BY <3>1 DEF Signs, RowOf
    <3>4. user'[n].password = j.person /\ user'[n].email = e
      BY <3>1 DEF RowOf
    <3> QED
      BY <3>2, <3>3, <3>4
  <2>3. Moved(h) /\ pc'[h] = "opening" /\ job'[h] = j /\ HandlerSound(h)'
    BY <1>4, <2>1, <2>2, Lands, <1>1 DEF Stages
  <2>4. /\ borrowed' = borrowed \cup {n} /\ borrowed' \subseteq Handles
        /\ claimed' = claimed /\ claimed' \subseteq Handles
    BY <1>4, <1>6 DEF IInv, TypeOK
  <2>5. ASSUME n \notin rivals' \cup claimed' PROVE TwoThere(n)'
    <3>1. Involved(n) = {}
      BY <1>1, <1>2, <1>4, <2>1, <2>3, <2>5 DEF HandlerSound, Found, Moved
    <3>2. Adds(h, n, {j.person, e})
      <4>1. user[n].google = None
        BY <3>1 DEF Involved
      <4> QED
        BY <1>2, <1>4, <2>2, <2>3, <4>1 DEF Adds
    <3>3. Local(h, n)
      <4>1. user' \in [Handles -> Row] /\ \A m \in Handles : m # n => user'[m] = user[m]
        BY <1>1, <1>2, <1>4, RowTypes DEF Write, IInv, TypeOK
      <4>2. \A m \in Handles : Exists(m) => Exists(m)'
        BY <1>2, <2>2, <4>1 DEF Exists
      <4> QED
        BY <1>2, <1>4, <2>3, <2>4, <4>1, <4>2 DEF Local, IInv, TypeOK
    <3>4. Involved(n)' \subseteq {j.person, e}
      BY <3>1, <3>2, <3>3, Here
    <3> QED
      BY <2>1, <2>2, <3>4 DEF TwoThere
  <2>6. Fits(h, n)
    BY <2>4, <2>5 DEF Fits
  <2> QED
    BY <1>1, <1>2, <1>4, <2>3, <2>4, <2>6, WriteStep
<1> QED
  BY <1>5, <1>6

LEMMA SetGoogleStep == ASSUME IInv, NEW h \in Handlers, SetGoogle(h) PROVE IInv'
<1>1. PICK j \in Job : /\ j = job[h] /\ j.handle \in Handles /\ j.person \in Owner /\ j.email \in Owner
                       /\ j.email \in {None, j.person} \/ j.way = "register"
  BY Serving DEF SetGoogle
<1>2. PICK n \in Handles, p \in Owner : n = j.handle /\ p = user[n].password
  BY <1>1, RowTypes DEF IInv, TypeOK
<1>3. Write(n, RowOf(p, j.person, j.email)) /\ Goto(h, "opening", j) /\ pc[h] = "signing"
      /\ UNCHANGED <<sessions, served, excuses>>
  BY <1>1, <1>2 DEF SetGoogle
<1>4. {p, j.person, j.email} \subseteq Signs(n) \cup {j.person, None}
  <2>1. HandlerSound(h) /\ job[h].way = "google"
    BY DEF IInv, SetGoogle
  <2> QED
    BY <1>1, <1>2, <2>1 DEF Signs
<1> QED
  BY <1>1, <1>2, <1>3, <1>4, SignStep

LEMMA LinkGoogleStep == ASSUME IInv, NEW h \in Handlers, LinkGoogle(h) PROVE IInv'
<1>1. PICK j \in Job : j = job[h] /\ j.handle \in Handles /\ j.person \in Owner
  BY Serving DEF LinkGoogle
<1>2. PICK n \in Handles, p \in Owner, e \in Owner : n = j.handle /\ p = user[n].password /\ e = user[n].email
  BY <1>1, RowTypes DEF IInv, TypeOK
<1>3. Write(n, RowOf(p, j.person, e)) /\ Goto(h, "opening", j) /\ pc[h] = "linking"
      /\ UNCHANGED <<sessions, served, excuses>>
  BY <1>1, <1>2 DEF LinkGoogle
<1>4. {p, j.person, e} \subseteq Signs(n) \cup {j.person, None}
  BY <1>2 DEF Signs
<1> QED
  BY <1>1, <1>2, <1>3, <1>4, SignStep

-----------------------------------------------------------------------------
(* The invariant, and the theorems *)

LEMMA InitIInv == ASSUME Init PROVE IInv
<1>1. \A n \in Handles : user[n] = IF n \in Seeded THEN RowOf(None, None, None) ELSE NoRow
  BY DEF Init
<1>2. \A n \in Handles : user[n] \in Row /\ (~Exists(n) => user[n] = NoRow) /\ Signs(n) = {None}
  <2> SUFFICES ASSUME NEW n \in Handles
               PROVE  user[n] \in Row /\ (~Exists(n) => user[n] = NoRow) /\ Signs(n) = {None}
    OBVIOUS
  <2>1. None \in Owner
    BY DEF Owner
  <2>2. CASE n \in Seeded
    <3>1. user[n] = RowOf(None, None, None)
      BY <1>1, <2>2
    <3> QED
      BY <2>1, <3>1, RowTypes DEF Exists, Signs
  <2>3. CASE n \notin Seeded
    <3>1. user[n] = NoRow
      BY <1>1, <2>3
    <3> QED
      BY <3>1, RowTypes DEF Exists, Signs
  <2> QED
    BY <2>2, <2>3
<1>3. TypeOK
  BY <1>2, JobTypes DEF Init, TypeOK, Stages
<1>4. RowsSound /\ MeetingsKnown /\ SessionsThere
  BY <1>2 DEF Init, RowsSound, MeetingsKnown, SessionsThere
<1>5. \A h \in Handlers : HandlerSound(h)
  BY DEF Init, HandlerSound, JobSound, AccountThere, Found
<1>6. ASSUME NEW n \in Handles PROVE Involved(n) = {}
  BY <1>2, InvolvedParts DEF Init, Signed, Opening
<1> QED
  BY <1>3, <1>4, <1>5, <1>6 DEF Init, IInv, OnlyOne, OneThere

LEMMA NextIInv == ASSUME IInv, [Next]_vars PROVE IInv'
<1>1. CASE UNCHANGED vars
  <2> USE <1>1 DEF vars
  <2>1. \A n : Involved(n)' = Involved(n)
    BY DEF Involved
  <2>2. \A h : Involved(job[h].handle)' = Involved(job[h].handle)
    BY DEF Involved
  <2>3. TypeOK' /\ RowsSound' /\ MeetingsKnown' /\ SessionsThere'
    BY DEF IInv, TypeOK, RowsSound, MeetingsKnown, SessionsThere, Exists
  <2>4. OnlyOne'
    BY <2>1 DEF IInv, OnlyOne, OneThere, TwoThere
  <2>5. ASSUME NEW h \in Handlers PROVE HandlerSound(h)'
    BY <2>2 DEF IInv, HandlerSound, JobSound, AccountThere, Found, Exists
  <2> QED
    BY <2>3, <2>4, <2>5 DEF IInv
<1>2. ASSUME NEW h \in Handlers, OpenSession(h, "register") \/ OpenSession(h, "login") \/ OpenSession(h, "google")
      PROVE  IInv'
  BY <1>2, EndStep DEF OpenSession
<1>3. ASSUME NEW h \in Handlers, Fail(h) PROVE IInv'
  BY <1>3, EndStep DEF Fail
<1> QED
  BY <1>1, <1>2, <1>3, RegisterReadStep, VisitStep, LoginReadStep, GoogleReadStep, EmailReadStep,
     DeriveNextStep, DeriveFreeStep, EnsureFindStep, EnsureCreateStep, ClaimStep, SetPasswordStep,
     SetGoogleStep, LinkGoogleStep
     DEF Next, RegisterOpens, LoginOpens, GoogleOpens

THEOREM Invariance == Spec => []IInv
  BY InitIInv, NextIInv, PTL DEF Spec

\* Every variable keeps its type.
THEOREM TypeCorrect == Spec => []TypeOK
<1>1. IInv => TypeOK
  BY DEF IInv
<1> QED
  BY <1>1, Invariance, PTL

\* An account that no two requests were about at once and no registration took over
\* has at most one person's password, Google identity, address and sessions on it; or
\* two, when it was registered with the address of somebody else.
THEOREM Owned == Spec => []OneOwner
<1>1. ASSUME NEW n, \A x, y \in Involved(n) : x = y PROVE Cardinality(Involved(n)) <= 1
  <2>1. CASE Involved(n) = {}
    BY <2>1, FS_EmptySet
  <2>2. CASE Involved(n) # {}
    <3>1. PICK x : Involved(n) = {x}
      BY <1>1, <2>2
    <3> QED
      BY <3>1, FS_Singleton
  <2> QED
    BY <2>1, <2>2
<1>2. IInv => OneOwner
  BY <1>1 DEF IInv, OnlyOne, OneThere, TwoThere, OneOwner
<1> QED
  BY <1>2, Invariance, PTL

\* The password a handle has after a write of its row.
LEMMA PasswordWritten ==
    ASSUME IInv, NEW h \in Handlers, NEW j \in Job, j = job[h], j.handle \in Handles,
           NEW p \in Owner, NEW g \in Owner, NEW e \in Owner, Write(j.handle, RowOf(p, g, e)),
           NEW n \in Handles, user[n].password \notin {None, user'[n].password}
    PROVE  n = j.handle /\ user[n].password # p
<1>1. user' = [user EXCEPT ![j.handle] = RowOf(p, g, e)] /\ RowOf(p, g, e).password = p
  BY RowTypes DEF Write
<1> QED
  BY <1>1 DEF IInv, TypeOK

\* A step changes the password of an account only if two requests are about it.
LEMMA StepKept ==
    ASSUME IInv, [Next]_vars, NEW n \in Handles, user[n].password \notin {None, user'[n].password}
    PROVE  n \in rivals
<1> USE DEF Stages
<1>1. user' # user
  OBVIOUS
<1>2. PICK h \in Handlers :
         Claim(h) \/ EnsureCreate(h) \/ SetPassword(h) \/ SetGoogle(h) \/ LinkGoogle(h)
  BY <1>1 DEF Next, vars, RegisterRead, RegisterOpens, Visit, EnsureFind, LoginRead, LoginOpens, GoogleRead,
              EmailRead, GoogleOpens, DeriveFree, DeriveNext, Fail, OpenSession
<1>3. PICK j \in Job : /\ j = job[h] /\ HandlerSound(h) /\ j.handle \in Handles
                       /\ j.person \in Owner /\ j.email \in Owner
  BY <1>2, Serving DEF Claim, EnsureCreate, SetPassword, SetGoogle, LinkGoogle
<1>4. PICK m \in Handles : m = j.handle
  BY <1>3
<1>5. None \in Owner /\ user[m].password \in Owner /\ user[m].google \in Owner /\ user[m].email \in Owner
  BY RowTypes DEF IInv, TypeOK, Owner
<1>6. CASE Claim(h)
  <2>1. pc[h] = "claiming" /\ Write(m, RowOf(j.person, user[m].google, j.email))
    BY <1>3, <1>4, <1>6 DEF Claim
  <2>2. n = m
    BY <1>3, <1>4, <1>5, <2>1, PasswordWritten
  <2> QED
    BY <1>3, <1>4, <2>1, <2>2 DEF HandlerSound, Found
<1>7. CASE EnsureCreate(h)
  <2>1. ~Exists(m) /\ Write(m, RowOf(None, None, None))
    BY <1>3, <1>4, <1>7 DEF EnsureCreate
  <2>2. n = m
    BY <1>3, <1>4, <1>5, <2>1, PasswordWritten
  <2> QED
    BY <2>1, <2>2, RowTypes DEF IInv, RowsSound
<1>8. CASE SetPassword(h)
  <2>1. PICK e \in Owner : e = IF j.email = None THEN user[m].email ELSE j.email
    BY <1>3, <1>5
  <2>2. pc[h] = "signing" /\ Write(m, RowOf(j.person, user[m].google, e))
    BY <1>3, <1>4, <1>8, <2>1 DEF SetPassword
  <2>3. n = m
    BY <1>3, <1>4, <1>5, <2>2, PasswordWritten
  <2>4. user[n].password \in Involved(n)
    BY DEF Involved
  <2>5. Involved(job[h].handle) = Involved(n)
    BY <1>3, <1>4, <2>3 DEF Involved
  <2> QED
    BY <1>3, <1>4, <2>2, <2>3, <2>4, <2>5 DEF HandlerSound, Found
<1>9. CASE SetGoogle(h)
  <2>1. Write(m, RowOf(user[m].password, j.person, j.email))
    BY <1>3, <1>4, <1>9 DEF SetGoogle
  <2> QED
    BY <1>3, <1>4, <1>5, <2>1, PasswordWritten
<1>10. CASE LinkGoogle(h)
  <2>1. Write(m, RowOf(user[m].password, j.person, user[m].email))
    BY <1>3, <1>4, <1>10 DEF LinkGoogle
  <2> QED
    BY <1>3, <1>4, <1>5, <2>1, PasswordWritten
<1> QED
  BY <1>2, <1>6, <1>7, <1>8, <1>9, <1>10

\* No request replaces a password, unless another request was about the handle at once.
THEOREM Kept == Spec => PasswordKept
<1>1. IInv /\ [Next]_vars =>
        [\A n \in Handles : user[n].password \notin {None, user'[n].password} => n \in rivals]_vars
  BY StepKept DEF vars
<1> QED
  BY <1>1, Invariance, PTL DEF Spec, PasswordKept

-----------------------------------------------------------------------------
(* Live.  What a page shows of the price or the status is the market's, or  *)
(* the last change is known to be missed, or it is coming: still to be      *)
(* published, on the wire, or about to be read by the connection.  Before   *)
(* the page has a market the same holds of every answer it waits for.       *)

LiveTypes ==
    /\ market \in Versions
    /\ outbox \subseteq Event
    /\ conn \in {"closed", "opening", "reading", "open"}
    /\ read \in Nat
    /\ wire \in Seq(Event)
    /\ load \in [Loads -> Request]
    /\ loaded \in BOOLEAN
    /\ shown \in [Kinds -> Int]
    /\ missed \subseteq Kinds

\* That e tells the last change of k.
Tells(e, k) == About(e) = k /\ e.version = market[k]

\* The last change of k is on its way to the page: it is still to be published, it is on
\* the wire, or the connection is about to read it.
Coming(k) ==
    \/ \E e \in outbox : Tells(e, k)
    \/ \E i \in 1..Len(wire) : Tells(wire[i], k)
    \/ k = "price" /\ conn \in {"closed", "opening"}
    \/ k = "price" /\ conn = "reading" /\ read = market["price"]

\* A page that shows version v of k is up to date, will be, or is known to have missed it.
CaredFor(k, v) == v = market[k] \/ k \in missed \/ Coming(k)

Viewing ==
    /\ loaded => \A k \in Kinds : CaredFor(k, shown[k])
    /\ ~loaded => \A l \in Loads : load[l].stage = "read" =>
                     \A k \in Kinds : CaredFor(k, load[l].answer[k])

LiveInv ==
    /\ LiveTypes
    /\ conn # "open" => wire = <<>>
    /\ Viewing

LEMMA EventFacts ==
    ASSUME NEW e \in Event
    PROVE  About(e) \in Kinds /\ e.version \in Nat /\ e.exact \in BOOLEAN
BY DEF Event, About, Kinds

LEMMA VersionFacts ==
    ASSUME NEW p \in Nat, NEW s \in Nat
    PROVE  /\ VersionsOf(p, s) \in Versions
           /\ VersionsOf(p, s)["price"] = p /\ VersionsOf(p, s)["status"] = s
BY DEF VersionsOf, Versions, Kinds

LEMMA NewEvent ==
    ASSUME NEW kind \in Kinds \cup {"snapshot"}, NEW v \in Nat, NEW exact \in BOOLEAN
    PROVE  /\ EventOf(kind, v, exact) \in Event /\ EventOf(kind, v, exact).version = v
           /\ About(EventOf(kind, v, exact)) = IF kind = "status" THEN "status" ELSE "price"
BY DEF EventOf, Event, About

\* Last changes, as kinds and as events.
LEMMA LastTells ==
    ASSUME NEW events, NEW k
    PROVE  k \in LastOf(events) <=> \E e \in events : Tells(e, k)
BY DEF LastOf, Tells

\* What does not touch the page keeps it cared for.
LEMMA ViewingKept ==
    ASSUME LiveInv, LiveTypes', UNCHANGED <<shown, loaded>>,
           \A l \in Loads : load'[l].stage = "read" =>
              load'[l] = load[l] \/ \A k \in Kinds : load'[l].answer[k] = market'[k],
           \A k \in Kinds : \A v : CaredFor(k, v) => CaredFor(k, v)'
    PROVE  Viewing'
<1>1. CASE loaded
  BY <1>1 DEF LiveInv, Viewing
<1>2. CASE ~loaded
  <2> SUFFICES ASSUME NEW l \in Loads, load'[l].stage = "read", NEW k \in Kinds
               PROVE  CaredFor(k, load[l].answer[k])'
    BY <1>2 DEF Viewing
  <2>1. CASE load'[l] = load[l]
    <3>1. PICK v : v = load[l].answer[k] /\ v = load'[l].answer[k]
      BY <2>1
    <3>2. CaredFor(k, v)
      BY <1>2, <2>1, <3>1 DEF LiveInv, Viewing
    <3>3. CaredFor(k, v)'
      BY <3>2
    <3> QED BY <3>1, <3>3 DEF CaredFor
  <2>2. CASE load'[l].answer[k] = market'[k]
    BY <2>2 DEF CaredFor
  <2> QED BY <2>1, <2>2
<1> QED BY <1>1, <1>2

\* A change of the market: of the kind that changed, it is on its way or missed.
LEMMA ChangeKeeps ==
    ASSUME LiveInv, NEW c \in Kinds, NEW e,
           market' \in Versions, \A k \in Kinds \ {c} : market'[k] = market[k],
           UNCHANGED <<stream, page, breaks>>,
           \/ outbox' = outbox \cup {e} /\ e \in Event /\ About(e) = c /\ e.version = market'[c]
              /\ missed' = missed \ {c}
           \/ outbox' = outbox /\ missed' = missed \cup {c} /\ c = "price"
    PROVE  LiveInv'
<1>1. /\ conn' = conn /\ read' = read /\ wire' = wire /\ load' = load /\ loaded' = loaded
      /\ shown' = shown
  BY DEF stream, page
<1>2. LiveTypes'
  BY <1>1 DEF LiveInv, LiveTypes
<1>3. ASSUME NEW k \in Kinds, NEW v, CaredFor(k, v) PROVE CaredFor(k, v)'
  <2>1. CASE k = c
    <3>1. CASE outbox' = outbox \cup {e} /\ About(e) = c /\ e.version = market'[c]
      <4>1. \E d \in outbox' : Tells(d, k)'
        BY <2>1, <3>1 DEF Tells
      <4> QED BY <4>1 DEF CaredFor, Coming
    <3>2. CASE missed' = missed \cup {c}
      BY <2>1, <3>2 DEF CaredFor
    <3> QED BY <3>1, <3>2
  <2>2. CASE k # c
    <3>1. market'[k] = market[k] /\ (k \in missed => k \in missed') /\ outbox \subseteq outbox'
      BY <2>2
    <3>2. \A d : Tells(d, k) => Tells(d, k)'
      BY <3>1 DEF Tells
    <3>3. Coming(k) => Coming(k)'
      BY <1>1, <3>1, <3>2 DEF Coming
    <3> QED BY <1>3, <3>1, <3>3 DEF CaredFor
  <2> QED BY <2>1, <2>2
<1>4. Viewing'
  BY <1>1, <1>2, <1>3, ViewingKept
<1> QED BY <1>1, <1>2, <1>4 DEF LiveInv

LEMMA ChangeStep ==
    ASSUME LiveInv,
           \/ \E overlapped \in BOOLEAN : Trade(overlapped)
           \/ TradeElsewhere
           \/ \E v \in {PROPOSED, DISPUTED, RESOLVED} : Resolve(v)
    PROVE  LiveInv'
<1>1. /\ market \in Versions /\ market["price"] \in Nat /\ market["status"] \in Nat
      /\ "price" \in Kinds /\ "status" \in Kinds /\ \A k \in Kinds : k = "price" \/ k = "status"
  BY DEF LiveInv, LiveTypes, Versions, Kinds
<1>2. ASSUME NEW overlapped \in BOOLEAN, Trade(overlapped) PROVE LiveInv'
  <2>1. PICK p \in Nat : p = market["price"] + 1
    BY <1>1
  <2>2. PICK e : e = EventOf("price", p, ~overlapped)
    OBVIOUS
  <2>3. /\ market' = VersionsOf(p, LIVE) /\ market["status"] = LIVE
        /\ outbox' = outbox \cup {e} /\ missed' = missed \ {"price"}
        /\ UNCHANGED <<stream, page, breaks>>
    BY <1>2, <2>1, <2>2 DEF Trade, Commit
  <2>4. e \in Event /\ About(e) = "price" /\ e.version = p
    BY <1>1, <2>2, NewEvent
  <2>5. /\ market' \in Versions /\ market'["price"] = p
        /\ \A k \in Kinds \ {"price"} : market'[k] = market[k]
    BY <1>1, <2>3, VersionFacts DEF LIVE
  <2> QED BY <1>1, <2>3, <2>4, <2>5, ChangeKeeps
<1>3. ASSUME TradeElsewhere PROVE LiveInv'
  <2>1. PICK p \in Nat : p = market["price"] + 1
    BY <1>1
  <2>2. /\ market' = VersionsOf(p, LIVE) /\ market["status"] = LIVE
        /\ outbox' = outbox /\ missed' = missed \cup {"price"}
        /\ UNCHANGED <<stream, page, breaks>>
    BY <1>3, <2>1 DEF TradeElsewhere, Commit
  <2>3. market' \in Versions /\ \A k \in Kinds \ {"price"} : market'[k] = market[k]
    BY <1>1, <2>2, VersionFacts DEF LIVE
  <2> QED BY <1>1, <2>2, <2>3, ChangeKeeps
<1>4. ASSUME NEW v \in {PROPOSED, DISPUTED, RESOLVED}, Resolve(v) PROVE LiveInv'
  <2>1. v \in Nat
    BY DEF PROPOSED, DISPUTED, RESOLVED
  <2>2. PICK e : e = EventOf("status", v, TRUE)
    OBVIOUS
  <2>3. /\ market' = VersionsOf(market["price"], v)
        /\ outbox' = outbox \cup {e} /\ missed' = missed \ {"status"}
        /\ UNCHANGED <<stream, page, breaks>>
    BY <1>4, <2>2 DEF Resolve
  <2>4. e \in Event /\ About(e) = "status" /\ e.version = v
    BY <1>1, <2>1, <2>2, NewEvent
  <2>5. /\ market' \in Versions /\ market'["status"] = v
        /\ \A k \in Kinds \ {"status"} : market'[k] = market[k]
    BY <1>1, <2>1, <2>3, VersionFacts
  <2> QED BY <1>1, <2>3, <2>4, <2>5, ChangeKeeps
<1> QED BY <1>2, <1>3, <1>4

\* A step between the server and the page: what it takes off the way is missed.
LEMMA WayKeeps ==
    ASSUME LiveInv, LiveTypes', conn' # "open" => wire' = <<>>,
           UNCHANGED <<market, shown, loaded, load>>, missed \subseteq missed',
           \A k \in Kinds : Coming(k) => Coming(k)' \/ k \in missed'
    PROVE  LiveInv'
<1>1. ASSUME NEW k \in Kinds, NEW v, CaredFor(k, v) PROVE CaredFor(k, v)'
  BY <1>1 DEF CaredFor
<1>2. Viewing'
  BY <1>1, ViewingKept
<1> QED BY <1>2 DEF LiveInv

LEMMA PublishStep ==
    ASSUME LiveInv, NEW e \in outbox, Publish(e) \/ Unpublished(e) PROVE LiveInv'
<1>1. LiveTypes /\ e \in Event /\ (conn # "open" => wire = <<>>) /\ wire \in Seq(Event)
  BY DEF LiveInv, LiveTypes
<1>2. /\ UNCHANGED <<market, conn, read, shown, loaded, load>> /\ outbox' = outbox \ {e}
      /\ \/ conn = "open" /\ wire' = Append(wire, e) /\ missed' = missed
         \/ wire' = wire /\ missed' = missed \cup LastOf({e})
  BY DEF Publish, Unpublished, page, stream, Subscribed
<1>3. LastOf({e}) \subseteq Kinds
  BY <1>1, EventFacts DEF LastOf
<1>4. LiveTypes' /\ (conn' # "open" => wire' = <<>>)
  <2>1. wire' \in Seq(Event)
    BY <1>1, <1>2
  <2>2. outbox' \subseteq Event /\ missed' \subseteq Kinds
    BY <1>1, <1>2, <1>3 DEF LiveTypes
  <2> QED BY <1>1, <1>2, <2>1, <2>2 DEF LiveTypes
<1>5. ASSUME NEW k \in Kinds, Coming(k) PROVE Coming(k)' \/ k \in missed'
  <2>1. \A d : Tells(d, k) => Tells(d, k)'
    BY <1>2 DEF Tells
  <2>2. CASE \E d \in outbox : Tells(d, k)
    <3>1. PICK d \in outbox : Tells(d, k)
      BY <2>2
    <3>2. CASE d # e
      BY <1>2, <2>1, <3>1, <3>2 DEF Coming
    <3>3. CASE d = e /\ wire' = Append(wire, e)
      <4>1. PICK i : i = Len(wire) + 1
        OBVIOUS
      <4>2. i \in 1..Len(wire') /\ wire'[i] = e
        BY <1>1, <3>3, <4>1
      <4> QED BY <2>1, <3>1, <3>3, <4>2 DEF Coming
    <3>4. CASE d = e /\ missed' = missed \cup LastOf({e})
      BY <3>1, <3>4, LastTells
    <3> QED BY <1>2, <3>2, <3>3, <3>4
  <2>3. CASE \E i \in 1..Len(wire) : Tells(wire[i], k)
    <3>1. PICK i \in 1..Len(wire) : Tells(wire[i], k)
      BY <2>3
    <3>2. i \in 1..Len(wire') /\ wire'[i] = wire[i]
      BY <1>1, <1>2
    <3> QED BY <2>1, <3>1, <3>2 DEF Coming
  <2>4. CASE /\ k = "price"
             /\ conn \in {"closed", "opening"} \/ (conn = "reading" /\ read = market["price"])
    BY <1>2, <2>4 DEF Coming
  <2> QED BY <1>5, <2>2, <2>3, <2>4 DEF Coming
<1> QED BY <1>2, <1>4, <1>5, WayKeeps

LEMMA StreamStep ==
    ASSUME LiveInv, Connect \/ StreamRead \/ StreamOpen \/ Disconnect PROVE LiveInv'
<1>1. LiveTypes /\ (conn # "open" => wire = <<>>)
  BY DEF LiveInv
<1>2. /\ UNCHANGED <<market, outbox, shown, loaded, load>>
      /\ conn = "reading" \/ conn = "closed" \/ conn = "opening" \/ conn = "open"
  BY <1>1 DEF Connect, StreamRead, StreamOpen, Disconnect, server, page, LiveTypes
<1>3. \A d, k : Tells(d, k)' <=> Tells(d, k)
  BY <1>2 DEF Tells
<1>4. "price" \in Kinds /\ market["price"] \in Nat
  BY <1>1 DEF LiveTypes, Versions, Kinds
<1>5. CASE Connect
  <2>1. /\ conn' = "opening" /\ conn = "closed" /\ read' = read /\ wire' = wire
        /\ missed' = missed
    BY <1>5 DEF Connect
  <2>2. LiveTypes'
    BY <1>1, <1>2, <2>1 DEF LiveTypes
  <2>3. \A k \in Kinds : Coming(k) => Coming(k)'
    BY <1>2, <1>3, <2>1 DEF Coming
  <2> QED BY <1>1, <1>2, <2>1, <2>2, <2>3, WayKeeps
<1>6. CASE StreamRead
  <2>1. /\ conn' = "reading" /\ conn = "opening" /\ read' = market["price"] /\ wire' = wire
        /\ missed' = missed
    BY <1>6 DEF StreamRead
  <2>2. LiveTypes'
    BY <1>1, <1>2, <1>4, <2>1 DEF LiveTypes
  <2>3. \A k \in Kinds : Coming(k) => Coming(k)'
    BY <1>2, <1>3, <2>1 DEF Coming
  <2> QED BY <1>1, <1>2, <2>1, <2>2, <2>3, WayKeeps
<1>7. CASE StreamOpen
  <2>1. PICK e : e = EventOf("snapshot", read, TRUE)
    OBVIOUS
  <2>2. /\ conn' = "open" /\ conn = "reading" /\ read' = 0 /\ wire' = <<e>> /\ wire = <<>>
        /\ missed' = missed
    BY <1>1, <1>7, <2>1 DEF StreamOpen
  <2>3. e \in Event /\ About(e) = "price" /\ e.version = read
    BY <1>1, <2>1, NewEvent DEF LiveTypes
  <2>4. LiveTypes'
    BY <1>1, <1>2, <2>2, <2>3 DEF LiveTypes
  <2>5. ASSUME NEW k \in Kinds, Coming(k) PROVE Coming(k)'
    <3>1. CASE \E d \in outbox : Tells(d, k)
      BY <1>2, <1>3, <3>1 DEF Coming
    <3>2. CASE k = "price" /\ read = market["price"]
      <4>1. 1 \in 1..Len(wire') /\ wire'[1] = e
        BY <2>2
      <4>2. Tells(e, k)'
        BY <1>2, <2>3, <3>2 DEF Tells
      <4> QED BY <4>1, <4>2 DEF Coming
    <3> QED BY <2>2, <2>5, <3>1, <3>2 DEF Coming
  <2> QED BY <1>2, <2>2, <2>4, <2>5, WayKeeps
<1>8. CASE Disconnect
  <2>1. PICK lost : lost = {wire[i] : i \in 1..Len(wire)}
    OBVIOUS
  <2>2. /\ conn' = "closed" /\ read' = 0 /\ wire' = <<>> /\ conn # "closed"
        /\ missed' = missed \cup LastOf(lost)
    BY <1>8, <2>1 DEF Disconnect
  <2>3. LastOf(lost) \subseteq Kinds
    <3>1. lost \subseteq Event
      BY <1>1, <2>1 DEF LiveTypes
    <3> QED BY <3>1, EventFacts DEF LastOf
  <2>4. LiveTypes'
    BY <1>1, <1>2, <2>2, <2>3 DEF LiveTypes
  <2>5. ASSUME NEW k \in Kinds, Coming(k) PROVE Coming(k)' \/ k \in missed'
    <3>1. CASE \E d \in outbox : Tells(d, k)
      BY <1>2, <1>3, <3>1 DEF Coming
    <3>2. CASE \E i \in 1..Len(wire) : Tells(wire[i], k)
      BY <2>1, <2>2, <3>2, LastTells
    <3>3. CASE k = "price"
      BY <2>2, <3>3 DEF Coming
    <3> QED BY <2>5, <3>1, <3>2, <3>3 DEF Coming
  <2> QED BY <1>2, <2>2, <2>4, <2>5, WayKeeps
<1> QED BY <1>5, <1>6, <1>7, <1>8

\* The page's requests: what it has read of the market is the market.
LEMMA RequestStep ==
    ASSUME LiveInv, NEW l \in Loads, UserChanges(l) \/ OwnStepDone(l) \/ LoadRead(l) \/ LoadFails(l)
    PROVE  LiveInv'
<1>1. LiveTypes /\ (conn # "open" => wire = <<>>)
  BY DEF LiveInv
<1>2. UNCHANGED <<market, outbox, conn, read, wire, shown, loaded, missed>>
  BY DEF UserChanges, OwnStepDone, Load, LoadRead, LoadFails, server, stream
<1>3. PICK r \in Request : /\ load' = [load EXCEPT ![l] = r]
                           /\ r.stage = "read" => r.answer = market
  <2>1. CASE UserChanges(l) \/ OwnStepDone(l)
    <3>1. PICK r : r = RequestOf("sent", VersionsOf(0, LIVE))
      OBVIOUS
    <3>2. r \in Request /\ r.stage = "sent"
      BY <3>1, VersionFacts DEF RequestOf, Request, LIVE
    <3> QED BY <2>1, <3>1, <3>2 DEF UserChanges, OwnStepDone, Load
  <2>2. CASE LoadRead(l)
    <3>1. PICK r : r = RequestOf("read", market)
      OBVIOUS
    <3>2. r \in Request /\ r.answer = market
      BY <1>1, <3>1 DEF RequestOf, Request, LiveTypes
    <3> QED BY <2>2, <3>1, <3>2 DEF LoadRead
  <2>3. CASE LoadFails(l)
    <3>1. NoRequest \in Request /\ NoRequest.stage = "idle"
      BY VersionFacts DEF NoRequest, RequestOf, Request, LIVE
    <3> QED BY <2>3, <3>1 DEF LoadFails
  <2> QED BY <2>1, <2>2, <2>3
<1>4. LiveTypes'
  BY <1>1, <1>2, <1>3 DEF LiveTypes
<1>5. \A k \in Loads : load'[k].stage = "read" =>
         load'[k] = load[k] \/ \A i \in Kinds : load'[k].answer[i] = market'[i]
  BY <1>1, <1>2, <1>3 DEF LiveTypes
<1>6. \A k \in Kinds : \A v : CaredFor(k, v) => CaredFor(k, v)'
  BY <1>2 DEF CaredFor, Coming, Tells
<1>7. Viewing'
  BY <1>2, <1>4, <1>5, <1>6, ViewingKept
<1> QED BY <1>1, <1>2, <1>4, <1>7 DEF LiveInv

\* What the page makes of version v of k.
LEMMA MissedOnceSays ==
    ASSUME NEW k, NEW v
    PROVE  /\ v = market[k] => MissedOnce(k, v) = missed \ {k}
           /\ v # market[k] /\ loaded /\ shown[k] = market[k] => MissedOnce(k, v) = missed \cup {k}
           /\ v # market[k] /\ ~(loaded /\ shown[k] = market[k]) => MissedOnce(k, v) = missed
BY DEF MissedOnce

LEMMA DeliverStep == ASSUME LiveInv, Deliver PROVE LiveInv'
<1>1. LiveTypes /\ (conn # "open" => wire = <<>>) /\ wire \in Seq(Event) /\ Viewing
  BY DEF LiveInv, LiveTypes
<1>2. PICK e : e = Head(wire)
  OBVIOUS
<1>3. PICK c : c = About(e)
  OBVIOUS
<1>4. PICK v : v = IF e.exact THEN e.version ELSE NeverWas
  OBVIOUS
<1>5. /\ wire # <<>> /\ wire' = Tail(wire)
      /\ UNCHANGED <<market, outbox, conn, read, load, loaded>>
      /\ loaded => /\ shown' = [k \in Kinds |-> IF k \in {c} THEN v ELSE shown[k]]
                   /\ missed' = IF e.exact THEN MissedOnce(c, v) ELSE missed \cup {c}
      /\ ~loaded => missed' = missed \cup LastOf({e}) /\ shown' = shown
  BY <1>2, <1>3, <1>4 DEF Deliver, Taken, server
<1>6. /\ e \in Event /\ e = wire[1] /\ e.version \in Nat /\ e.exact \in BOOLEAN /\ c \in Kinds
      /\ v \in Int /\ wire' \in Seq(Event)
      /\ \A i \in 1..Len(wire) : i = 1 \/ (i - 1 \in 1..Len(wire') /\ wire'[i - 1] = wire[i])
  <2>1. /\ e \in Event /\ e = wire[1] /\ wire' \in Seq(Event)
        /\ \A i \in 1..Len(wire) : i = 1 \/ (i - 1 \in 1..Len(wire') /\ wire'[i - 1] = wire[i])
    BY <1>1, <1>2, <1>5
  <2>2. e.version \in Nat /\ e.exact \in BOOLEAN /\ c \in Kinds
    BY <1>3, <2>1, EventFacts
  <2> QED BY <1>4, <2>1, <2>2 DEF NeverWas
<1>7. \A d, k : Tells(d, k)' <=> Tells(d, k)
  BY <1>5 DEF Tells
<1>8. ASSUME NEW k \in Kinds, Coming(k), ~Coming(k)' PROVE Tells(e, k)
  <2>1. PICK i \in 1..Len(wire) : Tells(wire[i], k)
    BY <1>5, <1>7, <1>8 DEF Coming
  <2>2. i = 1
    BY <1>6, <1>7, <1>8, <2>1 DEF Coming
  <2> QED BY <1>6, <2>1, <2>2
<1>9. LastOf({e}) \subseteq Kinds /\ missed' \subseteq Kinds
  <2>1. LastOf({e}) \subseteq Kinds
    BY <1>6, EventFacts DEF LastOf
  <2>2. MissedOnce(c, v) \subseteq Kinds
    BY <1>1, <1>6, MissedOnceSays DEF LiveTypes
  <2> QED BY <1>1, <1>5, <1>6, <2>1, <2>2 DEF LiveTypes
<1>10. LiveTypes'
  <2>1. shown' \in [Kinds -> Int]
    BY <1>1, <1>5, <1>6 DEF LiveTypes
  <2> QED BY <1>1, <1>5, <1>6, <1>9, <2>1 DEF LiveTypes
<1>11. CASE loaded
  <2> SUFFICES ASSUME NEW k \in Kinds, NEW w, w = shown'[k] PROVE CaredFor(k, w)'
    <3>1. \A k \in Kinds : CaredFor(k, shown[k])'
      OBVIOUS
    <3>2. Viewing'
      BY <1>5, <1>11, <3>1 DEF Viewing
    <3> QED BY <1>1, <1>5, <1>10, <3>2 DEF LiveInv
  <2>1. CaredFor(k, shown[k])
    BY <1>1, <1>11 DEF Viewing
  <2>2. CASE k # c
    <3>1. shown'[k] = shown[k] /\ (k \in missed => k \in missed')
      BY <1>5, <1>6, <1>11, <2>2, MissedOnceSays
    <3>2. Coming(k) => Coming(k)'
      BY <1>3, <1>8, <2>2 DEF Tells
    <3> QED BY <1>5, <2>1, <3>1, <3>2 DEF CaredFor
  <2>3. CASE k = c
    <3>1. shown'[k] = v
      BY <1>5, <1>6, <1>11, <2>3
    <3>2. CASE ~e.exact
      BY <1>5, <1>11, <2>3, <3>2 DEF CaredFor
    <3>3. CASE v = market[k]
      BY <1>5, <3>1, <3>3 DEF CaredFor
    <3>4. CASE e.exact /\ v # market[k]
      <4>1. missed' = IF shown[k] = market[k] THEN missed \cup {k} ELSE missed
        BY <1>5, <1>11, <2>3, <3>4, MissedOnceSays
      <4>2. ~Tells(e, k)
        BY <1>4, <3>4 DEF Tells
      <4>3. Coming(k) => Coming(k)'
        BY <1>8, <4>2
      <4> QED BY <2>1, <4>1, <4>3 DEF CaredFor
    <3> QED BY <3>2, <3>3, <3>4
  <2> QED BY <2>2, <2>3
<1>12. CASE ~loaded
  <2>1. ASSUME NEW k \in Kinds, NEW w, CaredFor(k, w) PROVE CaredFor(k, w)'
    <3>1. Tells(e, k) => k \in missed'
      BY <1>5, <1>12, LastTells
    <3>2. Coming(k) => Coming(k)' \/ k \in missed'
      BY <1>8, <3>1
    <3> QED BY <1>5, <1>12, <2>1, <3>2 DEF CaredFor
  <2>2. Viewing'
    BY <1>5, <1>10, <1>12, <2>1, ViewingKept
  <2> QED BY <1>1, <1>5, <1>10, <2>2 DEF LiveInv
<1> QED BY <1>1, <1>5, <1>11, <1>12

LEMMA LoadAnswerStep == ASSUME LiveInv, NEW l \in Loads, LoadAnswer(l) PROVE LiveInv'
<1>1. LiveTypes /\ (conn # "open" => wire = <<>>) /\ Viewing
  BY DEF LiveInv
<1>2. PICK a : a = load[l].answer
  OBVIOUS
<1>3. /\ load[l].stage = "read" /\ load' = [load EXCEPT ![l] = NoRequest]
      /\ shown' = a /\ loaded' = TRUE
      /\ missed' = {k \in Kinds : k \in MissedOnce(k, a[k])}
      /\ UNCHANGED <<market, outbox, conn, read, wire>>
  BY <1>2 DEF LoadAnswer, server, stream
<1>4. a \in [Kinds -> Int]
  BY <1>1, <1>2 DEF LiveTypes, Request, Versions
<1>5. LiveTypes'
  <2>1. NoRequest \in Request
    BY VersionFacts DEF NoRequest, RequestOf, Request, LIVE
  <2>2. load' \in [Loads -> Request]
    BY <1>1, <1>3, <2>1 DEF LiveTypes
  <2>3. missed' \subseteq Kinds
    BY <1>3
  <2> QED BY <1>1, <1>3, <1>4, <2>2, <2>3 DEF LiveTypes
<1>6. ASSUME NEW k \in Kinds PROVE CaredFor(k, a[k])'
  <2>1. Coming(k)' <=> Coming(k)
    BY <1>3 DEF Coming, Tells
  <2>2. CASE a[k] = market[k]
    BY <1>3, <2>2 DEF CaredFor
  <2>3. CASE a[k] # market[k] /\ loaded /\ shown[k] = market[k]
    BY <1>3, <2>3, MissedOnceSays DEF CaredFor
  <2>4. CASE a[k] # market[k] /\ ~(loaded /\ shown[k] = market[k])
    <3>1. k \in missed \/ Coming(k)
      <4>1. CASE loaded
        BY <1>1, <2>4, <4>1 DEF Viewing, CaredFor
      <4>2. CASE ~loaded
        BY <1>1, <1>2, <1>3, <2>4, <4>2 DEF Viewing, CaredFor
      <4> QED BY <4>1, <4>2
    <3>2. k \in missed => k \in missed'
      BY <1>3, <2>4, MissedOnceSays
    <3> QED BY <2>1, <3>1, <3>2 DEF CaredFor
  <2> QED BY <2>2, <2>3, <2>4
<1>7. Viewing'
  BY <1>3, <1>6 DEF Viewing
<1> QED BY <1>1, <1>3, <1>5, <1>7 DEF LiveInv

LEMMA LiveInitInv == ASSUME LiveInit PROVE LiveInv
<1>1. VersionsOf(0, LIVE) \in Versions
  BY VersionFacts DEF LIVE
<1>2. PICK l \in Loads :
          load = [k \in Loads |-> IF k = l THEN RequestOf("sent", VersionsOf(0, LIVE)) ELSE NoRequest]
  BY DEF LiveInit
<1>3. load \in [Loads -> Request] /\ \A k \in Loads : load[k].stage # "read"
  BY <1>1, <1>2 DEF NoRequest, RequestOf, Request
<1>4. VersionsOf(0, LIVE) \in [Kinds -> Int]
  BY <1>1 DEF Versions
<1>5. LiveTypes
  <2>1. /\ market = VersionsOf(0, LIVE) /\ outbox = {} /\ conn = "opening" /\ read = 0
        /\ wire = <<>> /\ loaded = FALSE /\ shown = VersionsOf(0, LIVE) /\ missed = {}
    BY DEF LiveInit
  <2>2. market \in Versions /\ shown \in [Kinds -> Int]
    BY <1>1, <1>4, <2>1
  <2>3. /\ outbox \subseteq Event /\ conn \in {"closed", "opening", "reading", "open"}
        /\ read \in Nat /\ wire \in Seq(Event) /\ missed \subseteq Kinds
    BY <2>1
  <2>4. loaded \in BOOLEAN
    BY <2>1, Zenon
  <2> QED BY <1>3, <2>2, <2>3, <2>4, Zenon DEF LiveTypes
<1> QED BY <1>3, <1>5 DEF LiveInit, LiveInv, Viewing

LEMMA LiveNextInv == ASSUME LiveInv, [LiveNext]_live PROVE LiveInv'
<1>1. CASE LiveNext
  BY <1>1, ChangeStep, PublishStep, StreamStep, DeliverStep, RequestStep, LoadAnswerStep
     DEF LiveNext
<1>2. CASE UNCHANGED live
  BY <1>2 DEF live, LiveInv, LiveTypes, Viewing, CaredFor, Coming, Tells
<1> QED BY <1>1, <1>2

\* Of every kind of change the page shows the last one, or it is on its way to the page,
\* or it is known to be missed.
THEOREM LiveInvariance == LiveSpec => []LiveInv
<1> QED BY LiveInitInv, LiveNextInv, PTL DEF LiveSpec

\* When all is quiet the page shows the market as it is, but for a last change it could
\* not hear of: for any number of requests of the page, any number of trades, and any
\* number of connections that are cut.
THEOREM QuietCurrent == LiveSpec => []QuietIsCurrent
<1>1. ASSUME LiveInv PROVE QuietIsCurrent
  <2> SUFFICES ASSUME Quiet, loaded, NEW k \in Kinds PROVE UpToDate(k)
    BY DEF QuietIsCurrent
  <2>1. CaredFor(k, shown[k])
    BY <1>1 DEF LiveInv, Viewing
  <2>2. ~Coming(k)
    BY DEF Quiet, Coming
  <2> QED BY <2>1, <2>2 DEF CaredFor, UpToDate
<1>2. LiveInv => QuietIsCurrent
  BY <1>1
<1> QED BY <1>2, LiveInvariance, PTL
=============================================================================
