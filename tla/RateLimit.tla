----------------------------- MODULE RateLimit ------------------------------
(***************************************************************************)
(* The sliding windows of core/rate_limit.py, which live in the memory of  *)
(* the process.  A request charges some buckets of time stamps: a login    *)
(* charges the one of (ip, email) and the one of ip, a request that calls  *)
(* the LLM the one of its user.  It is admitted when none of them is full, *)
(* and then stamps them all.  The check and the stamps are one step, under *)
(* the lock; the verdict on the password comes in a later one.             *)
(*                                                                         *)
(* Time is counted in ticks, several to a second: the clock is a float,    *)
(* Retry-After a whole number of seconds.                                  *)
(***************************************************************************)
EXTENDS Integers, Sequences

CONSTANTS
  Buckets,      \* the keys of the three dictionaries
  Charges,      \* requests: the sequence of buckets each charges, in order
  Resettable,   \* buckets of (ip, email), which a successful login removes
  Limit,        \* Limit[b]: stamps the bucket holds
  Window,       \* Window[b]: length of its window, in ticks
  PerSecond,    \* ticks per second
  MaxNow,       \* bound on the clock
  MaxGranted,   \* bound on the requests admitted by one bucket
  MaxRestarts   \* bound on restarts of the process

ASSUME RateLimitAssumption ==
  /\ Charges \subseteq Seq(Buckets)
  /\ Resettable \subseteq Buckets
  /\ Limit \in [Buckets -> Nat \ {0}]
  /\ Window \in [Buckets -> Nat]
  /\ PerSecond \in Nat \ {0}
  /\ MaxNow \in Nat /\ MaxGranted \in Nat /\ MaxRestarts \in Nat

VARIABLES
  now,          \* time.monotonic()
  bucket,       \* _per_ip_email, _per_ip and _llm_per_user
  verifying,    \* buckets with an admitted login that may yet prove right
  restarts,     \* how often the process has been restarted
  granted,      \* history: the stamps of a bucket, those it dropped included
  since,        \* history: how many of them came before it was last emptied
  forgiven,     \* history: how often it was emptied
  promise       \* history: when a refused client was told to come back

vars == <<now, bucket, verifying, restarts, granted, since, forgiven, promise>>

Nobody     == -1
Charged(c) == {c[i] : i \in DOMAIN c}

Init ==
  /\ now = 0
  /\ bucket = [b \in Buckets |-> << >>]
  /\ verifying = {}
  /\ restarts = 0
  /\ granted = [b \in Buckets |-> << >>]
  /\ since = [b \in Buckets |-> 0]
  /\ forgiven = [b \in Buckets |-> 0]
  /\ promise = [b \in Buckets |-> Nobody]

-----------------------------------------------------------------------------
\* Defect: a stamp exactly one window old is dropped already.
ExpiresEarly(b, k) ==
  /\ k \in 0 .. Len(bucket[b])
  /\ \A i \in 1 .. k : bucket[b][i] <= now - Window[b]
  /\ k < Len(bucket[b]) => bucket[b][k + 1] > now - Window[b]

\* popleft while the first stamp is older than the window: k stamps go.
Expires(b, k) ==
  /\ k \in 0 .. Len(bucket[b])
  /\ \A i \in 1 .. k : bucket[b][i] < now - Window[b]
  /\ k < Len(bucket[b]) => bucket[b][k + 1] >= now - Window[b]

Kept(b, k) == SubSeq(bucket[b], k + 1, Len(bucket[b]))

Full(b, k) == Len(bucket[b]) - k >= Limit[b]

\* Defect: int(rest) without the second that is added.
RetryAfterFloor(b, k) == (Window[b] - (now - bucket[b][k + 1])) \div PerSecond

\* Seconds until the oldest stamp that was kept leaves the window.
RetryAfter(b, k) == ((Window[b] - (now - bucket[b][k + 1])) \div PerSecond) + 1

\* No bucket is full: the request is stamped in each.
Admit(c, drop) ==
  /\ \A b \in Charged(c) : ~ Full(b, drop[b]) /\ Len(granted[b]) < MaxGranted
  /\ bucket' = [b \in Buckets |->
       IF b \in Charged(c) THEN Append(Kept(b, drop[b]), now) ELSE bucket[b]]
  /\ granted' = [b \in Buckets |->
       IF b \in Charged(c) THEN Append(granted[b], now) ELSE granted[b]]
  /\ verifying' = verifying \cup {b \in Charged(c) : b \in Resettable}
  /\ promise' = [b \in Buckets |-> IF b \in Charged(c) THEN Nobody ELSE promise[b]]
  /\ UNCHANGED <<now, restarts, since, forgiven>>

\* 429 with the Retry-After of the first bucket that is full.
Refuse(c, drop) ==
  \E i \in DOMAIN c :
    /\ Full(c[i], drop[c[i]])
    /\ \A j \in 1 .. i - 1 : ~ Full(c[j], drop[c[j]])
    /\ promise' =
         [promise EXCEPT ![c[i]] = now + PerSecond * RetryAfter(c[i], drop[c[i]])]
    /\ bucket' = [b \in Buckets |->
         IF b \in Charged(c) THEN Kept(b, drop[b]) ELSE bucket[b]]
    /\ UNCHANGED <<now, verifying, restarts, granted, since, forgiven>>

\* check_login_attempt and check_llm_quota.
Attempt(c) ==
  \E drop \in [Charged(c) -> 0 .. MaxGranted] :
    /\ \A b \in Charged(c) : Expires(b, drop[b])
    /\ Admit(c, drop) \/ Refuse(c, drop)

Emptied(B) ==
  /\ bucket' = [b \in Buckets |-> IF b \in B THEN << >> ELSE bucket[b]]
  /\ since' = [b \in Buckets |-> IF b \in B THEN Len(granted[b]) ELSE since[b]]
  /\ forgiven' = [b \in Buckets |-> IF b \in B THEN forgiven[b] + 1 ELSE forgiven[b]]

\* Defect: a right password empties the bucket of the address as well.
SucceedForgivesIp(b) ==
  /\ b \in verifying
  /\ Emptied(UNION {Charged(c) : c \in {d \in Charges : d[1] = b}})
  /\ verifying' = verifying \ {b}
  /\ UNCHANGED <<now, restarts, granted, promise>>

\* reset_login_attempts: a login that was admitted had the right password.
\* What others have tried with that email meanwhile is forgotten with it.
Succeed(b) ==
  /\ b \in verifying
  /\ Emptied({b})
  /\ verifying' = verifying \ {b}
  /\ UNCHANGED <<now, restarts, granted, promise>>

\* The process is restarted: the dictionaries are empty, requests are lost.
Restart ==
  /\ restarts < MaxRestarts
  /\ restarts' = restarts + 1
  /\ Emptied(Buckets)
  /\ verifying' = {}
  /\ UNCHANGED <<now, granted, promise>>

Tick ==
  /\ now < MaxNow
  /\ now' = now + 1
  /\ UNCHANGED <<bucket, verifying, restarts, granted, since, forgiven, promise>>

Next ==
  \/ \E c \in Charges : Attempt(c)
  \/ \E b \in Resettable : Succeed(b)
  \/ Restart
  \/ Tick

Spec == Init /\ [][Next]_vars

-----------------------------------------------------------------------------
\* Type of every variable.
TypeOK ==
  /\ now \in Nat
  /\ bucket \in [Buckets -> Seq(Nat)]
  /\ verifying \subseteq Resettable
  /\ restarts \in Nat
  /\ granted \in [Buckets -> Seq(Nat)]
  /\ since \in [Buckets -> Nat]
  /\ forgiven \in [Buckets -> Nat]
  /\ promise \in [Buckets -> Nat \cup {Nobody}]

\* A bucket admits no more than its limit in any window, wherever the window
\* begins and ends: of the requests admitted since it was last emptied, one and
\* the Limit-th after it are more than a window apart.
Throttled ==
  \A b \in Buckets : \A i \in since[b] + 1 .. Len(granted[b]) - Limit[b] :
    granted[b][i + Limit[b]] - granted[b][i] > Window[b]

\* What the loss of the windows costs: over restarts, and for a pair of address
\* and email over successful logins, as many limits as the bucket was emptied.
\* The bucket of an address is not emptied by a login: reset_login_attempts says
\* that otherwise one valid account would hide guesses at all the others.
ForgivenOnce ==
  \A b \in Buckets :
    LET most == Limit[b] * (1 + forgiven[b])
    IN /\ b \notin Resettable => forgiven[b] = restarts
       /\ \A i \in 1 .. Len(granted[b]) - most :
            granted[b][i + most] - granted[b][i] > Window[b]

\* The client of a refused request may trust Retry-After: at that time the
\* bucket that refused it has room, if nobody else was admitted meanwhile.
RetryAfterHonest ==
  \A b \in Buckets :
    promise[b] # Nobody /\ now >= promise[b] =>
      \A k \in 0 .. Len(bucket[b]) : Expires(b, k) => ~ Full(b, k)

=============================================================================
