-------------------------- MODULE RateLimitProofs ---------------------------
(***************************************************************************)
(* The bound on every window, for all limits, windows and charges.         *)
(***************************************************************************)
EXTENDS RateLimit, TLAPS

\* What a bucket holds are the last stamps of its history.
HoldsLast(b) ==
  /\ Len(bucket[b]) <= Len(granted[b]) - since[b]
  /\ \A i \in 1 .. Len(bucket[b]) :
       bucket[b][i] = granted[b][Len(granted[b]) - Len(bucket[b]) + i]

\* What it has dropped since it was emptied is older than the window.
DroppedOld(b) ==
  \A i \in since[b] + 1 .. Len(granted[b]) - Len(bucket[b]) :
    granted[b][i] < now - Window[b]

Spaced(b) ==
  \A i \in since[b] + 1 .. Len(granted[b]) - Limit[b] :
    granted[b][i + Limit[b]] - granted[b][i] > Window[b]

\* The inductive invariant.
WindowInv ==
  /\ TypeOK
  /\ \A b \in Buckets : HoldsLast(b) /\ DroppedOld(b) /\ Spaced(b)

LEMMA ChargedBuckets == \A c \in Charges : Charged(c) \subseteq Buckets
BY RateLimitAssumption DEF Charged

\* Of a history g whose last stamps are held in s, and in which what s has
\* dropped since index n is older than old, the stamps without the k oldest.
LEMMA TrimmedLast ==
  ASSUME NEW s \in Seq(Nat), NEW g \in Seq(Nat), NEW n \in Nat, NEW k \in Nat,
         NEW old \in Int, NEW ls \in Nat, NEW lg \in Nat, ls = Len(s), lg = Len(g),
         k <= ls, ls <= lg - n,
         \A i \in 1 .. ls : s[i] = g[lg - ls + i],
         \A i \in n + 1 .. lg - ls : g[i] < old,
         \A i \in 1 .. k : s[i] < old
  PROVE  /\ SubSeq(s, k + 1, ls) \in Seq(Nat)
         /\ Len(SubSeq(s, k + 1, ls)) = ls - k
         /\ \A i \in 1 .. ls - k : SubSeq(s, k + 1, ls)[i] = g[lg - (ls - k) + i]
         /\ \A i \in n + 1 .. lg - (ls - k) : g[i] < old
<1>1. /\ SubSeq(s, k + 1, ls) \in Seq(Nat)
      /\ Len(SubSeq(s, k + 1, ls)) = ls - k
      /\ \A i \in 1 .. ls - k : SubSeq(s, k + 1, ls)[i] = s[k + i]
  <2>1. \A t \in Seq(Nat) : \A m \in 0 .. Len(t) :
          /\ SubSeq(t, m + 1, Len(t)) \in Seq(Nat)
          /\ Len(SubSeq(t, m + 1, Len(t))) = Len(t) - m
          /\ \A i \in 1 .. Len(t) - m : SubSeq(t, m + 1, Len(t))[i] = t[m + i]
    OBVIOUS
  <2>2. k \in 0 .. Len(s)
    OBVIOUS
  <2> QED
    BY <2>1, <2>2
<1>2. ASSUME NEW i \in 1 .. ls - k
      PROVE  SubSeq(s, k + 1, ls)[i] = g[lg - (ls - k) + i]
  <2>1. k + i \in 1 .. ls /\ lg - ls + (k + i) = lg - (ls - k) + i
    OBVIOUS
  <2>2. s[k + i] = g[lg - ls + (k + i)]
    BY <2>1
  <2> QED
    BY <1>1, <2>1, <2>2
<1>3. ASSUME NEW i \in n + 1 .. lg - (ls - k)
      PROVE  g[i] < old
  <2>1. CASE i <= lg - ls
    BY <2>1
  <2>2. CASE i > lg - ls
    <3> DEFINE j == i - (lg - ls)
    <3>1. j \in 1 .. k /\ j \in 1 .. ls /\ lg - ls + j = i
      BY <2>2
    <3> HIDE DEF j
    <3> QED
      BY <3>1
  <2> QED
    BY <2>1, <2>2
<1> QED
  BY <1>1, <1>2, <1>3

\* Trimming keeps the last stamps, and drops stamps older than the window.
LEMMA KeptIsLast ==
  ASSUME WindowInv, NEW b \in Buckets, NEW k, Expires(b, k)
  PROVE  /\ Kept(b, k) \in Seq(Nat)
         /\ Len(Kept(b, k)) = Len(bucket[b]) - k
         /\ Len(Kept(b, k)) <= Len(granted[b]) - since[b]
         /\ \A i \in 1 .. Len(Kept(b, k)) :
              Kept(b, k)[i] = granted[b][Len(granted[b]) - Len(Kept(b, k)) + i]
         /\ \A i \in since[b] + 1 .. Len(granted[b]) - Len(Kept(b, k)) :
              granted[b][i] < now - Window[b]
<1>1. /\ bucket[b] \in Seq(Nat) /\ granted[b] \in Seq(Nat) /\ since[b] \in Nat
      /\ now - Window[b] \in Int /\ Len(bucket[b]) \in Nat /\ Len(granted[b]) \in Nat
  BY RateLimitAssumption DEF WindowInv, TypeOK
<1>2. /\ k \in Nat /\ k <= Len(bucket[b])
      /\ \A i \in 1 .. k : bucket[b][i] < now - Window[b]
  BY <1>1 DEF Expires
<1>3. /\ Len(bucket[b]) <= Len(granted[b]) - since[b]
      /\ \A i \in 1 .. Len(bucket[b]) :
           bucket[b][i] = granted[b][Len(granted[b]) - Len(bucket[b]) + i]
      /\ \A i \in since[b] + 1 .. Len(granted[b]) - Len(bucket[b]) :
           granted[b][i] < now - Window[b]
  BY DEF WindowInv, HoldsLast, DroppedOld
<1>4. /\ Kept(b, k) \in Seq(Nat)
      /\ Len(Kept(b, k)) = Len(bucket[b]) - k
      /\ \A i \in 1 .. Len(bucket[b]) - k :
           Kept(b, k)[i] = granted[b][Len(granted[b]) - (Len(bucket[b]) - k) + i]
      /\ \A i \in since[b] + 1 .. Len(granted[b]) - (Len(bucket[b]) - k) :
           granted[b][i] < now - Window[b]
  BY <1>1, <1>2, <1>3, TrimmedLast DEF Kept
<1>5. Len(Kept(b, k)) <= Len(granted[b]) - since[b]
  BY <1>1, <1>2, <1>3, <1>4
<1>6. \A i \in 1 .. Len(Kept(b, k)) :
        Kept(b, k)[i] = granted[b][Len(granted[b]) - Len(Kept(b, k)) + i]
  BY <1>4
<1>7. \A i \in since[b] + 1 .. Len(granted[b]) - Len(Kept(b, k)) :
        granted[b][i] < now - Window[b]
  BY <1>4
<1> QED
  BY <1>4, <1>5, <1>6, <1>7

\* A stamp at the end of the history is, for a window that holds fewer than
\* limit stamps, more than that window after the one limit places before it.
LEMMA AppendedSpaced ==
  ASSUME NEW g \in Seq(Nat), NEW lg \in Nat, lg = Len(g), NEW lk \in Nat,
         NEW n \in Nat, NEW limit \in Nat \ {0}, NEW t \in Nat, NEW w \in Nat,
         lk < limit,
         \A i \in n + 1 .. lg - lk : g[i] < t - w,
         \A i \in n + 1 .. lg - limit : g[i + limit] - g[i] > w
  PROVE  \A i \in n + 1 .. (lg + 1) - limit :
           Append(g, t)[i + limit] - Append(g, t)[i] > w
<1> TAKE i \in n + 1 .. (lg + 1) - limit
<1>1. /\ Append(g, t)[lg + 1] = t
      /\ \A j \in 1 .. lg : Append(g, t)[j] = g[j]
  OBVIOUS
<1>2. CASE i + limit = lg + 1
  <2>1. i \in n + 1 .. lg - lk /\ i \in 1 .. lg
    BY <1>2
  <2>2. g[i] < t - w /\ g[i] \in Nat /\ Append(g, t)[i] = g[i]
    BY <1>1, <2>1
  <2> QED
    BY <1>1, <1>2, <2>2
<1>3. CASE i + limit # lg + 1
  <2>1. i \in n + 1 .. lg - limit /\ i \in 1 .. lg /\ i + limit \in 1 .. lg
    BY <1>3
  <2> QED
    BY <1>1, <2>1
<1> QED
  BY <1>2, <1>3

LEMMA InitWindow == Init => WindowInv
<1> SUFFICES ASSUME Init PROVE WindowInv
  OBVIOUS
<1>1. TypeOK
  BY DEF Init, TypeOK, Nobody
<1>2. \A b \in Buckets : bucket[b] = << >> /\ granted[b] = << >> /\ since[b] = 0
  BY DEF Init
<1>3. ASSUME NEW b \in Buckets
      PROVE  HoldsLast(b) /\ DroppedOld(b) /\ Spaced(b)
  <2>1. Len(<< >>) = 0 /\ Limit[b] \in Nat \ {0}
    BY RateLimitAssumption
  <2>2. 1 .. 0 = {} /\ 1 .. 0 - Limit[b] = {} /\ 0 - 0 = 0 /\ 0 + 1 = 1
    BY <2>1
  <2>3. bucket[b] = << >> /\ granted[b] = << >> /\ since[b] = 0
    BY <1>2
  <2>4. HoldsLast(b)
    BY <2>1, <2>2, <2>3 DEF HoldsLast
  <2>5. DroppedOld(b)
    BY <2>1, <2>2, <2>3 DEF DroppedOld
  <2>6. Spaced(b)
    BY <2>1, <2>2, <2>3 DEF Spaced
  <2> QED
    BY <2>4, <2>5, <2>6
<1> QED
  BY <1>1, <1>3 DEF WindowInv

LEMMA AdmitKeepsWindow ==
  ASSUME WindowInv, NEW c \in Charges, NEW drop,
         \A b \in Charged(c) : Expires(b, drop[b]), Admit(c, drop)
  PROVE  WindowInv'
<1>1. TypeOK'
  <2>1. bucket' \in [Buckets -> Seq(Nat)]
    <3>1. \A b \in Buckets : b \in Charged(c) => Append(Kept(b, drop[b]), now) \in Seq(Nat)
      BY KeptIsLast DEF WindowInv, TypeOK
    <3> QED
      BY <3>1 DEF Admit, WindowInv, TypeOK
  <2>2. granted' \in [Buckets -> Seq(Nat)]
    BY DEF Admit, WindowInv, TypeOK
  <2> QED
    BY <2>1, <2>2, ChargedBuckets DEF Admit, WindowInv, TypeOK
<1>2. ASSUME NEW b \in Buckets, b \in Charged(c)
      PROVE  HoldsLast(b)' /\ DroppedOld(b)' /\ Spaced(b)'
  <2> DEFINE K  == Kept(b, drop[b])
             G  == granted[b]
             lk == Len(K)
             lg == Len(G)
  <2>1. /\ K \in Seq(Nat) /\ lk <= lg - since[b]
        /\ \A i \in 1 .. lk : K[i] = G[lg - lk + i]
        /\ \A i \in since[b] + 1 .. lg - lk : G[i] < now - Window[b]
        /\ lk = Len(bucket[b]) - drop[b]
    BY <1>2, KeptIsLast
  <2>2. /\ G \in Seq(Nat) /\ now \in Nat /\ since[b] \in Nat
        /\ Limit[b] \in Nat \ {0} /\ Window[b] \in Nat
        /\ lk \in Nat /\ lg \in Nat
    BY <2>1, RateLimitAssumption DEF WindowInv, TypeOK
  <2>3. lk < Limit[b]
    <3>1. ~ (Len(bucket[b]) - drop[b] >= Limit[b])
      BY <1>2 DEF Admit, Full
    <3> QED
      BY <2>1, <2>2, <3>1
  <2>4. /\ bucket'[b] = Append(K, now) /\ granted'[b] = Append(G, now)
        /\ now' = now /\ since' = since
    BY <1>2 DEF Admit
  <2>5. \A i \in since[b] + 1 .. lg - Limit[b] : G[i + Limit[b]] - G[i] > Window[b]
    BY DEF WindowInv, Spaced
  <2> HIDE DEF K, G
  <2>6. /\ Len(bucket'[b]) = lk + 1 /\ Len(granted'[b]) = lg + 1
        /\ \A i \in 1 .. lk : bucket'[b][i] = K[i]
        /\ \A i \in 1 .. lg : granted'[b][i] = G[i]
        /\ bucket'[b][lk + 1] = now /\ granted'[b][lg + 1] = now
    BY <2>1, <2>2, <2>4
  <2> HIDE DEF lk, lg
  <2>7. /\ (lg + 1) - (lk + 1) = lg - lk
        /\ lk + 1 <= (lg + 1) - since[b]
    BY <2>1, <2>2
  <2>8. HoldsLast(b)'
    <3>1. ASSUME NEW i \in 1 .. lk + 1
          PROVE  bucket'[b][i] = granted'[b][lg - lk + i]
      <4>1. CASE i = lk + 1
        <5>1. lg - lk + i = lg + 1
          BY <2>2, <4>1
        <5> QED
          BY <2>6, <4>1, <5>1
      <4>2. CASE i # lk + 1
        <5>1. i \in 1 .. lk /\ lg - lk + i \in 1 .. lg
          BY <2>1, <2>2, <4>2
        <5>2. bucket'[b][i] = K[i] /\ granted'[b][lg - lk + i] = G[lg - lk + i]
          BY <2>6, <5>1
        <5>3. K[i] = G[lg - lk + i]
          BY <2>1, <5>1
        <5> QED
          BY <5>2, <5>3
      <4> QED
        BY <4>1, <4>2
    <3> QED
      BY <2>4, <2>6, <2>7, <3>1 DEF HoldsLast
  <2>9. DroppedOld(b)'
    <3>1. ASSUME NEW i \in since[b] + 1 .. lg - lk
          PROVE  granted'[b][i] < now - Window[b]
      <4>1. i \in 1 .. lg
        BY <2>2
      <4> QED
        BY <2>1, <2>6, <4>1
    <3> QED
      BY <2>4, <2>6, <2>7, <3>1 DEF DroppedOld
  <2>10. Spaced(b)'
    <3>1. lg = Len(G)
      BY DEF lg
    <3>2. \A i \in since[b] + 1 .. (lg + 1) - Limit[b] :
            granted'[b][i + Limit[b]] - granted'[b][i] > Window[b]
      <4>1. \A i \in since[b] + 1 .. (lg + 1) - Limit[b] :
              Append(G, now)[i + Limit[b]] - Append(G, now)[i] > Window[b]
        BY <2>1, <2>2, <2>3, <2>5, <3>1, AppendedSpaced
      <4> QED
        BY <2>4, <4>1
    <3>3. since'[b] + 1 .. Len(granted'[b]) - Limit[b] = since[b] + 1 .. (lg + 1) - Limit[b]
      <4>1. Len(granted'[b]) = lg + 1
        BY <2>6
      <4>2. since'[b] = since[b]
        BY <2>4
      <4> QED
        BY <4>1, <4>2
    <3> QED
      BY <3>2, <3>3 DEF Spaced
  <2> QED
    BY <2>8, <2>9, <2>10
<1>3. ASSUME NEW b \in Buckets, b \notin Charged(c)
      PROVE  HoldsLast(b)' /\ DroppedOld(b)' /\ Spaced(b)'
  BY <1>3 DEF Admit, WindowInv, HoldsLast, DroppedOld, Spaced
<1> QED
  BY <1>1, <1>2, <1>3 DEF WindowInv

LEMMA RefuseKeepsWindow ==
  ASSUME WindowInv, NEW c \in Charges, NEW drop,
         \A b \in Charged(c) : Expires(b, drop[b]), Refuse(c, drop)
  PROVE  WindowInv'
<1>1. /\ UNCHANGED <<now, verifying, restarts, granted, since, forgiven>>
      /\ bucket' = [b \in Buckets |->
           IF b \in Charged(c) THEN Kept(b, drop[b]) ELSE bucket[b]]
  BY DEF Refuse
<1>2. promise' \in [Buckets -> Nat \cup {Nobody}]
  <2>1. PICK i \in DOMAIN c :
          /\ Full(c[i], drop[c[i]])
          /\ promise' =
               [promise EXCEPT ![c[i]] = now + PerSecond * RetryAfter(c[i], drop[c[i]])]
    BY DEF Refuse
  <2> DEFINE b == c[i]
             k == drop[b]
  <2>2. b \in Buckets /\ b \in Charged(c) /\ Expires(b, k)
    BY ChargedBuckets DEF Charged
  <2>3. /\ bucket[b] \in Seq(Nat) /\ now \in Nat /\ k \in 0 .. Len(bucket[b])
        /\ Limit[b] \in Nat \ {0} /\ Window[b] \in Nat /\ PerSecond \in Nat \ {0}
    BY <2>2, RateLimitAssumption DEF WindowInv, TypeOK, Expires
  <2>4. k + 1 \in 1 .. Len(bucket[b])
    BY <2>1, <2>3 DEF Full
  <2>5. bucket[b][k + 1] \in Nat /\ bucket[b][k + 1] >= now - Window[b]
    BY <2>2, <2>3, <2>4 DEF Expires
  <2> HIDE DEF b, k
  <2>6. Window[b] - (now - bucket[b][k + 1]) \in Nat
    BY <2>3, <2>5
  <2>7. \A n \in Nat : n \div PerSecond \in Nat
    BY <2>3
  <2>8. RetryAfter(b, k) \in Nat
    BY <2>6, <2>7 DEF RetryAfter
  <2>9. now + PerSecond * RetryAfter(b, k) \in Nat
    <3>1. \A m, n, q \in Nat : m + n * q \in Nat
      OBVIOUS
    <3> QED
      BY <2>3, <2>8, <3>1
  <2> QED
    BY <2>1, <2>9 DEF WindowInv, TypeOK, b, k
<1>3. bucket' \in [Buckets -> Seq(Nat)]
  <2>1. \A b \in Buckets : b \in Charged(c) => Kept(b, drop[b]) \in Seq(Nat)
    BY KeptIsLast
  <2> QED
    BY <1>1, <2>1 DEF WindowInv, TypeOK
<1>4. TypeOK'
  BY <1>1, <1>2, <1>3 DEF WindowInv, TypeOK
<1>5. ASSUME NEW b \in Buckets
      PROVE  HoldsLast(b)' /\ DroppedOld(b)' /\ Spaced(b)'
  <2>1. Spaced(b)'
    BY <1>1 DEF WindowInv, Spaced
  <2>2. CASE b \in Charged(c)
    <3>1. bucket'[b] = Kept(b, drop[b])
      BY <1>1, <2>2
    <3> QED
      BY <1>1, <2>1, <2>2, <3>1, KeptIsLast DEF HoldsLast, DroppedOld
  <2>3. CASE b \notin Charged(c)
    BY <1>1, <2>1, <2>3 DEF WindowInv, HoldsLast, DroppedOld
  <2> QED
    BY <2>2, <2>3
<1> QED
  BY <1>4, <1>5 DEF WindowInv

LEMMA EmptiedKeepsWindow ==
  ASSUME WindowInv, NEW B, Emptied(B), UNCHANGED <<now, granted, promise>>,
         verifying' \subseteq Resettable, restarts' \in Nat
  PROVE  WindowInv'
<1>1. \A b \in Buckets : Len(granted[b]) \in Nat
  BY DEF WindowInv, TypeOK
<1>2. TypeOK'
  BY <1>1 DEF WindowInv, TypeOK, Emptied
<1>3. ASSUME NEW b \in Buckets
      PROVE  HoldsLast(b)' /\ DroppedOld(b)' /\ Spaced(b)'
  <2>1. CASE b \in B
    <3>1. /\ bucket'[b] = << >> /\ since'[b] = Len(granted[b]) /\ granted' = granted
          /\ Limit[b] \in Nat \ {0}
      BY <2>1, RateLimitAssumption DEF Emptied
    <3> QED
      BY <1>1, <3>1 DEF HoldsLast, DroppedOld, Spaced
  <2>2. CASE b \notin B
    BY <2>2 DEF WindowInv, HoldsLast, DroppedOld, Spaced, Emptied
  <2> QED
    BY <2>1, <2>2
<1> QED
  BY <1>2, <1>3 DEF WindowInv

LEMMA NextWindow == WindowInv /\ [Next]_vars => WindowInv'
<1> SUFFICES ASSUME WindowInv, [Next]_vars PROVE WindowInv'
  OBVIOUS
<1>1. ASSUME NEW c \in Charges, Attempt(c) PROVE WindowInv'
  BY <1>1, AdmitKeepsWindow, RefuseKeepsWindow DEF Attempt
<1>2. ASSUME NEW b \in Resettable, Succeed(b) PROVE WindowInv'
  <2>1. verifying' \subseteq Resettable /\ restarts' \in Nat
    BY <1>2 DEF Succeed, WindowInv, TypeOK
  <2> QED
    BY <1>2, <2>1, EmptiedKeepsWindow DEF Succeed
<1>3. CASE Restart
  <2>1. verifying' \subseteq Resettable /\ restarts' \in Nat
    BY <1>3 DEF Restart, WindowInv, TypeOK
  <2> QED
    BY <1>3, <2>1, EmptiedKeepsWindow DEF Restart
<1>4. CASE Tick
  <2>1. TypeOK'
    BY <1>4 DEF Tick, WindowInv, TypeOK
  <2>2. ASSUME NEW b \in Buckets
        PROVE  HoldsLast(b)' /\ DroppedOld(b)' /\ Spaced(b)'
    <3>1. HoldsLast(b)' /\ Spaced(b)'
      BY <1>4 DEF Tick, WindowInv, HoldsLast, Spaced
    <3>2. DroppedOld(b)'
      <4>1. /\ now' = now + 1 /\ bucket' = bucket /\ granted' = granted /\ since' = since
            /\ now \in Nat /\ Window[b] \in Nat /\ granted[b] \in Seq(Nat)
        BY <1>4, RateLimitAssumption DEF Tick, WindowInv, TypeOK
      <4>2. ASSUME NEW i \in since[b] + 1 .. Len(granted[b]) - Len(bucket[b])
            PROVE  granted'[b][i] < now' - Window[b]
        <5>1. granted[b][i] < now - Window[b]
          BY DEF WindowInv, DroppedOld
        <5>2. granted[b][i] \in Nat
          <6>1. /\ granted[b] \in Seq(Nat) /\ Len(bucket[b]) \in Nat /\ since[b] \in Nat
                /\ Len(granted[b]) \in Nat
            BY DEF WindowInv, TypeOK
          <6>2. i \in 1 .. Len(granted[b])
            BY <6>1
          <6>3. \A s \in Seq(Nat) : \A m \in 1 .. Len(s) : s[m] \in Nat
            OBVIOUS
          <6> QED
            BY <6>1, <6>2, <6>3
        <5> QED
          BY <4>1, <5>1, <5>2
      <4>3. since'[b] + 1 .. Len(granted'[b]) - Len(bucket'[b])
              = since[b] + 1 .. Len(granted[b]) - Len(bucket[b])
        BY <4>1
      <4> QED
        BY <4>2, <4>3 DEF DroppedOld
    <3> QED
      BY <3>1, <3>2
  <2> QED
    BY <2>1, <2>2 DEF WindowInv
<1>5. CASE UNCHANGED vars
  BY <1>5 DEF vars, WindowInv, TypeOK, HoldsLast, DroppedOld, Spaced
<1> QED
  BY <1>1, <1>2, <1>3, <1>4, <1>5 DEF Next

\* _trim_and_check keeps every window of every bucket within its limit, and the
\* variables keep their types.
THEOREM WindowsThrottled == Spec => [](TypeOK /\ Throttled)
<1>1. WindowInv => TypeOK /\ Throttled
  BY DEF WindowInv, Spaced, Throttled
<1> QED
  BY <1>1, InitWindow, NextWindow, PTL DEF Spec

-----------------------------------------------------------------------------
(***************************************************************************)
(* The price of forgetting.  The stamps of a bucket are in order, so that  *)
(* stamps further apart in the history are further apart in time; each     *)
(* time the bucket is emptied, the distance at which they must be more     *)
(* than a window apart grows by one limit.                                 *)
(***************************************************************************)
InOrder(b) ==
  /\ since[b] <= Len(granted[b])
  /\ \A j \in 1 .. Len(granted[b]) :
       granted[b][j] <= now /\ \A i \in 1 .. j : granted[b][i] <= granted[b][j]

\* What ForgivenOnce says of the stamps that came before the last emptying.
SpacedBefore(b) ==
  \A i \in 1 .. since[b] - Limit[b] * forgiven[b] :
    granted[b][i + Limit[b] * forgiven[b]] - granted[b][i] > Window[b]

ForgivenInv ==
  \A b \in Buckets :
    InOrder(b) /\ SpacedBefore(b) /\ (b \notin Resettable => forgiven[b] = restarts)

\* In an ordered history, distances of more than w that hold at distance p before
\* index n and at distance l after it hold at distance p + l everywhere.
LEMMA DistancesAdd ==
  ASSUME NEW g \in Seq(Nat), NEW lg \in Nat, lg = Len(g), NEW n \in Nat, NEW p \in Nat,
         NEW l \in Nat, NEW w \in Nat,
         \A j \in 1 .. lg : \A i \in 1 .. j : g[i] <= g[j],
         \A i \in 1 .. n - p : g[i + p] - g[i] > w,
         \A i \in n + 1 .. lg - l : g[i + l] - g[i] > w
  PROVE  \A i \in 1 .. lg - (p + l) : g[i + (p + l)] - g[i] > w
<1> TAKE i \in 1 .. lg - (p + l)
<1> DEFINE j == i + p
           k == i + (p + l)
<1>1. /\ i \in 1 .. j /\ j \in 1 .. k /\ j \in 1 .. lg /\ k \in 1 .. lg /\ k = j + l
      /\ i \in 1 .. lg
  OBVIOUS
<1>2. g[i] \in Nat /\ g[j] \in Nat /\ g[k] \in Nat /\ g[i] <= g[j] /\ g[j] <= g[k]
  BY <1>1
<1>3. CASE i <= n - p
  <2>1. g[j] - g[i] > w
    BY <1>3
  <2> HIDE DEF j, k
  <2> QED
    BY <1>2, <2>1 DEF k
<1>4. CASE ~ (i <= n - p)
  <2>1. j \in n + 1 .. lg - l
    BY <1>4
  <2>2. g[j + l] - g[j] > w
    BY <2>1
  <2> HIDE DEF j
  <2>3. g[k] - g[j] > w
    BY <1>1, <2>2
  <2> HIDE DEF k
  <2> QED
    BY <1>2, <2>3 DEF k
<1> QED
  BY <1>3, <1>4

LEMMA LimitTimes ==
  ASSUME TypeOK, NEW b \in Buckets
  PROVE  /\ Limit[b] * forgiven[b] \in Nat
         /\ Limit[b] * (forgiven[b] + 1) = Limit[b] * forgiven[b] + Limit[b]
         /\ Limit[b] * (1 + forgiven[b]) = Limit[b] * forgiven[b] + Limit[b]
<1>1. Limit[b] \in Nat /\ forgiven[b] \in Nat
  BY RateLimitAssumption DEF TypeOK
<1>2. \A l, f \in Nat : l * f \in Nat /\ l * (f + 1) = l * f + l /\ 1 + f = f + 1
  OBVIOUS
<1> QED
  BY <1>1, <1>2

\* What ForgivenOnce says of a bucket follows from what holds before and after
\* the moment it was last emptied.
LEMMA SpacedThroughout ==
  ASSUME WindowInv, ForgivenInv, NEW b \in Buckets
  PROVE  \A i \in 1 .. Len(granted[b]) - Limit[b] * (1 + forgiven[b]) :
           granted[b][i + Limit[b] * (1 + forgiven[b])] - granted[b][i] > Window[b]
<1> DEFINE p == Limit[b] * forgiven[b]
<1>1. /\ granted[b] \in Seq(Nat) /\ Len(granted[b]) \in Nat /\ since[b] \in Nat
      /\ Limit[b] \in Nat /\ Window[b] \in Nat
  BY RateLimitAssumption DEF WindowInv, TypeOK
<1>2. p \in Nat /\ Limit[b] * (1 + forgiven[b]) = p + Limit[b]
  BY LimitTimes DEF WindowInv
<1>3. /\ \A j \in 1 .. Len(granted[b]) : \A i \in 1 .. j : granted[b][i] <= granted[b][j]
      /\ \A i \in 1 .. since[b] - p : granted[b][i + p] - granted[b][i] > Window[b]
      /\ \A i \in since[b] + 1 .. Len(granted[b]) - Limit[b] :
           granted[b][i + Limit[b]] - granted[b][i] > Window[b]
  BY DEF ForgivenInv, InOrder, SpacedBefore, WindowInv, Spaced
<1> HIDE DEF p
<1>4. \A i \in 1 .. Len(granted[b]) - (p + Limit[b]) :
        granted[b][i + (p + Limit[b])] - granted[b][i] > Window[b]
  BY <1>1, <1>2, <1>3, DistancesAdd
<1> QED
  BY <1>2, <1>4

LEMMA EmptiedKeepsForgiven ==
  ASSUME WindowInv, ForgivenInv, NEW B, Emptied(B), UNCHANGED <<now, granted>>,
         \A b \in Buckets : b \notin Resettable =>
           restarts' = IF b \in B THEN restarts + 1 ELSE restarts
  PROVE  ForgivenInv'
<1> SUFFICES ASSUME NEW b \in Buckets
             PROVE  /\ InOrder(b)' /\ SpacedBefore(b)'
                    /\ b \notin Resettable => forgiven'[b] = restarts'
  BY DEF ForgivenInv
<1>1. InOrder(b) /\ SpacedBefore(b) /\ (b \notin Resettable => forgiven[b] = restarts)
  BY DEF ForgivenInv
<1>2. CASE b \in B
  <2>1. since'[b] = Len(granted[b]) /\ forgiven'[b] = forgiven[b] + 1
    BY <1>2 DEF Emptied
  <2>2. InOrder(b)'
    BY <1>1, <2>1 DEF InOrder, WindowInv, TypeOK
  <2>3. SpacedBefore(b)'
    <3>1. forgiven'[b] = 1 + forgiven[b]
      BY <2>1 DEF WindowInv, TypeOK
    <3> QED
      BY <2>1, <3>1, SpacedThroughout DEF SpacedBefore
  <2> QED
    BY <1>1, <1>2, <2>1, <2>2, <2>3
<1>3. CASE b \notin B
  <2>1. since'[b] = since[b] /\ forgiven'[b] = forgiven[b]
    BY <1>3 DEF Emptied
  <2> QED
    BY <1>1, <1>3, <2>1 DEF InOrder, SpacedBefore
<1> QED
  BY <1>2, <1>3

LEMMA AdmitKeepsForgiven ==
  ASSUME WindowInv, ForgivenInv, NEW c \in Charges, NEW drop, Admit(c, drop)
  PROVE  ForgivenInv'
<1> SUFFICES ASSUME NEW b \in Buckets
             PROVE  InOrder(b)' /\ SpacedBefore(b)'
  BY DEF ForgivenInv, Admit
<1>1. InOrder(b) /\ SpacedBefore(b)
  BY DEF ForgivenInv
<1>2. UNCHANGED <<now, since, forgiven>>
  BY DEF Admit
<1>3. CASE b \notin Charged(c)
  BY <1>1, <1>2, <1>3 DEF Admit, InOrder, SpacedBefore
<1>4. CASE b \in Charged(c)
  <2> DEFINE g  == granted[b]
             lg == Len(g)
             p  == Limit[b] * forgiven[b]
  <2>1. /\ g \in Seq(Nat) /\ lg \in Nat /\ now \in Nat /\ since[b] \in Nat /\ p \in Nat
    BY LimitTimes DEF WindowInv, TypeOK
  <2>2. granted'[b] = Append(g, now)
    BY <1>4 DEF Admit
  <2>3. /\ since[b] <= lg
        /\ \A j \in 1 .. lg : g[j] <= now /\ \A i \in 1 .. j : g[i] <= g[j]
        /\ \A i \in 1 .. since[b] - p : g[i + p] - g[i] > Window[b]
    BY <1>1 DEF InOrder, SpacedBefore
  <2> HIDE DEF g, p
  <2>4. /\ Len(granted'[b]) = lg + 1 /\ granted'[b][lg + 1] = now
        /\ \A i \in 1 .. lg : granted'[b][i] = g[i]
    BY <2>1, <2>2
  <2> HIDE DEF lg
  <2>5. ASSUME NEW j \in 1 .. lg + 1
        PROVE  granted'[b][j] <= now /\ \A i \in 1 .. j : granted'[b][i] <= granted'[b][j]
    <3>1. CASE j = lg + 1
      <4>1. ASSUME NEW i \in 1 .. j PROVE granted'[b][i] <= now
        <5>1. CASE i = j
          BY <2>1, <2>4, <3>1, <5>1
        <5>2. CASE i # j
          <6>1. i \in 1 .. lg
            BY <2>1, <3>1, <5>2
          <6> QED
            BY <2>3, <2>4, <6>1
        <5> QED
          BY <5>1, <5>2
      <4> QED
        BY <2>1, <2>4, <3>1, <4>1
    <3>2. CASE j # lg + 1
      <4>1. j \in 1 .. lg /\ \A i \in 1 .. j : i \in 1 .. lg
        BY <2>1, <3>2
      <4> QED
        BY <2>3, <2>4, <4>1
    <3> QED
      BY <3>1, <3>2
  <2>6. InOrder(b)'
    BY <1>2, <2>1, <2>3, <2>4, <2>5 DEF InOrder
  <2>7. ASSUME NEW i \in 1 .. since[b] - p
        PROVE  granted'[b][i + p] - granted'[b][i] > Window[b]
    <3>1. i \in 1 .. lg /\ i + p \in 1 .. lg
      BY <2>1, <2>3
    <3> QED
      BY <2>3, <2>4, <3>1
  <2>8. SpacedBefore(b)'
    BY <1>2, <2>7 DEF SpacedBefore, p
  <2> QED
    BY <2>6, <2>8
<1> QED
  BY <1>3, <1>4

LEMMA ForgivenStep ==
  ASSUME WindowInv, ForgivenInv, [Next]_vars
  PROVE  ForgivenInv'
<1>1. ASSUME UNCHANGED <<now, granted, since, forgiven, restarts>>
      PROVE  ForgivenInv'
  BY <1>1 DEF ForgivenInv, InOrder, SpacedBefore
<1>2. ASSUME NEW c \in Charges, Attempt(c)
      PROVE  ForgivenInv'
  BY <1>1, <1>2, AdmitKeepsForgiven DEF Attempt, Refuse
<1>3. ASSUME NEW b \in Resettable, Succeed(b)
      PROVE  ForgivenInv'
  BY <1>3, EmptiedKeepsForgiven DEF Succeed
<1>4. CASE Restart
  BY <1>4, EmptiedKeepsForgiven DEF Restart
<1>5. CASE Tick
  <2>1. /\ now' = now + 1 /\ now \in Nat /\ UNCHANGED <<granted, since, forgiven, restarts>>
        /\ granted \in [Buckets -> Seq(Nat)]
    BY <1>5 DEF Tick, WindowInv, TypeOK
  <2>2. ASSUME NEW b \in Buckets, NEW j \in 1 .. Len(granted[b])
        PROVE  granted[b][j] <= now'
    <3>1. granted[b][j] <= now /\ granted[b][j] \in Nat
      BY <2>1 DEF ForgivenInv, InOrder
    <3> QED
      BY <2>1, <3>1
  <2> QED
    BY <2>1, <2>2 DEF ForgivenInv, InOrder, SpacedBefore
<1>6. CASE UNCHANGED vars
  BY <1>1, <1>6 DEF vars
<1> QED
  BY <1>2, <1>3, <1>4, <1>5, <1>6 DEF Next

LEMMA InitForgiven == Init => ForgivenInv
<1> SUFFICES ASSUME Init, NEW b \in Buckets
             PROVE  InOrder(b) /\ SpacedBefore(b) /\ forgiven[b] = restarts
  BY DEF ForgivenInv
<1>1. /\ granted[b] = << >> /\ since[b] = 0 /\ forgiven[b] = 0 /\ restarts = 0
      /\ Limit[b] \in Nat
  BY RateLimitAssumption DEF Init
<1>2. Len(<< >>) = 0 /\ Limit[b] * 0 = 0
  BY <1>1
<1> QED
  BY <1>1, <1>2 DEF InOrder, SpacedBefore

\* Restarts, and for an email right passwords, cost one limit each and no more.
THEOREM ForgettingIsBounded == Spec => []ForgivenOnce
<1>1. WindowInv /\ ForgivenInv => ForgivenOnce
  <2> SUFFICES ASSUME WindowInv, ForgivenInv, NEW b \in Buckets
               PROVE  /\ b \notin Resettable => forgiven[b] = restarts
                      /\ \A i \in 1 .. Len(granted[b]) - Limit[b] * (1 + forgiven[b]) :
                           granted[b][i + Limit[b] * (1 + forgiven[b])] - granted[b][i]
                             > Window[b]
    BY DEF ForgivenOnce
  <2> QED
    BY SpacedThroughout DEF ForgivenInv
<1> QED
  BY <1>1, InitWindow, NextWindow, InitForgiven, ForgivenStep, PTL DEF Spec

-----------------------------------------------------------------------------
(***************************************************************************)
(* Retry-After.  A bucket never holds more than its limit; one that is     *)
(* still full when a client was told to come back is as it was then, and   *)
(* its oldest stamp leaves the window before the time promised.            *)
(***************************************************************************)
PromiseInv ==
  \A b \in Buckets :
    /\ Len(bucket[b]) <= Limit[b]
    /\ promise[b] # Nobody /\ Len(bucket[b]) = Limit[b] => bucket[b][1] + Window[b] < promise[b]

LEMMA RoundsUp ==
  ASSUME NEW x \in Nat, NEW d \in Nat \ {0}
  PROVE  (x \div d) + 1 \in Nat /\ d * ((x \div d) + 1) \in Nat /\ d * ((x \div d) + 1) > x
<1>1. x = d * (x \div d) + (x % d) /\ x % d \in 0 .. d - 1 /\ x \div d \in Nat
  OBVIOUS
<1>2. \A q \in Nat : d * (q + 1) = d * q + d /\ d * q \in Nat
  OBVIOUS
<1> QED
  BY <1>1, <1>2

\* Trimming a bucket leaves it as it is or makes room in it.
LEMMA KeptPromise ==
  ASSUME TypeOK, NEW b \in Buckets, NEW k, Expires(b, k), Len(bucket[b]) <= Limit[b]
  PROVE  /\ Len(Kept(b, k)) \in Nat /\ Len(Kept(b, k)) <= Limit[b]
         /\ Len(Kept(b, k)) = Limit[b] => k = 0 /\ Kept(b, k)[1] = bucket[b][1]
         /\ Full(b, k) => k = 0 /\ Len(bucket[b]) = Limit[b]
         /\ ~ Full(b, k) => Len(Kept(b, k)) < Limit[b]
<1>1. bucket[b] \in Seq(Nat) /\ Len(bucket[b]) \in Nat /\ Limit[b] \in Nat \ {0}
      /\ k \in 0 .. Len(bucket[b])
  BY RateLimitAssumption DEF TypeOK, Expires
<1>2. \A s \in Seq(Nat) : /\ \A j \in 0 .. Len(s) : Len(SubSeq(s, j + 1, Len(s))) = Len(s) - j
                          /\ Len(s) > 0 => SubSeq(s, 1, Len(s))[1] = s[1]
  OBVIOUS
<1>3. /\ Len(Kept(b, k)) = Len(bucket[b]) - k
      /\ k = 0 /\ Len(bucket[b]) > 0 => Kept(b, k)[1] = bucket[b][1]
  BY <1>1, <1>2 DEF Kept
<1> QED
  BY <1>1, <1>3 DEF Full

LEMMA AttemptKeepsPromise ==
  ASSUME TypeOK, PromiseInv, NEW c \in Charges, Attempt(c)
  PROVE  PromiseInv'
<1>1. PICK drop \in [Charged(c) -> 0 .. MaxGranted] :
        (\A b \in Charged(c) : Expires(b, drop[b])) /\ (Admit(c, drop) \/ Refuse(c, drop))
  BY DEF Attempt
<1> SUFFICES ASSUME NEW b \in Buckets
             PROVE  /\ Len(bucket'[b]) <= Limit[b]
                    /\ promise'[b] # Nobody /\ Len(bucket'[b]) = Limit[b] =>
                         bucket'[b][1] + Window[b] < promise'[b]
  BY DEF PromiseInv
<1>2. /\ Len(bucket[b]) <= Limit[b]
      /\ promise[b] # Nobody /\ Len(bucket[b]) = Limit[b] => bucket[b][1] + Window[b] < promise[b]
  BY DEF PromiseInv
<1>3. CASE b \notin Charged(c)
  <2>1. bucket'[b] = bucket[b]
    BY <1>1, <1>3 DEF Admit, Refuse
  <2>2. promise'[b] = promise[b]
    <3>1. \A i \in DOMAIN c : c[i] # b
      BY <1>3 DEF Charged
    <3> QED
      BY <1>1, <1>3, <3>1 DEF Admit, Refuse, TypeOK
  <2> QED
    BY <1>2, <2>1, <2>2
<1>4. CASE b \in Charged(c)
  <2> DEFINE k == drop[b]
  <2>1. Expires(b, k)
    BY <1>1, <1>4
  <2>2. /\ Len(Kept(b, k)) \in Nat /\ Len(Kept(b, k)) <= Limit[b]
        /\ Len(Kept(b, k)) = Limit[b] => k = 0 /\ Kept(b, k)[1] = bucket[b][1]
        /\ Full(b, k) => k = 0 /\ Len(bucket[b]) = Limit[b]
        /\ ~ Full(b, k) => Len(Kept(b, k)) < Limit[b]
    BY <1>2, <2>1, KeptPromise
  <2>3. /\ bucket[b] \in Seq(Nat) /\ Kept(b, k) \in Seq(Nat) /\ Limit[b] \in Nat \ {0}
        /\ Window[b] \in Nat /\ now \in Nat /\ PerSecond \in Nat \ {0} /\ Len(bucket[b]) \in Nat
    <3>1. /\ bucket[b] \in Seq(Nat) /\ now \in Nat /\ k \in 0 .. Len(bucket[b])
          /\ Limit[b] \in Nat \ {0} /\ Window[b] \in Nat /\ PerSecond \in Nat \ {0}
      BY <2>1, RateLimitAssumption DEF TypeOK, Expires
    <3> HIDE DEF k
    <3>2. \A s \in Seq(Nat) : Len(s) \in Nat /\ \A m \in 0 .. Len(s) :
            SubSeq(s, m + 1, Len(s)) \in Seq(Nat)
      OBVIOUS
    <3> QED
      BY <3>1, <3>2 DEF Kept
  <2>4. CASE Admit(c, drop)
    <3>1. ~ Full(b, k) /\ bucket'[b] = Append(Kept(b, k), now) /\ promise'[b] = Nobody
      BY <1>4, <2>4 DEF Admit
    <3> HIDE DEF k
    <3>2. Len(bucket'[b]) = Len(Kept(b, k)) + 1
      BY <2>3, <3>1
    <3> QED
      BY <2>2, <2>3, <3>1, <3>2
  <2>5. CASE Refuse(c, drop)
    <3>1. bucket'[b] = Kept(b, k)
      BY <1>4, <2>5 DEF Refuse
    <3>2. \/ promise'[b] = promise[b]
          \/ Full(b, k) /\ promise'[b] = now + PerSecond * RetryAfter(b, k)
      BY <2>5 DEF Refuse, TypeOK
    <3> HIDE DEF k
    <3>3. CASE promise'[b] = promise[b]
      <4>1. Len(Kept(b, k)) = Limit[b] => Len(bucket[b]) = Limit[b]
        BY <2>2, <2>3 DEF Full
      <4> QED
        BY <1>2, <2>2, <3>1, <3>3, <4>1
    <3>4. CASE Full(b, k) /\ promise'[b] = now + PerSecond * RetryAfter(b, k)
      <4> DEFINE x == Window[b] - (now - bucket[b][1])
      <4>1. k = 0 /\ Len(bucket[b]) = Limit[b]
        BY <2>2, <3>4
      <4>2. bucket[b][1] \in Nat /\ bucket[b][1] >= now - Window[b]
        BY <2>1, <2>3, <4>1 DEF Expires, k
      <4>3. x \in Nat /\ RetryAfter(b, k) = (x \div PerSecond) + 1
        BY <2>3, <4>1, <4>2 DEF RetryAfter
      <4>4. PerSecond * RetryAfter(b, k) \in Nat /\ PerSecond * RetryAfter(b, k) > x
        BY <2>3, <4>3, RoundsUp
      <4>5. bucket[b][1] + Window[b] < promise'[b]
        <5> DEFINE y == PerSecond * RetryAfter(b, k)
        <5>1. y \in Nat /\ y > Window[b] - (now - bucket[b][1]) /\ promise'[b] = now + y
          BY <3>4, <4>4
        <5> HIDE DEF y, x
        <5>2. \A o, l, n, m \in Nat : m > l - (n - o) => o + l < n + m
          OBVIOUS
        <5> QED
          BY <2>3, <4>2, <5>1, <5>2
      <4> QED
        BY <2>2, <3>1, <4>5
    <3> QED
      BY <3>2, <3>3, <3>4
  <2> QED
    BY <1>1, <2>4, <2>5
<1> QED
  BY <1>3, <1>4

LEMMA PromiseStep ==
  ASSUME TypeOK, PromiseInv, [Next]_vars
  PROVE  PromiseInv'
<1>1. ASSUME NEW B, Emptied(B), promise' = promise
      PROVE  PromiseInv'
  <2>1. \A b \in Buckets : Limit[b] \in Nat \ {0} /\ (bucket'[b] = << >> \/ bucket'[b] = bucket[b])
    BY <1>1, RateLimitAssumption DEF Emptied
  <2> QED
    BY <1>1, <2>1 DEF PromiseInv
<1>2. CASE UNCHANGED <<bucket, promise>>
  BY <1>2 DEF PromiseInv
<1> QED
  BY <1>1, <1>2, AttemptKeepsPromise DEF Next, Succeed, Restart, Tick, vars

LEMMA InitPromise == Init => PromiseInv
<1> SUFFICES ASSUME Init, NEW b \in Buckets
             PROVE  Len(bucket[b]) <= Limit[b] /\ promise[b] = Nobody
  BY DEF PromiseInv
<1> QED
  BY RateLimitAssumption DEF Init

\* Whoever comes back when the Retry-After has passed finds room.
THEOREM RetryAfterKept == Spec => []RetryAfterHonest
<1>1. TypeOK /\ PromiseInv => RetryAfterHonest
  <2> SUFFICES ASSUME TypeOK, PromiseInv, NEW b \in Buckets, promise[b] # Nobody,
                      now >= promise[b], NEW k \in 0 .. Len(bucket[b]), Expires(b, k), Full(b, k)
               PROVE  FALSE
    BY DEF RetryAfterHonest
  <2>1. k = 0 /\ Len(bucket[b]) = Limit[b]
    BY KeptPromise DEF PromiseInv
  <2>2. bucket[b][1] + Window[b] < promise[b]
    BY <2>1 DEF PromiseInv
  <2>3. /\ Limit[b] \in Nat \ {0} /\ Window[b] \in Nat /\ bucket[b] \in Seq(Nat) /\ now \in Nat
        /\ promise[b] \in Nat
    BY RateLimitAssumption DEF TypeOK
  <2>4. bucket[b][1] \in Nat /\ bucket[b][1] >= now - Window[b]
    BY <2>1, <2>3 DEF Expires
  <2> QED
    BY <2>2, <2>3, <2>4
<1>2. WindowInv => TypeOK
  BY DEF WindowInv
<1> QED
  BY <1>1, <1>2, InitWindow, NextWindow, InitPromise, PromiseStep, PTL DEF Spec

=============================================================================
