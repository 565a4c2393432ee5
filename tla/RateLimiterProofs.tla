------------------------- MODULE RateLimiterProofs --------------------------
(***************************************************************************)
(* Machine-checked proofs about RateLimiter, for every number of waiters,  *)
(* every configuration of the bucket and every passage of time: the type   *)
(* invariant, the bound on the throughput and the minimum interval.        *)
(***************************************************************************)
EXTENDS RateLimiter, SequenceTheorems, TLAPS

USE BurstAssumption, CostAssumption, IntervalAssumption, JitterAssumption, BoundsAssumption

(* Everything handed out lies behind what the limiter remembers, and what  *)
(* a call had seen is what had been handed out.                            *)
Remembered ==
    \A i \in DOMAIN grants :
        /\ grants[i].at <= lastSendTime
        /\ grants[i].seen \in 0 .. Len(grants)

(* The sleeps of a waiter do not end before the minimum interval is over.  *)
Due(w, t) == \A i \in 1 .. seen[w] : grants[i].at + Least(MinInterval) <= t

SleepsLongEnough == \A w \in Waiters : pc[w] # "idle" => Due(w, wake[w])

(* The inductive invariant.                                                *)
IInv ==
    /\ TypeOK
    /\ BucketCounts
    /\ ThroughputBounded
    /\ Remembered
    /\ SleepsLongEnough
    /\ SpacedFromSeen

-----------------------------------------------------------------------------
LEMMA CapacityType == Capacity \in Nat
  BY DEF Capacity

LEMMA LeastType ==
  ASSUME NEW d \in Nat
  PROVE  Least(d) \in Nat
<1>1. d * (100 - JitterPercent) \in Nat
  OBVIOUS
<1> QED
  BY <1>1 DEF Least

(* A jittered delay is not below the least one.                            *)
LEMMA JitterBounds ==
  ASSUME NEW d \in Nat, NEW x \in jitter(d)
  PROVE  x \in Nat /\ x >= Least(d)
<1>1. d * (100 + JitterPercent) \in Nat
  OBVIOUS
<1>2. (d * (100 + JitterPercent)) \div 100 \in Nat
  BY <1>1
<1> QED
  BY <1>2, LeastType DEF jitter

LEMMA RefilledBounds ==
  ASSUME TypeOK
  PROVE  /\ Refilled \in 0 .. Capacity
         /\ Refilled <= tokens + (now - lastRefill)
  BY CapacityType DEF Refilled, TypeOK

(* One token more.                                                         *)
LEMMA OneMore ==
  ASSUME NEW n \in Int
  PROVE  (n + 1) * Cost = n * Cost + Cost
  OBVIOUS

(* What a token appended to the history leaves as it was.                  *)
LEMMA AppendGrant ==
  ASSUME NEW S, NEW g \in Seq(S), NEW e \in S
  PROVE  /\ Append(g, e) \in Seq(S)
         /\ Len(Append(g, e)) = Len(g) + 1
         /\ DOMAIN g = 1 .. Len(g)
         /\ DOMAIN Append(g, e) = 1 .. Len(g) + 1
         /\ Append(g, e)[Len(g) + 1] = e
         /\ \A i \in 1 .. Len(g) : Append(g, e)[i] = g[i]
  OBVIOUS

LEMMA Elements ==
  ASSUME NEW S, NEW g \in Seq(S)
  PROVE  /\ Len(g) \in Nat /\ DOMAIN g = 1 .. Len(g)
         /\ \A i \in 1 .. Len(g) : g[i] \in S
  OBVIOUS

LEMMA LargerSet ==
  ASSUME NEW S, NEW T, S \subseteq T, NEW g \in Seq(S)
  PROVE  g \in Seq(T)
<1>1. Len(g) \in Nat /\ g = [i \in 1 .. Len(g) |-> g[i]] /\ \A i \in 1 .. Len(g) : g[i] \in T
  OBVIOUS
<1>2. [i \in 1 .. Len(g) |-> g[i]] \in Seq(T)
  BY <1>1, IsASeq
<1> QED
  BY <1>1, <1>2

(* What the type invariant says of each token that was handed out.         *)
LEMMA GrantType ==
  ASSUME TypeOK
  PROVE  /\ Len(grants) \in Nat /\ DOMAIN grants = 1 .. Len(grants)
         /\ \A i \in DOMAIN grants :
                /\ grants[i] \in [at : 0 .. now, seen : Nat]
                /\ grants[i].at \in 0 .. now /\ grants[i].seen \in Nat
         /\ now \in Nat /\ tokens \in Nat /\ lastRefill \in Nat /\ lastSendTime \in Int
<1>1. grants \in Seq([at : 0 .. now, seen : Nat]) /\ now \in Nat
  BY DEF TypeOK
<1>2. /\ Len(grants) \in Nat /\ DOMAIN grants = 1 .. Len(grants)
      /\ \A i \in 1 .. Len(grants) : grants[i] \in [at : 0 .. now, seen : Nat]
  BY ONLY <1>1, Elements
<1>3. tokens \in Nat /\ lastRefill \in Nat /\ lastSendTime \in Int
  BY CapacityType DEF TypeOK, Never
<1> QED
  BY <1>1, <1>2, <1>3

-----------------------------------------------------------------------------
LEMMA InitIInv == Init => IInv
<1> SUFFICES ASSUME Init PROVE IInv
  OBVIOUS
<1>1. TypeOK
  BY CapacityType DEF Init, TypeOK
<1>2. DOMAIN grants = {}
  BY DEF Init
<1> QED
  BY <1>1, <1>2 DEF Init, IInv, BucketCounts, ThroughputBounded, Remembered,
     SleepsLongEnough, SpacedFromSeen

(* A waiter goes to sleep until a time that is late enough for it.         *)
LEMMA SleepKeeps ==
  ASSUME IInv, NEW w \in Waiters, NEW d \in Nat, NEW l \in {"interval", "token"},
         Sleep(w, l, d), UNCHANGED <<now, grants>>,
         seen' \in [Waiters -> 0 .. Len(grants)], calls' \in 0 .. MaxCalls,
         \A v \in Waiters \ {w} : seen'[v] = seen[v],
         \A i \in 1 .. seen'[w] : grants[i].at + Least(MinInterval) <= now + d,
         tokens' \in 0 .. Capacity, lastRefill' \in 0 .. now, UNCHANGED lastSendTime,
         BucketCounts'
  PROVE  IInv'
<1>1. TypeOK'
  <2>1. wake' \in [Waiters -> Nat] /\ pc' \in [Waiters -> {"idle", "interval", "token"}]
    BY DEF IInv, TypeOK, Sleep
  <2>2. grants' \in Seq([at : 0 .. now', seen : Nat])
    BY DEF IInv, TypeOK
  <2>3. now' \in Nat /\ lastSendTime' \in {Never} \cup 0 .. now'
    BY DEF IInv, TypeOK
  <2>4. seen' \in [Waiters -> 0 .. Len(grants')] /\ lastRefill' \in 0 .. now'
    OBVIOUS
  <2> QED
    BY <2>1, <2>2, <2>3, <2>4 DEF TypeOK, Never, Capacity
<1>2. SleepsLongEnough'
  <2> SUFFICES ASSUME NEW v \in Waiters, pc'[v] # "idle", NEW i \in 1 .. seen'[v]
               PROVE  grants[i].at + Least(MinInterval) <= wake'[v]
    BY DEF SleepsLongEnough, Due
  <2>1. CASE v = w
    BY <2>1 DEF Sleep, IInv, TypeOK
  <2>2. CASE v # w
    BY <2>2 DEF Sleep, IInv, TypeOK, SleepsLongEnough, Due
  <2> QED
    BY <2>1, <2>2
<1>3. ThroughputBounded' /\ Remembered' /\ SpacedFromSeen'
  BY DEF IInv, ThroughputBounded, Remembered, SpacedFromSeen
<1> QED
  BY <1>1, <1>2, <1>3 DEF IInv

(* What a call of Wait does to its history when it may go on.              *)
Seen(w) ==
    /\ seen' \in [Waiters -> 0 .. Len(grants)]
    /\ \A v \in Waiters \ {w} : seen'[v] = seen[v]
    /\ \A i \in 1 .. seen'[w] : grants[i].at + Least(MinInterval) <= now
    /\ calls' \in 0 .. MaxCalls

LEMMA ShortKeeps ==
  ASSUME IInv, NEW w \in Waiters, Short(w), lastRefill' = now, UNCHANGED now, Seen(w)
  PROVE  IInv'
<1>1. /\ Cost - Refilled \in Nat
      /\ tokens' = Refilled /\ tokens' \in 0 .. Capacity
      /\ UNCHANGED <<lastSendTime, grants>>
  BY RefilledBounds, CapacityType DEF Short, IInv
<1>2. PICK d \in jitter(Cost - Refilled) : Sleep(w, "token", d)
  BY DEF Short
<1>3. d \in Nat
  BY <1>1, JitterBounds
<1>4. BucketCounts'
  <2> SUFFICES ASSUME NEW i \in DOMAIN grants
               PROVE  tokens' + (Len(grants) - i + 1) * Cost <= Capacity + now - grants[i].at
    BY <1>1 DEF BucketCounts
  <2> DEFINE p == (Len(grants) - i + 1) * Cost
  <2>1. tokens + p <= Capacity + lastRefill - grants[i].at
    BY DEF IInv, BucketCounts
  <2>2. /\ p \in Int
        /\ grants[i].at \in Int /\ tokens \in Int /\ lastRefill \in Int /\ now \in Int
    BY GrantType DEF IInv
  <2>3. tokens' \in Int /\ tokens' <= tokens + (now - lastRefill)
    BY <1>1, RefilledBounds, CapacityType DEF IInv
  <2> HIDE DEF p
  <2>4. tokens' + p <= Capacity + now - grants[i].at
    BY <2>1, <2>2, <2>3, CapacityType
  <2> QED
    BY <2>4 DEF p
<1>5. \A i \in 1 .. seen'[w] : grants[i].at + Least(MinInterval) <= now + d
  <2> SUFFICES ASSUME NEW i \in 1 .. seen'[w]
               PROVE  grants[i].at + Least(MinInterval) <= now + d
    OBVIOUS
  <2>1. i \in DOMAIN grants
    BY GrantType DEF Seen, IInv
  <2>2. grants[i].at + Least(MinInterval) <= now
    BY DEF Seen
  <2>3. grants[i].at \in Int /\ now \in Int /\ Least(MinInterval) \in Int
    BY <2>1, GrantType, LeastType DEF IInv
  <2> QED
    BY <1>3, <2>2, <2>3
<1>6. lastRefill' \in 0 .. now
  BY DEF IInv, TypeOK
<1> QED
  BY <1>1, <1>2, <1>3, <1>4, <1>5, <1>6, SleepKeeps DEF Seen

LEMMA GrantKeeps ==
  ASSUME IInv, NEW w \in Waiters, Grant(w), lastRefill' = now, UNCHANGED now, Seen(w)
  PROVE  IInv'
<1> DEFINE n == Len(grants)
           g == [at |-> now, seen |-> seen'[w]]
<1>1. /\ Refilled \in Nat /\ Refilled >= Cost /\ Refilled <= Capacity
      /\ tokens' = Refilled - Cost
      /\ tokens' \in 0 .. Capacity
      /\ Refilled <= tokens + (now - lastRefill)
      /\ lastSendTime' = now /\ Returns(w)
  BY RefilledBounds, CapacityType DEF Grant, IInv
<1>2. g \in [at : 0 .. now, seen : Nat] /\ grants \in Seq([at : 0 .. now, seen : Nat])
  BY DEF IInv, TypeOK, Seen
<1>3. grants' = Append(grants, g)
  BY DEF Grant
<1>4. /\ grants' \in Seq([at : 0 .. now, seen : Nat])
      /\ n \in Nat /\ Len(grants') = n + 1
      /\ DOMAIN grants = 1 .. n /\ DOMAIN grants' = 1 .. n + 1
      /\ grants'[n + 1] = g
      /\ \A i \in 1 .. n : grants'[i] = grants[i]
  BY <1>2, <1>3, AppendGrant
<1>5. \A i \in 1 .. n : grants[i].at \in 0 .. now /\ grants[i].seen \in Nat
  BY <1>4, GrantType DEF IInv
<1>5a. \A i \in 1 .. n + 1 : grants'[i].at \in Int
  <2>1. \A i \in 1 .. n + 1 : i \in 1 .. n \/ i = n + 1
    BY <1>4
  <2>2. g.at \in Int
    BY <1>2
  <2> QED
    BY <1>4, <1>5, <2>1, <2>2
<1> HIDE DEF n
<1>6. TypeOK'
  <2>1. wake' \in [Waiters -> Nat] /\ pc' \in [Waiters -> {"idle", "interval", "token"}]
    BY <1>1 DEF IInv, TypeOK, Returns
  <2>2. now' \in Nat /\ lastSendTime' \in 0 .. now' /\ lastRefill' \in 0 .. now'
    BY <1>1 DEF IInv, TypeOK
  <2>3. seen' \in [Waiters -> 0 .. Len(grants')]
    <3>1. seen' \in [Waiters -> 0 .. n]
      BY DEF Seen, n
    <3> QED
      BY <1>4, <3>1
  <2>4. calls' \in 0 .. MaxCalls
    BY DEF Seen
  <2> QED
    BY <1>1, <1>4, <2>1, <2>2, <2>3, <2>4 DEF TypeOK, Capacity
<1>7a. \A i \in 1 .. n + 1 :
         tokens' + (n + 1 - i + 1) * Cost <= Capacity + now - grants'[i].at
  <2> SUFFICES ASSUME NEW i \in 1 .. n + 1
               PROVE  tokens' + (n + 1 - i + 1) * Cost <= Capacity + now - grants'[i].at
    OBVIOUS
  <2>1. CASE i = n + 1
    <3>1. (n + 1 - i + 1) * Cost = Cost
      BY <1>4, <2>1
    <3>2. grants'[i].at = now /\ now \in Nat
      BY <1>4, <2>1 DEF IInv, TypeOK
    <3> QED
      BY <1>1, <3>1, <3>2, CapacityType
  <2>2. CASE i \in 1 .. n
    <3> DEFINE p == (n - i + 1) * Cost
    <3>1. tokens + p <= Capacity + lastRefill - grants[i].at
      BY <1>4, <2>2 DEF IInv, BucketCounts, n
    <3>2. (n + 1 - i + 1) * Cost = p + Cost
      <4>1. n - i + 1 \in Int /\ n + 1 - i + 1 = (n - i + 1) + 1
        BY <1>4
      <4> QED
        BY <4>1, OneMore
    <3>3. /\ p \in Int
          /\ grants[i].at \in Int /\ tokens \in Int /\ lastRefill \in Int /\ now \in Int
          /\ grants'[i].at = grants[i].at
      BY SMTT(30), <1>4, <1>5, <2>2, GrantType DEF IInv
    <3> HIDE DEF p
    <3>4. (Refilled - Cost) + (p + Cost) <= Capacity + now - grants[i].at
      BY <1>1, <3>1, <3>3, CapacityType
    <3> QED
      BY <1>1, <3>2, <3>3, <3>4
  <2> QED
    BY <1>4, <2>1, <2>2
<1>7. BucketCounts'
  BY SMTT(30), <1>4, <1>7a DEF BucketCounts
<1>8. ThroughputBounded'
  <2> SUFFICES ASSUME NEW i \in 1 .. n + 1, NEW j \in 1 .. n + 1, i <= j
               PROVE  (j - i + 1) * Cost <= Capacity + grants'[j].at - grants'[i].at
    BY <1>4 DEF ThroughputBounded
  <2>1. CASE j = n + 1
    <3>1. tokens' + (n + 1 - i + 1) * Cost <= Capacity + now - grants'[i].at
      BY <1>7a
    <3>2. grants'[j].at = now /\ now \in Nat
      BY <1>4, <2>1 DEF IInv, TypeOK
    <3> DEFINE p == (n + 1 - i + 1) * Cost
    <3>3. grants'[i].at \in Int /\ p \in Int /\ tokens' \in Nat
      BY <1>1, <1>4, <1>5a
    <3> HIDE DEF p
    <3>4. p <= Capacity + now - grants'[i].at
      <4>1. tokens' + p <= Capacity + now - grants'[i].at
        BY <3>1 DEF p
      <4> QED
        BY <3>2, <3>3, <4>1, CapacityType
    <3>5. (j - i + 1) * Cost = p
      <4>1. j - i + 1 = n + 1 - i + 1
        BY <1>4, <2>1
      <4> QED
        BY ONLY <4>1 DEF p
    <3> QED
      BY <3>2, <3>4, <3>5
  <2>2. CASE j \in 1 .. n
    <3>1. i \in 1 .. n
      BY <1>4, <2>2
    <3> QED
      BY <1>4, <2>2, <3>1 DEF IInv, ThroughputBounded
  <2> QED
    BY <1>4, <2>1, <2>2
<1>9. Remembered'
  <2> SUFFICES ASSUME NEW i \in 1 .. n + 1
               PROVE  grants'[i].at <= now /\ grants'[i].seen \in 0 .. n + 1
    BY <1>1, <1>4 DEF Remembered
  <2>1. CASE i = n + 1
    BY <1>4, <2>1 DEF IInv, TypeOK, Seen, n
  <2>2. CASE i \in 1 .. n
    BY <1>4, <1>5, <2>2 DEF IInv, Remembered, n
  <2> QED
    BY <1>4, <2>1, <2>2
<1>10. SleepsLongEnough'
  <2> SUFFICES ASSUME NEW v \in Waiters, pc'[v] # "idle", NEW i \in 1 .. seen'[v]
               PROVE  grants'[i].at + Least(MinInterval) <= wake'[v]
    BY DEF SleepsLongEnough, Due
  <2>1. v # w /\ pc'[v] = pc[v] /\ wake'[v] = wake[v] /\ seen'[v] = seen[v]
    BY <1>1 DEF Returns, IInv, TypeOK, Seen
  <2>2. i \in 1 .. n
    BY <1>4, <2>1 DEF IInv, TypeOK, n
  <2> QED
    BY <1>4, <2>1, <2>2 DEF IInv, SleepsLongEnough, Due
<1>11. SpacedFromSeen'
  <2> SUFFICES ASSUME NEW k \in 1 .. n + 1, NEW i \in 1 .. grants'[k].seen
               PROVE  grants'[k].at - grants'[i].at >= Least(MinInterval)
    BY <1>4 DEF SpacedFromSeen
  <2>1. CASE k = n + 1
    <3>1. i \in 1 .. seen'[w] /\ i \in 1 .. n /\ grants'[k].at = now
      BY <1>4, <2>1 DEF Seen, n
    <3>2. grants[i].at + Least(MinInterval) <= now
      BY <3>1 DEF Seen
    <3>3. grants[i].at \in Int /\ now \in Int /\ grants'[i] = grants[i]
      BY SMTT(30), <1>4, <1>5, <3>1, GrantType DEF IInv
    <3> QED
      BY <3>1, <3>2, <3>3, LeastType
  <2>2. CASE k \in 1 .. n
    <3>1. i \in 1 .. grants[k].seen /\ grants[k].seen \in 0 .. n
      BY <1>4, <2>2 DEF IInv, Remembered, n
    <3>2. i \in 1 .. n
      BY <1>4, <3>1
    <3> QED
      BY <1>4, <2>2, <3>1, <3>2 DEF IInv, SpacedFromSeen
  <2> QED
    BY <1>4, <2>1, <2>2
<1> QED
  BY <1>6, <1>7, <1>8, <1>9, <1>10, <1>11 DEF IInv

LEMMA TakeTokenKeeps ==
  ASSUME IInv, NEW w \in Waiters, TakeToken(w), UNCHANGED now, Seen(w)
  PROVE  IInv'
  BY ShortKeeps, GrantKeeps DEF TakeToken

-----------------------------------------------------------------------------
LEMMA WaitKeeps ==
  ASSUME IInv, NEW w \in Waiters, Wait(w)
  PROVE  IInv'
<1>1. PICK minWait \in jitter(MinInterval) :
        IF now - lastSendTime < minWait
        THEN Sleep(w, "interval", minWait - (now - lastSendTime)) /\ UNCHANGED <<bucket, grants>>
        ELSE TakeToken(w)
  BY DEF Wait
<1>2. minWait \in Nat /\ minWait >= Least(MinInterval) /\ Least(MinInterval) \in Nat
  BY JitterBounds, LeastType
<1>3. /\ UNCHANGED now
      /\ calls' \in 0 .. MaxCalls
      /\ seen' = [seen EXCEPT ![w] = Len(grants)]
  BY DEF Wait, IInv, TypeOK
<1>4. /\ Len(grants) \in Nat /\ DOMAIN grants = 1 .. Len(grants)
      /\ \A i \in 1 .. Len(grants) : grants[i].at \in 0 .. now /\ grants[i].at <= lastSendTime
      /\ now \in Nat /\ lastSendTime \in Int
  BY GrantType DEF IInv, Remembered
<1>5. /\ seen' \in [Waiters -> 0 .. Len(grants)]
      /\ seen'[w] = Len(grants)
      /\ \A v \in Waiters \ {w} : seen'[v] = seen[v]
  BY <1>3, <1>4 DEF IInv, TypeOK
<1>6. CASE now - lastSendTime < minWait
  <2> DEFINE d == minWait - (now - lastSendTime)
  <2>1. Sleep(w, "interval", d) /\ UNCHANGED <<bucket, grants>> /\ d \in Nat
    BY <1>1, <1>2, <1>4, <1>6
  <2>2. \A i \in 1 .. seen'[w] : grants[i].at + Least(MinInterval) <= now + d
    BY <1>2, <1>4, <1>5
  <2>3. BucketCounts' /\ tokens' \in 0 .. Capacity /\ lastRefill' \in 0 .. now
    BY <2>1 DEF IInv, TypeOK, BucketCounts, bucket
  <2> HIDE DEF d
  <2> QED
    BY <1>3, <1>5, <2>1, <2>2, <2>3, SleepKeeps DEF bucket
<1>7. CASE ~(now - lastSendTime < minWait)
  <2>1. \A i \in 1 .. seen'[w] : grants[i].at + Least(MinInterval) <= now
    BY <1>2, <1>4, <1>5, <1>7
  <2> QED
    BY <1>1, <1>3, <1>5, <1>7, <2>1, TakeTokenKeeps DEF Seen
<1> QED
  BY <1>6, <1>7

LEMMA WakesKeeps ==
  ASSUME IInv, NEW w \in Waiters, Wakes(w)
  PROVE  IInv'
<1>1. pc[w] # "idle" /\ wake[w] <= now /\ UNCHANGED <<now, seen, calls>> /\ TakeToken(w)
  BY DEF Wakes
<1>2. wake[w] \in Nat /\ now \in Nat /\ Least(MinInterval) \in Nat
  BY LeastType DEF IInv, TypeOK
<1>3. \A i \in 1 .. seen[w] : grants[i].at \in Nat /\ grants[i].at + Least(MinInterval) <= wake[w]
  <2>1. \A i \in 1 .. seen[w] : i \in DOMAIN grants
    BY GrantType DEF IInv, TypeOK
  <2> QED
    BY <1>1, <2>1, GrantType DEF IInv, SleepsLongEnough, Due
<1>4. Seen(w)
  <2>1. \A i \in 1 .. seen[w] : grants[i].at + Least(MinInterval) <= now
    BY <1>1, <1>2, <1>3
  <2> QED
    BY <1>1, <2>1 DEF Seen, IInv, TypeOK
<1> QED
  BY <1>1, <1>4, TakeTokenKeeps

LEMMA CancelledKeeps ==
  ASSUME IInv, NEW w \in Waiters, Cancelled(w)
  PROVE  IInv'
<1> USE DEF Cancelled, Returns, bucket
<1>1. TypeOK'
  BY DEF IInv, TypeOK, Never, Capacity
<1>2. SleepsLongEnough'
  BY DEF IInv, TypeOK, SleepsLongEnough, Due
<1>3. BucketCounts' /\ ThroughputBounded' /\ Remembered' /\ SpacedFromSeen'
  BY DEF IInv, BucketCounts, ThroughputBounded, Remembered, SpacedFromSeen
<1> QED
  BY <1>1, <1>2, <1>3 DEF IInv

LEMMA TimeKeeps ==
  ASSUME IInv, Tick \/ UpdateLastSend
  PROVE  IInv'
<1>1. /\ UNCHANGED <<tokens, lastRefill, pc, wake, seen, grants, calls>>
      /\ now' \in {now, now + 1}
      /\ lastSendTime' \in {lastSendTime, now}
      /\ now \in Nat
  BY DEF Tick, UpdateLastSend, bucket, IInv, TypeOK
<1>2. \A i \in DOMAIN grants : grants[i].at <= now /\ grants[i] \in [at : 0 .. now', seen : Nat]
  <2>1. 0 .. now \subseteq 0 .. now'
    BY <1>1
  <2>2. [at : 0 .. now, seen : Nat] \subseteq [at : 0 .. now', seen : Nat]
    BY <2>1
  <2> QED
    BY <1>1, <2>2, GrantType DEF IInv
<1>3. TypeOK'
  <2>1. grants' \in Seq([at : 0 .. now', seen : Nat])
    <3>1. grants \in Seq([at : 0 .. now, seen : Nat])
      BY DEF IInv, TypeOK
    <3>2. [at : 0 .. now, seen : Nat] \subseteq [at : 0 .. now', seen : Nat]
      <4>1. 0 .. now \subseteq 0 .. now'
        BY <1>1
      <4> QED
        BY <4>1
    <3>3. grants \in Seq([at : 0 .. now', seen : Nat])
      BY ONLY <3>1, <3>2, LargerSet
    <3> QED
      BY <1>1, <3>3
  <2> QED
    BY <1>1, <2>1 DEF IInv, TypeOK, Never, Capacity
<1>4. Remembered'
  BY <1>1, <1>2 DEF IInv, Remembered
<1>5. BucketCounts' /\ ThroughputBounded' /\ SleepsLongEnough' /\ SpacedFromSeen'
  BY <1>1 DEF IInv, BucketCounts, ThroughputBounded, SleepsLongEnough, Due, SpacedFromSeen
<1> QED
  BY <1>3, <1>4, <1>5 DEF IInv

LEMMA StepIInv == IInv /\ [Next]_vars => IInv'
<1> SUFFICES ASSUME IInv, [Next]_vars PROVE IInv'
  OBVIOUS
<1>1. CASE UNCHANGED vars
  <2>1. /\ UNCHANGED <<now, tokens, lastRefill, lastSendTime, pc, wake, seen, grants, calls>>
    BY <1>1 DEF vars, bucket
  <2> QED
    BY <2>1 DEF IInv, TypeOK, Never, Capacity, BucketCounts, ThroughputBounded, Remembered,
       SleepsLongEnough, Due, SpacedFromSeen
<1> QED
  BY <1>1, WaitKeeps, WakesKeeps, CancelledKeeps, TimeKeeps DEF Next

LEMMA Inductive == Spec => []IInv
  BY InitIInv, StepIInv, PTL DEF Spec

-----------------------------------------------------------------------------
(* The limiter's variables keep their types: above all, the bucket never   *)
(* holds more than BurstSize tokens and never a negative number of them    *)
(* (ratelimit.go:130-166).                                                 *)
THEOREM TypeCorrect == Spec => []TypeOK
  BY Inductive, PTL DEF IInv

(* Whatever the number of goroutines that wait, their jitter and the       *)
(* interleaving of their sleeps, no stretch of time sees more tokens than  *)
(* a full bucket and what came in meanwhile (ratelimit.go:10, 127-166).    *)
THEOREM ThroughputAlwaysBounded == Spec => []ThroughputBounded
  BY Inductive, PTL DEF IInv

(* The accounting that makes it so, tokens left in the bucket included.    *)
THEOREM BucketAlwaysCounts == Spec => []BucketCounts
  BY Inductive, PTL DEF IInv

(* The minimum interval towards every send that was let go before the call *)
(* began is kept, although it is tested only once (ratelimit.go:103-125).  *)
THEOREM SendsAlwaysSpaced == Spec => []SpacedFromSeen
  BY Inductive, PTL DEF IInv

-----------------------------------------------------------------------------
(* The refinement: time passing fills the ideal bucket, a granted call     *)
(* takes a token out of it, and every other step leaves it as it is.       *)
BucketSame == UNCHANGED <<now, Refilled, Len(grants)>>

LEMMA JustRefilled ==
  ASSUME TypeOK, UNCHANGED now, lastRefill' = now, tokens' \in 0 .. Capacity
  PROVE  Refilled' = tokens'
<1>1. tokens' + (now' - lastRefill') = tokens'
  <2>1. now \in Nat /\ now' = now /\ lastRefill' = now
    BY DEF TypeOK
  <2>2. tokens' \in Int
    BY CapacityType
  <2>3. now' - lastRefill' = 0
    BY ONLY <2>1
  <2> QED
    BY ONLY <2>2, <2>3
<1>2. ~(tokens' > Capacity)
  BY CapacityType
<1> QED
  BY <1>1, <1>2 DEF Refilled, Capacity

LEMMA ShortSame ==
  ASSUME TypeOK, NEW w \in Waiters, Short(w), lastRefill' = now, UNCHANGED now
  PROVE  BucketSame
<1>1. tokens' = Refilled /\ UNCHANGED grants
  BY DEF Short
<1> QED
  BY <1>1, RefilledBounds, JustRefilled DEF BucketSame

LEMMA GrantTakes ==
  ASSUME TypeOK, NEW w \in Waiters, Grant(w), lastRefill' = now, UNCHANGED now,
         seen'[w] \in Nat
  PROVE  Ideal!Take
<1>1. Refilled >= Cost /\ tokens' = Refilled - Cost
  BY DEF Grant
<1>2. Refilled' = Refilled - Cost
  BY <1>1, RefilledBounds, CapacityType, JustRefilled
<1>3. Len(grants') = Len(grants) + 1
  <2>1. grants \in Seq([at : 0 .. now, seen : Nat])
    BY DEF TypeOK
  <2>2. [at |-> now, seen |-> seen'[w]] \in [at : 0 .. now, seen : Nat]
    BY DEF TypeOK
  <2> QED
    BY <2>1, <2>2, AppendGrant DEF Grant
<1> QED
  BY <1>1, <1>2, <1>3 DEF Ideal!Take

LEMMA TakeTokenBucket ==
  ASSUME TypeOK, NEW w \in Waiters, TakeToken(w), UNCHANGED now, seen'[w] \in Nat
  PROVE  Ideal!Take \/ BucketSame
  BY ShortSame, GrantTakes DEF TakeToken

LEMMA TickPasses ==
  ASSUME TypeOK, Tick
  PROVE  Ideal!Pass
<1>1. /\ now' = now + 1
      /\ UNCHANGED <<tokens, lastRefill, grants>>
      /\ now \in Nat /\ tokens \in 0 .. Capacity /\ lastRefill \in 0 .. now
  BY DEF Tick, TypeOK, bucket
<1>2. Refilled' = IF Refilled < Capacity THEN Refilled + 1 ELSE Refilled
  BY <1>1, CapacityType DEF Refilled, Capacity
<1> QED
  BY <1>1, <1>2 DEF Ideal!Pass

LEMMA InitBucket == Init => Ideal!Init
<1> SUFFICES ASSUME Init PROVE Ideal!Init
  OBVIOUS
<1>1. Refilled = Capacity
  BY CapacityType DEF Init, Refilled
<1> QED
  BY <1>1 DEF Init, Ideal!Init

LEMMA NextBucket == TypeOK /\ [Next]_vars => [Ideal!Next]_(Ideal!bvars)
<1> SUFFICES ASSUME TypeOK, [Next]_vars PROVE Ideal!Next \/ BucketSame
  BY DEF BucketSame, Ideal!bvars
<1>1. ASSUME NEW w \in Waiters, Wait(w) PROVE Ideal!Take \/ BucketSame
  <2>1. UNCHANGED now /\ seen'[w] \in Nat
    BY <1>1, GrantType DEF Wait, TypeOK
  <2>2. TakeToken(w) \/ UNCHANGED <<bucket, grants>>
    BY <1>1 DEF Wait
  <2>3. CASE UNCHANGED <<bucket, grants>>
    BY <2>1, <2>3 DEF BucketSame, Refilled, Capacity, bucket
  <2> QED
    BY <2>1, <2>2, <2>3, TakeTokenBucket
<1>2. ASSUME NEW w \in Waiters, Wakes(w) PROVE Ideal!Take \/ BucketSame
  <2>1. UNCHANGED now /\ seen'[w] \in Nat /\ TakeToken(w)
    BY <1>2, GrantType DEF Wakes, TypeOK
  <2> QED
    BY <2>1, TakeTokenBucket
<1>3. ASSUME NEW w \in Waiters, Cancelled(w) PROVE BucketSame
  BY <1>3 DEF Cancelled, BucketSame, Refilled, Capacity, bucket
<1>4. CASE UpdateLastSend
  BY <1>4 DEF UpdateLastSend, BucketSame, Refilled, Capacity
<1>5. CASE Tick
  BY <1>5, TickPasses DEF Ideal!Next
<1>6. CASE UNCHANGED vars
  BY <1>6 DEF vars, bucket, BucketSame, Refilled, Capacity
<1> QED
  BY <1>1, <1>2, <1>3, <1>4, <1>5, <1>6 DEF Next, Ideal!Next

(* Whoever looks into the bucket, and whenever, it is one that fills all   *)
(* the time, a unit per tick: the refills that the waiters do for each     *)
(* other between their sleeps are neither counted twice nor forgotten      *)
(* (ratelimit.go:127-166).                                                 *)
THEOREM ImplementsBucket == Spec => BucketSpec
<1>1. IInv /\ [Next]_vars => [Ideal!Next]_(Ideal!bvars)
  BY NextBucket DEF IInv
<1> QED
  BY InitBucket, <1>1, Inductive, PTL DEF Spec, BucketSpec, Ideal!Spec
=============================================================================
