---------------------------- MODULE RateLimiter -----------------------------
(***************************************************************************)
(* core/ratelimit.go: the token bucket that every limited send of one      *)
(* engine goes through.  Wait holds r.mu, but gives it up while it sleeps: *)
(* first for the rest of the minimum interval, then, as often as it takes, *)
(* for a token.  What it does between two sleeps is one step.              *)
(*                                                                         *)
(* Time is counted in ticks and tokens in the ticks it takes to refill     *)
(* them: a whole token is Cost, and one unit comes in each tick.           *)
(***************************************************************************)
EXTENDS Integers, Sequences

CONSTANTS
    Waiters,        \* goroutines that send
    BurstSize,      \* RateLimiterConfig
    Cost,           \* 60 / SustainedPerMinute, in ticks
    MinInterval,
    JitterPercent,  \* 100 * JitterFactor
    MaxCalls,       \* bound: number of calls of Wait
    Horizon         \* bound: time passes until then, and while somebody sleeps

ASSUME BurstAssumption    == BurstSize \in Nat \ {0}
ASSUME CostAssumption     == Cost \in Nat \ {0}
ASSUME IntervalAssumption == MinInterval \in Nat
ASSUME JitterAssumption   == JitterPercent \in 0 .. 100
ASSUME BoundsAssumption   == MaxCalls \in Nat /\ Horizon \in Nat

VARIABLES
    now,
    tokens, lastRefill, lastSendTime,
    pc, wake,   \* where a waiter is, and when its timer fires
    seen,       \* history: number of tokens handed out when its call began
    grants,     \* history: when each token was handed out, and what that call had seen
    calls

bucket == <<tokens, lastRefill, lastSendTime>>
vars   == <<now, bucket, pc, wake, seen, grants, calls>>

(* The zero time.Time: longer ago than any interval.                       *)
Never == -2 * MinInterval

Capacity == BurstSize * Cost

TypeOK ==
    /\ now \in Nat
    /\ tokens \in 0 .. Capacity
    /\ lastRefill \in 0 .. now
    /\ lastSendTime \in {Never} \cup 0 .. now
    /\ pc \in [Waiters -> {"idle", "interval", "token"}]
    /\ wake \in [Waiters -> Nat]
    /\ seen \in [Waiters -> 0 .. Len(grants)]
    /\ grants \in Seq([at : 0 .. now, seen : Nat])
    /\ calls \in 0 .. MaxCalls

Init ==
    /\ now = 0
    /\ tokens = Capacity
    /\ lastRefill = 0
    /\ lastSendTime = Never
    /\ pc = [w \in Waiters |-> "idle"]
    /\ wake = [w \in Waiters |-> 0]
    /\ seen = [w \in Waiters |-> 0]
    /\ grants = <<>>
    /\ calls = 0

-----------------------------------------------------------------------------
Least(d) == (d * (100 - JitterPercent)) \div 100

jitter(d) == Least(d) .. (d * (100 + JitterPercent)) \div 100

Sleep(w, label, d) ==
    /\ pc' = [pc EXCEPT ![w] = label]
    /\ wake' = [wake EXCEPT ![w] = now + d]

Returns(w) ==
    /\ pc' = [pc EXCEPT ![w] = "idle"]
    /\ wake' = [wake EXCEPT ![w] = 0]

MUT_NoCap == tokens + (now - lastRefill)

Refilled ==
    LET t == tokens + (now - lastRefill) IN IF t > Capacity THEN Capacity ELSE t

MUT_RefillLost(w) ==
    /\ Refilled < Cost
    /\ UNCHANGED tokens
    /\ \E d \in jitter(Cost - Refilled) : Sleep(w, "token", d)
    /\ UNCHANGED <<lastSendTime, grants>>

(* After the refill, the bucket is short of a token, or hands one out.     *)
Short(w) ==
    /\ Refilled < Cost
    /\ tokens' = Refilled
    /\ \E d \in jitter(Cost - Refilled) : Sleep(w, "token", d)
    /\ UNCHANGED <<lastSendTime, grants>>

MUT_StaleSendTime(w) ==
    /\ Refilled >= Cost
    /\ tokens' = Refilled - Cost
    /\ lastSendTime' = lastRefill
    /\ grants' = Append(grants, [at |-> now, seen |-> seen'[w]])
    /\ Returns(w)

Grant(w) ==
    /\ Refilled >= Cost
    /\ tokens' = Refilled - Cost
    /\ lastSendTime' = now
    /\ grants' = Append(grants, [at |-> now, seen |-> seen'[w]])
    /\ Returns(w)

MUT_RefillsAgain(w) ==
    \/ Short(w) /\ UNCHANGED lastRefill
    \/ Grant(w) /\ lastRefill' = now

TakeToken(w) == lastRefill' = now /\ (Short(w) \/ Grant(w))

(* The minimum interval is tested here, and not again after the sleep.     *)
Wait(w) ==
    /\ pc[w] = "idle" /\ calls < MaxCalls
    /\ calls' = calls + 1
    /\ seen' = [seen EXCEPT ![w] = Len(grants)]
    /\ \E minWait \in jitter(MinInterval) :
        LET sinceLastSend == now - lastSendTime IN
        IF sinceLastSend < minWait
        THEN Sleep(w, "interval", minWait - sinceLastSend) /\ UNCHANGED <<bucket, grants>>
        ELSE TakeToken(w)
    /\ UNCHANGED now

(* A timer fires at its time or later.                                     *)
MUT_WakesOnce(w) ==
    /\ pc[w] = "interval" /\ wake[w] <= now
    /\ UNCHANGED <<now, seen, calls>>
    /\ TakeToken(w)

Wakes(w) ==
    /\ pc[w] # "idle" /\ wake[w] <= now
    /\ UNCHANGED <<now, seen, calls>>
    /\ TakeToken(w)

(* WaitContext only: the context of a sleeping call ends.                  *)
Cancelled(w) ==
    /\ pc[w] # "idle"
    /\ Returns(w)
    /\ UNCHANGED <<now, bucket, seen, grants, calls>>

UpdateLastSend ==
    /\ lastSendTime' = now
    /\ UNCHANGED <<now, tokens, lastRefill, pc, wake, seen, grants, calls>>

Tick ==
    /\ now < Horizon \/ \E w \in Waiters : pc[w] # "idle" /\ now <= wake[w]
    /\ now' = now + 1
    /\ UNCHANGED <<bucket, pc, wake, seen, grants, calls>>

Next ==
    \/ \E w \in Waiters : Wait(w) \/ Wakes(w) \/ Cancelled(w)
    \/ UpdateLastSend
    \/ Tick

Spec == Init /\ [][Next]_vars

(* Time goes on, and a goroutine whose timer has fired gets to run.        *)
FairSpec == Spec /\ WF_vars(Tick) /\ \A w \in Waiters : WF_vars(Wakes(w))

-----------------------------------------------------------------------------
(* ratelimit.go:10: "Token bucket: limits sustained throughput".  However  *)
(* many goroutines wait, and however the jitter falls, any stretch of time *)
(* sees at most a full bucket of tokens and what came in meanwhile.        *)
ThroughputBounded ==
    \A i, j \in DOMAIN grants : i <= j =>
        (j - i + 1) * Cost <= Capacity + grants[j].at - grants[i].at

(* Why: what is in the bucket now could be handed out as well.             *)
BucketCounts ==
    \A i \in DOMAIN grants :
        tokens + (Len(grants) - i + 1) * Cost <= Capacity + lastRefill - grants[i].at

(* The minimum interval, as far as the code keeps it: a send is at least   *)
(* the shortest jittered interval later than every send that was let go    *)
(* before its own call of Wait began.  (Two calls that sleep at the same   *)
(* time do not see each other and may be let go together, although         *)
(* ratelimit.go:11 says "no two messages faster than 800ms apart".)        *)
SpacedFromSeen ==
    \A k \in DOMAIN grants : \A i \in 1 .. grants[k].seen :
        grants[k].at - grants[i].at >= Least(MinInterval)

(* The bucket that everybody shares, with what has come in since somebody  *)
(* last looked.                                                            *)
Ideal == INSTANCE TokenBucket WITH
            time  <- now,
            level <- Refilled,
            taken <- Len(grants)

(* The bucket is refilled only when somebody looks into it, and each looks *)
(* at times of his own, between sleeps that others interrupt; yet it is    *)
(* one that fills all the time: no refill is counted twice or forgotten,   *)
(* each token leaves it once, and neither the minimum interval nor         *)
(* UpdateLastSend nor an ended context touches it (ratelimit.go:130-166).  *)
BucketSpec == Ideal!Spec

(* Every call of Wait returns, even if others keep taking the tokens it    *)
(* has been sleeping for, as long as these are finitely many.              *)
EveryWaitReturns == \A w \in Waiters : pc[w] # "idle" ~> pc[w] = "idle"
=============================================================================
