------------------------------ MODULE Backoff -------------------------------
(***************************************************************************)
(* core/backoff.go: the delay that the event handler sleeps after each     *)
(* loss of the connection.  Durations are in units of any length; the      *)
(* jitter is taken at its extremes and at none.                            *)
(***************************************************************************)
EXTENDS Integers, Sequences

CONSTANTS
    InitialDelay, Multiplier, MaxDelay,   \* BackoffConfig
    BackoffJitter,  \* 100 * JitterFactor
    MaxAttempts     \* 0 for no limit

ASSUME DelayAssumption   == InitialDelay \in Nat \ {0} /\ MaxDelay \in Nat /\ Multiplier \in Nat \ {0}
ASSUME BackoffAssumption == BackoffJitter \in 0 .. 100 /\ MaxAttempts \in Nat

VARIABLES
    attempts,
    delays    \* history: the delays since the last Reset

backoff == <<attempts, delays>>

BackoffTypeOK == attempts \in Nat /\ delays \in Seq(Nat)

NewBackoff == attempts = 0 /\ delays = <<>>

Capped(d) == IF d > MaxDelay THEN MaxDelay ELSE d

Power[n \in Nat] == IF n = 0 THEN 1 ELSE Multiplier * Power[n - 1]

MUT_NoCap(n) == InitialDelay * Power[n]

BaseDelay(n) == Capped(InitialDelay * Power[n])

Jittered(d) == {(d * (100 + j)) \div 100 : j \in {-BackoffJitter, 0, BackoffJitter}}

MUT_NextKeepsAttempts ==
    IF MaxAttempts > 0 /\ attempts >= MaxAttempts
    THEN UNCHANGED backoff
    ELSE /\ \E d \in Jittered(BaseDelay(attempts)) : delays' = Append(delays, d)
         /\ UNCHANGED attempts

(* No delay at all once there have been MaxAttempts.                       *)
NextDelay ==
    IF MaxAttempts > 0 /\ attempts >= MaxAttempts
    THEN UNCHANGED backoff
    ELSE /\ \E d \in Jittered(BaseDelay(attempts)) : delays' = Append(delays, d)
         /\ attempts' = attempts + 1

Reset == attempts' = 0 /\ delays' = <<>>

-----------------------------------------------------------------------------
(* backoff.go:13: "Max cap: 5 minutes"; backoff.go:14: "Jitter: +-20%".    *)
(* The jitter comes after the cap, so what is kept is the cap with jitter. *)
DelayBounded ==
    \A i \in DOMAIN delays :
        100 * delays[i] <= (100 + BackoffJitter) * MaxDelay

(* backoff.go:12: "Subsequent retries: doubles each time".  Whatever the   *)
(* jitter, a delay that is not capped is longer than the one before it.    *)
DelaysGrow ==
    \A i \in 2 .. Len(delays) :
        InitialDelay * Power[i - 1] <= MaxDelay => delays[i - 1] < delays[i]
=============================================================================
