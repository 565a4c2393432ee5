----------------------------- MODULE TokenBucket -----------------------------
(***************************************************************************)
(* What a RateLimiter promises of its tokens: that they come from one      *)
(* bucket which fills by itself, a unit at a time, until it is full.       *)
(* Nothing is refilled twice or forgotten, whoever asks and however often; *)
(* only a taker empties the bucket, and takes a whole token or nothing.    *)
(***************************************************************************)
EXTENDS Integers

CONSTANTS
    Capacity,   \* what a full bucket holds
    Cost        \* what a token takes

VARIABLES
    time,
    level,   \* what is in the bucket
    taken    \* number of tokens taken so far

bvars == <<time, level, taken>>

Init == time = 0 /\ level = Capacity /\ taken = 0

Pass ==
    /\ time' = time + 1
    /\ level' = IF level < Capacity THEN level + 1 ELSE level
    /\ UNCHANGED taken

Take ==
    /\ level >= Cost
    /\ level' = level - Cost
    /\ taken' = taken + 1
    /\ UNCHANGED time

Next == Pass \/ Take

Spec == Init /\ [][Next]_bvars
=============================================================================
