---------------------------- MODULE EventStream ----------------------------
(***************************************************************************)
(* What an EventQueue promises to the application that polls it.           *)
(*                                                                         *)
(* The engine publishes a numbered stream of events.  The consumer asks    *)
(* for the next one and is answered with the very next event of the        *)
(* stream, with the exact number of events it has lost at this point of    *)
(* the stream, or with nothing, but only when it has been told the fate of *)
(* every event published so far.  Events are thus delivered in order, at   *)
(* most once, and never lost silently.                                     *)
(***************************************************************************)
EXTENDS Naturals

VARIABLES
    published,   \* number of events published so far
    accounted,   \* number of events delivered or reported lost so far
    answer       \* the answer to the latest poll

svars == <<published, accounted, answer>>

Nothing      == [kind |-> "nil",     n |-> 0]
TheEvent(i)  == [kind |-> "event",   n |-> i]
LossOf(k)    == [kind |-> "dropped", n |-> k]

Init == published = 0 /\ accounted = 0 /\ answer = Nothing

Publish ==
    /\ published' = published + 1
    /\ UNCHANGED <<accounted, answer>>

Deliver ==
    /\ accounted < published
    /\ accounted' = accounted + 1
    /\ answer' = TheEvent(accounted + 1)
    /\ UNCHANGED published

ReportLoss ==
    \E k \in 1 .. (published - accounted) :
        /\ accounted' = accounted + k
        /\ answer' = LossOf(k)
        /\ UNCHANGED published

NothingNew ==
    /\ accounted = published
    /\ answer' = Nothing
    /\ UNCHANGED <<published, accounted>>

Next == Publish \/ Deliver \/ ReportLoss \/ NothingNew

Spec == Init /\ [][Next]_svars
=============================================================================
