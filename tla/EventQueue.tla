---------------------------- MODULE EventQueue -----------------------------
(***************************************************************************)
(* The bounded event queue of core/events.go, between the goroutines that  *)
(* handle WhatsApp events (Push), the application that polls for them      *)
(* (Poll, PollJSON) and the one that empties the queue (Clear).  Every     *)
(* method runs under the mutex of the queue, so each is one atomic action. *)
(* The payload of an event is abstracted to its number in the order of     *)
(* publication; its type is kept because drop notifications report one.    *)
(***************************************************************************)
EXTENDS Integers, Sequences

CONSTANTS
    MaxSize,     \* capacity of the queue (1000 in NewEngine)
    EventTypes,  \* the event types that are published
    NoType,      \* the empty string a fresh queue has as lastDropType
    MaxPushed    \* bound: number of events published in a behaviour

ASSUME MaxSizeAssumption   == MaxSize \in Nat \ {0}
ASSUME MaxPushedAssumption == MaxPushed \in Nat

VARIABLES
    events,        \* queued events, oldest first
    dropCount,     \* events dropped or cleared since the last notification
    lastDropType,  \* type of the last event dropped by Push
    totalPushed,   \* the three counters of Stats
    totalPolled,
    totalDropped,
    answer,        \* what the latest Poll returned
    delivered,     \* history: number of events Poll has returned
    notified       \* history: number of losses Poll has reported

counters == <<totalPushed, totalPolled, totalDropped>>
consumer == <<answer, delivered, notified>>
vars     == <<events, dropCount, lastDropType, counters, consumer>>

Event   == [id : Nat, type : EventTypes]
OptType == EventTypes \cup {NoType}
Answer  == [kind : {"nil", "event", "dropped"}, n : Nat, type : OptType]

TypeOK ==
    /\ events \in Seq(Event)
    /\ Len(events) <= MaxSize
    /\ dropCount \in Nat
    /\ lastDropType \in OptType
    /\ totalPushed \in Nat
    /\ totalPolled \in Nat
    /\ totalDropped \in Nat
    /\ answer \in Answer
    /\ delivered \in Nat
    /\ notified \in Nat

Init ==
    /\ events = <<>>
    /\ dropCount = 0
    /\ lastDropType = NoType
    /\ totalPushed = 0 /\ totalPolled = 0 /\ totalDropped = 0
    /\ answer = [kind |-> "nil", n |-> 0, type |-> NoType]
    /\ delivered = 0 /\ notified = 0

-----------------------------------------------------------------------------
(* Push: count the event, drop the oldest one of a full queue, append.     *)

MUT_FullOffByOne == Len(events) > MaxSize

Full == Len(events) >= MaxSize

PushedEvent(t) == [id |-> totalPushed + 1, type |-> t]

PushWithRoom(t) ==
    /\ ~Full
    /\ events' = Append(events, PushedEvent(t))
    /\ UNCHANGED <<dropCount, lastDropType, totalDropped>>

MUT_DropsNewest(t) ==
    /\ Full
    /\ events' = Append(SubSeq(events, 1, Len(events) - 1), PushedEvent(t))
    /\ lastDropType' = events[Len(events)].type
    /\ dropCount' = dropCount + 1
    /\ totalDropped' = totalDropped + 1

MUT_DropNotCounted(t) ==
    /\ Full
    /\ events' = Append(Tail(events), PushedEvent(t))
    /\ lastDropType' = Head(events).type
    /\ dropCount' = dropCount + 1
    /\ UNCHANGED totalDropped

PushDroppingOldest(t) ==
    /\ Full
    /\ events' = Append(Tail(events), PushedEvent(t))
    /\ lastDropType' = Head(events).type
    /\ dropCount' = dropCount + 1
    /\ totalDropped' = totalDropped + 1

Push(t) ==
    /\ totalPushed < MaxPushed
    /\ totalPushed' = totalPushed + 1
    /\ PushWithRoom(t) \/ PushDroppingOldest(t)
    /\ UNCHANGED <<totalPolled, consumer>>

-----------------------------------------------------------------------------
(* Poll: a pending drop notification first, then the oldest event, or nil. *)

PollNotification ==
    /\ dropCount > 0
    /\ dropCount' = 0
    /\ answer' = [kind |-> "dropped", n |-> dropCount, type |-> lastDropType]
    /\ totalPolled' = totalPolled + 1
    /\ notified' = notified + dropCount
    /\ UNCHANGED <<events, lastDropType, totalPushed, totalDropped, delivered>>

TakeHead ==
    /\ events' = Tail(events)
    /\ answer' = [kind |-> "event", n |-> Head(events).id, type |-> Head(events).type]
    /\ totalPolled' = totalPolled + 1
    /\ delivered' = delivered + 1
    /\ UNCHANGED <<dropCount, lastDropType, totalPushed, totalDropped, notified>>

MUT_LastEventStays == dropCount = 0 /\ Len(events) > 1 /\ TakeHead

PollEvent == dropCount = 0 /\ events # <<>> /\ TakeHead

MUT_NilBeforeNotification ==
    /\ events = <<>>
    /\ answer' = [kind |-> "nil", n |-> 0, type |-> NoType]
    /\ UNCHANGED <<events, dropCount, lastDropType, counters, delivered, notified>>

PollEmpty ==
    /\ dropCount = 0
    /\ events = <<>>
    /\ answer' = [kind |-> "nil", n |-> 0, type |-> NoType]
    /\ UNCHANGED <<events, dropCount, lastDropType, counters, delivered, notified>>

Poll == PollNotification \/ PollEvent \/ PollEmpty

(* Clear: everything queued counts as dropped; lastDropType is left alone. *)
MUT_ClearForgetsLosses ==
    /\ events' = <<>>
    /\ dropCount' = 0
    /\ totalDropped' = totalDropped + Len(events)
    /\ UNCHANGED <<lastDropType, totalPushed, totalPolled, consumer>>

Clear ==
    /\ events' = <<>>
    /\ dropCount' = dropCount + Len(events)
    /\ totalDropped' = totalDropped + Len(events)
    /\ UNCHANGED <<lastDropType, totalPushed, totalPolled, consumer>>

Next == (\E t \in EventTypes : Push(t)) \/ Poll \/ Clear

Spec == Init /\ [][Next]_vars

(* The application polls in a loop (the SSE stream does, every 50 ms).     *)
FairSpec == Spec /\ WF_vars(Poll)

-----------------------------------------------------------------------------
(* Every published event is queued, delivered or counted as dropped.       *)
Conservation == totalPushed = delivered + totalDropped + Len(events)

(* The statistics and the notifications agree: every loss counted by Stats *)
(* has been reported to the consumer or is about to be by the next Poll.   *)
LossesReported == totalDropped = notified + dropCount

(* The queue holds the most recent events, in the order of publication     *)
(* and without a gap, whatever was dropped, cleared or polled before.      *)
Suffix ==
    \A i \in 1 .. Len(events) : events[i].id = totalPushed - Len(events) + i

(* An event that Poll has just returned is the one that follows everything *)
(* delivered or reported lost before it: the gap before it was announced   *)
(* by the notifications, with its exact size, before the event came.       *)
GapsAnnounced == answer.kind = "event" => answer.n = delivered + notified

(* The conjunction that is inductive.                                      *)
IInv == TypeOK /\ Conservation /\ LossesReported /\ Suffix /\ GapsAnnounced

(* The position of the consumer in the stream of published events.         *)
Accounted == delivered + notified

Stream == INSTANCE EventStream WITH
            published <- totalPushed,
            accounted <- Accounted,
            answer    <- [kind |-> answer.kind, n |-> answer.n]

(* The queue implements the lossy stream of EventStream: answers come in   *)
(* order, each loss is reported exactly, and Poll says "nothing" only when *)
(* everything published has been accounted for.                            *)
StreamSpec == Stream!Spec

(* Under polling, each published event is delivered or reported lost, also *)
(* while events keep being pushed and the queue keeps being cleared.       *)
EveryEventAccounted ==
    \A i \in 1 .. MaxPushed : totalPushed >= i ~> Accounted >= i
=============================================================================
