-------------------------- MODULE EventQueueProofs --------------------------
(***************************************************************************)
(* Machine-checked proofs about EventQueue, for every capacity, every set  *)
(* of event types and every number of published events: the type           *)
(* invariant, the inductive invariant IInv, and that the queue implements  *)
(* the lossy stream of EventStream.                                        *)
(***************************************************************************)
EXTENDS EventQueue, TLAPS

USE MaxSizeAssumption, MaxPushedAssumption

(* What the queue looks like after its head is removed.                    *)
LEMMA TailOfQueue ==
  ASSUME NEW S, NEW q \in Seq(S), q # <<>>
  PROVE  /\ Head(q) \in S
         /\ Head(q) = q[1]
         /\ Tail(q) \in Seq(S)
         /\ Len(Tail(q)) = Len(q) - 1
         /\ Len(q) \in Nat \ {0}
         /\ \A i \in 1 .. Len(q) - 1 : Tail(q)[i] = q[i + 1]
  OBVIOUS

(* What the queue looks like after an element is appended.                 *)
LEMMA AppendToQueue ==
  ASSUME NEW S, NEW q \in Seq(S), NEW e \in S
  PROVE  /\ Append(q, e) \in Seq(S)
         /\ Len(Append(q, e)) = Len(q) + 1
         /\ Append(q, e)[Len(q) + 1] = e
         /\ \A i \in 1 .. Len(q) : Append(q, e)[i] = q[i]
  OBVIOUS

-----------------------------------------------------------------------------
(* Type correctness: each action keeps the queue within its capacity.      *)

LEMMA InitTypeOK == Init => TypeOK
  BY DEF Init, TypeOK, OptType, Answer, Event

LEMMA PushTypeOK ==
  ASSUME TypeOK, NEW t \in EventTypes, Push(t)
  PROVE  TypeOK'
<1> USE DEF TypeOK, Push
<1>1. PushedEvent(t) \in Event
  BY DEF PushedEvent, Event
<1>2. CASE PushWithRoom(t)
  <2>1. /\ events' \in Seq(Event)
        /\ Len(events') = Len(events) + 1
        /\ Len(events) < MaxSize
    BY <1>1, <1>2, AppendToQueue DEF PushWithRoom, Full
  <2> QED
    BY <1>2, <2>1 DEF PushWithRoom, consumer
<1>3. CASE PushDroppingOldest(t)
  <2>1. events # <<>> /\ Len(events) \in Nat
    BY <1>3 DEF PushDroppingOldest, Full
  <2>2. Head(events) \in Event /\ Tail(events) \in Seq(Event)
        /\ Len(Tail(events)) = Len(events) - 1
    BY <2>1, TailOfQueue
  <2>3. events' \in Seq(Event) /\ Len(events') = Len(events)
    BY <1>1, <1>3, <2>1, <2>2, AppendToQueue DEF PushDroppingOldest
  <2>4. lastDropType' \in OptType
    BY <1>3, <2>2 DEF PushDroppingOldest, OptType, Event
  <2> QED
    BY <1>3, <2>3, <2>4 DEF PushDroppingOldest, consumer
<1> QED
  BY <1>2, <1>3

LEMMA PollTypeOK ==
  ASSUME TypeOK, Poll
  PROVE  TypeOK'
<1> USE DEF TypeOK
<1>1. CASE PollNotification
  BY <1>1 DEF PollNotification, Answer, OptType
<1>2. CASE PollEvent
  <2>1. events # <<>> /\ TakeHead
    BY <1>2 DEF PollEvent
  <2>2. /\ Head(events) \in Event
        /\ Tail(events) \in Seq(Event)
        /\ Len(Tail(events)) <= MaxSize
    BY <2>1, TailOfQueue
  <2>3. answer' \in Answer
    BY <2>1, <2>2 DEF TakeHead, Answer, OptType, Event
  <2> QED
    BY <2>1, <2>2, <2>3 DEF TakeHead
<1>3. CASE PollEmpty
  BY <1>3 DEF PollEmpty, Answer, OptType, counters
<1> QED
  BY <1>1, <1>2, <1>3 DEF Poll

LEMMA ClearTypeOK ==
  ASSUME TypeOK, Clear
  PROVE  TypeOK'
<1> USE DEF TypeOK
<1>1. /\ events' = <<>> /\ events' \in Seq(Event) /\ Len(events') = 0
      /\ dropCount' \in Nat
      /\ totalDropped' \in Nat
  BY DEF Clear
<1> QED
  BY <1>1 DEF Clear, consumer

LEMMA StutterTypeOK ==
  ASSUME TypeOK, UNCHANGED vars
  PROVE  TypeOK'
  BY DEF TypeOK, vars, counters, consumer

(* The variables have their types and the queue never outgrows maxSize     *)
(* (events.go:240-250: a full queue loses its head before the append).     *)
THEOREM TypeCorrect == Spec => []TypeOK
<1>1. TypeOK /\ [Next]_vars => TypeOK'
  BY PushTypeOK, PollTypeOK, ClearTypeOK, StutterTypeOK DEF Next
<1> QED
  BY <1>1, InitTypeOK, PTL DEF Spec

-----------------------------------------------------------------------------
(* The inductive invariant.                                                *)

Accounting == Conservation /\ LossesReported /\ Suffix /\ GapsAnnounced

LEMMA InitIInv == Init => IInv
<1> SUFFICES ASSUME Init PROVE IInv
  OBVIOUS
<1>1. TypeOK
  BY InitTypeOK
<1>2. Accounting
  BY DEF Init, Accounting, Conservation, LossesReported, Suffix, GapsAnnounced
<1> QED
  BY <1>1, <1>2 DEF IInv, Accounting

LEMMA PushIInv ==
  ASSUME IInv, NEW t \in EventTypes, Push(t)
  PROVE  Accounting'
<1> USE DEF IInv, TypeOK, Push
<1>1. PushedEvent(t) \in Event /\ PushedEvent(t).id = totalPushed + 1
  BY DEF PushedEvent, Event
<1>2. CASE PushWithRoom(t)
  <2>1. /\ Len(events') = Len(events) + 1
        /\ events'[Len(events) + 1] = PushedEvent(t)
        /\ \A i \in 1 .. Len(events) : events'[i] = events[i]
    BY <1>1, <1>2, AppendToQueue DEF PushWithRoom
  <2>2. Suffix'
    BY <1>1, <2>1 DEF Suffix
  <2>3. Conservation' /\ LossesReported'
    <3>1. /\ UNCHANGED <<dropCount, totalDropped, delivered, notified>>
          /\ totalPushed' = totalPushed + 1
      BY <1>2 DEF PushWithRoom, consumer
    <3> QED
      BY <2>1, <3>1 DEF Conservation, LossesReported
  <2> QED
    BY <2>2, <2>3 DEF Accounting, GapsAnnounced, consumer
<1>3. CASE PushDroppingOldest(t)
  <2>1. events # <<>> /\ Len(events) \in Nat \ {0}
    BY <1>3 DEF PushDroppingOldest, Full
  <2>2. /\ Tail(events) \in Seq(Event)
        /\ Len(Tail(events)) = Len(events) - 1
        /\ \A i \in 1 .. Len(events) - 1 : Tail(events)[i] = events[i + 1]
    BY <2>1, TailOfQueue
  <2>3. /\ Len(events') = Len(events)
        /\ events'[Len(events)] = PushedEvent(t)
        /\ \A i \in 1 .. Len(events) - 1 : events'[i] = events[i + 1]
    BY <1>1, <1>3, <2>1, <2>2, AppendToQueue DEF PushDroppingOldest
  <2>4. Suffix'
    <3>1. totalPushed' = totalPushed + 1 /\ Len(events) \in Nat \ {0}
      BY <2>1
    <3>2. events'[Len(events)].id = totalPushed + 1
      BY <1>1, <2>3
    <3>3. \A i \in 1 .. Len(events) - 1 : events'[i].id = totalPushed - Len(events) + i + 1
      BY <2>1, <2>3 DEF Suffix
    <3>4. ASSUME NEW i \in 1 .. Len(events)
          PROVE  events'[i].id = totalPushed' - Len(events) + i
      <4>1. CASE i = Len(events)
        BY <3>1, <3>2, <4>1
      <4>2. CASE i # Len(events)
        BY <3>1, <3>3, <4>2
      <4> QED
        BY <4>1, <4>2
    <3> QED
      BY <2>3, <3>4 DEF Suffix
  <2>5. Conservation' /\ LossesReported'
    <3>1. /\ UNCHANGED <<delivered, notified>>
          /\ totalPushed' = totalPushed + 1
          /\ dropCount' = dropCount + 1
          /\ totalDropped' = totalDropped + 1
      BY <1>3 DEF PushDroppingOldest, consumer
    <3> QED
      BY <2>3, <3>1 DEF Conservation, LossesReported
  <2> QED
    BY <2>4, <2>5 DEF Accounting, GapsAnnounced, consumer
<1> QED
  BY <1>2, <1>3

LEMMA PollIInv ==
  ASSUME IInv, Poll
  PROVE  Accounting'
<1> USE DEF IInv, TypeOK
<1>1. CASE PollNotification
  <2>1. /\ UNCHANGED <<events, totalPushed, totalDropped, delivered>>
        /\ notified' = notified + dropCount
        /\ dropCount' = 0
        /\ answer'.kind = "dropped"
    BY <1>1 DEF PollNotification
  <2>2. Conservation' /\ LossesReported'
    BY <2>1 DEF Conservation, LossesReported
  <2>3. Suffix' /\ GapsAnnounced'
    BY <2>1 DEF Suffix, GapsAnnounced
  <2> QED
    BY <2>2, <2>3 DEF Accounting
<1>2. CASE PollEvent
  <2>1. events # <<>> /\ TakeHead /\ dropCount = 0
    BY <1>2 DEF PollEvent
  <2>2. /\ Head(events) = events[1]
        /\ Len(events) \in Nat \ {0}
        /\ Len(events') = Len(events) - 1
        /\ \A i \in 1 .. Len(events) - 1 : events'[i] = events[i + 1]
    BY <2>1, TailOfQueue DEF TakeHead
  <2>3. Suffix'
    <3>1. totalPushed' = totalPushed
      BY <2>1 DEF TakeHead
    <3>2. ASSUME NEW i \in 1 .. Len(events')
          PROVE  events'[i].id = totalPushed' - Len(events') + i
      <4>1. i \in 1 .. Len(events) - 1 /\ i + 1 \in 1 .. Len(events)
        BY <2>2, <3>2
      <4>2. events'[i] = events[i + 1]
        BY <2>2, <4>1
      <4>3. events[i + 1].id = totalPushed - Len(events) + (i + 1)
        BY <4>1 DEF Suffix
      <4> QED
        BY <2>2, <3>1, <4>1, <4>2, <4>3
    <3> QED
      BY <3>2 DEF Suffix
  <2>4. Conservation' /\ LossesReported'
    <3>1. UNCHANGED <<totalPushed, totalDropped, dropCount, notified>>
          /\ delivered' = delivered + 1
      BY <2>1 DEF TakeHead
    <3> QED
      BY <2>2, <3>1 DEF Conservation, LossesReported
  <2>5. events[1].id = delivered + notified + 1
    BY <2>1, <2>2 DEF Suffix, Conservation, LossesReported
  <2>6. GapsAnnounced'
    BY <2>1, <2>2, <2>5 DEF GapsAnnounced, TakeHead
  <2> QED
    BY <2>3, <2>4, <2>6 DEF Accounting
<1>3. CASE PollEmpty
  BY <1>3 DEF PollEmpty, counters, Accounting, Conservation, LossesReported, Suffix,
              GapsAnnounced
<1> QED
  BY <1>1, <1>2, <1>3 DEF Poll

LEMMA ClearIInv ==
  ASSUME IInv, Clear
  PROVE  Accounting'
<1> USE DEF IInv, TypeOK
<1>1. events' = <<>> /\ Len(events') = 0
  BY DEF Clear
<1> QED
  BY <1>1 DEF Clear, consumer, Accounting, Conservation, LossesReported, Suffix,
              GapsAnnounced

LEMMA StepIInv == IInv /\ [Next]_vars => IInv'
<1> SUFFICES ASSUME IInv, [Next]_vars PROVE IInv'
  OBVIOUS
<1>1. ASSUME NEW t \in EventTypes, Push(t) PROVE IInv'
  BY <1>1, PushIInv, PushTypeOK DEF IInv, Accounting
<1>2. CASE Poll
  BY <1>2, PollIInv, PollTypeOK DEF IInv, Accounting
<1>3. CASE Clear
  BY <1>3, ClearIInv, ClearTypeOK DEF IInv, Accounting
<1>4. CASE UNCHANGED vars
  <2>1. TypeOK'
    BY <1>4, StutterTypeOK DEF IInv
  <2>2. Accounting'
    BY <1>4 DEF IInv, Accounting, Conservation, LossesReported, Suffix,
                GapsAnnounced, vars, counters, consumer
  <2> QED
    BY <2>1, <2>2 DEF IInv, Accounting
<1> QED
  BY <1>1, <1>2, <1>3, <1>4 DEF Next

(* IInv holds in every reachable state.                                    *)
THEOREM Inductive == Spec => []IInv
  BY InitIInv, StepIInv, PTL DEF Spec

(* Poll never returns an event before the consumer has been told, with the *)
(* exact count, of everything lost before it (events.go:254-279).          *)
THEOREM GapsAlwaysAnnounced == Spec => []GapsAnnounced
  BY Inductive, PTL DEF IInv

(* No published event disappears: it is queued, was returned by Poll, or   *)
(* is counted by totalDropped (events.go:233-309).                         *)
THEOREM EventsConserved == Spec => []Conservation
  BY Inductive, PTL DEF IInv

(* What Stats counts as dropped is what the notifications have told the    *)
(* consumer, or are about to (events.go:233-309).                          *)
THEOREM LossesAlwaysReported == Spec => []LossesReported
  BY Inductive, PTL DEF IInv

(* The queue holds the most recent events in order and without a gap, for  *)
(* every interleaving of Push, Poll and Clear (events.go:233-309).         *)
THEOREM QueueIsSuffix == Spec => []Suffix
  BY Inductive, PTL DEF IInv

-----------------------------------------------------------------------------
(* Refinement: the queue implements EventStream.                           *)

LEMMA InitStream == Init => Stream!Init
  BY DEF Init, Stream!Init, Stream!Nothing, Accounted

LEMMA StepStream ==
  ASSUME IInv, [Next]_vars
  PROVE  [Stream!Next]_(Stream!svars)
<1> USE DEF IInv, TypeOK, Accounted
<1>1. ASSUME NEW t \in EventTypes, Push(t) PROVE Stream!Publish
  BY <1>1 DEF Push, consumer, Stream!Publish
<1>2. ASSUME PollNotification PROVE Stream!ReportLoss
  <2>1. dropCount \in 1 .. totalPushed - Accounted
    BY <1>2 DEF PollNotification, Conservation, LossesReported
  <2> QED
    BY <1>2, <2>1 DEF PollNotification, Stream!ReportLoss, Stream!LossOf
<1>3. ASSUME PollEvent PROVE Stream!Deliver
  <2>1. events # <<>> /\ TakeHead /\ dropCount = 0
    BY <1>3 DEF PollEvent
  <2>2. Head(events) = events[1] /\ Len(events) \in Nat \ {0}
    BY <2>1, TailOfQueue
  <2>3. Head(events).id = Accounted + 1 /\ Accounted < totalPushed
    BY <2>1, <2>2 DEF Suffix, Conservation, LossesReported
  <2>4. Accounted' = Accounted + 1
    BY <2>1 DEF TakeHead
  <2> QED
    BY <2>1, <2>3, <2>4 DEF TakeHead, Stream!Deliver, Stream!TheEvent
<1>4. ASSUME PollEmpty PROVE Stream!NothingNew
  BY <1>4 DEF PollEmpty, counters, Conservation, LossesReported,
              Stream!NothingNew, Stream!Nothing
<1>5. ASSUME Clear \/ UNCHANGED vars PROVE UNCHANGED Stream!svars
  BY <1>5 DEF Clear, vars, counters, consumer, Stream!svars
<1> QED
  BY <1>1, <1>2, <1>3, <1>4, <1>5 DEF Next, Poll, Stream!Next

(* The queue of core/events.go is a lossy stream: it answers polls in      *)
(* order, announces each loss with its exact size, and answers "nothing"   *)
(* only when nothing published is left to account for.                     *)
THEOREM Implements == Spec => StreamSpec
<1>1. IInv /\ [Next]_vars => [Stream!Next]_(Stream!svars)
  BY StepStream
<1> QED
  BY <1>1, InitStream, Inductive, PTL DEF Spec, StreamSpec, Stream!Spec
=============================================================================
