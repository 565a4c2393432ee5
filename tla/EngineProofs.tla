--------------------------- MODULE EngineProofs ----------------------------
(***************************************************************************)
(* Machine-checked proofs about Engine, for every set of callers, every    *)
(* set of operations they use, and every number of calls and events.       *)
(***************************************************************************)
EXTENDS Engine, FiniteSetTheorems, TLAPS

(* The variables of the engine's own control.                              *)
ControlType ==
    /\ engState \in EngineStates
    /\ epc \in [Callers -> EngineLabels]
    /\ eseen \in [Callers -> EngineStates]

(* The inductive invariant.                                                *)
Lifecycle == ControlType /\ TransientIsOwned /\ SwapsFromRest

LEMMA InitLifecycle == Init => Lifecycle
  BY DEF Init, Lifecycle, ControlType, TransientIsOwned, SwapsFromRest, EngineStates,
         EngineLabels, EAt

(* A step that leaves the engine's own variables alone.                    *)
LEMMA ForeignStep ==
  ASSUME Lifecycle, UNCHANGED engineVars
  PROVE  Lifecycle'
  BY DEF Lifecycle, ControlType, TransientIsOwned, SwapsFromRest, engineVars, EAt

(* A step of caller c that stores no transient state, or leaves c owing    *)
(* one, and that does not take c away from owing one that stays.           *)
LEMMA OwnStep ==
  ASSUME Lifecycle, NEW c \in Callers, NEW l \in EngineLabels, EGo(c, l),
         UNCHANGED eseen, engState' \in EngineStates, l # "start_cas",
         \/ engState' \notin {"starting", "stopping"}
         \/ l \in Owing
         \/ UNCHANGED engState /\ epc[c] \notin Owing
  PROVE  Lifecycle'
<1>1. ControlType'
  BY DEF Lifecycle, ControlType, EGo
<1>2. epc'[c] = l /\ \A d \in Callers \ {c} : epc'[d] = epc[d]
  BY DEF Lifecycle, ControlType, EGo
<1>3. SwapsFromRest'
  BY <1>2 DEF Lifecycle, SwapsFromRest, EAt
<1>4. TransientIsOwned'
  <2>1. CASE engState' \notin {"starting", "stopping"}
    BY <2>1 DEF TransientIsOwned
  <2>2. CASE l \in Owing
    BY <1>2, <2>2 DEF TransientIsOwned
  <2>3. CASE UNCHANGED engState /\ epc[c] \notin Owing
    BY <1>2, <2>3 DEF TransientIsOwned, Lifecycle
  <2> QED
    BY <2>1, <2>2, <2>3
<1> QED
  BY <1>1, <1>3, <1>4 DEF Lifecycle

-----------------------------------------------------------------------------
LEMMA EntryIsLabel ==
  ASSUME NEW m
  PROVE  EngineEntry(m) \in {"start", "stop", "pair"}
  BY DEF EngineEntry

LEMMA BeginLifecycle ==
  ASSUME Lifecycle, NEW c \in Callers, NEW m \in Ops, EngineBegin(c, m)
  PROVE  Lifecycle'
<1>1. /\ EngineEntry(m) \in EngineLabels
      /\ EngineEntry(m) # "start_cas"
  BY EntryIsLabel DEF EngineLabels
<1>2. epc[c] = "idle" /\ EGo(c, EngineEntry(m)) /\ UNCHANGED <<engState, eseen>>
  BY DEF EngineBegin, EAt
<1>3. engState' \in EngineStates /\ epc[c] \notin Owing
  BY <1>2 DEF Lifecycle, ControlType, Owing
<1> QED
  BY <1>1, <1>2, <1>3, OwnStep

(* The one step that sets the expected state of the compare-and-swap.      *)
LEMMA StartLoadLifecycle ==
  ASSUME Lifecycle, NEW c \in Callers, StartLoad(c)
  PROVE  Lifecycle'
<1>1. /\ epc[c] = "start"
      /\ eseen' = [eseen EXCEPT ![c] = engState]
      /\ UNCHANGED engState
      /\ \/ epc' = [epc EXCEPT ![c] = "idle"]
         \/ /\ epc' = [epc EXCEPT ![c] = "start_cas"]
            /\ engState \notin {"running", "starting", "pairing"}
  BY DEF StartLoad, EAt, EGo, EReturn
<1>2. ControlType'
  BY <1>1 DEF Lifecycle, ControlType, EngineLabels
<1>3. \A d \in Callers \ {c} : epc'[d] = epc[d] /\ eseen'[d] = eseen[d]
  BY <1>1 DEF Lifecycle, ControlType
<1>4. epc'[c] = "start_cas" => eseen'[c] \in {"stopped", "stopping"}
  BY <1>1 DEF Lifecycle, ControlType, EngineStates
<1>5. SwapsFromRest'
  BY <1>3, <1>4 DEF Lifecycle, SwapsFromRest, EAt
<1>6. TransientIsOwned'
  BY <1>1, <1>3 DEF Lifecycle, TransientIsOwned, Owing
<1> QED
  BY <1>2, <1>5, <1>6 DEF Lifecycle

LEMMA StopLoadLifecycle ==
  ASSUME Lifecycle, NEW c \in Callers, StopLoad(c)
  PROVE  Lifecycle'
<1>1. /\ epc[c] = "stop"
      /\ eseen' = [eseen EXCEPT ![c] = engState]
      /\ UNCHANGED engState
      /\ epc' = [epc EXCEPT ![c] = "idle"] \/ epc' = [epc EXCEPT ![c] = "stop_set"]
  BY DEF StopLoad, EAt, EGo, EReturn
<1>2. ControlType'
  BY <1>1 DEF Lifecycle, ControlType, EngineLabels
<1>3. /\ \A d \in Callers \ {c} : epc'[d] = epc[d] /\ eseen'[d] = eseen[d]
      /\ epc'[c] # "start_cas"
  BY <1>1 DEF Lifecycle, ControlType
<1>4. SwapsFromRest' /\ TransientIsOwned'
  BY <1>1, <1>3 DEF Lifecycle, SwapsFromRest, TransientIsOwned, Owing, EAt
<1> QED
  BY <1>2, <1>4 DEF Lifecycle

LEMMA EngineStepLifecycle ==
  ASSUME Lifecycle, NEW c \in Callers, EngineStep(c)
  PROVE  Lifecycle'
<1> USE DEF EAt, EReturn
<1> DEFINE Keeps(l) == EGo(c, l) /\ UNCHANGED <<engState, eseen>>
<1>0. /\ engState \in EngineStates
      /\ {"running", "stopped", "starting", "stopping", "pairing"} \subseteq EngineStates
      /\ Owing \subseteq EngineLabels
      /\ {"idle", "start", "start_cas", "pair", "pair_check", "pair_set", "pair_ret",
          "stop", "stop_set"} \subseteq EngineLabels \ Owing
  BY DEF Lifecycle, ControlType, EngineStates, EngineLabels, Owing
<1>1. ASSUME NEW l \in EngineLabels, Keeps(l), l # "start_cas", epc[c] \notin Owing
      PROVE  Lifecycle'
  BY <1>0, <1>1, OwnStep
<1>2. ASSUME NEW l \in Owing, EGo(c, l), UNCHANGED eseen, engState' \in EngineStates
      PROVE  Lifecycle'
  <2>1. l \in EngineLabels /\ l # "start_cas"
    BY <1>0, <1>2 DEF Owing
  <2> QED
    BY <1>2, <2>1, OwnStep
<1>3. ASSUME NEW l \in EngineLabels, EGo(c, l), UNCHANGED eseen, l # "start_cas",
             engState' \in {"running", "stopped", "pairing"}
      PROVE  Lifecycle'
  <2>1. engState' \in EngineStates /\ engState' \notin {"starting", "stopping"}
    BY <1>0, <1>3
  <2> QED
    BY <1>3, <2>1, OwnStep
<1>4. CASE StartLoad(c)
  BY <1>4, StartLoadLifecycle
<1>5. CASE StartCAS(c)
  <2>1. CASE EGo(c, "start_check") /\ engState' = "starting"
    BY <1>0, <1>2, <1>5, <2>1 DEF StartCAS, Owing
  <2>2. CASE EGo(c, "start") /\ engState' = engState
    BY <1>0, <1>1, <1>5, <2>2 DEF StartCAS
  <2> QED
    BY <1>5, <2>1, <2>2 DEF StartCAS
<1>6. CASE StartCheck(c)
  BY <1>0, <1>2, <1>6 DEF StartCheck, Owing
<1>7. CASE StartFail(c)
  BY <1>0, <1>3, <1>7 DEF StartFail
<1>8. CASE StartReturn(c)
  BY <1>0, <1>3, <1>8 DEF StartReturn
<1>9. CASE EnginePairLoad(c) \/ EnginePairCheck(c)
  BY <1>0, <1>1, <1>9 DEF EnginePairLoad, EnginePairCheck
<1>10. CASE EnginePairSet(c)
  BY <1>0, <1>3, <1>10 DEF EnginePairSet
<1>11. CASE PairReturn(c)
  <2>1. CASE engState' = "stopped"
    BY <1>0, <1>3, <1>11, <2>1 DEF PairReturn
  <2>2. CASE UNCHANGED engState
    BY <1>0, <1>1, <1>11, <2>2 DEF PairReturn
  <2> QED
    BY <1>11, <2>1, <2>2 DEF PairReturn
<1>12. CASE StopLoad(c)
  BY <1>12, StopLoadLifecycle
<1>13. CASE StopSet(c)
  BY <1>0, <1>2, <1>13 DEF StopSet, Owing
<1>14. CASE StopClose(c)
  BY <1>0, <1>2, <1>14 DEF StopClose, Owing
<1>15. CASE StopReturn(c)
  BY <1>0, <1>3, <1>15 DEF StopReturn
<1> QED
  BY <1>4, <1>5, <1>6, <1>7, <1>8, <1>9, <1>10, <1>11, <1>12, <1>13, <1>14, <1>15
     DEF EngineStep

LEMMA StepLifecycle == Lifecycle /\ [Next]_vars => Lifecycle'
<1> SUFFICES ASSUME Lifecycle, [Next]_vars PROVE Lifecycle'
  OBVIOUS
<1>1. ASSUME NEW c \in Callers, Begins(c) PROVE Lifecycle'
  BY <1>1, BeginLifecycle DEF Begins
<1>2. ASSUME NEW c \in Callers, CallerStep(c) PROVE Lifecycle'
  BY <1>2, EngineStepLifecycle, ForeignStep DEF CallerStep
<1>3. CASE Environment \/ UNCHANGED vars
  BY <1>3, ForeignStep DEF Environment, vars
<1> QED
  BY <1>1, <1>2, <1>3 DEF Next

LEMMA LifecycleInvariant == Spec => []Lifecycle
  BY InitLifecycle, StepLifecycle, PTL DEF Spec

-----------------------------------------------------------------------------
(* However many goroutines call Start, StartPairing, StartPhonePairing and *)
(* Stop, an engine is never left "starting" or "stopping" by them          *)
(* (engine.go:122-204).                                                    *)
THEOREM NoEngineLeftInTransit == Spec => []NoTransientLeftBehind
<1>1. Lifecycle => NoTransientLeftBehind
  BY DEF Lifecycle, ControlType, TransientIsOwned, NoTransientLeftBehind, EngineIdle,
         EAt, EngineStates, Owing
<1> QED
  BY <1>1, LifecycleInvariant, PTL

(* A transient state always has a caller that will resolve it.             *)
THEOREM TransientAlwaysOwned == Spec => []TransientIsOwned
  BY LifecycleInvariant, PTL DEF Lifecycle

(* Start leaves rest by a compare-and-swap only (engine.go:122-129), so it *)
(* never overwrites what another caller has started.                       *)
THEOREM StartNeverOvertakes == Spec => StartsFromRest
<1> DEFINE Step == engState' = "starting" /\ engState # "starting"
                     => engState \in {"stopped", "stopping"}
<1>1. ASSUME Lifecycle, [Next]_vars PROVE [Step]_vars
  <2>1. ASSUME NEW c \in Callers, EngineStep(c) PROVE Step
    <3>1. CASE StartCAS(c)
      BY <1>1, <3>1 DEF StartCAS, Lifecycle, SwapsFromRest
    <3>2. CASE ~StartCAS(c)
      BY <2>1, <3>2 DEF EngineStep, StartLoad, StartCheck, StartFail, StartReturn,
         EnginePairLoad, EnginePairCheck, EnginePairSet, PairReturn, StopLoad, StopSet,
         StopClose, StopReturn
    <3> QED
      BY <3>1, <3>2
  <2>2. ASSUME NEW c \in Callers, Begins(c) PROVE Step
    BY <2>2 DEF Begins, EngineBegin
  <2>3. ASSUME UNCHANGED engineVars PROVE Step
    BY <2>3 DEF engineVars
  <2> QED
    BY <1>1, <2>1, <2>2, <2>3 DEF Next, CallerStep, Environment
<1> QED
  BY <1>1, LifecycleInvariant, PTL DEF Spec, StartsFromRest

-----------------------------------------------------------------------------
(* What the engine and its client rely on.  The inductive invariant: a     *)
(* client method runs only while the engine waits for it, a socket is only *)
(* dialled with a handler in place, and who has switched automatic         *)
(* reconnection off will switch it on, or an event will.                   *)

WiringType ==
    /\ epc \in [Callers -> EngineLabels]
    /\ pc \in [Callers -> Labels]
    /\ method \in [Callers -> Methods]
    /\ handlers \in Nat

Waiting == {"start_ret", "pair_ret", "stop_ret"}
CalledFromEngine == \A c \in Callers : epc[c] \notin Waiting => pc[c] = "idle"

DialsHeard ==
    /\ \A c \in Callers : pc[c] \in {"connect_dial", "pair_dial"} => handlers > 0
    /\ redial => handlers > 0

PhonePairing == {"pair_dial", "pair_wait", "pair_phone", "pair_abort"}

ReconnectRestored ==
    paired => \/ autoReconnect
              \/ \E e \in inflight : e.kind = "pair_success"
              \/ \E c \in Callers : pc[c] \in PhonePairing /\ Phone(c)

Wiring == WiringType /\ CalledFromEngine /\ DialsHeard /\ NothingUnheard /\ ReconnectRestored

LEMMA InitWiring == Init => Wiring
  BY DEF Init, ClientInit, Wiring, WiringType, CalledFromEngine, DialsHeard, NothingUnheard,
     ReconnectRestored, EngineLabels, Labels, Methods

LEMMA ClientStepWiring ==
  ASSUME Wiring, NEW c \in Callers, ClientStep(c), UNCHANGED engineVars
  PROVE  Wiring'
<1> USE DEF Wiring, WiringType, CalledFromEngine, DialsHeard, NothingUnheard,
            ReconnectRestored, At, Go, Return, Phone, fields, wa, engineVars,
            Labels, Methods, PhonePairing, Waiting
<1>1. CASE ConnectLoad(c)
  BY <1>1 DEF ConnectLoad
<1>2. CASE ConnectCAS(c)
  BY <1>2 DEF ConnectCAS
<1>3. CASE ConnectRegister(c)
  BY <1>3 DEF ConnectRegister, Register
<1>4. CASE ConnectDial(c)
  BY <1>4 DEF ConnectDial, DialOK
<1>5. CASE ConnectAbort(c)
  BY <1>5 DEF ConnectAbort
<1>6. CASE PairLoad(c)
  BY <1>6 DEF PairLoad
<1>7. CASE PairCheck(c)
  BY <1>7 DEF PairCheck
<1>8. CASE PairSet(c)
  BY <1>8 DEF PairSet
<1>9. CASE PairBegin(c)
  BY <1>9 DEF PairBegin, Register
<1>10. CASE PairDial(c)
  BY <1>10 DEF PairDial, DialOK
<1>11. CASE PairWait(c)
  BY <1>11 DEF PairWait
<1>12. CASE PairPhone(c)
  BY <1>12 DEF PairPhone
<1>13. CASE PairAbort(c)
  BY <1>13 DEF PairAbort
<1>14. CASE DiscBegin(c)
  BY <1>14 DEF DiscBegin
<1>15. CASE DiscClear(c)
  BY <1>15 DEF DiscClear
<1>16. CASE DiscClose(c)
  BY <1>16 DEF DiscClose, HangUp
<1>17. CASE DiscStore(c)
  BY <1>17 DEF DiscStore
<1> QED
  BY <1>1, <1>2, <1>3, <1>4, <1>5, <1>6, <1>7, <1>8, <1>9, <1>10, <1>11, <1>12, <1>13,
     <1>14, <1>15, <1>16, <1>17 DEF ClientStep

LEMMA EngineStepWiring ==
  ASSUME Wiring, NEW c \in Callers, EngineStep(c)
  PROVE  Wiring'
<1> USE DEF Wiring, WiringType, CalledFromEngine, DialsHeard, NothingUnheard,
            ReconnectRestored, At, Go, Phone, EAt, EGo, EReturn, Call, Entry, Returned,
            clientVars, callers, fields, wa, Labels, EngineLabels, Owing, Methods,
            PhonePairing, Waiting
<1>1. CASE StartLoad(c)
  BY <1>1 DEF StartLoad
<1>2. CASE StartCAS(c)
  BY <1>2 DEF StartCAS
<1>3. CASE StartCheck(c)
  BY <1>3 DEF StartCheck
<1>4. CASE StartFail(c)
  BY <1>4 DEF StartFail
<1>5. CASE StartReturn(c)
  BY <1>5 DEF StartReturn
<1>6. CASE EnginePairLoad(c)
  BY <1>6 DEF EnginePairLoad
<1>7. CASE EnginePairCheck(c)
  BY <1>7 DEF EnginePairCheck
<1>8. CASE EnginePairSet(c)
  BY <1>8 DEF EnginePairSet
<1>9. CASE PairReturn(c)
  BY <1>9 DEF PairReturn
<1>10. CASE StopLoad(c)
  BY <1>10 DEF StopLoad
<1>11. CASE StopSet(c)
  BY <1>11 DEF StopSet
<1>12. CASE StopClose(c)
  BY <1>12 DEF StopClose
<1>13. CASE StopReturn(c)
  BY <1>13 DEF StopReturn
<1> QED
  BY <1>1, <1>2, <1>3, <1>4, <1>5, <1>6, <1>7, <1>8, <1>9, <1>10, <1>11, <1>12, <1>13
     DEF EngineStep

LEMMA BeginWiring ==
  ASSUME Wiring, NEW c \in Callers, NEW m \in Ops, EngineBegin(c, m)
  PROVE  Wiring'
<1>1. m \in Methods /\ EngineEntry(m) \in EngineLabels \ Waiting
  BY OpsAssumption DEF EngineEntry, EngineLabels, Waiting
<1>2. epc[c] = "idle" /\ pc[c] = "idle"
  BY DEF EngineBegin, EAt, Wiring, WiringType, CalledFromEngine, Waiting
<1> QED
  BY <1>1, <1>2 DEF EngineBegin, EGo, Wiring, WiringType, CalledFromEngine, DialsHeard,
     NothingUnheard, ReconnectRestored, Phone, PhonePairing, fields, wa

LEMMA QRWiring ==
  ASSUME Wiring, QRStep, UNCHANGED engineVars
  PROVE  Wiring'
  BY DEF QRStep, QRCode, QRFails, QREnds, HangUp, Wiring, WiringType, CalledFromEngine,
     DialsHeard, NothingUnheard, ReconnectRestored, Phone, PhonePairing, callers, wa,
     engineVars

LEMMA EventWiring ==
  ASSUME Wiring, handleEvent, UNCHANGED engineVars
  PROVE  Wiring'
<1> USE DEF Wiring, WiringType, CalledFromEngine, DialsHeard, NothingUnheard,
            ReconnectRestored, Phone, PhonePairing, KeepWA, callers, engineVars, Consume
<1>1. PICK e \in inflight :
        \/ Connected(e) \/ Disconnected(e) \/ LoggedOut(e) \/ StreamReplaced(e)
        \/ Message(e) \/ PairSuccess(e) \/ PairError(e) \/ KeepAliveTimeout(e)
  BY DEF handleEvent
<1>2. KeepWA /\ UNCHANGED callers
  BY DEF handleEvent
<1>3. inflight' = inflight \ {e}
  BY <1>1 DEF Connected, Disconnected, LoggedOut, StreamReplaced, Message, PairSuccess,
     PairError, KeepAliveTimeout
<1>4. autoReconnect' \/ (UNCHANGED autoReconnect /\ e.kind # "pair_success")
  BY <1>1 DEF Connected, Disconnected, LoggedOut, StreamReplaced, Message, PairSuccess,
     PairError, KeepAliveTimeout
<1> QED
  BY <1>2, <1>3, <1>4

LEMMA WhatsmeowWiring ==
  ASSUME Wiring, Whatsmeow, UNCHANGED engineVars
  PROVE  Wiring'
<1> USE DEF Wiring, WiringType, CalledFromEngine, DialsHeard, NothingUnheard,
            ReconnectRestored, Phone, PhonePairing, callers, engineVars
<1>0. UNCHANGED callers
  BY DEF Whatsmeow
<1>1. CASE WaLogin
  BY <1>0, <1>1 DEF WaLogin, Emit
<1>2. CASE WaDrop
  BY <1>0, <1>2 DEF WaDrop, Emit
<1>3. CASE WaRedial
  BY <1>0, <1>3 DEF WaRedial
<1>4. CASE WaLoggedOut
  BY <1>0, <1>4 DEF WaLoggedOut, Emit
<1>5. CASE WaReplaced
  BY <1>0, <1>5 DEF WaReplaced, Emit
<1>6. CASE WaPaired
  <2> DEFINE e == [kind |-> "pair_success", n |-> emitted + 1, to |-> handlers]
  <2>1. inflight' = inflight \cup {e} /\ e.kind = "pair_success" /\ e.to = handlers
    BY <1>6 DEF WaPaired, Emit
  <2> HIDE DEF e
  <2> QED
    BY <1>0, <1>6, <2>1 DEF WaPaired
<1>7. CASE WaPairFails
  BY <1>0, <1>7 DEF WaPairFails, Emit
<1>8. CASE WaKeepAlive
  BY <1>0, <1>8 DEF WaKeepAlive, Emit
<1>9. CASE WaMessage
  BY <1>0, <1>9 DEF WaMessage, Emit
<1>10. CASE WaQRCancelled
  BY <1>0, <1>10 DEF WaQRCancelled, HangUp
<1> QED
  BY <1>1, <1>2, <1>3, <1>4, <1>5, <1>6, <1>7, <1>8, <1>9, <1>10 DEF Whatsmeow

LEMMA StepWiring == Wiring /\ [Next]_vars => Wiring'
<1> SUFFICES ASSUME Wiring, [Next]_vars PROVE Wiring'
  OBVIOUS
<1>1. ASSUME NEW c \in Callers, Begins(c) PROVE Wiring'
  BY <1>1, BeginWiring DEF Begins
<1>2. ASSUME NEW c \in Callers, CallerStep(c) PROVE Wiring'
  BY <1>2, EngineStepWiring, ClientStepWiring DEF CallerStep
<1>3. CASE Environment
  BY <1>3, QRWiring, EventWiring, WhatsmeowWiring DEF Environment
<1>4. CASE UNCHANGED vars
  BY <1>4 DEF vars, clientVars, callers, fields, wa, engineVars, Wiring, WiringType,
     CalledFromEngine, DialsHeard, NothingUnheard, ReconnectRestored, Phone, PhonePairing
<1> QED
  BY <1>1, <1>2, <1>3, <1>4 DEF Next

LEMMA WiringInvariant == Spec => []Wiring
  BY InitWiring, StepWiring, PTL DEF Spec

-----------------------------------------------------------------------------
(* Whatever calls overlap, no socket is open and no event is dispatched    *)
(* without a registered handler (client.go:121, 147, 196).                 *)
THEOREM EventsAlwaysHeard == Spec => []NothingUnheard
  BY WiringInvariant, PTL DEF Wiring

(* A phone pairing that failed, was overtaken or succeeded never leaves a  *)
(* paired device with automatic reconnection off, once all is quiet        *)
(* (client.go:194-225, 442).                                               *)
THEOREM ReconnectAlwaysRestored == Spec => []ReconnectsOncePaired
<1>1. Wiring => ReconnectsOncePaired
  BY DEF Wiring, ReconnectRestored, ReconnectsOncePaired, PhonePairing, Idle, At
<1> QED
  BY <1>1, WiringInvariant, PTL
-----------------------------------------------------------------------------
(* Why "connecting" is never a dead end.  The state is stored by a caller  *)
(* that goes on to dial; if the device has been logged out since it looked *)
(* the event of that will reset the state, and if the socket is gone and   *)
(* not dialled again somebody is about to.                                 *)
DialWatched ==
    state = "connecting" /\ ~paired =>
        \/ \E c \in Callers : pc[c] \in {"connect_register", "connect_abort"}
        \/ \E e \in inflight : e.kind = "logged_out"

(* The events whose handler stores a state.                                *)
Storing == Kinds \ {"disconnected", "message"}

Resets(c) ==
    \/ pc[c] \in {"connect_register", "connect_dial", "connect_abort", "disc_store"}
    \/ pc[c] \in PhonePairing /\ Phone(c)

LossWatched ==
    state = "connecting" /\ paired /\ socket = "down" /\ ~redial =>
        \/ \E c \in Callers : Resets(c)
        \/ \E e \in inflight : e.kind \in Storing

PairedHasNoQR == paired => qrOpen = {}

Progress == DialWatched /\ LossWatched /\ PairedHasNoQR

LEMMA InitProgress == Init => Progress
  BY DEF Init, ClientInit, Progress, DialWatched, LossWatched, PairedHasNoQR

LEMMA ClientStepProgress ==
  ASSUME Wiring, Progress, NEW c \in Callers, ClientStep(c)
  PROVE  Progress'
<1> USE DEF Progress, DialWatched, LossWatched, PairedHasNoQR, Resets, PhonePairing, Phone,
            At, Go, Return, fields, wa
<1>0. pc \in [Callers -> Labels]
  BY DEF Wiring, WiringType
<1>1. CASE ConnectLoad(c)
  BY <1>0, <1>1 DEF ConnectLoad
<1>2. CASE ConnectCAS(c)
  BY <1>0, <1>2 DEF ConnectCAS
<1>3. CASE ConnectRegister(c)
  BY <1>0, <1>3 DEF ConnectRegister, Register
<1>4. CASE ConnectDial(c)
  BY <1>0, <1>4 DEF ConnectDial, DialOK
<1>5. CASE ConnectAbort(c)
  BY <1>0, <1>5 DEF ConnectAbort
<1>6. CASE PairLoad(c)
  BY <1>0, <1>6 DEF PairLoad
<1>7. CASE PairCheck(c)
  BY <1>0, <1>7 DEF PairCheck
<1>8. CASE PairSet(c)
  BY <1>0, <1>8 DEF PairSet
<1>9. CASE PairBegin(c)
  BY <1>0, <1>9 DEF PairBegin, Register
<1>10. CASE PairDial(c)
  BY <1>0, <1>10 DEF PairDial, DialOK
<1>11. CASE PairWait(c)
  BY <1>0, <1>11 DEF PairWait
<1>12. CASE PairPhone(c)
  BY <1>0, <1>12 DEF PairPhone
<1>13. CASE PairAbort(c)
  BY <1>0, <1>13 DEF PairAbort
<1>14. CASE DiscBegin(c)
  BY <1>0, <1>14 DEF DiscBegin
<1>15. CASE DiscClear(c)
  BY <1>0, <1>15 DEF DiscClear
<1>16. CASE DiscClose(c)
  BY <1>0, <1>16 DEF DiscClose, HangUp
<1>17. CASE DiscStore(c)
  BY <1>0, <1>17 DEF DiscStore
<1> QED
  BY <1>1, <1>2, <1>3, <1>4, <1>5, <1>6, <1>7, <1>8, <1>9, <1>10, <1>11, <1>12, <1>13,
     <1>14, <1>15, <1>16, <1>17 DEF ClientStep

(* A step of the engine takes no client method away from what it is doing. *)
LEMMA EngineKeepsClient ==
  ASSUME Wiring, NEW c \in Callers,
         EngineStep(c) \/ \E m \in Ops : EngineBegin(c, m)
  PROVE  /\ UNCHANGED <<fields, wa>>
         /\ \A d \in Callers : pc[d] \notin {"idle", "done"} =>
               pc'[d] = pc[d] /\ method'[d] = method[d]
<1> USE DEF Wiring, WiringType, CalledFromEngine, EAt, EGo, EReturn, At, Go, Call,
            Returned, clientVars, callers, fields, wa
<1>1. CASE \E m \in Ops : EngineBegin(c, m)
  BY <1>1 DEF EngineBegin, Waiting
<1>2. CASE StartLoad(c) \/ StartCAS(c) \/ StartFail(c) \/ EnginePairLoad(c)
             \/ EnginePairCheck(c) \/ StopLoad(c) \/ StopSet(c)
  BY <1>2 DEF StartLoad, StartCAS, StartFail, EnginePairLoad, EnginePairCheck, StopLoad,
     StopSet
<1>3. CASE StartCheck(c) \/ EnginePairSet(c) \/ StopClose(c)
  BY <1>3 DEF StartCheck, EnginePairSet, StopClose, Waiting
<1>4. CASE StartReturn(c) \/ PairReturn(c) \/ StopReturn(c)
  BY <1>4 DEF StartReturn, PairReturn, StopReturn
<1> QED
  BY <1>1, <1>2, <1>3, <1>4 DEF EngineStep

LEMMA EngineStepProgress ==
  ASSUME Wiring, Progress, NEW c \in Callers,
         EngineStep(c) \/ \E m \in Ops : EngineBegin(c, m)
  PROVE  Progress'
  BY EngineKeepsClient DEF Progress, DialWatched, LossWatched, PairedHasNoQR, Resets,
     PhonePairing, Phone, fields, wa

LEMMA EmitAdds ==
  ASSUME NEW k, Emit(k)
  PROVE  inflight \subseteq inflight' /\ \E e \in inflight' : e.kind = k
<1> DEFINE e == [kind |-> k, n |-> emitted + 1, to |-> handlers]
<1>1. inflight' = inflight \cup {e} /\ e.kind = k
  BY DEF Emit
<1> HIDE DEF e
<1> QED
  BY <1>1

LEMMA EnvironmentProgress ==
  ASSUME Wiring, Progress, QRStep \/ handleEvent \/ Whatsmeow
  PROVE  Progress'
<1> USE DEF Progress, DialWatched, LossWatched, PairedHasNoQR, Resets, PhonePairing, Phone,
            callers
<1>1. CASE QRStep
  BY <1>1 DEF QRStep, QRCode, QRFails, QREnds, HangUp, wa
<1>2. CASE handleEvent
  <2>1. PICK e \in inflight :
          \/ Connected(e) \/ Disconnected(e) \/ LoggedOut(e) \/ StreamReplaced(e)
          \/ Message(e) \/ PairSuccess(e) \/ PairError(e) \/ KeepAliveTimeout(e)
    BY <1>2 DEF handleEvent
  <2>2. UNCHANGED <<callers, socket, paired, redial, qrOpen>>
    BY <1>2 DEF handleEvent, KeepWA
  <2>3. CASE Disconnected(e) \/ Message(e)
    BY <2>2, <2>3 DEF Disconnected, Message, Consume, Storing
  <2>4. CASE ~(Disconnected(e) \/ Message(e))
    <3>1. state' \in {"connected", "disconnected", "reconnecting"}
      BY <2>1, <2>4 DEF Connected, LoggedOut, StreamReplaced, PairSuccess, PairError,
         KeepAliveTimeout
    <3> QED
      BY <2>2, <3>1
  <2> QED
    BY <2>3, <2>4
<1>3. CASE Whatsmeow
  <2>0. UNCHANGED <<fields, callers>>
    BY <1>3 DEF Whatsmeow
  <2> USE <2>0 DEF fields
  <2>1. ASSUME NEW k, Emit(k)
        PROVE  \E e \in inflight' : e.kind = k
    BY <2>1, EmitAdds
  <2>2. ASSUME NEW k, Emit(k)
        PROVE  inflight \subseteq inflight'
    BY <2>2, EmitAdds
  <2>3. CASE WaLogin \/ WaKeepAlive \/ WaMessage
    BY <2>2, <2>3 DEF WaLogin, WaKeepAlive, WaMessage
  <2>4. CASE WaDrop
    BY <2>2, <2>4 DEF WaDrop, Wiring, ReconnectRestored, Storing, Kinds
  <2>5. CASE WaRedial
    BY <2>5 DEF WaRedial
  <2>6. CASE WaLoggedOut
    <3>1. \E e \in inflight' : e.kind = "logged_out"
      BY <2>1, <2>6 DEF WaLoggedOut, Storing, Kinds
    <3> QED
      BY <2>6, <3>1 DEF WaLoggedOut
  <2>7. CASE WaReplaced
    <3>1. \E e \in inflight' : e.kind = "stream_replaced" /\ e.kind \in Storing
      BY <2>1, <2>7 DEF WaReplaced, Storing, Kinds
    <3> QED
      BY <2>2, <2>7, <3>1 DEF WaReplaced
  <2>8. CASE WaPaired
    BY <2>2, <2>8 DEF WaPaired
  <2>9. CASE WaPairFails
    BY <2>2, <2>9 DEF WaPairFails
  <2>10. CASE WaQRCancelled
    BY <2>10 DEF WaQRCancelled, HangUp
  <2> QED
    BY <1>3, <2>3, <2>4, <2>5, <2>6, <2>7, <2>8, <2>9, <2>10 DEF Whatsmeow
<1> QED
  BY <1>1, <1>2, <1>3

LEMMA StepProgress == Wiring /\ Progress /\ [Next]_vars => Progress'
<1> SUFFICES ASSUME Wiring, Progress, [Next]_vars PROVE Progress'
  OBVIOUS
<1>1. ASSUME NEW c \in Callers, Begins(c) PROVE Progress'
  BY <1>1, EngineStepProgress DEF Begins
<1>2. ASSUME NEW c \in Callers, CallerStep(c) PROVE Progress'
  BY <1>2, EngineStepProgress, ClientStepProgress DEF CallerStep
<1>3. CASE Environment
  BY <1>3, EnvironmentProgress DEF Environment
<1>4. CASE UNCHANGED vars
  BY <1>4 DEF vars, clientVars, callers, fields, wa, Progress, DialWatched, LossWatched,
     PairedHasNoQR, Resets, Phone
<1> QED
  BY <1>1, <1>2, <1>3, <1>4 DEF Next

(* A client that says "connecting" when nothing is going on any more has a *)
(* socket or is dialled again: no logout, cancelled pairing or failed dial *)
(* leaves it there for good (client.go:107-147, 396-464).                  *)
THEOREM ConnectingNeverStuck == Spec => []ConnectingIsNotStuck
<1>1. Spec => []Progress
  BY InitProgress, StepProgress, WiringInvariant, PTL DEF Spec
<1>2. Progress => ConnectingIsNotStuck
  BY DEF Progress, DialWatched, LossWatched, ConnectingIsNotStuck, Idle, At, Resets,
     PhonePairing
<1> QED
  BY <1>1, <1>2, PTL
-----------------------------------------------------------------------------
(* Type correctness.  What takes an argument is the counters: an event     *)
(* handler is registered at most once in a call, and a QR context is made  *)
(* along with a handler, so that neither is ever ahead of the calls.  The  *)
(* callers that have still to register are finitely many.                  *)
BeforeRegister == {"connect", "connect_cas", "connect_register",
                   "pair", "pair_check", "pair_set", "pair_begin"}
BeforeCall == {"start", "start_cas", "start_check", "pair", "pair_check", "pair_set"}

Registers(c) == epc[c] \in BeforeCall \/ pc[c] \in BeforeRegister
Registering  == {c \in Callers : Registers(c)}

Counted ==
    /\ calls \in 0 .. MaxCalls
    /\ handlers \in Nat
    /\ IsFiniteSet(Registering)
    /\ handlers + Cardinality(Registering) <= calls

Stops == \A c \in Callers :
    epc[c] \in {"stop", "stop_set", "stop_close", "stop_ret"} => method[c] = "Disconnect"

OwnChannel == \A c \in Callers : pc[c] = "pair_dial" /\ ~Phone(c) => mine[c] \in 1 .. lastQR

FieldsShape ==
    /\ state \in States
    /\ pairingActive \in BOOLEAN /\ pairingCode \in BOOLEAN
    /\ disconnectMu \in Callers \cup {NoCaller}
    /\ lastQR \in Nat /\ currentQR \in 0 .. lastQR /\ qrCtx \in 0 .. lastQR
    /\ qrRunning \in SUBSET (1 .. lastQR) /\ qrOpen \in SUBSET qrRunning

CallersShape ==
    /\ pc \in [Callers -> Labels]
    /\ method \in [Callers -> Methods]
    /\ seen \in [Callers -> States]
    /\ mine \in [Callers -> Nat]
    /\ res \in [Callers -> {"ok", "err"}]

ServerShape ==
    /\ socket \in {"down", "open", "auth", "lagging"}
    /\ paired \in BOOLEAN /\ autoReconnect \in BOOLEAN /\ redial \in BOOLEAN
    /\ handlers \in Nat
    /\ inflight \in SUBSET Event
    /\ emitted \in 0 .. MaxEvents

EngineShape ==
    /\ engState \in EngineStates
    /\ presenceStopped \in BOOLEAN
    /\ epc \in [Callers -> EngineLabels]
    /\ eseen \in [Callers -> EngineStates]

Shape == FieldsShape /\ CallersShape /\ ServerShape /\ EngineShape

Routines == CalledFromEngine /\ Stops /\ OwnChannel /\ lastQR <= handlers

Typed == Shape /\ Routines /\ Counted

LEMMA TypedIsTypeOK == Typed => TypeOK
<1> SUFFICES ASSUME Typed PROVE TypeOK
  OBVIOUS
<1>1. Cardinality(Registering) \in Nat
  BY FS_CardinalityType DEF Typed, Counted
<1>2. handlers \in 0 .. calls /\ lastQR \in 0 .. calls
  BY <1>1, BoundsAssumption DEF Typed, Counted, Routines, Shape, FieldsShape
<1>3. ClientTypeOK
  BY <1>2 DEF Typed, Counted, Shape, FieldsShape, CallersShape, ServerShape, ClientTypeOK
<1> QED
  BY <1>3 DEF Typed, Shape, EngineShape, TypeOK

LEMMA InitTyped == Init => Typed
<1> SUFFICES ASSUME Init PROVE Typed
  OBVIOUS
<1> USE DEF Init, ClientInit
<1>1. FieldsShape
  <2>1. pairingActive \in BOOLEAN /\ pairingCode \in BOOLEAN
    BY Zenon
  <2>2. lastQR = 0 /\ currentQR = 0 /\ qrCtx = 0 /\ qrRunning = {} /\ qrOpen = {}
    OBVIOUS
  <2>3. state \in States /\ disconnectMu \in Callers \cup {NoCaller}
    BY DEF States
  <2> QED
    BY <2>1, <2>2, <2>3 DEF FieldsShape
<1>2. CallersShape
  BY DEF CallersShape, Labels, Methods, States
<1>3. ServerShape
  <2>1. paired \in BOOLEAN /\ autoReconnect \in BOOLEAN /\ redial \in BOOLEAN
    BY Zenon
  <2> QED
    BY <2>1, BoundsAssumption DEF ServerShape
<1>4. EngineShape
  BY DEF EngineShape, EngineLabels, EngineStates
<1>5. Routines
  BY DEF Routines, CalledFromEngine, Stops, OwnChannel
<1>6. Registering = {}
  BY DEF Registering, Registers, BeforeCall, BeforeRegister
<1>7. Counted
  BY <1>6, FS_EmptySet, BoundsAssumption DEF Counted
<1> QED
  BY <1>1, <1>2, <1>3, <1>4, <1>5, <1>7 DEF Typed, Shape

(* A step in which nobody comes to be counted and no handler is added.     *)
LEMMA CountKept ==
  ASSUME Counted, Registering' \subseteq Registering, UNCHANGED <<calls, handlers>>
  PROVE  Counted'
<1>1. IsFiniteSet(Registering') /\ Cardinality(Registering') <= Cardinality(Registering)
  BY FS_Subset DEF Counted
<1>2. Cardinality(Registering) \in Nat /\ Cardinality(Registering') \in Nat
  BY <1>1, FS_CardinalityType DEF Counted
<1> QED
  BY <1>1, <1>2 DEF Counted

(* A call begins, or a handler is registered.                              *)
LEMMA CountBegins ==
  ASSUME Counted, NEW c, Registering' \subseteq Registering \cup {c},
         calls < MaxCalls, calls' = calls + 1, UNCHANGED handlers
  PROVE  Counted'
<1> DEFINE more == Registering \cup {c}
<1>1. /\ IsFiniteSet(more)
      /\ Cardinality(more) = IF c \in Registering THEN Cardinality(Registering)
                                                   ELSE Cardinality(Registering) + 1
  BY FS_AddElement DEF Counted
<1> HIDE DEF more
<1>2. IsFiniteSet(Registering') /\ Cardinality(Registering') <= Cardinality(more)
  BY <1>1, FS_Subset DEF more
<1>3. Cardinality(Registering) \in Nat /\ Cardinality(Registering') \in Nat
      /\ Cardinality(more) \in Nat
  BY <1>1, <1>2, FS_CardinalityType DEF Counted
<1> QED
  BY <1>1, <1>2, <1>3, BoundsAssumption DEF Counted

LEMMA CountRegisters ==
  ASSUME Counted, NEW c \in Registering, Registering' \subseteq Registering \ {c},
         UNCHANGED calls, handlers' = handlers + 1
  PROVE  Counted'
<1> DEFINE fewer == Registering \ {c}
<1>1. IsFiniteSet(fewer) /\ Cardinality(fewer) = Cardinality(Registering) - 1
  BY FS_RemoveElement DEF Counted
<1> HIDE DEF fewer
<1>2. IsFiniteSet(Registering') /\ Cardinality(Registering') <= Cardinality(fewer)
  BY <1>1, FS_Subset DEF fewer
<1>3. Cardinality(Registering) \in Nat /\ Cardinality(Registering') \in Nat
      /\ Cardinality(fewer) \in Nat
  BY <1>1, <1>2, FS_CardinalityType DEF Counted
<1> QED
  BY <1>1, <1>2, <1>3 DEF Counted

LEMMA ClientStepShape ==
  ASSUME Shape, Routines, NEW c \in Callers, ClientStep(c), UNCHANGED engineVars
  PROVE  Shape' /\ Routines'
<1> USE DEF Shape, FieldsShape, CallersShape, ServerShape, EngineShape, Routines,
            CalledFromEngine, Stops, OwnChannel, Phone, At, Go, Return, fields, wa, engineVars,
            Labels, States, Waiting
<1>1. CASE ConnectLoad(c)
  BY <1>1 DEF ConnectLoad
<1>2. CASE ConnectCAS(c)
  BY <1>2 DEF ConnectCAS
<1>3. CASE ConnectRegister(c)
  BY <1>3 DEF ConnectRegister, Register
<1>4. CASE ConnectDial(c)
  <2>1. FieldsShape'
    BY <1>4 DEF ConnectDial, DialOK
  <2>2. CallersShape'
    BY <1>4 DEF ConnectDial, DialOK
  <2>3. ServerShape'
    BY <1>4 DEF ConnectDial, DialOK
  <2>4. EngineShape'
    BY <1>4 DEF ConnectDial, DialOK
  <2>5. Routines'
    BY <1>4 DEF ConnectDial, DialOK
  <2> QED
    BY <2>1, <2>2, <2>3, <2>4, <2>5
<1>5. CASE ConnectAbort(c)
  BY <1>5 DEF ConnectAbort
<1>6. CASE PairLoad(c)
  BY <1>6 DEF PairLoad
<1>7. CASE PairCheck(c)
  BY <1>7 DEF PairCheck
<1>8. CASE PairSet(c)
  BY <1>8 DEF PairSet
<1>9. CASE PairBegin(c)
  <2>1. FieldsShape'
    BY <1>9 DEF PairBegin, Register
  <2>2. CallersShape'
    BY <1>9 DEF PairBegin, Register
  <2>3. ServerShape'
    <3>1. autoReconnect' \in BOOLEAN
      BY <1>9, Zenon DEF PairBegin
    <3> QED
      BY <1>9, <3>1 DEF PairBegin, Register
  <2>4. EngineShape'
    BY <1>9 DEF PairBegin, Register
  <2>5. Routines'
    BY <1>9 DEF PairBegin, Register
  <2> QED
    BY <2>1, <2>2, <2>3, <2>4, <2>5
<1>10. CASE PairDial(c)
  <2>1. FieldsShape'
    <3>1. UNCHANGED <<state, pairingActive, currentQR, pairingCode, disconnectMu, qrCtx, lastQR>>
      BY <1>10 DEF PairDial
    <3>2. \/ UNCHANGED <<qrRunning, qrOpen>>
          \/ /\ mine[c] \in 1 .. lastQR
             /\ qrRunning' = qrRunning \cup {mine[c]} /\ qrOpen' = qrOpen \cup {mine[c]}
      BY <1>10 DEF PairDial
    <3>3. qrRunning' \in SUBSET (1 .. lastQR) /\ qrOpen' \in SUBSET qrRunning'
      BY <3>2
    <3> QED
      BY <3>1, <3>3
  <2>2. CallersShape'
    BY <1>10 DEF PairDial, DialOK
  <2>3. ServerShape'
    BY <1>10 DEF PairDial, DialOK
  <2>4. EngineShape'
    BY <1>10 DEF PairDial, DialOK
  <2>5. Routines'
    BY <1>10 DEF PairDial, DialOK
  <2> QED
    BY <2>1, <2>2, <2>3, <2>4, <2>5
<1>11. CASE PairWait(c)
  BY <1>11 DEF PairWait
<1>12. CASE PairPhone(c)
  <2>1. FieldsShape'
    BY <1>12 DEF PairPhone
  <2>2. CallersShape'
    BY <1>12 DEF PairPhone
  <2>3. ServerShape'
    BY <1>12 DEF PairPhone
  <2>4. EngineShape'
    BY <1>12 DEF PairPhone
  <2>5. Routines'
    BY <1>12 DEF PairPhone
  <2> QED
    BY <2>1, <2>2, <2>3, <2>4, <2>5
<1>13. CASE PairAbort(c)
  BY <1>13 DEF PairAbort
<1>14. CASE DiscBegin(c)
  BY <1>14 DEF DiscBegin
<1>15. CASE DiscClear(c)
  <2>1. FieldsShape'
    <3>1. pairingCode' \in BOOLEAN
      BY <1>15, Zenon DEF DiscClear
    <3> QED
      BY <1>15, <3>1 DEF DiscClear
  <2>2. CallersShape'
    BY <1>15 DEF DiscClear
  <2>3. ServerShape'
    BY <1>15 DEF DiscClear
  <2>4. EngineShape'
    BY <1>15 DEF DiscClear
  <2>5. Routines'
    BY <1>15 DEF DiscClear
  <2> QED
    BY <2>1, <2>2, <2>3, <2>4, <2>5
<1>16. CASE DiscClose(c)
  BY ZenonT(30), <1>16 DEF DiscClose, HangUp
<1>17. CASE DiscStore(c)
  BY <1>17 DEF DiscStore
<1> QED
  BY <1>1, <1>2, <1>3, <1>4, <1>5, <1>6, <1>7, <1>8, <1>9, <1>10, <1>11, <1>12, <1>13,
     <1>14, <1>15, <1>16, <1>17 DEF ClientStep

LEMMA EngineStepShape ==
  ASSUME Shape, Routines, NEW c \in Callers, EngineStep(c)
  PROVE  Shape' /\ Routines'
<1> USE DEF Shape, FieldsShape, CallersShape, ServerShape, EngineShape, Routines,
            CalledFromEngine, Stops, OwnChannel, Phone, At, Go, EAt, EGo, EReturn, Call, Entry,
            Returned, clientVars, callers, fields, wa, Labels, EngineLabels, Owing,
            EngineStates, Methods, Waiting
<1>1. CASE StartLoad(c)
  BY <1>1 DEF StartLoad
<1>2. CASE StartCAS(c)
  BY <1>2 DEF StartCAS
<1>3. CASE StartCheck(c)
  BY <1>3 DEF StartCheck
<1>4. CASE StartFail(c)
  BY <1>4 DEF StartFail
<1>5. CASE StartReturn(c)
  <2>1. FieldsShape'
    BY <1>5 DEF StartReturn
  <2>2. CallersShape'
    BY <1>5 DEF StartReturn
  <2>3. ServerShape'
    BY <1>5 DEF StartReturn
  <2>4. EngineShape'
    BY <1>5 DEF StartReturn
  <2>5. Routines'
    BY <1>5 DEF StartReturn
  <2> QED
    BY <2>1, <2>2, <2>3, <2>4, <2>5
<1>6. CASE EnginePairLoad(c)
  BY <1>6 DEF EnginePairLoad
<1>7. CASE EnginePairCheck(c)
  BY <1>7 DEF EnginePairCheck
<1>8. CASE EnginePairSet(c)
  BY <1>8 DEF EnginePairSet
<1>9. CASE PairReturn(c)
  <2>1. FieldsShape'
    BY <1>9 DEF PairReturn
  <2>2. CallersShape'
    BY <1>9 DEF PairReturn
  <2>3. ServerShape'
    BY <1>9 DEF PairReturn
  <2>4. EngineShape'
    BY <1>9 DEF PairReturn
  <2>5. Routines'
    BY <1>9 DEF PairReturn
  <2> QED
    BY <2>1, <2>2, <2>3, <2>4, <2>5
<1>10. CASE StopLoad(c)
  BY <1>10 DEF StopLoad
<1>11. CASE StopSet(c)
  BY <1>11 DEF StopSet
<1>12. CASE StopClose(c)
  BY <1>12 DEF StopClose
<1>13. CASE StopReturn(c)
  BY <1>13 DEF StopReturn
<1> QED
  BY <1>1, <1>2, <1>3, <1>4, <1>5, <1>6, <1>7, <1>8, <1>9, <1>10, <1>11, <1>12, <1>13
     DEF EngineStep

LEMMA BeginShape ==
  ASSUME Shape, Routines, NEW c \in Callers, NEW m \in Ops, EngineBegin(c, m)
  PROVE  Shape' /\ Routines'
<1>1. m \in Methods /\ EngineEntry(m) \in EngineLabels \ Waiting
  BY OpsAssumption DEF EngineEntry, EngineLabels, Waiting
<1>2. EngineEntry(m) \in {"stop", "stop_set", "stop_close", "stop_ret"} => m = "Disconnect"
  BY DEF EngineEntry
<1>3. epc[c] = "idle" /\ pc[c] = "idle"
  BY DEF EngineBegin, EAt, Shape, EngineShape, Routines, CalledFromEngine, Waiting
<1> QED
  BY <1>1, <1>2, <1>3 DEF EngineBegin, EGo, Shape, FieldsShape, CallersShape, ServerShape,
     EngineShape, Routines, CalledFromEngine, Stops, OwnChannel, Phone, fields, wa

LEMMA QRShape ==
  ASSUME Shape, Routines, QRStep, UNCHANGED engineVars
  PROVE  Shape' /\ Routines'
<1> USE DEF Shape, CallersShape, EngineShape, Routines, CalledFromEngine, Stops, OwnChannel,
            Phone, callers, engineVars
<1>1. PICK q \in qrRunning : QRCode(q) \/ QRFails(q) \/ QREnds(q)
  BY DEF QRStep
<1>2. UNCHANGED callers /\ UNCHANGED <<lastQR, handlers>>
  BY <1>1 DEF QRCode, QRFails, QREnds, wa
<1>3. CASE QRCode(q)
  BY <1>2, <1>3 DEF QRCode, wa, FieldsShape, ServerShape
<1>4. CASE QRFails(q)
  <2>1. pairingCode' \in BOOLEAN /\ redial' \in BOOLEAN
    BY <1>4, Zenon DEF QRFails, HangUp
  <2> QED
    BY <1>2, <1>4, <2>1 DEF QRFails, HangUp, FieldsShape, ServerShape, States
<1>5. CASE QREnds(q)
  <2>1. pairingActive' \in BOOLEAN
    BY <1>5, Zenon DEF QREnds
  <2> QED
    BY <1>2, <1>5, <2>1 DEF QREnds, wa, FieldsShape, ServerShape
<1> QED
  BY <1>1, <1>3, <1>4, <1>5

LEMMA EventShape ==
  ASSUME Shape, Routines, handleEvent, UNCHANGED engineVars
  PROVE  Shape' /\ Routines'
<1>1. PICK e \in inflight :
        \/ Connected(e) \/ Disconnected(e) \/ LoggedOut(e) \/ StreamReplaced(e)
        \/ Message(e) \/ PairSuccess(e) \/ PairError(e) \/ KeepAliveTimeout(e)
  BY DEF handleEvent
<1>2. /\ UNCHANGED <<socket, paired, redial, handlers, qrOpen, emitted>>
      /\ UNCHANGED <<disconnectMu, qrCtx, lastQR, qrRunning, callers>>
  BY DEF handleEvent, KeepWA
<1> USE <1>1 DEF Shape, FieldsShape, ServerShape, Connected, Disconnected, LoggedOut,
        StreamReplaced, Message, PairSuccess, PairError, KeepAliveTimeout
<1>3. inflight' \in SUBSET Event
  BY DEF Consume
<1>4. pairingActive' = pairingActive \/ pairingActive' = FALSE
  BY Zenon
<1>5. pairingCode' = pairingCode \/ pairingCode' = FALSE
  BY Zenon
<1>6. autoReconnect' = autoReconnect \/ autoReconnect' = TRUE
  BY Zenon
<1>7. {pairingActive', pairingCode', autoReconnect'} \subseteq BOOLEAN
  BY <1>4, <1>5, <1>6
<1>8. state' \in States /\ currentQR' \in 0 .. lastQR
  BY DEF States
<1> QED
  BY <1>2, <1>3, <1>7, <1>8 DEF CallersShape, EngineShape, Routines, CalledFromEngine,
     Stops, OwnChannel, Phone, callers, engineVars

LEMMA WhatsmeowShape ==
  ASSUME Shape, Routines, Whatsmeow, UNCHANGED engineVars
  PROVE  Shape' /\ Routines'
<1>0. UNCHANGED <<fields, callers>>
  BY DEF Whatsmeow
<1>1. handlers' = handlers /\ qrOpen' \in SUBSET qrOpen
  BY DEF Whatsmeow, WaLogin, WaDrop, WaRedial, WaLoggedOut, WaReplaced, WaPaired,
     WaPairFails, WaKeepAlive, WaMessage, WaQRCancelled
<1>2. ASSUME NEW k \in Kinds, Emit(k)
      PROVE  inflight' \in SUBSET Event /\ emitted' \in 0 .. MaxEvents
  BY <1>2, BoundsAssumption DEF Emit, Event, Shape, ServerShape
<1>3. socket' \in {"down", "open", "auth", "lagging"}
  BY DEF Whatsmeow, WaLogin, WaDrop, WaRedial, WaLoggedOut, WaReplaced, WaPaired,
     WaPairFails, WaKeepAlive, WaMessage, WaQRCancelled, HangUp, Shape, ServerShape
<1>4. inflight' \in SUBSET Event /\ emitted' \in 0 .. MaxEvents
  <2>1. CASE WaRedial \/ WaQRCancelled
    BY <2>1 DEF WaRedial, WaQRCancelled, Shape, ServerShape
  <2>2. CASE ~(WaRedial \/ WaQRCancelled)
    <3>1. \E k \in Kinds : Emit(k)
      BY <2>2 DEF Whatsmeow, WaLogin, WaDrop, WaLoggedOut, WaReplaced, WaPaired,
         WaPairFails, WaKeepAlive, WaMessage, Kinds
    <3> QED
      BY <1>2, <3>1
  <2> QED
    BY <2>1, <2>2
<1>5. {paired', autoReconnect', redial'} \subseteq BOOLEAN
  <2>1. paired' = paired \/ paired' = TRUE \/ paired' = FALSE
    BY Zenon DEF Whatsmeow, WaLogin, WaDrop, WaRedial, WaLoggedOut, WaReplaced, WaPaired,
       WaPairFails, WaKeepAlive, WaMessage, WaQRCancelled
  <2>2. autoReconnect' = autoReconnect
    BY Zenon DEF Whatsmeow, WaLogin, WaDrop, WaRedial, WaLoggedOut, WaReplaced, WaPaired,
       WaPairFails, WaKeepAlive, WaMessage, WaQRCancelled
  <2>3. redial' = redial \/ redial' = FALSE \/ redial' = (autoReconnect /\ paired)
    BY Zenon DEF Whatsmeow, WaLogin, WaDrop, WaRedial, WaLoggedOut, WaReplaced, WaPaired,
       WaPairFails, WaKeepAlive, WaMessage, WaQRCancelled, HangUp
  <2> QED
    BY <2>1, <2>2, <2>3 DEF Shape, ServerShape
<1> QED
  BY <1>0, <1>1, <1>3, <1>4, <1>5 DEF Shape, FieldsShape, CallersShape, ServerShape,
     EngineShape, Routines, CalledFromEngine, Stops, OwnChannel, Phone, fields, callers,
     engineVars

LEMMA ClientStepCounted ==
  ASSUME Shape, Routines, Counted, NEW c \in Callers, ClientStep(c), UNCHANGED engineVars
  PROVE  Counted'
<1> USE DEF Registering, Registers, engineVars
<1>1. pc \in [Callers -> Labels] /\ epc' = epc
  BY DEF Shape, CallersShape
<1>2. CASE ConnectRegister(c) \/ PairBegin(c)
  <2>1. pc[c] \in {"connect_register", "pair_begin"} /\ epc[c] \in Waiting
    BY <1>2 DEF ConnectRegister, PairBegin, At, Routines, CalledFromEngine
  <2>2. \E l \in {"connect_dial", "connect_abort", "pair_dial"} : pc' = [pc EXCEPT ![c] = l]
    BY <1>2 DEF ConnectRegister, PairBegin, Go
  <2>3. handlers' = handlers + 1 /\ calls' = calls
    BY <1>2 DEF ConnectRegister, PairBegin, Register, Go
  <2>4. c \in Registering
    BY <2>1 DEF BeforeRegister
  <2>5. Registering' \subseteq Registering \ {c}
    BY <1>1, <2>1, <2>2 DEF BeforeRegister, BeforeCall, Waiting
  <2> QED
    BY <2>3, <2>4, <2>5, CountRegisters
<1>3. CASE ~(ConnectRegister(c) \/ PairBegin(c))
  <2> USE <1>3 DEF ClientStep, ConnectLoad, ConnectCAS, ConnectDial, ConnectAbort, PairLoad,
          PairCheck, PairSet, PairDial, PairWait, PairPhone, PairAbort, DiscBegin, DiscClear,
          DiscClose, DiscStore, At, Go, Return
  <2>1. UNCHANGED <<calls, handlers>>
    BY DEF wa
  <2>2. \E l : /\ pc' = [pc EXCEPT ![c] = l]
               /\ l \in BeforeRegister => pc[c] \in BeforeRegister
    BY DEF BeforeRegister
  <2>3. Registering' \subseteq Registering
    BY <1>1, <2>2
  <2> QED
    BY <2>1, <2>3, CountKept
<1> QED
  BY <1>2, <1>3

LEMMA EngineStepCounted ==
  ASSUME Shape, Routines, Counted, NEW c \in Callers, EngineStep(c)
  PROVE  Counted'
<1> USE DEF Registering, Registers
<1>1. pc \in [Callers -> Labels] /\ epc \in [Callers -> EngineLabels]
  BY DEF Shape, CallersShape, EngineShape
<1>2. UNCHANGED <<calls, handlers>>
  BY DEF EngineStep, StartLoad, StartCAS, StartCheck, StartFail, StartReturn, EnginePairLoad,
     EnginePairCheck, EnginePairSet, PairReturn, StopLoad, StopSet, StopClose, StopReturn,
     Call, Returned, Go, clientVars, callers, wa
<1>3. CASE StartCheck(c) \/ EnginePairSet(c)
  <2>1. epc[c] \in BeforeCall
    BY <1>3 DEF StartCheck, EnginePairSet, EAt, BeforeCall
  <2>2. \A d \in Callers \ {c} : pc'[d] = pc[d] /\ epc'[d] = epc[d]
    BY <1>1, <1>3 DEF StartCheck, EnginePairSet, Call, EGo, clientVars, callers
  <2>3. Registering' \subseteq Registering
    BY <2>1, <2>2
  <2> QED
    BY <1>2, <2>3, CountKept
<1>4. CASE StopClose(c)
  <2>1. method[c] = "Disconnect"
    BY <1>4 DEF StopClose, EAt, Routines, Stops
  <2>2. pc' = [pc EXCEPT ![c] = "disc"] /\ epc' = [epc EXCEPT ![c] = "stop_ret"]
    BY <1>4, <2>1 DEF StopClose, Call, Entry, EGo
  <2>3. Registering' \subseteq Registering
    BY <1>1, <2>2 DEF BeforeRegister, BeforeCall
  <2> QED
    BY <1>2, <2>3, CountKept
<1>5. CASE ~(StartCheck(c) \/ EnginePairSet(c) \/ StopClose(c))
  <2> USE <1>5 DEF EngineStep, StartLoad, StartCAS, StartFail, StartReturn, EnginePairLoad,
          EnginePairCheck, PairReturn, StopLoad, StopSet, StopReturn, Returned, Go, At, EAt,
          EGo, EReturn, clientVars, callers
  <2>1. pc' = pc \/ pc' = [pc EXCEPT ![c] = "idle"]
    OBVIOUS
  <2>2. \E l : /\ epc' = [epc EXCEPT ![c] = l]
               /\ l \in BeforeCall => epc[c] \in BeforeCall
    BY DEF BeforeCall
  <2>3. Registering' \subseteq Registering
    BY <1>1, <2>1, <2>2 DEF BeforeRegister
  <2> QED
    BY <1>2, <2>3, CountKept
<1> QED
  BY <1>3, <1>4, <1>5

LEMMA StepTyped == Typed /\ [Next]_vars => Typed'
<1> SUFFICES ASSUME Typed, [Next]_vars PROVE Typed'
  OBVIOUS
<1> USE DEF Typed
<1>1. ASSUME NEW c \in Callers, Begins(c) PROVE Typed'
  <2>1. PICK m \in Ops : EngineBegin(c, m)
    BY <1>1 DEF Begins
  <2>2. Registering' \subseteq Registering \cup {c}
    BY <2>1 DEF EngineBegin, EGo, Registering, Registers, Shape, EngineShape
  <2>3. calls < MaxCalls /\ calls' = calls + 1 /\ UNCHANGED handlers
    BY <2>1 DEF EngineBegin, wa
  <2> QED
    BY <2>1, <2>2, <2>3, BeginShape, CountBegins
<1>2. ASSUME NEW c \in Callers, CallerStep(c) PROVE Typed'
  BY <1>2, EngineStepShape, EngineStepCounted, ClientStepShape, ClientStepCounted
     DEF CallerStep
<1>3. CASE Environment
  <2>1. Shape' /\ Routines'
    BY <1>3, QRShape, EventShape, WhatsmeowShape DEF Environment
  <2>2. UNCHANGED <<engineVars, callers, handlers>>
    BY <1>3 DEF Environment, QRStep, QRCode, QRFails, QREnds, handleEvent, KeepWA, Whatsmeow,
       WaLogin, WaDrop, WaRedial, WaLoggedOut, WaReplaced, WaPaired, WaPairFails,
       WaKeepAlive, WaMessage, WaQRCancelled, wa
  <2>3. Registering' \subseteq Registering /\ calls' = calls
    BY <2>2 DEF Registering, Registers, engineVars, callers
  <2> QED
    BY <2>1, <2>2, <2>3, CountKept
<1>4. CASE UNCHANGED vars
  BY <1>4 DEF vars, clientVars, callers, fields, wa, engineVars, Shape, FieldsShape,
     CallersShape, ServerShape, EngineShape, Routines, CalledFromEngine, Stops, OwnChannel,
     Phone, Counted, Registering, Registers
<1> QED
  BY <1>1, <1>2, <1>3, <1>4 DEF Next

(* The variables of engine and client keep their types, the counters of    *)
(* handlers and QR contexts included: however many calls overlap, a call   *)
(* registers at most one handler (client.go:121, 147, 196).                *)
THEOREM TypeCorrect == Spec => []TypeOK
<1>1. Spec => []Typed
  BY InitTyped, StepTyped, PTL DEF Spec
<1> QED
  BY <1>1, TypedIsTypeOK, PTL

-----------------------------------------------------------------------------
(* One goroutine at a time uses the engine and each event is handled       *)
(* before anything else happens (SerialSpec): what the status says is then *)
(* what the connection is.                                                 *)

(* A serial step is a step, so all that has been proved holds.             *)
Known == Lifecycle /\ Wiring /\ Progress /\ Typed

LEMMA SerialIsNext == [SerialNext]_vars => [Next]_vars
  BY DEF SerialNext, SerialStep, Next, Environment

LEMMA SerialKnown == SerialSpec => []Known
<1>1. Init => Known
  BY InitLifecycle, InitWiring, InitProgress, InitTyped DEF Known
<1>2. Known /\ [SerialNext]_vars => Known'
  BY SerialIsNext, StepLifecycle, StepWiring, StepProgress, StepTyped DEF Known
<1> QED
  BY <1>1, <1>2, PTL DEF SerialSpec

-----------------------------------------------------------------------------
(* "connected" is said of a device that is paired, and the socket is there *)
(* or dialled again, unless an event or a caller is about to correct it.   *)
Openings == {"connected", "keepalive_restored", "pair_success"}

EventsAreCurrent ==
    \A e \in inflight :
        /\ e.kind \in Openings => paired /\ socket # "down"
        /\ e.kind = "keepalive_timeout" => paired

LoginIsPaired == socket \in {"auth", "lagging"} => paired

ConnectedIsPaired ==
    state = "connected" /\ ~paired => \E e \in inflight : e.kind = "logged_out"

ConnectedIsWatched ==
    state = "connected" /\ paired /\ socket = "down" /\ ~redial =>
        \/ \E e \in inflight : e.kind \in {"logged_out", "stream_replaced"}
        \/ \E c \in Callers : pc[c] = "disc_store" \/ (pc[c] \in PhonePairing /\ Phone(c))

Truthful == EventsAreCurrent /\ LoginIsPaired /\ ConnectedIsPaired /\ ConnectedIsWatched

LEMMA InitTruthful == Init => Truthful
  BY DEF Init, ClientInit, Truthful, EventsAreCurrent, LoginIsPaired, ConnectedIsPaired,
     ConnectedIsWatched

LEMMA ClientStepTruthful ==
  ASSUME Known, Truthful, NEW c \in Callers, ClientStep(c), inflight = {}
  PROVE  Truthful'
<1> USE DEF Truthful, EventsAreCurrent, LoginIsPaired, ConnectedIsPaired,
            ConnectedIsWatched, PhonePairing, Phone, At, Go, Return, fields, wa
<1>0. pc \in [Callers -> Labels]
  BY DEF Known, Wiring, WiringType
<1>1. CASE ConnectLoad(c)
  BY <1>0, <1>1 DEF ConnectLoad
<1>2. CASE ConnectCAS(c)
  BY <1>0, <1>2 DEF ConnectCAS
<1>3. CASE ConnectRegister(c)
  BY <1>0, <1>3 DEF ConnectRegister, Register
<1>4. CASE ConnectDial(c)
  BY <1>0, <1>4 DEF ConnectDial, DialOK
<1>5. CASE ConnectAbort(c)
  BY <1>0, <1>5 DEF ConnectAbort
<1>6. CASE PairLoad(c)
  BY <1>0, <1>6 DEF PairLoad
<1>7. CASE PairCheck(c)
  BY <1>0, <1>7 DEF PairCheck
<1>8. CASE PairSet(c)
  BY <1>0, <1>8 DEF PairSet
<1>9. CASE PairBegin(c)
  BY <1>0, <1>9 DEF PairBegin, Register
<1>10. CASE PairDial(c)
  BY <1>0, <1>10 DEF PairDial, DialOK
<1>11. CASE PairWait(c)
  BY <1>0, <1>11 DEF PairWait
<1>12. CASE PairPhone(c)
  BY <1>0, <1>12 DEF PairPhone
<1>13. CASE PairAbort(c)
  BY <1>0, <1>13 DEF PairAbort
<1>14. CASE DiscBegin(c)
  BY <1>0, <1>14 DEF DiscBegin
<1>15. CASE DiscClear(c)
  BY <1>0, <1>15 DEF DiscClear
<1>16. CASE DiscClose(c)
  BY <1>0, <1>16 DEF DiscClose, HangUp
<1>17. CASE DiscStore(c)
  BY <1>0, <1>17 DEF DiscStore
<1> QED
  BY <1>1, <1>2, <1>3, <1>4, <1>5, <1>6, <1>7, <1>8, <1>9, <1>10, <1>11, <1>12, <1>13,
     <1>14, <1>15, <1>16, <1>17 DEF ClientStep

LEMMA EngineStepTruthful ==
  ASSUME Known, Truthful, NEW c \in Callers,
         EngineStep(c) \/ \E m \in Ops : EngineBegin(c, m)
  PROVE  Truthful'
  BY EngineKeepsClient DEF Known, Truthful, EventsAreCurrent, LoginIsPaired,
     ConnectedIsPaired, ConnectedIsWatched, PhonePairing, Phone, fields, wa

LEMMA QRTruthful ==
  ASSUME Known, Truthful, QRStep
  PROVE  Truthful'
<1> USE DEF Truthful, EventsAreCurrent, LoginIsPaired, ConnectedIsPaired,
            ConnectedIsWatched, Phone, callers
<1>1. PICK q \in qrRunning : QRCode(q) \/ QRFails(q) \/ QREnds(q)
  BY DEF QRStep
<1>2. CASE QRCode(q) \/ QREnds(q)
  BY <1>2 DEF QRCode, QREnds, wa
<1>3. CASE QRFails(q)
  <2>1. ~paired
    BY <1>3 DEF QRFails, Known, Progress, PairedHasNoQR
  <2> QED
    BY <1>3, <2>1 DEF QRFails, HangUp
<1> QED
  BY <1>1, <1>2, <1>3

LEMMA EventTruthful ==
  ASSUME Known, Truthful, handleEvent
  PROVE  Truthful'
<1> USE DEF Truthful, EventsAreCurrent, LoginIsPaired, ConnectedIsPaired,
            ConnectedIsWatched, Phone, callers, Consume
<1>1. PICK e \in inflight :
        \/ Connected(e) \/ Disconnected(e) \/ LoggedOut(e) \/ StreamReplaced(e)
        \/ Message(e) \/ PairSuccess(e) \/ PairError(e) \/ KeepAliveTimeout(e)
  BY DEF handleEvent
<1>2. UNCHANGED <<callers, socket, paired, redial>>
  BY DEF handleEvent, KeepWA
<1>3. inflight' = inflight \ {e}
  BY <1>1 DEF Connected, Disconnected, LoggedOut, StreamReplaced, Message, PairSuccess,
     PairError, KeepAliveTimeout
<1>4. CASE Disconnected(e) \/ Message(e)
  BY <1>2, <1>3, <1>4 DEF Disconnected, Message
<1>5. CASE Connected(e) \/ PairSuccess(e)
  BY <1>2, <1>3, <1>5 DEF Connected, PairSuccess, Openings
<1>6. CASE LoggedOut(e) \/ StreamReplaced(e) \/ PairError(e) \/ KeepAliveTimeout(e)
  BY <1>2, <1>3, <1>6 DEF LoggedOut, StreamReplaced, PairError, KeepAliveTimeout
<1> QED
  BY <1>1, <1>4, <1>5, <1>6

(* The one event in flight, after a step of whatsmeow that emits it.       *)
LEMMA EmitsOne ==
  ASSUME NEW k, Emit(k), inflight = {}
  PROVE  \E e : inflight' = {e} /\ e.kind = k
<1> DEFINE e == [kind |-> k, n |-> emitted + 1, to |-> handlers]
<1>1. inflight' = {e} /\ e.kind = k
  BY DEF Emit
<1> HIDE DEF e
<1> QED
  BY <1>1

LEMMA WhatsmeowTruthful ==
  ASSUME Known, Truthful, Whatsmeow, inflight = {}
  PROVE  Truthful'
<1> USE EmitsOne DEF Truthful, EventsAreCurrent, LoginIsPaired, ConnectedIsPaired,
            ConnectedIsWatched, Phone, Openings, fields, callers
<1>0. UNCHANGED <<fields, callers>>
  BY DEF Whatsmeow
<1>1. CASE WaLogin \/ WaKeepAlive \/ WaMessage
  BY <1>0, <1>1 DEF WaLogin, WaKeepAlive, WaMessage
<1>2. CASE WaDrop
  <2>1. PICK e : inflight' = {e} /\ e.kind = "disconnected"
    BY <1>2 DEF WaDrop
  <2>2. EventsAreCurrent' /\ LoginIsPaired'
    BY <1>2, <2>1 DEF WaDrop
  <2>3. state' = "connected" => paired'
    BY <1>0, <1>2 DEF WaDrop
  <2>4. autoReconnect \/ ~paired \/ \E c \in Callers : pc[c] \in PhonePairing /\ Phone(c)
    BY DEF Known, Wiring, ReconnectRestored
  <2>5. redial' <=> autoReconnect /\ paired
    BY <1>2, Zenon DEF WaDrop
  <2>6. (\E c \in Callers : pc[c] \in PhonePairing /\ Phone(c))
          => \E c \in Callers : pc'[c] \in PhonePairing /\ Phone(c)'
    BY <1>0, Zenon
  <2>7. ConnectedIsWatched'
    <3>1. paired' <=> paired
      BY <1>2, Zenon DEF WaDrop
    <3> QED
      BY <2>4, <2>5, <2>6, <3>1
  <2> QED
    BY <2>2, <2>3, <2>7
<1>3. CASE WaRedial
  BY <1>0, <1>3 DEF WaRedial
<1>4. CASE WaLoggedOut
  BY <1>0, <1>4 DEF WaLoggedOut
<1>5. CASE WaReplaced
  BY <1>0, <1>5 DEF WaReplaced
<1>6. CASE WaPaired
  BY <1>0, <1>6 DEF WaPaired
<1>7. CASE WaPairFails
  BY <1>0, <1>7 DEF WaPairFails
<1>8. CASE WaQRCancelled
  <2>1. ~paired
    BY <1>8 DEF WaQRCancelled, Known, Progress, PairedHasNoQR
  <2> QED
    BY <1>0, <1>8, <2>1 DEF WaQRCancelled, HangUp
<1> QED
  BY <1>1, <1>2, <1>3, <1>4, <1>5, <1>6, <1>7, <1>8 DEF Whatsmeow

LEMMA StepTruthful == Known /\ Truthful /\ [SerialNext]_vars => Truthful'
<1> SUFFICES ASSUME Known, Truthful, [SerialNext]_vars PROVE Truthful'
  OBVIOUS
<1>1. ASSUME NEW c \in Callers, SerialStep(c), inflight = {} PROVE Truthful'
  BY <1>1, EngineStepTruthful, ClientStepTruthful DEF SerialStep, Begins, CallerStep
<1>2. CASE QRStep \/ handleEvent
  BY <1>2, QRTruthful, EventTruthful
<1>3. CASE inflight = {} /\ Whatsmeow
  BY <1>3, WhatsmeowTruthful
<1>4. CASE UNCHANGED vars
  BY <1>4 DEF vars, clientVars, callers, fields, wa, Truthful, EventsAreCurrent,
     LoginIsPaired, ConnectedIsPaired, ConnectedIsWatched, Phone
<1> QED
  BY <1>1, <1>2, <1>3, <1>4 DEF SerialNext

(* Used by one goroutine at a time, a client never goes on saying that it  *)
(* is connected when it is not: each way to lose the socket has an event   *)
(* that corrects the state or a redial (client.go:79-82, 371-464).         *)
THEOREM ConnectedAlwaysReal == SerialSpec => []ConnectedIsReal
<1>1. SerialSpec => []Truthful
  BY InitTruthful, StepTruthful, SerialKnown, PTL DEF SerialSpec
<1>2. Known /\ Truthful => ConnectedIsReal
  <2> SUFFICES ASSUME Known, Truthful, Quiet, state = "connected"
               PROVE  socket # "down" \/ redial
    BY DEF ConnectedIsReal
  <2>1. \A c \in Callers : pc[c] = "idle"
    BY DEF Quiet, EngineIdle, EAt, Known, Wiring, CalledFromEngine, Waiting
  <2>2. inflight = {}
    BY DEF Quiet
  <2> QED
    BY <2>1, <2>2 DEF Truthful, ConnectedIsPaired, ConnectedIsWatched, PhonePairing
<1> QED
  BY <1>1, <1>2, SerialKnown, PTL

-----------------------------------------------------------------------------
(* A stopped engine is closed, as long as nobody pairs by phone: a phone   *)
(* pairing that fails leaves its socket open and only resets the state     *)
(* (client.go:224).  The inductive invariant says, label by label, what    *)
(* the one caller that is on its way may rely on ...                       *)
Dormant == socket = "down" /\ ~redial

Opening == {"connect", "connect_cas", "connect_register", "connect_dial", "connect_abort",
            "pair", "pair_check", "pair_set", "pair_begin", "pair_dial", "pair_abort"}

(* ... of the engine's state, which it has stored itself,                  *)
Holds(c) ==
    /\ epc[c] \in {"pair_check", "pair_set"} => engState = "stopped"
    /\ epc[c] \in {"start_check", "start_ret", "start_fail"} => engState = "starting"
    /\ epc[c] = "pair_ret" => engState = "pairing"
    /\ epc[c] \in {"stop_close", "stop_ret"} => engState = "stopping"
    /\ epc[c] = "stop_ret" => pc[c] \notin Opening

(* of the connection, which is down while it opens one and when it has     *)
(* failed to, or has closed it,                                            *)
Down(c) ==
    \/ epc[c] \in {"start_check", "start_fail"}
    \/ pc[c] \in Opening \cup {"disc_store"}
    \/ epc[c] \in {"start_ret", "pair_ret"} /\ pc[c] = "done" /\ res[c] = "err"
    \/ epc[c] = "stop_ret" /\ pc[c] = "done"

(* and of the client's state.                                              *)
Stored(c) ==
    /\ pc[c] = "connect_cas" => seen[c] # "pairing"
    /\ pc[c] \in {"connect_register", "connect_dial", "connect_abort"} =>
          state = "connecting" /\ inflight = {}
    /\ pc[c] \in {"pair_check", "pair_set"} => state # "pairing"
    /\ pc[c] \in {"pair_begin", "pair_dial", "pair_abort"} =>
          state = "pairing" /\ inflight = {} /\ qrCtx \notin qrOpen
    /\ pc[c] \in {"disc_close", "disc_store"} => qrCtx = 0

Sound(c) == Holds(c) /\ (Down(c) => Dormant) /\ Stored(c)

NoPhone == \A c \in Callers : ~Phone(c) /\ pc[c] \notin {"pair_wait", "pair_phone"}

OneAtATime == \A c, d \in Callers : c # d => epc[c] = "idle" \/ epc[d] = "idle"

(* The QR channel that is not cancelled belongs to the pairing that is on. *)
CurrentPairs == qrCtx \in qrOpen => state = "pairing"

(* An event that resets the state has nothing left to close.               *)
ClosingIsClosed ==
    \A e \in inflight :
        /\ e.kind \in {"logged_out", "stream_replaced", "pair_error"} => Dormant
        /\ e.kind \notin {"disconnected", "message"} => qrOpen = {}

RestClosed ==
    /\ engState = "stopped" => Dormant
    /\ state = "disconnected" => Dormant
    /\ redial => socket = "down"

Tidy == CurrentPairs /\ ClosingIsClosed /\ RestClosed

Closed == NoPhone /\ OneAtATime /\ (\A c \in Callers : Sound(c)) /\ Tidy

LEMMA InitClosed == Init => Closed
  BY DEF Init, ClientInit, Closed, NoPhone, OneAtATime, Sound, Holds, Down, Stored, Tidy,
     CurrentPairs, ClosingIsClosed, RestClosed, Dormant, Opening, Phone

(* While one caller is on its way the others wait, and nothing is asked of *)
(* them.                                                                   *)
LEMMA OthersWait ==
  ASSUME Known, NEW c \in Callers, SerialStep(c)
  PROVE  /\ \A d \in Callers \ {c} : epc'[d] = "idle" /\ pc'[d] = "idle"
                                      /\ method'[d] = method[d]
         /\ OneAtATime'
<1>0. /\ epc \in [Callers -> EngineLabels] /\ pc \in [Callers -> Labels]
      /\ method \in [Callers -> Methods]
  BY DEF Known, Wiring, WiringType
<1>1. \A d \in Callers \ {c} : epc[d] = "idle" /\ pc[d] = "idle"
  BY DEF SerialStep, EAt, Known, Wiring, CalledFromEngine, Waiting
<1>2. \A d \in Callers \ {c} : epc'[d] = epc[d]
  <2>1. ASSUME Begins(c) PROVE \A d \in Callers \ {c} : epc'[d] = epc[d]
    BY <1>0, <2>1 DEF Begins, EngineBegin, EGo
  <2>2. ASSUME EngineStep(c) PROVE \A d \in Callers \ {c} : epc'[d] = epc[d]
    BY <1>0, <2>2 DEF EngineStep, EGo, EReturn, StartLoad, StartCAS, StartCheck, StartFail,
       StartReturn, EnginePairLoad, EnginePairCheck, EnginePairSet, PairReturn, StopLoad,
       StopSet, StopClose, StopReturn
  <2>3. ASSUME UNCHANGED engineVars PROVE \A d \in Callers \ {c} : epc'[d] = epc[d]
    BY <2>3 DEF engineVars
  <2> QED
    BY <2>1, <2>2, <2>3 DEF SerialStep, CallerStep
<1>3. \A d \in Callers \ {c} : pc'[d] = pc[d] /\ method'[d] = method[d]
  <2>1. ASSUME Begins(c) PROVE \A d \in Callers \ {c} : pc'[d] = pc[d] /\ method'[d] = method[d]
    BY <1>0, <2>1 DEF Begins, EngineBegin
  <2>2. ASSUME EngineStep(c)
        PROVE \A d \in Callers \ {c} : pc'[d] = pc[d] /\ method'[d] = method[d]
    BY <1>0, <2>2 DEF EngineStep, Call, Returned, Go, clientVars, callers, StartLoad,
       StartCAS, StartCheck, StartFail, StartReturn, EnginePairLoad, EnginePairCheck,
       EnginePairSet, PairReturn, StopLoad, StopSet, StopClose, StopReturn
  <2>3. ASSUME ClientStep(c)
        PROVE \A d \in Callers \ {c} : pc'[d] = pc[d] /\ method'[d] = method[d]
    BY <1>0, <2>3 DEF ClientStep, Go, Return, ConnectLoad, ConnectCAS, ConnectRegister,
       ConnectDial, ConnectAbort, PairLoad, PairCheck, PairSet, PairBegin, PairDial,
       PairWait, PairPhone, PairAbort, DiscBegin, DiscClear, DiscClose, DiscStore
  <2> QED
    BY <2>1, <2>2, <2>3 DEF SerialStep, CallerStep
<1> QED
  BY <1>1, <1>2, <1>3 DEF OneAtATime

LEMMA WaitingIsSound ==
  ASSUME NEW c, epc[c] = "idle", pc[c] = "idle"
  PROVE  Sound(c)
  BY DEF Sound, Holds, Down, Stored, Opening

LEMMA ClientStepClosed ==
  ASSUME Known, Closed, NEW c \in Callers, ClientStep(c), UNCHANGED engineVars,
         inflight = {}
  PROVE  Sound(c)' /\ Tidy' /\ ~Phone(c)' /\ pc'[c] \notin {"pair_wait", "pair_phone"}
<1> USE DEF Sound, Holds, Down, Stored, Tidy, CurrentPairs, ClosingIsClosed,
            RestClosed, Dormant, Opening, Phone, At, Go, Return, fields, wa, engineVars
<1>0. /\ pc \in [Callers -> Labels] /\ res \in [Callers -> {"ok", "err"}]
      /\ seen \in [Callers -> States]
      /\ method[c] # "StartPhonePairing" /\ pc[c] \notin {"pair_wait", "pair_phone"}
  BY DEF Known, Typed, Shape, CallersShape, Closed, NoPhone
<1>1. Sound(c) /\ Tidy
  BY DEF Closed
<1>2. lastQR \in Nat /\ qrCtx \in 0 .. lastQR /\ qrOpen \subseteq 1 .. lastQR
  BY DEF Known, Typed, Shape, FieldsShape
<1>3. pc[c] # "idle" => epc[c] \in {"start_ret", "pair_ret", "stop_ret"}
  BY DEF Known, Wiring, CalledFromEngine, Waiting
<1>4. CASE ConnectLoad(c)
  BY <1>0, <1>1, <1>4 DEF ConnectLoad
<1>5. CASE ConnectCAS(c)
  BY <1>0, <1>1, <1>5 DEF ConnectCAS
<1>6. CASE ConnectRegister(c)
  BY <1>0, <1>1, <1>6 DEF ConnectRegister, Register
<1>7. CASE ConnectDial(c)
  BY <1>0, <1>1, <1>3, <1>7 DEF ConnectDial, DialOK
<1>8. CASE ConnectAbort(c)
  BY <1>0, <1>1, <1>8 DEF ConnectAbort
<1>9. CASE PairLoad(c)
  BY <1>0, <1>1, <1>9 DEF PairLoad
<1>10. CASE PairCheck(c)
  BY <1>0, <1>1, <1>10 DEF PairCheck
<1>11. CASE PairSet(c)
  BY <1>0, <1>1, <1>11 DEF PairSet
<1>12. CASE PairBegin(c)
  BY <1>0, <1>1, <1>2, <1>12 DEF PairBegin, Register
<1>13. CASE PairDial(c)
  BY <1>0, <1>1, <1>3, <1>13 DEF PairDial, DialOK
<1>14. CASE PairAbort(c)
  BY <1>0, <1>1, <1>14 DEF PairAbort
<1>15. CASE DiscBegin(c)
  BY <1>0, <1>1, <1>15 DEF DiscBegin
<1>16. CASE DiscClear(c)
  BY <1>0, <1>1, <1>2, <1>16 DEF DiscClear
<1>17. CASE DiscClose(c)
  BY <1>0, <1>1, <1>17 DEF DiscClose, HangUp
<1>18. CASE DiscStore(c)
  BY <1>0, <1>1, <1>2, <1>18 DEF DiscStore
<1>19. ~PairWait(c) /\ ~PairPhone(c)
  BY <1>0 DEF PairWait, PairPhone
<1> QED
  BY <1>4, <1>5, <1>6, <1>7, <1>8, <1>9, <1>10, <1>11, <1>12, <1>13, <1>14, <1>15, <1>16,
     <1>17, <1>18, <1>19 DEF ClientStep

LEMMA EngineStepClosed ==
  ASSUME Known, Closed, NEW c \in Callers, EngineStep(c),
         \A d \in Callers \ {c} : epc[d] = "idle"
  PROVE  Sound(c)' /\ Tidy' /\ ~Phone(c)' /\ pc'[c] \notin {"pair_wait", "pair_phone"}
<1> USE DEF Sound, Holds, Down, Stored, Tidy, CurrentPairs, ClosingIsClosed, RestClosed,
            Dormant, Opening, Phone, EAt, EGo, EReturn, At, Go, Call, Entry, Returned,
            clientVars, fields, wa, callers
<1>0. /\ pc \in [Callers -> Labels] /\ epc \in [Callers -> EngineLabels]
      /\ eseen \in [Callers -> EngineStates] /\ engState \in EngineStates
      /\ method[c] \in {"Connect", "StartPairing", "Disconnect"}
      /\ pc[c] \notin {"pair_wait", "pair_phone"}
  BY DEF Known, Typed, Shape, CallersShape, EngineShape, Closed, NoPhone, Methods
<1>1. Sound(c) /\ Tidy
  BY DEF Closed
<1>2. epc[c] \notin Waiting => pc[c] = "idle"
  BY DEF Known, Wiring, CalledFromEngine
<1>3. epc[c] \notin Owing => engState \notin {"starting", "stopping"}
  BY DEF Known, Lifecycle, TransientIsOwned, Owing
<1>4. epc[c] = "start_cas" => eseen[c] \in {"stopped", "stopping"}
  BY DEF Known, Lifecycle, SwapsFromRest
<1>5. epc[c] = "stop_close" => method[c] = "Disconnect"
  BY DEF Known, Typed, Routines, Stops
<1>6. CASE StartLoad(c)
  BY <1>0, <1>1, <1>2, <1>6 DEF StartLoad, Waiting
<1>7. CASE StartCAS(c)
  BY <1>0, <1>1, <1>2, <1>3, <1>4, <1>7 DEF StartCAS, Waiting, Owing
<1>8. CASE StartCheck(c)
  BY <1>0, <1>1, <1>2, <1>8 DEF StartCheck, Waiting
<1>9. CASE StartFail(c)
  BY <1>0, <1>1, <1>2, <1>9 DEF StartFail, Waiting
<1>10. CASE StartReturn(c)
  BY <1>0, <1>1, <1>10 DEF StartReturn
<1>11. CASE EnginePairLoad(c)
  BY <1>0, <1>1, <1>2, <1>3, <1>11 DEF EnginePairLoad, Waiting, Owing, EngineStates
<1>12. CASE EnginePairCheck(c)
  BY <1>0, <1>1, <1>2, <1>12 DEF EnginePairCheck, Waiting
<1>13. CASE EnginePairSet(c)
  BY <1>0, <1>1, <1>2, <1>13 DEF EnginePairSet, Waiting
<1>14. CASE PairReturn(c)
  BY <1>0, <1>1, <1>14 DEF PairReturn
<1>15. CASE StopLoad(c)
  BY <1>0, <1>1, <1>2, <1>15 DEF StopLoad, Waiting
<1>16. CASE StopSet(c)
  BY <1>0, <1>1, <1>2, <1>16 DEF StopSet, Waiting
<1>17. CASE StopClose(c)
  BY <1>0, <1>1, <1>2, <1>5, <1>17 DEF StopClose, Waiting
<1>18. CASE StopReturn(c)
  BY <1>0, <1>1, <1>18 DEF StopReturn
<1> QED
  BY <1>6, <1>7, <1>8, <1>9, <1>10, <1>11, <1>12, <1>13, <1>14, <1>15, <1>16, <1>17, <1>18
     DEF EngineStep

LEMMA BeginClosed ==
  ASSUME "StartPhonePairing" \notin Ops, Known, Closed, NEW c \in Callers, Begins(c)
  PROVE  Sound(c)' /\ Tidy' /\ ~Phone(c)' /\ pc'[c] \notin {"pair_wait", "pair_phone"}
<1>1. PICK m \in Ops : EngineBegin(c, m)
  BY DEF Begins
<1>2. EngineEntry(m) \in {"start", "stop", "pair"}
  BY EntryIsLabel
<1>3. /\ pc[c] = "idle" /\ UNCHANGED <<pc, fields, wa, engState>>
      /\ epc'[c] = EngineEntry(m) /\ method'[c] = m
  BY <1>1 DEF EngineBegin, EGo, EAt, Known, Wiring, WiringType, CalledFromEngine, Waiting
<1>4. Sound(c)'
  BY <1>2, <1>3 DEF Sound, Holds, Down, Stored, Opening
<1>5. Tidy'
  BY <1>3 DEF Closed, Tidy, CurrentPairs, ClosingIsClosed, RestClosed, Dormant, fields, wa
<1> QED
  BY <1>3, <1>4, <1>5 DEF Phone

LEMMA SerialStepClosed ==
  ASSUME "StartPhonePairing" \notin Ops, Known, Closed, NEW c \in Callers, SerialStep(c),
         inflight = {}
  PROVE  Closed'
<1>1. Sound(c)' /\ Tidy' /\ ~Phone(c)' /\ pc'[c] \notin {"pair_wait", "pair_phone"}
  BY BeginClosed, EngineStepClosed, ClientStepClosed DEF SerialStep, CallerStep, EAt
<1>2. \A d \in Callers \ {c} : Sound(d)'
  BY OthersWait DEF Sound, Holds, Down, Stored, Opening
<1>3. NoPhone'
  BY <1>1, OthersWait DEF Closed, NoPhone, Phone
<1> QED
  BY <1>1, <1>2, <1>3, OthersWait DEF Closed

(* A step of the environment leaves the callers where they are, and the    *)
(* engine's state alone.                                                   *)
Untouched == UNCHANGED <<callers, engineVars>>

LEMMA StaysClosed ==
  ASSUME Closed, Untouched, \A c \in Callers : Stored(c)', Dormant => Dormant', Tidy'
  PROVE  Closed'
<1>1. NoPhone' /\ OneAtATime'
  BY DEF Closed, Untouched, NoPhone, OneAtATime, Phone, callers, engineVars
<1>2. ASSUME NEW c \in Callers PROVE Sound(c)'
  BY <1>2 DEF Closed, Untouched, Sound, Holds, Down, callers, engineVars
<1> QED
  BY <1>1, <1>2 DEF Closed

LEMMA QRClosed ==
  ASSUME Known, Closed, QRStep, UNCHANGED engineVars
  PROVE  Closed'
<1> USE DEF Stored, Tidy, CurrentPairs, ClosingIsClosed, RestClosed, Dormant, callers,
            engineVars, Untouched
<1>0. (\A c \in Callers : Stored(c)) /\ Tidy
  BY DEF Closed, Sound
<1>1. PICK q \in qrRunning : QRCode(q) \/ QRFails(q) \/ QREnds(q)
  BY DEF QRStep
<1>2. CASE QRCode(q) \/ QREnds(q)
  BY <1>0, <1>2, StaysClosed DEF QRCode, QREnds, wa
<1>3. CASE QRFails(q)
  <2>1. qrCtx \in qrOpen /\ qrCtx # 0
    BY <1>3 DEF QRFails, Known, Typed, Shape, FieldsShape
  <2>2. \A c \in Callers : Stored(c)'
    BY <1>0, <1>3, <2>1 DEF QRFails
  <2>3. Tidy' /\ Dormant'
    BY <1>0, <1>3 DEF QRFails, HangUp
  <2> QED
    BY <1>3, <2>2, <2>3, StaysClosed DEF QRFails
<1> QED
  BY <1>1, <1>2, <1>3

LEMMA EventClosed ==
  ASSUME Known, Closed, handleEvent, UNCHANGED engineVars
  PROVE  Closed'
<1> USE DEF Stored, Tidy, CurrentPairs, ClosingIsClosed, RestClosed, Dormant, callers,
            engineVars, Untouched, Consume
<1>0. (\A c \in Callers : Stored(c)) /\ Tidy
  BY DEF Closed, Sound
<1>1. PICK e \in inflight :
        \/ Connected(e) \/ Disconnected(e) \/ LoggedOut(e) \/ StreamReplaced(e)
        \/ Message(e) \/ PairSuccess(e) \/ PairError(e) \/ KeepAliveTimeout(e)
  BY DEF handleEvent
<1>2. UNCHANGED <<callers, qrCtx, socket, redial, qrOpen>>
  BY DEF handleEvent, KeepWA
<1>3. inflight' = inflight \ {e}
  BY <1>1 DEF Connected, Disconnected, LoggedOut, StreamReplaced, Message, PairSuccess,
     PairError, KeepAliveTimeout
<1>4. state' # "pairing" \/ UNCHANGED state
  BY <1>1 DEF Connected, Disconnected, LoggedOut, StreamReplaced, Message, PairSuccess,
     PairError, KeepAliveTimeout
<1>5. \A c \in Callers : Stored(c)'
  BY <1>0, <1>2, <1>3, <1>4
<1>6. Tidy'
  <2>1. CASE Disconnected(e) \/ Message(e)
    BY <1>0, <1>2, <1>3, <2>1 DEF Disconnected, Message
  <2>2. CASE Connected(e) \/ PairSuccess(e) \/ KeepAliveTimeout(e)
    BY <1>0, <1>2, <1>3, <2>2 DEF Connected, PairSuccess, KeepAliveTimeout
  <2>3. CASE LoggedOut(e) \/ StreamReplaced(e) \/ PairError(e)
    BY <1>0, <1>2, <1>3, <2>3 DEF LoggedOut, StreamReplaced, PairError
  <2> QED
    BY <1>1, <2>1, <2>2, <2>3
<1> QED
  BY <1>2, <1>5, <1>6, StaysClosed

LEMMA WhatsmeowClosed ==
  ASSUME Known, Truthful, Closed, Whatsmeow, UNCHANGED engineVars, inflight = {}
  PROVE  Closed'
<1> USE EmitsOne DEF Stored, Tidy, CurrentPairs, ClosingIsClosed, RestClosed, Dormant,
            fields, callers, engineVars, Untouched
<1>0. (\A c \in Callers : Stored(c)) /\ Tidy /\ UNCHANGED <<fields, callers>>
  BY DEF Closed, Sound, Whatsmeow
<1>1. /\ paired => qrOpen = {}
      /\ socket \in {"auth", "lagging"} => paired
  BY DEF Known, Progress, PairedHasNoQR, Truthful, LoginIsPaired
<1>2. \A c \in Callers :
        pc[c] \in {"connect_register", "connect_dial", "connect_abort",
                   "pair_begin", "pair_dial", "pair_abort"} => Dormant
  BY DEF Closed, Sound, Down, Opening
<1>3. CASE WaLogin
  BY <1>0, <1>1, <1>2, <1>3, StaysClosed DEF WaLogin
<1>4. CASE WaDrop
  BY <1>0, <1>1, <1>2, <1>4, StaysClosed DEF WaDrop
<1>5. CASE WaRedial
  BY <1>0, <1>1, <1>2, <1>5, StaysClosed DEF WaRedial
<1>6. CASE WaLoggedOut
  BY <1>0, <1>1, <1>2, <1>6, StaysClosed DEF WaLoggedOut
<1>7. CASE WaReplaced
  BY <1>0, <1>1, <1>2, <1>7, StaysClosed DEF WaReplaced
<1>8. CASE WaPaired
  BY <1>0, <1>1, <1>2, <1>8, StaysClosed DEF WaPaired
<1>9. CASE WaPairFails
  BY <1>0, <1>1, <1>2, <1>9, StaysClosed DEF WaPairFails
<1>10. CASE WaKeepAlive
  BY <1>0, <1>1, <1>2, <1>10, StaysClosed DEF WaKeepAlive
<1>11. CASE WaMessage
  BY <1>0, <1>1, <1>2, <1>11, StaysClosed DEF WaMessage
<1>12. CASE WaQRCancelled
  BY <1>0, <1>1, <1>2, <1>12, StaysClosed DEF WaQRCancelled, HangUp
<1> QED
  BY <1>3, <1>4, <1>5, <1>6, <1>7, <1>8, <1>9, <1>10, <1>11, <1>12 DEF Whatsmeow

LEMMA StepClosed ==
  ASSUME "StartPhonePairing" \notin Ops
  PROVE  Known /\ Truthful /\ Closed /\ [SerialNext]_vars => Closed'
<1> SUFFICES ASSUME Known, Truthful, Closed, [SerialNext]_vars PROVE Closed'
  OBVIOUS
<1>1. ASSUME NEW c \in Callers, SerialStep(c), inflight = {} PROVE Closed'
  BY <1>1, SerialStepClosed
<1>2. CASE (QRStep \/ handleEvent) /\ UNCHANGED engineVars
  BY <1>2, QRClosed, EventClosed
<1>3. CASE inflight = {} /\ Whatsmeow /\ UNCHANGED engineVars
  BY <1>3, WhatsmeowClosed
<1>4. CASE UNCHANGED vars
  <2>1. UNCHANGED <<callers, engineVars, fields, wa>>
    BY <1>4 DEF vars, clientVars
  <2>2. \A c \in Callers : Stored(c)'
    BY <2>1 DEF Closed, Sound, Stored, callers, fields, wa
  <2>3. Tidy' /\ (Dormant => Dormant')
    BY <2>1 DEF Closed, Tidy, CurrentPairs, ClosingIsClosed, RestClosed, Dormant, engineVars,
       fields, wa
  <2> QED
    BY <2>1, <2>2, <2>3, StaysClosed DEF Untouched
<1> QED
  BY <1>1, <1>2, <1>3, <1>4 DEF SerialNext

(* "Stop closes the WhatsApp connection gracefully" (engine.go:188-204):   *)
(* used by one goroutine at a time, an engine that is stopped has no       *)
(* socket and none is going to be dialled, whichever way it came to be     *)
(* stopped - by Stop, or by a Start or QR pairing that failed.  The        *)
(* hypothesis is what the code needs: with phone pairing the property is   *)
(* false.                                                                  *)
THEOREM StoppedAlwaysClosed ==
  ASSUME "StartPhonePairing" \notin Ops
  PROVE  SerialSpec => []StoppedIsClosed
<1>1. SerialSpec => []Truthful
  BY InitTruthful, StepTruthful, SerialKnown, PTL DEF SerialSpec
<1>2. SerialSpec => []Closed
  BY <1>1, InitClosed, StepClosed, SerialKnown, PTL DEF SerialSpec
<1>3. Closed => StoppedIsClosed
  BY DEF Closed, Tidy, RestClosed, Dormant, StoppedIsClosed
<1> QED
  BY <1>2, <1>3, PTL
-----------------------------------------------------------------------------
(* The refinement of EngineLife, under the same conditions.  A caller on   *)
(* its way through an operation is in the method of that operation, and    *)
(* what it has checked of the device stays true while the socket is down.  *)
StartLabels == {"start", "start_cas", "start_check", "start_ret", "start_fail"}
PairLabels  == {"pair", "pair_check", "pair_set", "pair_ret"}

ConnectLabels == {"connect", "connect_cas", "connect_register", "connect_dial",
                  "connect_abort"}
PairingLabels == {"pair", "pair_check", "pair_set", "pair_begin", "pair_dial", "pair_abort"}

Headed(c) ==
    /\ epc[c] \in StartLabels => method[c] = "Connect"
    /\ epc[c] \in PairLabels => method[c] \notin {"Connect", "Disconnect"}
    /\ epc[c] = "start_ret" => pc[c] = "done" \/ (pc[c] \in ConnectLabels /\ paired)
    /\ epc[c] = "pair_ret" => pc[c] = "done" \/ (pc[c] \in PairingLabels /\ ~paired)
    /\ epc[c] = "pair_set" => ~paired
    /\ epc[c] = "stop_set" => eseen[c] = engState /\ engState \in {"running", "pairing"}
    /\ epc[c] \in {"stop_close", "stop_ret"} => eseen[c] \in {"running", "pairing"}

(* Nobody can link the device of an engine that is running: it has no QR   *)
(* channel and no pairing code.                                            *)
LifeInv ==
    /\ \A c \in Callers : Headed(c)
    /\ pairingCode = FALSE
    /\ Life = "running" => qrOpen = {}

(* The life of an engine that only c uses.                                 *)
LifeAt(c) ==
    IF \/ engState = "pairing" /\ ~(epc[c] = "pair_ret" /\ ~Succeeded(c))
       \/ engState = "stopping" /\ epc[c] \in {"stop_close", "stop_ret"} /\ eseen[c] = "pairing"
    THEN "pairing"
    ELSE IF \/ engState = "starting" /\ epc[c] = "start_ret" /\ Succeeded(c)
            \/ engState \in {"running", "stopping"}
         THEN "running" ELSE "stopped"

LEMMA LifeOfOne ==
  ASSUME NEW c \in Callers, \A d \in Callers \ {c} : epc[d] = "idle"
  PROVE  Life = LifeAt(c)
<1>1. (\E d \in Callers : EAt(d, "start_ret") /\ Succeeded(d))
        <=> epc[c] = "start_ret" /\ Succeeded(c)
  BY DEF EAt
<1>2. (\E d \in Callers : EAt(d, "pair_ret") /\ ~Succeeded(d))
        <=> epc[c] = "pair_ret" /\ ~Succeeded(c)
  BY DEF EAt
<1>3. (\E d \in Callers : epc[d] \in {"stop_close", "stop_ret"} /\ eseen[d] = "pairing")
        <=> epc[c] \in {"stop_close", "stop_ret"} /\ eseen[c] = "pairing"
  OBVIOUS
<1> QED
  BY <1>1, <1>2, <1>3 DEF Life, LifeAt, Starts, Pairs, StopsPairing

LEMMA LifeOfOneNext ==
  ASSUME NEW c \in Callers, \A d \in Callers \ {c} : epc'[d] = "idle"
  PROVE  Life' = LifeAt(c)'
<1>1. (\E d \in Callers : EAt(d, "start_ret") /\ Succeeded(d))'
        <=> epc'[c] = "start_ret" /\ Succeeded(c)'
  BY DEF EAt
<1>2. (\E d \in Callers : EAt(d, "pair_ret") /\ ~Succeeded(d))'
        <=> epc'[c] = "pair_ret" /\ ~Succeeded(c)'
  BY DEF EAt
<1>3. (\E d \in Callers : epc[d] \in {"stop_close", "stop_ret"} /\ eseen[d] = "pairing")'
        <=> epc'[c] \in {"stop_close", "stop_ret"} /\ eseen'[c] = "pairing"
  OBVIOUS
<1> QED
  BY <1>1, <1>2, <1>3 DEF Life, LifeAt, Starts, Pairs, StopsPairing

(* A step of the caller c, seen from outside.                              *)
Effect(c) ==
    \/ LifeAt(c)' = LifeAt(c) /\ UNCHANGED paired
    \/ LifeAt(c)' = "stopped" /\ UNCHANGED paired
    \/ LifeAt(c) = "stopped" /\ paired /\ LifeAt(c)' = "running" /\ UNCHANGED paired
    \/ LifeAt(c) = "stopped" /\ ~paired /\ LifeAt(c)' = "pairing" /\ UNCHANGED paired

Effective(c) ==
    /\ Headed(c)'
    /\ Effect(c)
    /\ pairingCode' = FALSE
    /\ LifeAt(c)' = "running" => LifeAt(c) = "running" \/ paired
    /\ LifeAt(c)' = "running" => UNCHANGED qrOpen

LEMMA InitLife == Init => LifeInv /\ Promised!Init
<1> SUFFICES ASSUME Init PROVE LifeInv /\ Promised!Init
  OBVIOUS
<1>1. Life = "stopped"
  BY DEF Init, Life, Starts, Pairs, StopsPairing
<1>2. \A c \in Callers : Headed(c)
  BY DEF Init, Headed, StartLabels, PairLabels
<1> QED
  BY <1>1, <1>2 DEF Init, ClientInit, LifeInv, Promised!Init

LEMMA BeginEffect ==
  ASSUME Known, LifeInv, NEW c \in Callers, Begins(c)
  PROVE  Effective(c)
<1>1. PICK m \in Ops : EngineBegin(c, m)
  BY DEF Begins
<1>2. /\ epc[c] = "idle" /\ epc'[c] = EngineEntry(m) /\ method'[c] = m
      /\ UNCHANGED <<pc, res, fields, wa, engState, eseen>>
  BY <1>1 DEF EngineBegin, EGo, EAt, Known, Wiring, WiringType
<1>3. Headed(c)'
  BY <1>2 DEF Headed, EngineEntry, StartLabels, PairLabels
<1>4. LifeAt(c)' = LifeAt(c)
  <2>1. EngineEntry(m) \in {"start", "stop", "pair"}
    BY EntryIsLabel
  <2> QED
    BY <1>2, <2>1 DEF LifeAt, Succeeded, At
<1> QED
  BY <1>2, <1>3, <1>4 DEF Effective, Effect, fields, wa, LifeInv

LEMMA EngineStepEffect ==
  ASSUME Known, Closed, LifeInv, NEW c \in Callers, EngineStep(c),
         \A d \in Callers \ {c} : epc[d] = "idle"
  PROVE  Effective(c)
<1> USE DEF EAt, EGo, EReturn, At, Go, Call, Entry, Returned, Succeeded, clientVars, fields,
            wa, callers, Headed, LifeAt, Effect, Effective, StartLabels, PairLabels,
            ConnectLabels, PairingLabels
<1>0. /\ pc \in [Callers -> Labels] /\ epc \in [Callers -> EngineLabels]
      /\ eseen \in [Callers -> EngineStates] /\ engState \in EngineStates
      /\ method \in [Callers -> Methods] /\ method[c] # "StartPhonePairing"
      /\ res \in [Callers -> {"ok", "err"}]
  BY DEF Known, Typed, Shape, CallersShape, EngineShape, Closed, NoPhone, Phone
<1>1. Headed(c) /\ pairingCode = FALSE
  BY DEF LifeInv
<1>2. Holds(c)
  BY DEF Closed, Sound
<1>3. epc[c] \notin Owing => engState \notin {"starting", "stopping"}
  BY DEF Known, Lifecycle, TransientIsOwned, Owing
<1>4. epc[c] = "start_cas" => eseen[c] \in {"stopped", "stopping"}
  BY DEF Known, Lifecycle, SwapsFromRest
<1>5. CASE StartLoad(c)
  BY <1>0, <1>1, <1>5 DEF StartLoad
<1>6. CASE StartCAS(c)
  BY <1>0, <1>1, <1>3, <1>4, <1>6 DEF StartCAS, Owing
<1>7. CASE StartCheck(c)
  BY <1>0, <1>1, <1>2, <1>7 DEF StartCheck, Holds
<1>8. CASE StartFail(c)
  BY <1>0, <1>1, <1>8 DEF StartFail
<1>9. CASE StartReturn(c)
  BY <1>0, <1>1, <1>2, <1>9 DEF StartReturn, Holds
<1>10. CASE EnginePairLoad(c)
  BY <1>0, <1>1, <1>10 DEF EnginePairLoad
<1>11. CASE EnginePairCheck(c)
  BY <1>0, <1>1, <1>11 DEF EnginePairCheck
<1>12. CASE EnginePairSet(c)
  BY <1>0, <1>1, <1>2, <1>12 DEF EnginePairSet, Holds, Methods
<1>13. CASE PairReturn(c)
  BY <1>0, <1>1, <1>2, <1>13 DEF PairReturn, Holds
<1>14. CASE StopLoad(c)
  BY <1>0, <1>1, <1>3, <1>14 DEF StopLoad, Owing, EngineStates
<1>15. CASE StopSet(c)
  BY <1>0, <1>1, <1>15 DEF StopSet
<1>16. CASE StopClose(c)
  BY <1>0, <1>1, <1>16 DEF StopClose
<1>17. CASE StopReturn(c)
  BY <1>0, <1>1, <1>17 DEF StopReturn
<1> QED
  BY <1>5, <1>6, <1>7, <1>8, <1>9, <1>10, <1>11, <1>12, <1>13, <1>14, <1>15, <1>16, <1>17
     DEF EngineStep

LEMMA ClientStepEffect ==
  ASSUME Known, Closed, LifeInv, NEW c \in Callers, ClientStep(c), UNCHANGED engineVars
  PROVE  Effective(c)
<1> USE DEF At, Go, Return, Phone, Succeeded, fields, wa, engineVars, Headed, LifeAt, Effect,
            Effective, StartLabels, PairLabels, ConnectLabels, PairingLabels
<1>0. /\ pc \in [Callers -> Labels] /\ res \in [Callers -> {"ok", "err"}]
      /\ method[c] # "StartPhonePairing" /\ pc[c] \notin {"pair_wait", "pair_phone"}
  BY DEF Known, Typed, Shape, CallersShape, Closed, NoPhone
<1>1. Headed(c) /\ pairingCode = FALSE
  BY DEF LifeInv
<1>2. Holds(c)
  BY DEF Closed, Sound
<1>3. pc[c] # "idle" => epc[c] \in {"start_ret", "pair_ret", "stop_ret"}
  BY DEF Known, Wiring, CalledFromEngine, Waiting
<1>4. CASE ConnectLoad(c)
  BY <1>0, <1>1, <1>2, <1>3, <1>4 DEF ConnectLoad, Holds, Opening
<1>5. CASE ConnectCAS(c)
  BY <1>0, <1>1, <1>2, <1>3, <1>5 DEF ConnectCAS, Holds, Opening
<1>6. CASE ConnectRegister(c)
  BY <1>0, <1>1, <1>2, <1>3, <1>6 DEF ConnectRegister, Register, Holds, Opening
<1>7. CASE ConnectDial(c)
  BY <1>0, <1>1, <1>2, <1>3, <1>7 DEF ConnectDial, Holds, Opening
<1>8. CASE ConnectAbort(c)
  BY <1>0, <1>1, <1>2, <1>3, <1>8 DEF ConnectAbort, Holds, Opening
<1>9. CASE PairLoad(c)
  BY <1>0, <1>1, <1>2, <1>3, <1>9 DEF PairLoad, Holds, Opening
<1>10. CASE PairCheck(c)
  BY <1>0, <1>1, <1>2, <1>3, <1>10 DEF PairCheck, Holds, Opening
<1>11. CASE PairSet(c)
  BY <1>0, <1>1, <1>2, <1>3, <1>11 DEF PairSet, Holds, Opening
<1>12. CASE PairBegin(c)
  BY <1>0, <1>1, <1>2, <1>3, <1>12 DEF PairBegin, Register, Holds, Opening
<1>13. CASE PairDial(c)
  BY <1>0, <1>1, <1>2, <1>3, <1>13 DEF PairDial, Holds, Opening
<1>14. CASE PairAbort(c)
  BY <1>0, <1>1, <1>2, <1>3, <1>14 DEF PairAbort, Holds, Opening
<1>15. CASE DiscBegin(c)
  BY <1>0, <1>1, <1>2, <1>3, <1>15 DEF DiscBegin, Holds
<1>16. CASE DiscClear(c)
  BY <1>0, <1>1, <1>2, <1>3, <1>16 DEF DiscClear, Holds
<1>17. CASE DiscClose(c)
  BY <1>0, <1>1, <1>2, <1>3, <1>17 DEF DiscClose, Holds
<1>18. CASE DiscStore(c)
  BY <1>0, <1>1, <1>2, <1>3, <1>18 DEF DiscStore, Holds
<1>19. ~PairWait(c) /\ ~PairPhone(c)
  BY <1>0 DEF PairWait, PairPhone
<1> QED
  BY <1>4, <1>5, <1>6, <1>7, <1>8, <1>9, <1>10, <1>11, <1>12, <1>13, <1>14, <1>15, <1>16,
     <1>17, <1>18, <1>19 DEF ClientStep

(* What the other callers, who are idle, contribute: nothing.              *)
LEMMA SerialStepLife ==
  ASSUME Known, Closed, LifeInv, NEW c \in Callers, SerialStep(c)
  PROVE  LifeInv' /\ [Promised!Next]_(Promised!lvars)
<1>1. \A d \in Callers \ {c} : epc[d] = "idle" /\ epc'[d] = "idle"
  BY OthersWait DEF SerialStep, EAt
<1>2. Effective(c)
  BY <1>1, BeginEffect, EngineStepEffect, ClientStepEffect DEF SerialStep, CallerStep
<1>3. Life = LifeAt(c) /\ Life' = LifeAt(c)'
  BY <1>1, LifeOfOne, LifeOfOneNext
<1>4. \A d \in Callers : Headed(d)'
  BY <1>1, <1>2 DEF Effective, Headed, StartLabels, PairLabels
<1>5. Life' = "running" => qrOpen' = {}
  BY <1>2, <1>3 DEF Effective, LifeInv, Known, Progress, PairedHasNoQR
<1>6. [Promised!Next]_(Promised!lvars)
  BY <1>2, <1>3 DEF Effective, Effect, Promised!Next, Promised!lvars, Promised!Start,
     Promised!StartPairing, Promised!Stop
<1> QED
  BY <1>2, <1>4, <1>5, <1>6 DEF Effective, LifeInv

-----------------------------------------------------------------------------
(* The steps of the environment leave the life of the engine as it is.     *)
LEMMA UntouchedLife ==
  ASSUME Untouched
  PROVE  Life' = Life
  BY DEF Untouched, callers, engineVars, Life, Starts, Pairs, StopsPairing, Succeeded, At, EAt

(* A step that leaves the device alone, too, and opens no QR channel.      *)
LEMMA UnlinkedStep ==
  ASSUME LifeInv, Untouched, UNCHANGED paired, qrOpen' \subseteq qrOpen, pairingCode' = FALSE
  PROVE  LifeInv' /\ [Promised!Next]_(Promised!lvars)
<1>1. Life' = Life
  BY UntouchedLife
<1>2. \A c \in Callers : Headed(c)'
  BY DEF LifeInv, Untouched, callers, engineVars, Headed
<1> QED
  BY <1>1, <1>2 DEF LifeInv, Promised!lvars

(* While the engine is shown stopped, whoever is on its way, its socket is *)
(* down.                                                                   *)
LEMMA ShownStopped ==
  ASSUME Known, Closed, LifeInv, Life = "stopped"
  PROVE  socket = "down"
<1>1. engState \in EngineStates
  BY DEF Known, Typed, Shape, EngineShape
<1>2. CASE engState = "stopped"
  BY <1>2 DEF Closed, Tidy, RestClosed, Dormant
<1>3. CASE engState = "starting"
  <2>1. PICK c \in Callers : epc[c] \in Owing
    BY <1>3 DEF Known, Lifecycle, TransientIsOwned
  <2>2. Sound(c) /\ Headed(c) /\ res[c] \in {"ok", "err"}
    BY DEF Closed, LifeInv, Known, Typed, Shape, CallersShape
  <2>3. ~(epc[c] = "start_ret" /\ pc[c] = "done" /\ res[c] = "ok")
    BY <1>3 DEF Life, Starts, Pairs, StopsPairing, EAt, At, Succeeded
  <2> QED
    BY <1>3, <2>1, <2>2, <2>3 DEF Sound, Holds, Down, Dormant, Owing, Headed, ConnectLabels,
       Opening
<1>4. CASE engState = "pairing"
  <2>1. PICK c \in Callers : epc[c] = "pair_ret" /\ ~(pc[c] = "done" /\ res[c] = "ok")
    BY <1>4 DEF Life, Pairs, EAt, At, Succeeded
  <2>2. Sound(c) /\ Headed(c) /\ res[c] \in {"ok", "err"}
    BY DEF Closed, LifeInv, Known, Typed, Shape, CallersShape
  <2> QED
    BY <2>1, <2>2 DEF Sound, Down, Dormant, Headed, PairingLabels, Opening
<1>5. engState \notin {"running", "stopping"}
  BY DEF Life
<1> QED
  BY <1>1, <1>2, <1>3, <1>4, <1>5 DEF EngineStates

LEMMA QRLife ==
  ASSUME LifeInv, QRStep, UNCHANGED engineVars
  PROVE  LifeInv' /\ [Promised!Next]_(Promised!lvars)
  BY UnlinkedStep DEF QRStep, QRCode, QRFails, QREnds, Untouched, LifeInv, wa

LEMMA EventLife ==
  ASSUME LifeInv, handleEvent, UNCHANGED engineVars
  PROVE  LifeInv' /\ [Promised!Next]_(Promised!lvars)
<1>1. UNCHANGED <<callers, paired, qrOpen>>
  BY DEF handleEvent, KeepWA
<1>2. pairingCode' = FALSE
  BY DEF handleEvent, Connected, Disconnected, LoggedOut, StreamReplaced, Message, PairSuccess,
     PairError, KeepAliveTimeout, LifeInv
<1> QED
  BY <1>1, <1>2, UnlinkedStep DEF Untouched

LEMMA LinkLife ==
  ASSUME Known, Closed, LifeInv, WaPaired \/ WaLoggedOut, Untouched, UNCHANGED pairingCode
  PROVE  LifeInv' /\ [Promised!Next]_(Promised!lvars)
<1>1. Life' = Life /\ Life \in {"stopped", "running", "pairing"}
  BY UntouchedLife DEF Life
<1>2. Life # "stopped"
  BY ShownStopped DEF WaPaired, WaLoggedOut
<1>3. \A c \in Callers : pc[c] \notin Opening /\ epc[c] # "pair_set"
  BY DEF Closed, Sound, Down, Dormant, Holds, Tidy, RestClosed, WaPaired, WaLoggedOut
<1>4. \A c \in Callers : Headed(c)'
  BY <1>3 DEF LifeInv, Untouched, callers, engineVars, Headed, ConnectLabels, PairingLabels,
     Opening
<1>5. qrOpen' = {} \/ qrOpen' = qrOpen
  BY DEF WaPaired, WaLoggedOut
<1>6. CASE WaPaired
  <2>1. Life = "pairing"
    BY <1>1, <1>2, <1>6 DEF WaPaired, LifeInv
  <2> QED
    BY <1>1, <1>4, <1>5, <1>6, <2>1 DEF WaPaired, LifeInv, Promised!PairSuccess, Promised!Next
<1>7. CASE WaLoggedOut
  BY <1>1, <1>2, <1>4, <1>5, <1>7 DEF WaLoggedOut, LifeInv, Promised!LoggedOut, Promised!Next
<1> QED
  BY <1>6, <1>7

LEMMA WhatsmeowLife ==
  ASSUME Known, Closed, LifeInv, Whatsmeow, UNCHANGED engineVars
  PROVE  LifeInv' /\ [Promised!Next]_(Promised!lvars)
<1>1. Untouched /\ UNCHANGED pairingCode /\ pairingCode = FALSE
  BY DEF Whatsmeow, fields, Untouched, LifeInv
<1>2. CASE WaPaired \/ WaLoggedOut
  BY <1>1, <1>2, LinkLife
<1>3. CASE ~(WaPaired \/ WaLoggedOut)
  <2>1. UNCHANGED paired /\ qrOpen' \subseteq qrOpen
    BY <1>3 DEF Whatsmeow, WaLogin, WaDrop, WaRedial, WaReplaced, WaPairFails, WaKeepAlive,
       WaMessage, WaQRCancelled
  <2> QED
    BY <1>1, <2>1, UnlinkedStep
<1> QED
  BY <1>2, <1>3

LEMMA StepLife == Known /\ Closed /\ LifeInv /\ [SerialNext]_vars
                    => LifeInv' /\ [Promised!Next]_(Promised!lvars)
<1> SUFFICES ASSUME Known, Closed, LifeInv, [SerialNext]_vars
             PROVE  LifeInv' /\ [Promised!Next]_(Promised!lvars)
  OBVIOUS
<1>1. CASE UNCHANGED vars
  <2>1. UNCHANGED <<callers, engineVars, fields, wa>>
    BY <1>1 DEF vars, clientVars
  <2> QED
    BY <2>1, UnlinkedStep DEF Untouched, fields, wa, LifeInv
<1> QED
  BY <1>1, SerialStepLife, QRLife, EventLife, WhatsmeowLife DEF SerialNext

(* The simple engine of EngineLife (engine.go:120-204): as long as calls   *)
(* do not overlap and events are handled promptly, Start, QR pairing and   *)
(* Stop take effect at once or not at all,                                 *)
(* and the device is linked and unlinked only while the engine is up, for  *)
(* any number of callers, calls and events.  The hypothesis is that of     *)
(* StoppedAlwaysClosed, for the same reason.                               *)
THEOREM ImplementsLife ==
  ASSUME "StartPhonePairing" \notin Ops
  PROVE  SerialSpec => LifeSpec
<1>1. SerialSpec => []Truthful
  BY InitTruthful, StepTruthful, SerialKnown, PTL DEF SerialSpec
<1>2. SerialSpec => []Closed
  BY <1>1, InitClosed, StepClosed, SerialKnown, PTL DEF SerialSpec
<1>3. Known /\ Closed /\ LifeInv /\ [SerialNext]_vars => LifeInv'
  BY StepLife
<1>4. Known /\ Closed /\ LifeInv /\ [SerialNext]_vars => [Promised!Next]_(Promised!lvars)
  BY StepLife
<1>5. Init => LifeInv
  BY InitLife
<1>6. Init => Promised!Init
  BY InitLife
<1> QED
  BY <1>2, <1>3, <1>4, <1>5, <1>6, SerialKnown, PTL DEF SerialSpec, LifeSpec, Promised!Spec
=============================================================================
