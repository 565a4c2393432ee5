------------------------------ MODULE Engine -------------------------------
(***************************************************************************)
(* core/engine.go: the lifecycle of an engine, on top of Client.  Start,   *)
(* StartPairing, StartPhonePairing and Stop may run on several goroutines  *)
(* at once; they coordinate through the atomic field engState alone.  Each *)
(* access to it is a step, and the calls into the client are the steps of  *)
(* Client.  The operations carry the name of the client method they call.  *)
(***************************************************************************)
EXTENDS Client

CONSTANT Ops   \* the operations that the callers use

ASSUME OpsAssumption == Ops \subseteq Methods

VARIABLES
    engState,          \* Engine.state
    presenceStopped,   \* PresenceManager.stopped
    epc, eseen         \* program counter and loaded state of each caller

engineVars == <<engState, presenceStopped, epc, eseen>>
vars == <<clientVars, engineVars>>

EngineStates == {"stopped", "starting", "running", "stopping", "pairing"}

(* A caller at one of these labels has still to store a state of rest.     *)
Owing == {"start_check", "start_ret", "start_fail", "stop_close", "stop_ret"}

EngineLabels == Owing \cup {"idle", "start", "start_cas", "pair", "pair_check", "pair_set",
                            "pair_ret", "stop", "stop_set"}

TypeOK ==
    /\ ClientTypeOK
    /\ engState \in EngineStates
    /\ presenceStopped \in BOOLEAN
    /\ epc \in [Callers -> EngineLabels]
    /\ eseen \in [Callers -> EngineStates]

Init ==
    /\ ClientInit
    /\ engState = "stopped"
    /\ presenceStopped = FALSE
    /\ epc = [c \in Callers |-> "idle"]
    /\ eseen = [c \in Callers |-> "stopped"]

-----------------------------------------------------------------------------
EAt(c, l) == epc[c] = l
EGo(c, l) == epc' = [epc EXCEPT ![c] = l]
EReturn(c) == EGo(c, "idle")

EngineIdle == \A c \in Callers : EAt(c, "idle")
Quiet == EngineIdle /\ inflight = {}

EngineEntry(m) == CASE m = "Connect" -> "start"
                    [] m = "Disconnect" -> "stop"
                    [] OTHER -> "pair"

EngineBegin(c, m) ==
    /\ EAt(c, "idle")
    /\ calls < MaxCalls
    /\ calls' = calls + 1
    /\ method' = [method EXCEPT ![c] = m]
    /\ EGo(c, EngineEntry(m))
    /\ UNCHANGED <<pc, seen, mine, res, fields, wa, engState, presenceStopped, eseen>>

(* The client method has returned.                                         *)
Returned(c, r) ==
    /\ At(c, "done") /\ res[c] = r
    /\ Go(c, "idle")
    /\ UNCHANGED <<seen, mine, fields, wa>>

-----------------------------------------------------------------------------
(* Start                                                                   *)

StartLoad(c) ==
    /\ EAt(c, "start")
    /\ eseen' = [eseen EXCEPT ![c] = engState]
    /\ IF engState \in {"running", "starting", "pairing"}
       THEN EReturn(c)
       ELSE EGo(c, "start_cas")
    /\ UNCHANGED <<clientVars, engState, presenceStopped>>

MUT_PlainStore(c) ==
    /\ EAt(c, "start_cas")
    /\ engState' = "starting"
    /\ EGo(c, "start_check")
    /\ UNCHANGED <<clientVars, presenceStopped, eseen>>

StartCAS(c) ==
    /\ EAt(c, "start_cas")
    /\ IF engState = eseen[c]
       THEN engState' = "starting" /\ EGo(c, "start_check")
       ELSE engState' = engState /\ EGo(c, "start")
    /\ UNCHANGED <<clientVars, presenceStopped, eseen>>

StartCheck(c) ==
    /\ EAt(c, "start_check")
    /\ IF paired
       THEN Call(c) /\ EGo(c, "start_ret")
       ELSE UNCHANGED clientVars /\ EGo(c, "start_fail")
    /\ UNCHANGED <<engState, presenceStopped, eseen>>

MUT_UnpairedKeepsStarting(c) ==
    /\ EAt(c, "start_fail")
    /\ EReturn(c)
    /\ UNCHANGED <<clientVars, engState, presenceStopped, eseen>>

StartFail(c) ==
    /\ EAt(c, "start_fail")
    /\ engState' = "stopped"
    /\ EReturn(c)
    /\ UNCHANGED <<clientVars, presenceStopped, eseen>>

StartReturn(c) ==
    /\ EAt(c, "start_ret")
    /\ \/ Returned(c, "ok") /\ engState' = "running"
       \/ Returned(c, "err") /\ engState' = "stopped"
    /\ EReturn(c)
    /\ UNCHANGED <<presenceStopped, eseen>>

-----------------------------------------------------------------------------
(* StartPairing and StartPhonePairing                                      *)

EnginePairLoad(c) ==
    /\ EAt(c, "pair")
    /\ IF engState \in {"pairing", "running"} THEN EReturn(c) ELSE EGo(c, "pair_check")
    /\ UNCHANGED <<clientVars, engState, presenceStopped, eseen>>

EnginePairCheck(c) ==
    /\ EAt(c, "pair_check")
    /\ IF paired THEN EReturn(c) ELSE EGo(c, "pair_set")
    /\ UNCHANGED <<clientVars, engState, presenceStopped, eseen>>

EnginePairSet(c) ==
    /\ EAt(c, "pair_set")
    /\ engState' = "pairing"
    /\ Call(c)
    /\ EGo(c, "pair_ret")
    /\ UNCHANGED <<presenceStopped, eseen>>

PairReturn(c) ==
    /\ EAt(c, "pair_ret")
    /\ \/ Returned(c, "ok") /\ UNCHANGED engState
       \/ Returned(c, "err") /\ engState' = "stopped"
    /\ EReturn(c)
    /\ UNCHANGED <<presenceStopped, eseen>>

-----------------------------------------------------------------------------
(* Stop                                                                    *)

StopLoad(c) ==
    /\ EAt(c, "stop")
    /\ eseen' = [eseen EXCEPT ![c] = engState]
    /\ IF engState \in {"stopped", "stopping"} THEN EReturn(c) ELSE EGo(c, "stop_set")
    /\ UNCHANGED <<clientVars, engState, presenceStopped>>

StopSet(c) ==
    /\ EAt(c, "stop_set")
    /\ engState' = "stopping"
    /\ EGo(c, "stop_close")
    /\ UNCHANGED <<clientVars, presenceStopped, eseen>>

(* presence.Stop(), then client.Disconnect().                              *)
StopClose(c) ==
    /\ EAt(c, "stop_close")
    /\ presenceStopped' = TRUE
    /\ Call(c)
    /\ EGo(c, "stop_ret")
    /\ UNCHANGED <<engState, eseen>>

StopReturn(c) ==
    /\ EAt(c, "stop_ret")
    /\ Returned(c, "ok")
    /\ engState' = "stopped"
    /\ EReturn(c)
    /\ UNCHANGED <<presenceStopped, eseen>>

-----------------------------------------------------------------------------
EngineStep(c) ==
    \/ StartLoad(c) \/ StartCAS(c) \/ StartCheck(c) \/ StartFail(c) \/ StartReturn(c)
    \/ EnginePairLoad(c) \/ EnginePairCheck(c) \/ EnginePairSet(c) \/ PairReturn(c)
    \/ StopLoad(c) \/ StopSet(c) \/ StopClose(c) \/ StopReturn(c)

CallerStep(c) == EngineStep(c) \/ (ClientStep(c) /\ UNCHANGED engineVars)

Environment == (QRStep \/ handleEvent \/ Whatsmeow) /\ UNCHANGED engineVars

Begins(c) == \E m \in Ops : EngineBegin(c, m)

Next ==
    \/ \E c \in Callers : Begins(c) \/ CallerStep(c)
    \/ Environment

Spec == Init /\ [][Next]_vars

(* The Go scheduler runs every goroutine that can run.                     *)
FairSpec == Spec /\ \A c \in Callers : WF_vars(CallerStep(c))

(* One goroutine at a time uses the engine, and each event is handled      *)
(* before anything else happens.                                           *)
SerialStep(c) ==
    /\ \A d \in Callers \ {c} : EAt(d, "idle")
    /\ Begins(c) \/ CallerStep(c)

SerialNext ==
    \/ inflight = {} /\ \E c \in Callers : SerialStep(c)
    \/ (QRStep \/ handleEvent) /\ UNCHANGED engineVars
    \/ inflight = {} /\ Whatsmeow /\ UNCHANGED engineVars

SerialSpec == Init /\ [][SerialNext]_vars

-----------------------------------------------------------------------------
(* An engine is only passing through "starting" and "stopping": whatever   *)
(* calls overlapped, once all of them have returned it is stopped, running *)
(* or pairing.  (An engine left in "starting" could never be started or    *)
(* paired again, one left in "stopping" never stopped.)                    *)
NoTransientLeftBehind ==
    EngineIdle => engState \in {"stopped", "running", "pairing"}

(* The reason: a transient state is always somebody's to resolve, and the  *)
(* state that a compare-and-swap expects is never another one than rest.   *)
TransientIsOwned ==
    engState \in {"starting", "stopping"} => \E c \in Callers : epc[c] \in Owing

SwapsFromRest ==
    \A c \in Callers : EAt(c, "start_cas") => eseen[c] \in {"stopped", "stopping"}

(* A start never overtakes another operation: the compare-and-swap moves   *)
(* to "starting" only an engine that is stopped or being stopped, never    *)
(* one that another caller has meanwhile started or begun to pair.         *)
StartsFromRest ==
    [][engState' = "starting" /\ engState # "starting"
         => engState \in {"stopped", "stopping"}]_vars

(* Every Start, StartPairing, StartPhonePairing and Stop returns.          *)
OperationsReturn == \A c \in Callers : ~EAt(c, "idle") ~> EAt(c, "idle")

(* engine.go:188: "Stop closes the WhatsApp connection gracefully": when   *)
(* nothing is going on, a stopped engine has no open socket, and none is   *)
(* going to be dialled.                                                    *)
StoppedIsClosed == Quiet /\ engState = "stopped" => socket = "down" /\ ~redial

(* README:160, "Check if currently connected to WhatsApp servers": when    *)
(* nothing is going on, a client that says so has a socket, or whatsmeow   *)
(* is dialling again.                                                      *)
ConnectedIsReal == Quiet /\ state = "connected" => socket # "down" \/ redial

-----------------------------------------------------------------------------
(* An operation has its effect when the method of the client has returned  *)
(* without an error, or, for Stop, when the engine has stopped.            *)
Succeeded(c) == At(c, "done") /\ res[c] = "ok"

Starts == engState = "starting" /\ \E c \in Callers : EAt(c, "start_ret") /\ Succeeded(c)
Pairs  == engState = "pairing" /\ ~\E c \in Callers : EAt(c, "pair_ret") /\ ~Succeeded(c)
StopsPairing ==
    /\ engState = "stopping"
    /\ \E c \in Callers : epc[c] \in {"stop_close", "stop_ret"} /\ eseen[c] = "pairing"

Life ==
    IF Pairs \/ StopsPairing THEN "pairing"
    ELSE IF Starts \/ engState \in {"running", "stopping"} THEN "running"
    ELSE "stopped"

Promised == INSTANCE EngineLife WITH life <- Life, linked <- paired

(* An engine that one goroutine at a time uses, whose events are handled   *)
(* promptly, is the simple one of EngineLife: each operation               *)
(* takes effect at once or not at all, although it is many steps with      *)
(* events in between, and the phone can link its device only during a      *)
(* pairing, and unlink it only while the engine is up.                     *)
LifeSpec == Promised!Spec
=============================================================================
