------------------------------ MODULE Client -------------------------------
(***************************************************************************)
(* core/client.go: the wrapper of the whatsmeow client.  Its methods run   *)
(* on the goroutines of their callers and read and write the atomic field  *)
(* `state' without a lock, so each atomic access, each critical section    *)
(* and each call into whatsmeow is a step of its own.  handleEvent runs on *)
(* goroutines of whatsmeow, concurrently with the methods and in any       *)
(* order.                                                                  *)
(*                                                                         *)
(* whatsmeow itself is not part of the repository.  The last section       *)
(* models what this code relies on: the socket, the registration of the    *)
(* device, automatic reconnection, the QR channel and the events emitted.  *)
(***************************************************************************)
EXTENDS Integers, FiniteSets

CONSTANTS
    Callers,    \* goroutines that call the methods
    NoCaller,   \* the owner of a mutex that is free
    MaxCalls,   \* bound: number of calls in a behaviour
    MaxEvents   \* bound: number of events whatsmeow emits in a behaviour

ASSUME CallersAssumption == NoCaller \notin Callers
ASSUME BoundsAssumption  == MaxCalls \in Nat /\ MaxEvents \in Nat

VARIABLES
    (* the fields of Client *)
    state,          \* atomic ClientState
    pairingActive,
    currentQR,      \* 0 for "", else the QR channel that the code came from
    pairingCode,    \* currentPairingCode is set
    disconnectMu,   \* owner of the mutex
    qrCtx,          \* 0 for qrCancel = nil, else the QR channel it cancels
    lastQR,         \* number of QR contexts created
    qrRunning,      \* QR channels with a handleQRChannel goroutine
    (* the callers *)
    pc, method, seen, mine, res, calls,
    (* whatsmeow *)
    socket, paired, autoReconnect, redial, handlers, qrOpen, inflight, emitted

fields  == <<state, pairingActive, currentQR, pairingCode, disconnectMu, qrCtx,
             lastQR, qrRunning>>
callers == <<pc, method, seen, mine, res, calls>>
wa      == <<socket, paired, autoReconnect, redial, handlers, qrOpen, inflight, emitted>>
clientVars == <<fields, callers, wa>>

States == {"disconnected", "connecting", "connected", "reconnecting", "pairing"}
Labels == {"idle", "done", "connect", "connect_cas", "connect_register", "connect_dial",
           "connect_abort", "pair", "pair_check", "pair_set", "pair_begin", "pair_dial",
           "pair_wait", "pair_phone", "pair_abort", "disc", "disc_clear", "disc_close",
           "disc_store"}
Methods == {"Connect", "StartPairing", "StartPhonePairing", "Disconnect"}
Kinds   == {"connected", "disconnected", "logged_out", "stream_replaced", "message",
            "pair_success", "pair_error", "keepalive_timeout", "keepalive_restored"}
Event   == [kind : Kinds, n : Nat, to : Nat]

ClientTypeOK ==
    /\ state \in States
    /\ pairingActive \in BOOLEAN
    /\ currentQR \in 0 .. lastQR
    /\ pairingCode \in BOOLEAN
    /\ disconnectMu \in Callers \cup {NoCaller}
    /\ lastQR \in 0 .. calls /\ qrCtx \in 0 .. lastQR
    /\ qrRunning \in SUBSET (1 .. lastQR)
    /\ pc \in [Callers -> Labels]
    /\ method \in [Callers -> Methods]
    /\ seen \in [Callers -> States]
    /\ mine \in [Callers -> Nat]
    /\ res \in [Callers -> {"ok", "err"}]
    /\ calls \in 0 .. MaxCalls
    /\ socket \in {"down", "open", "auth", "lagging"}
    /\ paired \in BOOLEAN
    /\ autoReconnect \in BOOLEAN
    /\ redial \in BOOLEAN
    /\ handlers \in 0 .. calls
    /\ qrOpen \in SUBSET qrRunning
    /\ inflight \in SUBSET Event
    /\ emitted \in 0 .. MaxEvents

(* NewClient, on a device that has been paired before or has not.          *)
ClientInit ==
    /\ state = "disconnected" /\ pairingActive = FALSE
    /\ currentQR = 0 /\ pairingCode = FALSE
    /\ disconnectMu = NoCaller
    /\ qrCtx = 0 /\ lastQR = 0 /\ qrRunning = {}
    /\ pc = [c \in Callers |-> "idle"]
    /\ method = [c \in Callers |-> "Connect"]
    /\ seen = [c \in Callers |-> "disconnected"]
    /\ mine = [c \in Callers |-> 0]
    /\ res = [c \in Callers |-> "ok"]
    /\ calls = 0
    /\ socket = "down" /\ paired \in BOOLEAN
    /\ autoReconnect = TRUE /\ redial = FALSE
    /\ handlers = 0 /\ qrOpen = {} /\ inflight = {} /\ emitted = 0

-----------------------------------------------------------------------------
(* Control of a caller.                                                    *)

At(c, l) == pc[c] = l

Go(c, l) ==
    /\ pc' = [pc EXCEPT ![c] = l]
    /\ UNCHANGED <<method, res, calls>>

Return(c, r) ==
    /\ pc' = [pc EXCEPT ![c] = "done"]
    /\ res' = [res EXCEPT ![c] = r]
    /\ UNCHANGED <<method, calls>>

Entry(m) == CASE m = "Connect" -> "connect"
              [] m = "Disconnect" -> "disc"
              [] OTHER -> "pair"

(* Enter the method that method[c] names.                                  *)
Call(c) ==
    /\ pc' = [pc EXCEPT ![c] = Entry(method[c])]
    /\ UNCHANGED <<method, seen, mine, res, calls, fields, wa>>

Idle == \A c \in Callers : At(c, "idle")

-----------------------------------------------------------------------------
(* The calls into whatsmeow that methods make.                             *)

(* Connect fails on an open socket and may fail on a network error.        *)
DialOK ==
    /\ socket = "down"
    /\ socket' = "open"
    /\ redial' = FALSE

HangUp ==
    /\ socket' = "down"
    /\ redial' = FALSE

Register == handlers' = handlers + 1    \* AddEventHandler(c.handleEvent)

-----------------------------------------------------------------------------
(* Connect                                                                 *)

ConnectLoad(c) ==
    /\ At(c, "connect")
    /\ seen' = [seen EXCEPT ![c] = state]
    /\ IF state \in {"connected", "connecting", "pairing"}
       THEN Return(c, "ok")
       ELSE Go(c, "connect_cas")
    /\ UNCHANGED <<mine, fields, wa>>

MUT_RegisterBeforeCAS(c) ==
    /\ At(c, "connect_cas")
    /\ Register
    /\ IF state = seen[c]
       THEN state' = "connecting" /\ Go(c, "connect_register")
       ELSE state' = state /\ Go(c, "connect")
    /\ UNCHANGED <<pairingActive, currentQR, pairingCode, disconnectMu, qrCtx, lastQR,
                   qrRunning, seen, mine, socket, paired, autoReconnect, redial, qrOpen,
                   inflight, emitted>>

ConnectCAS(c) ==
    /\ At(c, "connect_cas")
    /\ IF state = seen[c]
       THEN state' = "connecting" /\ Go(c, "connect_register")
       ELSE state' = state /\ Go(c, "connect")
    /\ UNCHANGED <<pairingActive, currentQR, pairingCode, disconnectMu, qrCtx, lastQR,
                   qrRunning, seen, mine, wa>>

MUT_RegisterNever(c) ==
    /\ At(c, "connect_register")
    /\ Go(c, IF paired THEN "connect_dial" ELSE "connect_abort")
    /\ UNCHANGED <<seen, mine, fields, wa>>

ConnectRegister(c) ==
    /\ At(c, "connect_register")
    /\ Register
    /\ Go(c, IF paired THEN "connect_dial" ELSE "connect_abort")
    /\ UNCHANGED <<seen, mine, fields, socket, paired, autoReconnect, redial, qrOpen,
                   inflight, emitted>>

ConnectDial(c) ==
    /\ At(c, "connect_dial")
    /\ \/ DialOK /\ Return(c, "ok")
       \/ Go(c, "connect_abort") /\ UNCHANGED <<socket, redial>>
    /\ UNCHANGED <<seen, mine, fields, paired, autoReconnect, handlers, qrOpen, inflight,
                   emitted>>

MUT_AbortKeepsState(c) ==
    /\ At(c, "connect_abort")
    /\ Return(c, "err")
    /\ UNCHANGED <<seen, mine, fields, wa>>

ConnectAbort(c) ==
    /\ At(c, "connect_abort")
    /\ state' = "disconnected"
    /\ Return(c, "err")
    /\ UNCHANGED <<pairingActive, currentQR, pairingCode, disconnectMu, qrCtx, lastQR,
                   qrRunning, seen, mine, wa>>

-----------------------------------------------------------------------------
(* StartPairing and StartPhonePairing                                      *)

Phone(c) == method[c] = "StartPhonePairing"

PairLoad(c) ==
    /\ At(c, "pair")
    /\ CASE state = "pairing"   -> Return(c, IF Phone(c) THEN "err" ELSE "ok")
         [] state = "connected" -> Return(c, "err")
         [] OTHER               -> Go(c, "pair_check")
    /\ UNCHANGED <<seen, mine, fields, wa>>

PairCheck(c) ==
    /\ At(c, "pair_check")
    /\ IF paired THEN Return(c, "err") ELSE Go(c, "pair_set")
    /\ UNCHANGED <<seen, mine, fields, wa>>

PairSet(c) ==
    /\ At(c, "pair_set")
    /\ state' = "pairing"
    /\ Go(c, "pair_begin")
    /\ UNCHANGED <<pairingActive, currentQR, pairingCode, disconnectMu, qrCtx, lastQR,
                   qrRunning, seen, mine, wa>>

(* The QR method cancels the context of an earlier one and makes its own;  *)
(* the phone method switches automatic reconnection off instead.           *)
PairBegin(c) ==
    /\ At(c, "pair_begin")
    /\ pairingActive' = TRUE
    /\ Register
    /\ IF Phone(c)
       THEN autoReconnect' = FALSE /\ UNCHANGED <<qrCtx, lastQR, mine>>
       ELSE /\ lastQR' = lastQR + 1
            /\ qrCtx' = lastQR + 1
            /\ mine' = [mine EXCEPT ![c] = lastQR + 1]
            /\ UNCHANGED autoReconnect
    /\ Go(c, "pair_dial")
    /\ UNCHANGED <<state, currentQR, pairingCode, disconnectMu, qrRunning, seen,
                   socket, paired, redial, qrOpen, inflight, emitted>>

(* GetQRChannel refuses a paired device; both calls refuse an open socket. *)
PairDial(c) ==
    /\ At(c, "pair_dial")
    /\ \/ /\ DialOK
          /\ IF Phone(c)
             THEN Go(c, "pair_wait") /\ UNCHANGED <<qrRunning, qrOpen>>
             ELSE /\ ~paired
                  /\ qrRunning' = qrRunning \cup {mine[c]}
                  /\ qrOpen' = qrOpen \cup {mine[c]}
                  /\ Return(c, "ok")
       \/ Go(c, "pair_abort") /\ UNCHANGED <<socket, redial, qrRunning, qrOpen>>
    /\ UNCHANGED <<state, pairingActive, currentQR, pairingCode, disconnectMu, qrCtx,
                   lastQR, seen, mine, paired, autoReconnect, handlers, inflight, emitted>>

(* Wait up to 30 s for the socket.                                         *)
PairWait(c) ==
    /\ At(c, "pair_wait")
    /\ Go(c, IF socket # "down" THEN "pair_phone" ELSE "pair_abort")
    /\ UNCHANGED <<seen, mine, fields, wa>>

(* PairPhone returns the code, or an error (always, on a paired device).   *)
PairPhone(c) ==
    /\ At(c, "pair_phone")
    /\ \/ socket # "down" /\ ~paired /\ pairingCode' = TRUE /\ Return(c, "ok")
       \/ Go(c, "pair_abort") /\ UNCHANGED pairingCode
    /\ UNCHANGED <<state, pairingActive, currentQR, disconnectMu, qrCtx, lastQR,
                   qrRunning, seen, mine, wa>>

PairAbort(c) ==
    /\ At(c, "pair_abort")
    /\ autoReconnect' = (Phone(c) \/ autoReconnect)
    /\ state' = "disconnected"
    /\ pairingActive' = FALSE
    /\ Return(c, "err")
    /\ UNCHANGED <<currentQR, pairingCode, disconnectMu, qrCtx, lastQR, qrRunning,
                   seen, mine, socket, paired, redial, handlers, qrOpen, inflight,
                   emitted>>

-----------------------------------------------------------------------------
(* Disconnect, under disconnectMu                                          *)

MUT_DisconnectsConnectedOnly(c) ==
    /\ At(c, "disc")
    /\ disconnectMu = NoCaller
    /\ IF state # "connected"
       THEN Return(c, "ok") /\ UNCHANGED disconnectMu
       ELSE Go(c, "disc_clear") /\ disconnectMu' = c
    /\ UNCHANGED <<state, pairingActive, currentQR, pairingCode, qrCtx, lastQR, qrRunning,
                   seen, mine, wa>>

DiscBegin(c) ==
    /\ At(c, "disc")
    /\ disconnectMu = NoCaller
    /\ IF state = "disconnected"
       THEN Return(c, "ok") /\ UNCHANGED disconnectMu
       ELSE Go(c, "disc_clear") /\ disconnectMu' = c
    /\ UNCHANGED <<state, pairingActive, currentQR, pairingCode, qrCtx, lastQR, qrRunning,
                   seen, mine, wa>>

DiscClear(c) ==
    /\ At(c, "disc_clear")
    /\ qrCtx' = 0
    /\ currentQR' = 0
    /\ pairingCode' = FALSE
    /\ Go(c, "disc_close")
    /\ UNCHANGED <<state, pairingActive, disconnectMu, lastQR, qrRunning, seen, mine, wa>>

DiscClose(c) ==
    /\ At(c, "disc_close")
    /\ HangUp
    /\ Go(c, "disc_store")
    /\ UNCHANGED <<seen, mine, fields, paired, autoReconnect, handlers, qrOpen, inflight,
                   emitted>>

MUT_MutexNotReleased(c) ==
    /\ At(c, "disc_store")
    /\ state' = "disconnected"
    /\ pairingActive' = FALSE
    /\ Return(c, "ok")
    /\ UNCHANGED <<currentQR, pairingCode, disconnectMu, qrCtx, lastQR, qrRunning, seen,
                   mine, wa>>

DiscStore(c) ==
    /\ At(c, "disc_store")
    /\ state' = "disconnected"
    /\ pairingActive' = FALSE
    /\ disconnectMu' = NoCaller
    /\ Return(c, "ok")
    /\ UNCHANGED <<currentQR, pairingCode, qrCtx, lastQR, qrRunning, seen, mine, wa>>

ClientStep(c) ==
    \/ ConnectLoad(c) \/ ConnectCAS(c) \/ ConnectRegister(c) \/ ConnectDial(c)
    \/ ConnectAbort(c)
    \/ PairLoad(c) \/ PairCheck(c) \/ PairSet(c) \/ PairBegin(c) \/ PairDial(c)
    \/ PairWait(c) \/ PairPhone(c) \/ PairAbort(c)
    \/ DiscBegin(c) \/ DiscClear(c) \/ DiscClose(c) \/ DiscStore(c)

-----------------------------------------------------------------------------
(* handleQRChannel: one goroutine for each channel, until whatsmeow closes *)
(* the channel; then the deferred function runs.                           *)

QRCode(q) ==
    /\ q \in qrOpen /\ q = qrCtx
    /\ socket = "open"
    /\ currentQR' = q
    /\ UNCHANGED <<state, pairingActive, pairingCode, disconnectMu, qrCtx, lastQR,
                   qrRunning, callers, wa>>

(* "timeout" (whatsmeow has disconnected) or "error".                      *)
QRFails(q) ==
    /\ q \in qrOpen /\ q = qrCtx
    /\ state' = "disconnected"
    /\ currentQR' = 0
    /\ pairingCode' = FALSE
    /\ HangUp
    /\ qrOpen' = qrOpen \ {q}
    /\ UNCHANGED <<pairingActive, disconnectMu, qrCtx, lastQR, qrRunning, callers, paired,
                   autoReconnect, handlers, inflight, emitted>>

(* After "success", "timeout", "error" or the cancellation of the context. *)
QREnds(q) ==
    /\ q \in qrRunning \ qrOpen
    /\ qrRunning' = qrRunning \ {q}
    /\ pairingActive' = FALSE
    /\ currentQR' = 0
    /\ UNCHANGED <<state, pairingCode, disconnectMu, qrCtx, lastQR, callers, wa>>

QRStep == \E q \in qrRunning : QRCode(q) \/ QRFails(q) \/ QREnds(q)

-----------------------------------------------------------------------------
(* handleEvent: each registered handler handles the event; the stores of   *)
(* one handler are those of the others.                                    *)

Consume(e, k) == e \in inflight /\ e.kind = k /\ inflight' = inflight \ {e}

KeepWA == UNCHANGED <<socket, paired, redial, handlers, qrOpen, emitted>>

Connected(e) ==
    /\ Consume(e, "connected") \/ Consume(e, "keepalive_restored")
    /\ state' = "connected"
    /\ UNCHANGED <<pairingActive, currentQR, pairingCode, autoReconnect>>

(* The state is not touched; whatsmeow reconnects by itself.               *)
Disconnected(e) ==
    /\ Consume(e, "disconnected")
    /\ UNCHANGED <<state, pairingActive, currentQR, pairingCode, autoReconnect>>

MUT_LoggedOutKeepsState(e) ==
    /\ Consume(e, "logged_out")
    /\ currentQR' = 0
    /\ UNCHANGED <<state, pairingActive, pairingCode, autoReconnect>>

LoggedOut(e) ==
    /\ Consume(e, "logged_out")
    /\ state' = "disconnected"
    /\ currentQR' = 0
    /\ UNCHANGED <<pairingActive, pairingCode, autoReconnect>>

StreamReplaced(e) ==
    /\ Consume(e, "stream_replaced")
    /\ state' = "disconnected"
    /\ UNCHANGED <<pairingActive, currentQR, pairingCode, autoReconnect>>

Message(e) ==
    /\ Consume(e, "message")
    /\ UNCHANGED <<state, pairingActive, currentQR, pairingCode, autoReconnect>>

MUT_SuccessKeepsReconnectOff(e) ==
    /\ Consume(e, "pair_success")
    /\ state' = "connected"
    /\ pairingActive' = FALSE
    /\ currentQR' = 0
    /\ pairingCode' = FALSE
    /\ UNCHANGED <<autoReconnect>>

PairSuccess(e) ==
    /\ Consume(e, "pair_success")
    /\ autoReconnect' = TRUE
    /\ state' = "connected"
    /\ pairingActive' = FALSE
    /\ currentQR' = 0
    /\ pairingCode' = FALSE

PairError(e) ==
    /\ Consume(e, "pair_error")
    /\ state' = "disconnected"
    /\ pairingActive' = FALSE
    /\ pairingCode' = FALSE
    /\ UNCHANGED <<currentQR, autoReconnect>>

KeepAliveTimeout(e) ==
    /\ Consume(e, "keepalive_timeout")
    /\ state' = "reconnecting"
    /\ UNCHANGED <<pairingActive, currentQR, pairingCode, autoReconnect>>

handleEvent ==
    /\ \E e \in inflight :
        \/ Connected(e) \/ Disconnected(e) \/ LoggedOut(e) \/ StreamReplaced(e)
        \/ Message(e) \/ PairSuccess(e) \/ PairError(e) \/ KeepAliveTimeout(e)
    /\ KeepWA
    /\ UNCHANGED <<disconnectMu, qrCtx, lastQR, qrRunning, callers>>

-----------------------------------------------------------------------------
(* whatsmeow (external): what happens on the socket, and the events that   *)
(* are then dispatched on goroutines of their own.                         *)

(* An event is dispatched to the handlers that are registered by then.     *)
Emit(k) ==
    /\ emitted < MaxEvents
    /\ emitted' = emitted + 1
    /\ inflight' = inflight \cup {[kind |-> k, n |-> emitted + 1, to |-> handlers]}

(* The server accepts the login of a paired device.                        *)
WaLogin ==
    /\ socket = "open" /\ paired
    /\ socket' = "auth"
    /\ Emit("connected")
    /\ UNCHANGED <<paired, autoReconnect, redial, handlers, qrOpen>>

(* The connection is lost; it is dialled again unless that is switched off *)
(* or the device is not paired.                                            *)
WaDrop ==
    /\ socket # "down"
    /\ socket' = "down"
    /\ redial' = (autoReconnect /\ paired)
    /\ Emit("disconnected")
    /\ UNCHANGED <<paired, autoReconnect, handlers, qrOpen>>

WaRedial ==
    /\ redial /\ socket = "down"
    /\ socket' = "open"
    /\ redial' = FALSE
    /\ UNCHANGED <<paired, autoReconnect, handlers, qrOpen, inflight, emitted>>

(* The device is removed on the phone: its registration is deleted.        *)
WaLoggedOut ==
    /\ socket # "down" /\ paired
    /\ socket' = "down" /\ paired' = FALSE
    /\ Emit("logged_out")
    /\ UNCHANGED <<autoReconnect, redial, handlers, qrOpen>>

WaReplaced ==
    /\ socket \in {"auth", "lagging"}
    /\ socket' = "down"
    /\ Emit("stream_replaced")
    /\ UNCHANGED <<paired, autoReconnect, redial, handlers, qrOpen>>

(* The user scans the QR code or enters the pairing code.                  *)
WaPaired ==
    /\ socket = "open" /\ ~paired
    /\ qrOpen # {} \/ pairingCode
    /\ paired' = TRUE
    /\ qrOpen' = {}
    /\ Emit("pair_success")
    /\ UNCHANGED <<socket, autoReconnect, redial, handlers>>

WaPairFails ==
    /\ socket = "open" /\ ~paired
    /\ qrOpen # {} \/ pairingCode
    /\ socket' = "down"
    /\ qrOpen' = {}
    /\ Emit("pair_error")
    /\ UNCHANGED <<paired, autoReconnect, redial, handlers>>

WaKeepAlive ==
    /\ \/ socket = "auth" /\ socket' = "lagging" /\ Emit("keepalive_timeout")
       \/ socket = "lagging" /\ socket' = "auth" /\ Emit("keepalive_restored")
    /\ UNCHANGED <<paired, autoReconnect, redial, handlers, qrOpen>>

WaMessage ==
    /\ socket = "auth"
    /\ Emit("message")
    /\ UNCHANGED <<socket, paired, autoReconnect, redial, handlers, qrOpen>>

(* A cancelled QR context makes whatsmeow disconnect, a moment later, and  *)
(* close the channel.                                                      *)
WaQRCancelled ==
    /\ \E q \in qrOpen : q # qrCtx /\ qrOpen' = qrOpen \ {q}
    /\ HangUp
    /\ UNCHANGED <<paired, autoReconnect, handlers, inflight, emitted>>

Whatsmeow ==
    /\ \/ WaLogin \/ WaDrop \/ WaRedial \/ WaLoggedOut \/ WaReplaced \/ WaPaired
       \/ WaPairFails \/ WaKeepAlive \/ WaMessage \/ WaQRCancelled
    /\ UNCHANGED <<fields, callers>>

-----------------------------------------------------------------------------
(* No connection is ever opened before a handler for its events is         *)
(* registered: no event, and so no message, can go unhandled.              *)
NothingUnheard ==
    /\ socket # "down" => handlers > 0
    /\ \A e \in inflight : e.to > 0

(* Once the pairing of a device has been handled, automatic reconnection   *)
(* is on again, although the phone pairing that preceded it has switched   *)
(* it off and may have failed, been retried or been given up.              *)
ReconnectsOncePaired ==
    Idle /\ paired /\ inflight = {} => autoReconnect

(* When no call is running and every event has been handled, "connecting"  *)
(* is never a dead end: a socket is open or is going to be.                *)
ConnectingIsNotStuck ==
    Idle /\ inflight = {} /\ state = "connecting" => socket # "down" \/ redial
=============================================================================
