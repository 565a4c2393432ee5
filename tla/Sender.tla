------------------------------- MODULE Sender -------------------------------
(***************************************************************************)
(* core/send.go on top of Presence and Backoff: what a call of the engine  *)
(* does from the HTTP request down to whatsmeow, and what handleEvent has  *)
(* the presence manager and the backoff do.  As in Presence a method is    *)
(* the sequence of its steps; each layer puts its own in front.  A test    *)
(* of the arguments is one step with the test of the client before it.     *)
(*                                                                         *)
(* Left out: RateLimiter and EventQueue, which have modules of their own   *)
(* (the wait for a token is a step of any length, an event is counted when *)
(* it is pushed), and the contents of messages.                            *)
(***************************************************************************)
EXTENDS Presence, Backoff

CONSTANTS
    Ops,      \* the operations that the callers use
    Events,   \* the events that whatsmeow emits
    MaxCalls, MaxEvents   \* bounds on their numbers

VARIABLES
    running,  \* the engine has been started
    paired,   \* the device is registered
    dialing,  \* whatsmeow connects, and connects again after a loss
    lagging,  \* the keep-alive of the connection has timed out
    call,     \* per goroutine: the operation
    answer,   \* per goroutine: what the call will return
    sent, failed,   \* history: message.sent and message.failed events of the call
    delivered,      \* history: the server has the message of the call
    calls, emitted

outcome == <<call, answer, sent, failed, delivered>>
engine  == <<running, paired, dialing, lagging>>
counts  == <<calls, emitted>>
vars    == <<presence, backoff, engine, outcome, counts>>

-----------------------------------------------------------------------------
(* send.go                                                                 *)

waitBeforeSend == <<"load">> \o BeforeSend
afterSend      == <<"load">> \o AfterSend

SendText ==
    <<"valid?">> \o waitBeforeSend \o <<"transmit">> \o afterSend \o <<"sent", "stop typing">>

SendTextReply == SendText

UploadAndSend == <<"upload", "transmit">> \o afterSend \o <<"sent">>

SendImageWithCaption == <<"valid?", "resolve">> \o UploadAndSend
SendImage    == <<"valid?">> \o UploadAndSend
SendDocument == <<"valid?">> \o UploadAndSend
SendVideo    == <<"valid?">> \o UploadAndSend
SendAudio    == <<"valid?">> \o UploadAndSend

SendLocation == <<"valid?", "transmit">>
SendContact  == <<"valid?", "transmit">>

SendPresence     == <<"valid?", "signal">>
SendChatPresence == <<"valid?", "signal">>
SendReadReceipt  == <<"valid?", "signal">>

(* engine.go, session.go and the handlers of main.go                       *)

EngineCall(steps)  == <<"connected?">> \o steps
SessionCall(steps) == <<"session?">> \o steps
Forward(steps)     == SessionCall(EngineCall(steps))

ResolveMediaSource == SessionCall(<<"resolve">>)

Program == [
    handleSendText     |-> Forward(SendText),
    handleSendImage    |-> Forward(SendImageWithCaption),
    handleSendDocument |-> ResolveMediaSource \o Forward(SendDocument),
    handleSendVideo    |-> ResolveMediaSource \o Forward(SendVideo),
    handleSendAudio    |-> ResolveMediaSource \o Forward(SendAudio),
    SendTextReply      |-> Forward(SendTextReply),
    SendImage          |-> SendImage,
    SendLocation       |-> SendLocation,
    SendContact        |-> SendContact,
    SetTyping          |-> Forward(SendChatPresence),
    MarkRead           |-> Forward(SendReadReceipt),
    SendPresence       |-> SendPresence,
    handleMarkActive   |-> SessionCall(<<"load">> \o MarkActive),
    SetPresenceConfig  |-> SessionCall(<<"new manager">>),
    Start              |-> SessionCall(<<"connect">>),
    Stop               |-> SessionCall(<<"started?", "load">> \o Stop \o <<"hang up", "down">>)]

Texts == {"handleSendText", "SendTextReply"}
Media == {"handleSendImage", "handleSendDocument", "handleSendVideo", "handleSendAudio", "SendImage"}

(* client.go, handleEvent                                                  *)
Handling == [
    Connected         |-> <<"healthy", "load">> \o OnConnect,
    Disconnected      |-> <<"load">> \o OnDisconnect \o <<"backoff">>,
    LoggedOut         |-> <<"down", "load">> \o OnDisconnect,
    StreamReplaced    |-> <<"down">>,
    PairSuccess       |-> <<"up", "load">> \o OnConnect,
    KeepAliveTimeout  |-> <<"down">>,
    KeepAliveRestored |-> <<"healthy">>]

SenderSteps == {"session?", "connected?", "valid?", "load", "resolve", "upload", "transmit",
                "signal", "sent", "failed", "stop typing", "new manager", "connect",
                "started?", "hang up", "healthy", "up", "down", "backoff"}

StepNames == PresenceSteps \cup SenderSteps

ASSUME OpsAssumption    == Ops \subseteq DOMAIN Program /\ Events \subseteq DOMAIN Handling
ASSUME BoundsAssumption == MaxCalls \in Nat /\ MaxEvents \in Nat

-----------------------------------------------------------------------------
TypeOK ==
    /\ PresenceTypeOK /\ BackoffTypeOK
    /\ todo \in [Goroutines -> Seq(StepNames)]
    /\ {running, paired, dialing, lagging} \subseteq BOOLEAN
    /\ lagging => socket
    /\ call \in [Callers -> DOMAIN Program]
    /\ answer \in [Callers -> {"none", "sent", "error"}]
    /\ sent \in [Callers -> 0 .. 1] /\ failed \in [Callers -> 0 .. 1]
    /\ delivered \subseteq Callers
    /\ calls \in 0 .. MaxCalls /\ emitted \in 0 .. MaxEvents

(* The engine has been started, or has not.                                *)
Init ==
    /\ PresenceInit /\ NewBackoff
    /\ running \in BOOLEAN /\ paired \in BOOLEAN /\ (running => paired)
    /\ dialing = running /\ lagging = FALSE
    /\ call = [c \in Callers |-> "handleMarkActive"]
    /\ answer = [c \in Callers |-> "none"]
    /\ sent = [c \in Callers |-> 0] /\ failed = [c \in Callers |-> 0]
    /\ delivered = {}
    /\ calls = 0 /\ emitted = 0

-----------------------------------------------------------------------------
Begin(c) ==
    /\ todo[c] = <<>> /\ calls < MaxCalls
    /\ calls' = calls + 1
    /\ \E o \in Ops : Instead(c, Program[o]) /\ call' = [call EXCEPT ![c] = o]
    /\ answer' = [answer EXCEPT ![c] = "none"]
    /\ sent' = [sent EXCEPT ![c] = 0] /\ failed' = [failed EXCEPT ![c] = 0]
    /\ delivered' = delivered \ {c}
    /\ UNCHANGED <<network, manager, shown, on, stopTyping, backoff, engine, emitted>>

(* A method returns an error.  SendText and SendTextReply publish the ones *)
(* they find themselves; what has been deferred is still done.             *)
Reports(g) == call[g] \in Texts /\ \E s \in {"valid?", "transmit"} : At(g, s)

MUT_FailKeepsTyping(g) ==
    /\ answer' = [answer EXCEPT ![g] = "error"]
    /\ Instead(g, IF Reports(g) THEN <<"failed">> ELSE <<>>)
    /\ UNCHANGED <<call, sent, failed>>

Fail(g) ==
    /\ answer' = [answer EXCEPT ![g] = "error"]
    /\ Instead(g, (IF Reports(g) THEN <<"failed">> ELSE <<>>)
                     \o (IF stopTyping[g] THEN <<"stop typing">> ELSE <<>>))
    /\ UNCHANGED <<call, sent, failed>>

(* The request is decoded and the session looked up; media are fetched;    *)
(* an upload needs a connection.                                           *)
Check(g) ==
    /\ \E s \in {"session?", "resolve", "upload"} : At(g, s)
    /\ \/ (At(g, "upload") => socket) /\ Proceed(g) /\ UNCHANGED outcome
       \/ Fail(g) /\ UNCHANGED delivered
    /\ UNCHANGED <<network, manager, on, backoff, engine>>

(* What a caller tells the server itself: the presence of the account, of  *)
(* which the managers learn nothing; that it types or no longer does, in a *)
(* chat to which somebody may be sending; what has been read.              *)
TellsPresence(g) ==
    /\ call[g] = "SendPresence"
    /\ \/ UNCHANGED online /\ asked' = ~online
       \/ online' = FALSE /\ asked' = FALSE
    /\ UNCHANGED <<composing, typed>>

TellsTyping(g) ==
    /\ call[g] = "SetTyping"
    /\ \/ typed' = typed \cup {g} /\ UNCHANGED composing
       \/ /\ typed' = typed \ {g}
          /\ composing' \in {composing} \cup {composing \ {h} : h \in Callers}
    /\ UNCHANGED <<online, asked>>

TellsRead(g) == call[g] = "MarkRead" /\ UNCHANGED shown

Signal(g) ==
    /\ At(g, "signal")
    /\ \/ /\ socket
          /\ TellsPresence(g) \/ TellsTyping(g) \/ TellsRead(g)
          /\ Proceed(g)
          /\ UNCHANGED outcome
       \/ Fail(g) /\ UNCHANGED <<delivered, shown>>
    /\ UNCHANGED <<network, manager, on, stopTyping, backoff, engine>>

(* The gate of the engine, and the one of the sender with the JID's syntax.*)
CheckClient(g) ==
    /\ \/ At(g, "connected?") /\ up /\ Proceed(g) /\ UNCHANGED outcome
       \/ At(g, "connected?") /\ ~up /\ Fail(g) /\ UNCHANGED delivered
       \/ At(g, "valid?") /\ up /\ paired /\ Proceed(g) /\ UNCHANGED outcome
       \/ At(g, "valid?") /\ Fail(g) /\ UNCHANGED delivered
    /\ UNCHANGED <<network, manager, on, backoff, engine>>

(* The presence manager is read, under a lock or not.                      *)
Load(g) ==
    /\ At(g, "load")
    /\ on' = [on EXCEPT ![g] = current]
    /\ Proceed(g)
    /\ UNCHANGED <<network, manager, backoff, engine, outcome>>

MUT_TimeoutIsSent(g) ==
    /\ At(g, "transmit")
    /\ \/ /\ answer' = [answer EXCEPT ![g] = "sent"]
          /\ delivered' \in {delivered, IF socket THEN delivered \cup {g} ELSE delivered}
          /\ Proceed(g)
          /\ UNCHANGED <<call, sent, failed>>
       \/ Fail(g) /\ UNCHANGED delivered
    /\ UNCHANGED <<network, manager, on, backoff, engine>>

(* RateLimiter.Wait has returned, whenever that is; a location or contact  *)
(* does not wait.  SendMessage returns an answer of the server, or fails:  *)
(* also when the message has arrived and the answer does not come in time. *)
Transmit(g) ==
    /\ At(g, "transmit")
    /\ \/ /\ socket
          /\ answer' = [answer EXCEPT ![g] = "sent"]
          /\ delivered' = delivered \cup {g}
          /\ Proceed(g)
          /\ UNCHANGED <<call, sent, failed>>
       \/ /\ delivered' \in {delivered, IF socket THEN delivered \cup {g} ELSE delivered}
          /\ Fail(g)
    /\ UNCHANGED <<network, manager, on, backoff, engine>>

Publish(g) ==
    /\ \/ At(g, "sent") /\ sent' = [sent EXCEPT ![g] = @ + 1] /\ UNCHANGED failed
       \/ At(g, "failed") /\ failed' = [failed EXCEPT ![g] = @ + 1] /\ UNCHANGED sent
    /\ Proceed(g)
    /\ UNCHANGED <<network, manager, on, backoff, engine, call, answer, delivered>>

-----------------------------------------------------------------------------
(* engine.go: the life of the engine, as far as it matters here.           *)

SetPresenceConfig(g) ==
    /\ At(g, "new manager")
    /\ IF used = Managers   \* bound
       THEN UNCHANGED <<current, used>>
       ELSE \E m \in Managers \ used : current' = m /\ used' = used \cup {m}
    /\ Proceed(g)
    /\ UNCHANGED <<network, available, stopped, armed, on, backoff, engine, outcome>>

StartEngine(g) ==
    /\ At(g, "connect")
    /\ running' = (running \/ paired)
    /\ dialing' = (dialing \/ (~running /\ paired))
    /\ Proceed(g)
    /\ UNCHANGED <<network, manager, on, backoff, paired, lagging, outcome>>

StopBegins(g) ==
    /\ At(g, "started?")
    /\ IF running THEN Proceed(g) ELSE Instead(g, <<>>)
    /\ UNCHANGED <<network, manager, on, backoff, engine, outcome>>

Close ==
    /\ socket' = FALSE /\ lagging' = FALSE
    /\ online' = FALSE /\ asked' = FALSE /\ composing' = {} /\ typed' = {}

HangUp(g) ==
    /\ At(g, "hang up")
    /\ Close
    /\ running' = FALSE /\ dialing' = FALSE
    /\ Proceed(g)
    /\ UNCHANGED <<up, manager, on, stopTyping, backoff, paired, outcome>>

(* client.go, handleEvent                                                  *)
SetState(g) ==
    /\ \/ At(g, "healthy") /\ up' = TRUE /\ Reset
       \/ At(g, "up") /\ up' = TRUE /\ UNCHANGED backoff
       \/ At(g, "down") /\ up' = FALSE /\ UNCHANGED backoff
    /\ Proceed(g)
    /\ UNCHANGED <<socket, manager, on, engine, outcome>>

(* The sleep that follows Next delays this goroutine and nothing else.     *)
Backoffs(g) ==
    /\ At(g, "backoff") /\ NextDelay
    /\ Proceed(g)
    /\ UNCHANGED <<network, manager, on, engine, outcome>>

SenderStep(g) ==
    \/ Check(g) \/ CheckClient(g) \/ Load(g) \/ Transmit(g) \/ Publish(g)
    \/ SetPresenceConfig(g) \/ StartEngine(g) \/ StopBegins(g) \/ SetState(g) \/ Backoffs(g)

Step(g) ==
    /\ \/ PresenceStep(g) /\ UNCHANGED <<backoff, engine, outcome>>
       \/ SenderStep(g) /\ UNCHANGED <<shown, stopTyping>>
       \/ Signal(g)
       \/ HangUp(g)
    /\ Recorded
    /\ UNCHANGED counts

Idle(m) ==
    /\ IdleTimeout(m) /\ UNCHANGED <<backoff, engine, outcome, counts>>
    /\ Recorded

-----------------------------------------------------------------------------
(* whatsmeow: each event is handled on a goroutine of its own.             *)
Emit(k) ==
    /\ k \in Events /\ emitted < MaxEvents
    /\ emitted' = emitted + 1
    /\ \E h \in Handlers : todo[h] = <<>> /\ Instead(h, Handling[k])

WaConnected ==
    /\ dialing /\ ~socket /\ Emit("Connected")
    /\ socket' = TRUE
    /\ UNCHANGED <<engine, shown>>

(* Lost, or closed again before the login.                                 *)
WaDisconnected ==
    /\ dialing /\ Emit("Disconnected")
    /\ Close
    /\ UNCHANGED <<running, paired, dialing>>

WaLoggedOut ==
    /\ socket /\ Emit("LoggedOut")
    /\ Close
    /\ paired' = FALSE /\ dialing' = FALSE
    /\ UNCHANGED running

WaStreamReplaced ==
    /\ socket /\ Emit("StreamReplaced")
    /\ Close
    /\ dialing' = FALSE
    /\ UNCHANGED <<running, paired>>

(* An engine that pairs: the socket is open, and is opened again to log in.*)
WaPairSuccess ==
    /\ ~running /\ ~paired /\ Emit("PairSuccess")
    /\ running' = TRUE /\ paired' = TRUE /\ dialing' = TRUE
    /\ UNCHANGED <<socket, lagging, shown>>

WaKeepAlive ==
    /\ socket
    /\ Emit(IF lagging THEN "KeepAliveRestored" ELSE "KeepAliveTimeout")
    /\ lagging' = ~lagging
    /\ UNCHANGED <<socket, running, paired, dialing, shown>>

Whatsmeow ==
    /\ \/ WaConnected \/ WaDisconnected \/ WaLoggedOut \/ WaStreamReplaced
       \/ WaPairSuccess \/ WaKeepAlive
    /\ Recorded
    /\ UNCHANGED <<up, manager, on, stopTyping, backoff, outcome, calls>>

Next ==
    \/ \E c \in Callers : Begin(c) /\ Recorded
    \/ \E g \in Goroutines : Step(g)
    \/ \E m \in Managers : Idle(m)
    \/ Whatsmeow

Spec == Init /\ [][Next]_vars

(* Goroutines run, timers run out; nothing makes callers or whatsmeow act. *)
FairSpec ==
    /\ Spec
    /\ WF_vars(\E g \in Goroutines : Step(g))
    /\ WF_vars(\E m \in Managers : Idle(m))

-----------------------------------------------------------------------------
(* presence.go:12: "After send -> set Paused in that chat (stops           *)
(* 'typing...')".  Whatever fails or is lost on the way, a chat that shows *)
(* the indicator of a send has a call that is still to end it.  (Whoever   *)
(* uses SetTyping has to end that indicator himself.)                      *)
TypingIsStopped ==
    \A g \in composing : stopTyping[g] /\ \E i \in DOMAIN todo[g] : todo[g][i] = "stop typing"

(* What a call that has returned has published.  An id is returned only    *)
(* for a message that has arrived; it comes with message.sent, once, if it *)
(* is that of a text or of media, and with nothing if it is that of a      *)
(* location or a contact.  message.failed is published for texts alone,    *)
(* once and with an error; a text that may have arrived is never passed    *)
(* over in silence.  (A message may arrive although the call fails: who    *)
(* then sends it again, sends it twice.)                                   *)
AnswerAgreesWithEvents ==
    \A c \in Callers : todo[c] = <<>> =>
        /\ answer[c] = "sent" => c \in delivered
        /\ sent[c] = 1 <=> answer[c] = "sent" /\ call[c] \in Texts \cup Media
        /\ failed[c] = 1 => answer[c] = "error" /\ call[c] \in Texts
        /\ call[c] \in Texts /\ c \in delivered => sent[c] + failed[c] = 1

(* An account that a manager has shown online has somebody to take it      *)
(* offline again: a manager that knows it and whose timer is running.  So  *)
(* it is as long as no two methods overlap, no "offline" is lost because   *)
(* the client takes the connection for down, and no stopped manager is in  *)
(* use.  (Who shows it online with SendPresence has to undo it himself.)   *)
OnlineIsWatched ==
    calm /\ Quiet /\ online =>
        \E m \in Managers : available[m] /\ (armed[m] \/ stopped[m])

(* presence.go:13: "After IdleTimeout with no activity -> set Unavailable  *)
(* (go offline)", under the same conditions.                               *)
IdleGoesOffline ==
    online ~> (~online \/ ~calm \/ \E m \in Managers : stopped[m])

(* The same whether or not the manager has been stopped, as an engine that *)
(* is stopped and started again keeps its manager.                         *)
NobodyStaysOnline == online ~> (~online \/ ~calm)
=============================================================================
