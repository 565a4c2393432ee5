------------------------------ MODULE Presence ------------------------------
(***************************************************************************)
(* core/presence.go: the presence managers of one engine.  Their methods   *)
(* run on the goroutines of senders, of whatsmeow's event handlers and of  *)
(* the idle timers, and share two atomic flags and a timer; nothing keeps  *)
(* them from interleaving, so each access and each message to the server   *)
(* is a step.                                                              *)
(*                                                                         *)
(* A method is the sequence of its steps.  todo[g] is what goroutine g has *)
(* still to do; a step may drop the rest (an early return) or put further  *)
(* steps in front of it.  A manager m is also the goroutine that runs its  *)
(* idle callback.                                                          *)
(***************************************************************************)
EXTENDS Integers, Sequences

CONSTANTS
    Callers,    \* goroutines that use the engine
    Handlers,   \* goroutines that run handleEvent
    Managers,   \* presence managers, the first one and the replacements
    Enabled, SendOnConnect, SimulateTyping   \* PresenceConfig

Goroutines == Callers \cup Handlers \cup Managers

ASSUME GoroutinesAssumption == Callers \cap Managers = {} /\ Handlers \cap Managers = {}
ASSUME ConfigAssumption == {Enabled, SendOnConnect, SimulateTyping} \subseteq BOOLEAN

VARIABLES
    up,        \* Client.IsConnected
    socket,    \* the connection is authenticated
    current,   \* the manager that engine, client and sender refer to
    used,      \* the managers made so far
    available, stopped, armed,   \* per manager: isAvailable, stopped, idleTimer is running
    online,    \* the server shows the account online, as a manager has told it
    asked,     \* it does so although no manager has told it: SendPresence has
    composing, \* senders whose chat shows "typing...", as BeforeSend has told it
    typed,     \* callers whose chat does so, as SetTyping has told it
    todo, on,  \* per goroutine: remaining steps, and the manager in use
    stopTyping,\* per goroutine: BeforeSend has returned the function that ends the indicator
    calm       \* history: no two methods have overlapped, no "offline" got lost

network  == <<up, socket>>
manager  == <<current, used, available, stopped, armed>>
shown    == <<online, asked, composing, typed>>
routine  == <<todo, on, stopTyping>>
presence == <<network, manager, shown, routine, calm>>

PresenceSteps == {"running?", "away?", "set available", "tell online", "set unavailable",
                  "tell offline", "arm", "disarm", "typing?", "composing", "set stopped"}

Inside(g) == todo[g] # <<>> /\ Head(todo[g]) \in PresenceSteps
Quiet == \A g \in Goroutines : ~Inside(g)

PresenceTypeOK ==
    /\ up \in BOOLEAN /\ socket \in BOOLEAN
    /\ used \subseteq Managers /\ current \in used
    /\ {available, stopped, armed} \subseteq [Managers -> BOOLEAN]
    /\ online \in BOOLEAN /\ asked \in BOOLEAN
    /\ composing \subseteq Goroutines /\ typed \subseteq Goroutines
    /\ on \in [Goroutines -> Managers]
    /\ stopTyping \in [Goroutines -> BOOLEAN]
    /\ calm \in BOOLEAN
    /\ online \/ asked \/ composing \cup typed # {} => socket

PresenceInit ==
    /\ up = FALSE /\ socket = FALSE
    /\ current \in Managers /\ used = {current}
    /\ available = [m \in Managers |-> FALSE]
    /\ stopped = [m \in Managers |-> FALSE]
    /\ armed = [m \in Managers |-> FALSE]
    /\ online = FALSE /\ asked = FALSE /\ composing = {} /\ typed = {}
    /\ todo = [g \in Goroutines |-> <<>>]
    /\ on = [g \in Goroutines |-> IF g \in Managers THEN g ELSE current]
    /\ stopTyping = [g \in Goroutines |-> FALSE]
    /\ calm = TRUE

-----------------------------------------------------------------------------
(* The methods.                                                            *)

OnConnect ==
    IF Enabled
    THEN <<"running?">> \o (IF SendOnConnect THEN <<"set available">> ELSE <<>>) \o <<"arm">>
    ELSE <<>>

OnDisconnect == IF Enabled THEN <<"disarm", "set unavailable">> ELSE <<>>

BeforeSend ==
    <<"arm">> \o (IF Enabled /\ SimulateTyping THEN <<"typing?", "away?", "composing">> ELSE <<>>)

AfterSend == <<"arm">>

MarkActive == IF Enabled THEN <<"running?", "away?", "arm">> ELSE <<>>

Stop == <<"set stopped", "disarm">>

IdleCallback == <<"running?", "set unavailable">>

-----------------------------------------------------------------------------
(* The steps.                                                              *)

At(g, s) == todo[g] # <<>> /\ Head(todo[g]) = s

Instead(g, steps) == todo' = [todo EXCEPT ![g] = steps]
First(g, steps)   == Instead(g, steps \o Tail(todo[g]))
Proceed(g)        == First(g, <<>>)

(* BeforeSend is over: on with what follows it.                            *)
SkipTyping(g) ==
    LET i == CHOOSE i \in DOMAIN todo[g] : todo[g][i] = "composing" IN
    Instead(g, SubSeq(todo[g], i + 1, Len(todo[g])))

CheckRunning(g) ==
    /\ At(g, "running?")
    /\ IF stopped[on[g]] THEN Instead(g, <<>>) ELSE Proceed(g)
    /\ UNCHANGED <<network, manager, shown, on, stopTyping>>

CheckAway(g) ==
    /\ At(g, "away?")
    /\ IF available[on[g]] THEN Proceed(g) ELSE First(g, <<"set available">>)
    /\ UNCHANGED <<network, manager, shown, on, stopTyping>>

setAvailable(g) ==
    /\ At(g, "set available")
    /\ available' = [available EXCEPT ![on[g]] = TRUE]
    /\ IF available[on[g]] THEN Proceed(g) ELSE First(g, <<"tell online">>)
    /\ UNCHANGED <<network, current, used, stopped, armed, shown, on, stopTyping>>

setUnavailable(g) ==
    /\ At(g, "set unavailable")
    /\ available' = [available EXCEPT ![on[g]] = FALSE]
    /\ IF available[on[g]] THEN First(g, <<"tell offline">>) ELSE Proceed(g)
    /\ UNCHANGED <<network, current, used, stopped, armed, shown, on, stopTyping>>

(* Not sent unless the client says it is connected; fails if it is not.    *)
Tell(g) ==
    /\ At(g, "tell online") \/ At(g, "tell offline")
    /\ IF up /\ socket THEN online' = At(g, "tell online") /\ asked' = FALSE
                       ELSE UNCHANGED <<online, asked>>
    /\ Proceed(g)
    /\ UNCHANGED <<network, manager, composing, typed, on, stopTyping>>

MUT_ArmsOnce(g) ==
    /\ At(g, "arm")
    /\ armed' = [armed EXCEPT ![on[g]] = Enabled /\ ~available[on[g]]]
    /\ Proceed(g)
    /\ UNCHANGED <<network, current, used, available, stopped, shown, on, stopTyping>>

resetIdleTimer(g) ==
    /\ At(g, "arm")
    /\ armed' = [armed EXCEPT ![on[g]] = Enabled]
    /\ Proceed(g)
    /\ UNCHANGED <<network, current, used, available, stopped, shown, on, stopTyping>>

stopIdleTimer(g) ==
    /\ At(g, "disarm")
    /\ armed' = [armed EXCEPT ![on[g]] = FALSE]
    /\ Proceed(g)
    /\ UNCHANGED <<network, current, used, available, stopped, shown, on, stopTyping>>

SetStopped(g) ==
    /\ At(g, "set stopped")
    /\ stopped' = [stopped EXCEPT ![on[g]] = TRUE]
    /\ Proceed(g)
    /\ UNCHANGED <<network, current, used, available, armed, shown, on, stopTyping>>

CheckTyping(g) ==
    /\ At(g, "typing?")
    /\ IF up THEN Proceed(g) ELSE SkipTyping(g)
    /\ UNCHANGED <<network, manager, shown, on, stopTyping>>

MUT_ComposesOffline(g) ==
    /\ At(g, "composing")
    /\ composing' = composing \cup {g}
    /\ stopTyping' = [stopTyping EXCEPT ![g] = TRUE]
    /\ Proceed(g)
    /\ UNCHANGED <<network, manager, online, asked, typed, on>>

(* The typing delay, which follows, changes no state.                      *)
Compose(g) ==
    /\ At(g, "composing")
    /\ composing' = IF socket THEN composing \cup {g} ELSE composing
    /\ stopTyping' = [stopTyping EXCEPT ![g] = TRUE]
    /\ Proceed(g)
    /\ UNCHANGED <<network, manager, online, asked, typed, on>>

(* The function that BeforeSend returns.  SetTyping may have been used for *)
(* the same chat or for another one.                                       *)
StopTyping(g) ==
    /\ At(g, "stop typing")
    /\ composing' = IF stopTyping[g] THEN composing \ {g} ELSE composing
    /\ typed' \in IF stopTyping[g] THEN {typed, typed \ {g}} ELSE {typed}
    /\ stopTyping' = [stopTyping EXCEPT ![g] = FALSE]
    /\ Proceed(g)
    /\ UNCHANGED <<network, manager, online, asked, on>>

(* The timer of m has run out.                                             *)
IdleTimeout(m) ==
    /\ armed[m] /\ todo[m] = <<>>
    /\ armed' = [armed EXCEPT ![m] = FALSE]
    /\ Instead(m, IdleCallback)
    /\ UNCHANGED <<network, current, used, available, stopped, shown, on, stopTyping>>

PresenceStep(g) ==
    \/ CheckRunning(g) \/ CheckAway(g) \/ setAvailable(g) \/ setUnavailable(g) \/ Tell(g)
    \/ resetIdleTimer(g) \/ stopIdleTimer(g) \/ SetStopped(g)
    \/ CheckTyping(g) \/ Compose(g) \/ StopTyping(g)

(* What makes a behaviour less than calm.                                  *)
Overlap  == \E g, h \in Goroutines : g # h /\ Inside(g)' /\ Inside(h)'
Unheard  == online /\ online' /\ \E g \in Goroutines : At(g, "tell offline") /\ ~At(g, "tell offline")'
Recorded == calm' = (calm /\ ~Overlap /\ ~Unheard)
=============================================================================
