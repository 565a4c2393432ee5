---------------------------- MODULE SleepMonitor ----------------------------
(***************************************************************************)
(* core/sleep.go and its three platforms: a goroutine that stops the       *)
(* sessions when the machine goes to sleep and starts them again when it   *)
(* wakes, while requests go on and the server may shut down.  The monitor  *)
(* is one more caller of SessionManager: its calls of StopAll and Start    *)
(* are the steps of that module, taken on behalf of Monitor.               *)
(*                                                                         *)
(* A session that the manager calls live may be connecting: IsConnected    *)
(* holds of any part of them.                                              *)
(***************************************************************************)
EXTENDS SessionManager

CONSTANTS
    Monitor,   \* the goroutine of the monitor
    MaxSleeps  \* bound: times the machine goes to sleep

ASSUME MonitorAssumption == Monitor \in Callers /\ MaxSleeps \in Nat /\ MaxRestarts = 0

VARIABLES
    watcher,    \* how the operating system is watched
    asleep, sleeps,
    notices,    \* sleepWakeChan, suspendResumeChan and the callbacks that
                \* wait for room in it, in order; what a poll would see
    stopped,    \* the channel stop is closed
    mpc, names, \* control and local variable of onSleep and onWake
    preSleepSessions,
    untouched,  \* history: recorded and left alone by everyone else since
    resumed     \* history: Start was called for these since the last wake

machine == <<watcher, asleep, sleeps>>
monitor == <<mpc, names, preSleepSessions, untouched, resumed>>
mvars   == <<vars, machine, notices, stopped, monitor>>

Room    == 4   \* capacity of the channel
Waiting == Len(notices) > Room   \* a callback of the system waits for room

(* "native": IOKit or PowrProf.  "poll": Linux looks at wakeup_count, the  *)
(* fallback of the others at the clock.                                    *)
Watchers == {"native", "poll"}

SleepTypeOK ==
    /\ TypeOK
    /\ watcher \in Watchers
    /\ asleep \in BOOLEAN /\ sleeps \in 0 .. MaxSleeps
    /\ notices \in Seq({"sleep", "wake"})
    /\ stopped \in BOOLEAN
    /\ mpc \in {"watch", "collect", "record", "stop", "copy", "wake", "returned"}
    /\ names \subseteq Names /\ preSleepSessions \subseteq Names
    /\ untouched \subseteq preSleepSessions /\ resumed \subseteq Names

(* NewSleepMonitor and Start: registration with the system may fail.       *)
SleepInit ==
    /\ Init
    /\ watcher \in Watchers
    /\ asleep = FALSE /\ sleeps = 0
    /\ notices = <<>> /\ stopped = FALSE
    /\ mpc = "watch" /\ names = {} /\ preSleepSessions = {}
    /\ untouched = {} /\ resumed = {}

Native == watcher = "native"
Monitors(from, to) == Idle(Monitor) /\ mpc = from /\ mpc' = to

-----------------------------------------------------------------------------
(* The machine.  sleepWakeCallback allows the sleep once its notice is in  *)
(* the channel, and the system does not wait for a callback for long: the  *)
(* machine sleeps, and wakes, with the monitor at any point of its work.   *)
FallAsleep ==
    /\ ~asleep /\ sleeps < MaxSleeps
    /\ asleep' = TRUE /\ sleeps' = sleeps + 1
    /\ notices' = IF Native THEN Append(notices, "sleep") ELSE notices
    /\ UNCHANGED <<vars, watcher, stopped, monitor>>

(* Windows sends one or two messages (PBT_APMRESUMEAUTOMATIC and           *)
(* PBT_APMRESUMESUSPEND), macOS one.  What a poll sees of several wakes is *)
(* one; it sees none if the counter cannot be read, or if the machine has  *)
(* slept for less than 30 seconds and the clock is all there is.           *)
MUT_Notified ==
    IF Native THEN {IF notices = <<>> THEN <<"wake">> ELSE notices}
              ELSE {notices, <<"wake">>}

Notified ==
    IF Native THEN {notices \o <<"wake">>, notices \o <<"wake", "wake">>}
              ELSE {notices, <<"wake">>}

WakeUp ==
    /\ asleep /\ asleep' = FALSE
    /\ notices' \in Notified
    /\ UNCHANGED <<vars, watcher, sleeps, stopped, monitor>>

-----------------------------------------------------------------------------
(* The loop of the goroutine.  If stop is closed and there is a notice,    *)
(* select takes either.                                                    *)
Receive ==
    /\ notices # <<>>
    /\ Monitors("watch", IF Head(notices) = "sleep" THEN "collect" ELSE "copy")
    /\ notices' = Tail(notices)
    /\ UNCHANGED <<vars, machine, stopped, names, preSleepSessions, untouched, resumed>>

(* As if stop were looked at only when a notice has come.                  *)
MUT_ReturnOnStop ==
    /\ stopped /\ notices # <<>>
    /\ Monitors("watch", "returned")
    /\ UNCHANGED <<vars, machine, notices, stopped, names, preSleepSessions, untouched, resumed>>

ReturnOnStop ==
    /\ stopped
    /\ Monitors("watch", "returned")
    /\ UNCHANGED <<vars, machine, notices, stopped, names, preSleepSessions, untouched, resumed>>

(* As if the lock for reading were kept until the names are recorded.      *)
MUT_Collect ==
    /\ Unlocked /\ mu' = Monitor
    /\ Monitors("collect", "record")
    /\ \E connected \in SUBSET {n \in Mapped : Live(sessions[n])} : names' = connected
    /\ UNCHANGED <<sessions, store, pc, locals, process>>
    /\ UNCHANGED <<machine, notices, stopped, preSleepSessions, untouched, resumed>>

(* onSleep: the names of the connected sessions, then StopAll.             *)
Collect ==
    /\ Unlocked
    /\ Monitors("collect", "record")
    /\ \E connected \in SUBSET {n \in Mapped : Live(sessions[n])} : names' = connected
    /\ UNCHANGED <<vars, machine, notices, stopped, preSleepSessions, untouched, resumed>>

Busy(n) == \E c \in Callers \ {Monitor} : ~Idle(c) /\ (name[c] = n \/ op[c] \in Sweeping)

Record ==
    /\ Unlocked
    /\ Monitors("record", "stop")
    /\ preSleepSessions' = names
    /\ untouched' = {n \in names \cap Mapped : ~Busy(n)}
    /\ UNCHANGED <<vars, machine, notices, stopped, names, resumed>>

(* The monitor calls the session manager and waits for the call to return. *)
Calls(o, n, l) ==
    /\ op' = [op EXCEPT ![Monitor] = o]
    /\ name' = [name EXCEPT ![Monitor] = n]
    /\ Go(Monitor, l)
    /\ UNCHANGED <<sessions, mu, store, target, todo, process>>

MUT_StopAllSessions ==
    /\ Monitors("stop", "watch")
    /\ UNCHANGED vars
    /\ UNCHANGED <<machine, notices, stopped, names, preSleepSessions, untouched, resumed>>

StopAllSessions ==
    /\ Monitors("stop", "watch")
    /\ Calls("StopAll", name[Monitor], "snapshot")
    /\ UNCHANGED <<machine, notices, stopped, names, preSleepSessions, untouched, resumed>>

(* As if the slice that is copied into had a capacity and no length.       *)
MUT_CopyToNothing ==
    /\ Unlocked
    /\ Monitors("copy", "wake")
    /\ names' = {}
    /\ resumed' = {}
    /\ UNCHANGED <<vars, machine, notices, stopped, preSleepSessions, untouched>>

(* onWake, after its pause: start the sessions one by one, whatever comes  *)
(* of it, and forget them.                                                 *)
Copy ==
    /\ Unlocked
    /\ Monitors("copy", "wake")
    /\ names' = preSleepSessions
    /\ resumed' = {}
    /\ UNCHANGED <<vars, machine, notices, stopped, preSleepSessions, untouched>>

StartNext ==
    /\ Monitors("wake", "wake")
    /\ \E n \in names :
        /\ Calls("Start", n, "create")
        /\ names' = names \ {n}
        /\ resumed' = resumed \cup {n}
    /\ UNCHANGED <<machine, notices, stopped, preSleepSessions, untouched>>

Forget ==
    /\ Unlocked
    /\ names = {}
    /\ Monitors("wake", "watch")
    /\ preSleepSessions' = {} /\ untouched' = {}
    /\ UNCHANGED <<vars, machine, notices, stopped, names, resumed>>

MonitorStep ==
    Receive \/ ReturnOnStop \/ Collect \/ Record \/ StopAllSessions \/ Copy \/ StartNext \/ Forget

-----------------------------------------------------------------------------
(* runServer: sleepMon.Stop() and then sm.StopAll(), without waiting for   *)
(* the monitor.                                                            *)
ShutsDown(c) == At(c, "snapshot") /\ op[c] = "Shutdown"

StopMonitor(c) ==
    /\ ShutsDown(c) /\ ~stopped
    /\ stopped' = TRUE
    /\ UNCHANGED <<vars, machine, notices, monitor>>

CallStep(c) ==
    /\ ShutsDown(c) => stopped
    /\ CallerStep(c)
    /\ UNCHANGED <<machine, notices, stopped, monitor>>

Untouched(c) == IF op'[c] \in Sweeping THEN {} ELSE untouched \ {name'[c]}

Request(c) ==
    /\ Begin(c)
    /\ untouched' = Untouched(c)
    /\ UNCHANGED <<machine, notices, stopped, mpc, names, preSleepSessions, resumed>>

Event ==
    /\ EngineEvent
    /\ UNCHANGED <<machine, notices, stopped, monitor>>

SleepNext ==
    \/ FallAsleep \/ WakeUp
    \/ MonitorStep
    \/ \E c \in Callers \ {Monitor} : Request(c) \/ StopMonitor(c)
    \/ \E c \in Callers : CallStep(c)
    \/ Event

(* Goroutines go on, and the lock is granted to those who wait for it.     *)
SleepFairness ==
    /\ WF_mvars(MonitorStep)
    /\ \A c \in Callers : WF_mvars(CallStep(c) \/ StopMonitor(c))

SleepSpec == SleepInit /\ [][SleepNext]_mvars /\ SleepFairness

-----------------------------------------------------------------------------
(* When onSleep has returned, the sessions it has recorded and that nobody *)
(* else has touched are in the map and say that they are stopped, until    *)
(* they are forgotten, whatever StopAll met and the phone does meanwhile.  *)
(* (Not: before the machine sleeps; and not a session that is started      *)
(* between the collection of the names and StopAll.)                       *)
SleepStops ==
    Idle(Monitor) /\ mpc = "watch" =>
        \A n \in untouched : n \in Mapped /\ ~Live(sessions[n])

(* sleep.go:4: onWake forgets the recorded sessions only when each that    *)
(* nobody else has touched was started again, in the engine it had: the    *)
(* limit did not refuse it and no failure of another one kept it back.     *)
WakeRestores ==
    [][preSleepSessions # {} /\ preSleepSessions' = {} /\ mpc = "wake" =>
        \A n \in untouched : n \in resumed /\ n \in Mapped]_mvars

(* A sleep is undone: what it recorded is taken up when the machine stays  *)
(* awake and the server goes on, whatever requests hold the lock or come   *)
(* between, however the notices of sleep and wake follow on each other.    *)
Recorded    == preSleepSessions # {}
SleepIsUndone ==
    (Recorded /\ ~asleep /\ ~stopped) ~> (~Recorded \/ asleep \/ stopped)

(* Once stop is closed the goroutine of the monitor ends, whatever it was  *)
(* doing and even when notices go on to arrive.                            *)
MonitorReturns == stopped ~> mpc = "returned"

(* However fast sleeps and wakes follow on each other, a callback of the   *)
(* system that waits for room in the channel comes to its end: the monitor *)
(* takes up the notices, whatever requests hold the lock it needs.         *)
CallbacksReturn == (Waiting /\ ~stopped) ~> (~Waiting \/ stopped)
=============================================================================
