# Verification of go-wa-engine in TLA+

This directory holds TLA+ modules for the core of go-wa-engine (`src/core`, `src/cmd/server`), the TLC
configurations that check them on small instances, and TLAPS proofs of the results that do not depend on
the size of the instance.  Every definition is a translation of the Go code; `PROJECT.json` maps each to its
lines.  All paths below are relative to the root of the repository's source.

## 1. The system

go-wa-engine keeps several WhatsApp accounts ("sessions") connected and offers them through an HTTP API and
through mobile bindings.  One session is one `Engine`; the `SessionManager` owns all of them.

| Component | State | Operations | Interacts with |
|---|---|---|---|
| `EventQueue` (core/events.go) | bounded FIFO, drop counter, last dropped type, three counters, under a mutex | `Push`, `Poll`/`PollJSON`, `Clear`, `Stats` | pushed to by `Client` and `Sender`, polled by the application or the SSE stream |
| `Client` (core/client.go) | atomic `state` and `pairingActive`; QR and pairing codes, QR context; `disconnectMu` | `Connect`, `StartPairing`, `StartPhonePairing`, `Disconnect`, `handleEvent`, `handleQRChannel` | calls whatsmeow; called back by it on its own goroutines; drives presence and backoff; pushes events |
| `Engine` (core/engine.go) | atomic `state`; pointers to client, sender, limiter, presence | `Start`, `StartPairing`, `StartPhonePairing`, `Stop`, `Logout`, `Set*Config`, sends | owns client, storage, sender, presence, backoff |
| `SessionManager` (core/session.go) | map from names to engines under an RWMutex; directories on disk | `Start`, `Start*Pairing`, `Stop`, `StopAll`, `RemoveSession`, `LogoutSession`, `Logout`, `Destroy`, discovery | called concurrently by HTTP requests and the sleep monitor; calls engines |
| `Storage` (core/storage.go) | SQLite database with at most one device | `Initialize`, `ClearSession`, recovery of a corrupted file | opened by `Engine`, written by whatsmeow |
| `PresenceManager` (core/presence.go) | atomic `isAvailable` and `stopped`, idle timer | `OnConnect`, `OnDisconnect`, `BeforeSend`, `AfterSend`, `MarkActive`, `Stop`, timer | called from the event handler, from sends and from the API |
| `RateLimiter` (core/ratelimit.go) | tokens, last refill, time of the last send, under a mutex that is released while sleeping | `WaitContext`, `UpdateLastSend` | called by each send |
| `Backoff` (core/backoff.go) | number of attempts | `Next`, `Reset` | called from the event handler |
| `Sender` (core/send.go) | pointers to limiter and presence | send of each kind | presence, limiter, whatsmeow, event queue |
| `SleepMonitor` (core/sleep*.go) | names of the sessions connected before sleep (in `SessionManager`) | `onSleep`, `onWake` | session manager |
| HTTP server (cmd/server/main.go) | none but the session manager | routes, shutdown | session manager |

Device properties, profile queries, error values and the installation as a system service keep no state
worth a model.

What is hard here: the client and the engine coordinate through atomic fields without a lock, so operations
interleave between any two accesses; events arrive on other goroutines and late; engines are used after the
lock of the session manager has been released, while other requests remove or reset the session; the socket,
the state that the client reports, the state of the engine, the map of sessions and the files on disk are
five records of the same thing that are updated one after another; the queue overflows; the presence manager
keeps a flag that is swapped before the message that makes it true is sent, and a timer that fires in between;
senders sleep without the lock of the limiter and compete for the token each has slept for; the answer to a
message may come after the deadline; the machine sleeps and wakes while requests go on.  `hazards` in
`PROJECT.json` lists these places line by line with the properties aimed at them.

What makes each component correct:

- *Event queue*: nothing is lost silently.  Events come in order; every loss is reported with its exact
  number, before the event that follows the gap; statistics and notifications agree.
- *Client and engine*: no event without a handler, no dead-end state, transient states are always resolved,
  a start never overtakes another operation, every call returns; what the engine and the client report about
  the connection is true.
- *Session manager*: never more sessions than the limit; a mapped engine and the database on disk belong
  together, with the credentials in both or in neither; credentials disappear only on purpose; no engine outside
  the map is connected (this one does not hold); no deadlock.
- *Presence and sender*: a chat that a send shows "typing..." is always going to be told that it is over; an account
  that a manager shows online has somebody to take it offline, and goes offline when idle; what a send answers
  agrees with the events that its kind publishes and with what may have arrived.
- *Rate limiter and backoff*: sustained throughput is kept, every wait returns; delays double up to the cap.  The
  minimum interval is kept only towards the sends that a call has seen: two calls that sleep for it at the same time
  leave together, and the jitter shortens it.
- *Sleep monitor*: what is recorded at sleep is stopped then and comes back at wake, in the engines they had and
  without breaking what the session manager promises; callbacks of the system return; the monitor ends at shutdown.
  (That sessions are at rest when the machine sleeps is what the code says and does not keep.)

## 2. Modules

| Module | Models | Extends |
|---|---|---|
| `EventStream` | what the queue promises: a lossy stream that says what it lost | |
| `EventQueue` | core/events.go | instance of `EventStream` |
| `EventQueueProofs` | theorems about `EventQueue` | `EventQueue` |
| `Client` | core/client.go and what whatsmeow does to it | |
| `EngineLife` | what an engine promises to its owner: operations that take effect at once | |
| `Engine` | the lifecycle of core/engine.go on top of the client | `Client`; instance of `EngineLife` |
| `EngineProofs` | theorems about `Engine` | `Engine` |
| `SessionStore` | what the session manager promises: independent sessions, each with its files | |
| `SessionManager` | core/session.go, the directories, the end of `runServer` | instance of `SessionStore` |
| `SessionManagerProofs` | theorems about `SessionManager` | `SessionManager` |
| `SleepMonitor` | core/sleep*.go and the shutdown, on top of the session manager | `SessionManager` |
| `SleepMonitorProofs` | theorems about `SleepMonitor` | `SleepMonitor`, `SessionManagerProofs` |
| `TokenBucket` | what the limiter promises: one bucket that fills all the time | |
| `RateLimiter` | core/ratelimit.go | instance of `TokenBucket` |
| `RateLimiterProofs` | theorems about `RateLimiter` | `RateLimiter` |
| `Presence` | core/presence.go | |
| `Backoff` | core/backoff.go | |
| `BackoffProofs` | lemmas about `Backoff` | `Backoff` |
| `Sender` | core/send.go, the calls above it and the events beside it | `Presence`, `Backoff` |
| `SenderProofs` | theorems about `Sender` | `Sender`, `BackoffProofs` |
| `PresenceProofs` | the theorem about who watches an account shown online | `SenderProofs` |
| `MC*` | the instances that TLC checks | |

### EventQueue

One action per method, since each holds `q.mu` from beginning to end; `Push` and `Poll` are split into their
branches.  `events`, `dropCount`, `lastDropType` and the three `total*` counters are the fields of the struct.
An event is reduced to its number in the order of publication and its type.  `answer` is what the latest
`Poll` returned; `delivered` and `notified` are history variables.

`EventStream` knows only how many events have been published and up to which the consumer has an account.
Its steps are a publication, the delivery of the very next event, the report of exactly the next *n* as lost,
and "nothing" when there is nothing.  `EventQueue!StreamSpec` is that specification with `published` mapped
to `totalPushed` and `accounted` to `delivered + notified`.

### Client and Engine

`Client` has one action for each atomic access, critical section or call into whatsmeow of the four methods;
`pc` is where a goroutine is.  The recursion of `Connect` after a failed compare-and-swap is a jump back to the
first label.  A QR goroutine (`handleQRChannel`) is a member of `qrRunning` until its deferred function has run.
One execution of `handleEvent` is one step: the fields it stores besides `state` are read only by status queries
and a handler registered several times stores the same values again.  An event in flight may be handled at any
later time, after any other, because whatsmeow dispatches on goroutines of its own.

The last section of `Client` stands for whatsmeow, which is not in the repository: a socket (`down`, `open`,
`auth`, `lagging`), the registration of the device (`paired`), `EnableAutoReconnect`, a redial that is due, the
number of registered handlers, QR channels that are open.  It fixes only what this code relies on: `Connect`
fails on an open socket and may fail otherwise, a dropped connection is dialled again exactly if automatic
reconnection is on and the device is paired, cancelling a QR context disconnects a moment later.

`Engine` adds `engState` and the steps of `Start`, both pairing methods and `Stop`.  Their calls of client
methods are the steps of `Client`, so a run of `Engine` interleaves all of engine.go and client.go.  The
operations carry the name of the client method they call (`Start` is "Connect", `Stop` is "Disconnect").
`SerialSpec` is the same system used by one goroutine at a time, with every event handled before anything else
happens: it shows which properties only concurrency breaks.

`EngineLife` is the engine as somebody sees it who uses it from one goroutine: `life` is `stopped`, `running` or `pairing`, `linked` says
whether there is a device; `Start`, `StartPairing` and `Stop` are one step each, and the device is linked only while
the engine pairs and unlinked only while it is up.  `LifeSpec` says that `SerialSpec` implements it.  `linked` is
`paired`; `Life` lets `Start` and `StartPairing` take effect at the moment when the client's method returns without
an error, so that one that fails is a stutter, and `Stop` when the engine is stopped at last: until then an event may
still link or unlink the device, and `eseen`, the state that `Stop` has loaded, tells what the engine was doing.

### SessionManager

`sessions`, `mu`, `dir` and the engines it created.  A critical section that only updates the map is one step.
One that also calls an engine (the reset of an unpaired session, `RemoveSession`, `LogoutSession`) is several
steps with `mu` held, because callers that obtained the engine earlier use it without the lock.  `op`, `name`, `target`
and `todo` are the local variables of a caller, `pc` is where it is.

The methods of an engine are in single steps here, too: each access to its state, each check of `IsPaired`, the
call of a client method.  An engine has its state (`life`), a device in memory (`paired`), a socket (`open`) and the
database it has opened (`db`).  `life` and `open` are not tied to each other: the plain stores of overlapping methods,
a failed phone pairing, or a `Disconnect` that finds a client which takes itself for disconnected leave an open socket
behind a stopped engine, and the phone links or unlinks whatever has a socket (`PairSuccess`, `LoggedOut`).  What the
client itself does meanwhile is in `Client`; here `Connect`, `Dial` and `Disconnect` are one step with all its outcomes.

`Logout` stops the engine and calls `ClearSession`, which is two steps: `ClearDevices` deletes the devices on disk, and
`RenewDevice` replaces the device in memory by what is there now.  Either may fail, and then `Logout` returns; `cleared`
has the engines between the two, or left there by a failure.  With the new device goes a new client; the old one stays
behind as an engine outside the map, with the same database, if its socket is open or if somebody who holds it is
about to open it.

The directory of a session is absent, empty, or has a database without or with credentials.
`owner` and the field `db` of an engine tell whether the database an engine has open is still the one in the
directory: unlinking a directory leaves old engines with a file nobody sees, and a directory that could not be
deleted is opened a second time by the next engine.  `Restart` is a crash or an exit at any point, between the two
steps of a logout, too, followed by `NewSessionManager` and its discovery.  `Shutdown` is the end of `runServer`.

`SessionStore` has no lock, no callers and no engines: for each name its `session`, which is open or not, linked to a
device or not, and has a connection (`up`) or not; whether credentials are `saved` on disk; and whether the name has
gone `astray`, which means that somebody outside the map has its files open.  Sessions are opened within the
limit with what is on disk, dial and hang up; the phone links and unlinks a session only while it is up, and
each time what is on disk goes with it; a logout alone is two steps, `Forget` on disk and `Renew` in memory;
strangers change only names that have gone astray.  The store says nothing of the states that engines report, since
overlapping calls make them wrong.  `SessionManager!StoreSpec` is that specification, with `session` mapped to socket
and device of the engine in the map, `saved` to the directories with credentials and `astray` to the names whose
database is open in an engine that is not the mapped one.

### SleepMonitor

The goroutine of the monitor is one more caller of `SessionManager`.  `mpc` is where it is in `onSleep` or
`onWake`; when one of these calls `StopAll` or `Start`, it sets the control variables of that module for
`Monitor`, and the call is the steps of `SessionManager` until it has returned.  `notices` is the channel between
the callback of the operating system and the goroutine (macOS, Windows), in order, with the callbacks behind it that
wait for one of its four places (`Waiting`); or what the next poll is going to see (Linux, the fallback).  The
machine does not wait for the monitor: the callback allows the sleep once its notice is queued, so the machine sleeps
and wakes with the monitor at any point of `onSleep` or `onWake`.  A native watcher announces sleep and wake, and
on Windows a wake once or twice; a poll sees a wake, or misses it, and never a sleep.  `Receive` and `ReturnOnStop`
are the `select` of the loop, which takes either when both are ready.  `CallStep` makes a shutdown close `stop` before
its `StopAll`, in the order of `runServer`.  `untouched` and `resumed` are history variables: which of the recorded sessions no request or sweep
of another caller has touched since, and for which `Start` has been called.

### RateLimiter

Time is counted in ticks and a token in the ticks it takes to refill one, so that the fractions of tokens are
integers.  `Wait` is divided at its two sleeps, where it gives up `r.mu`; what lies between is one step.  A sleep
has any length that the jitter allows and a waiter wakes at the end of it or later.  `Cancelled` is the context of
`WaitContext`.  `grants` (when each token was handed out) and `seen` (how many when a call began) are history
variables.

`TokenBucket` has one bucket, which fills by a unit in each tick until it is full, and out of which whole tokens are
taken.  `RateLimiter!BucketSpec` maps its `level` to `Refilled`: the tokens that were there when somebody last
looked and what has come in since.

### Presence, Backoff and Sender

These are about what runs in the middle of what, and their methods have hardly any loops, so a method is the
*sequence of its steps*: `todo[g]` is what goroutine *g* has still to do.  A step is one atomic access, one critical
section, one message to the server or one check; it may drop the rest (an early return) or put steps in front (a
call, a deferred function).  `Presence` has the steps of presence.go, among them the callback of the idle timer,
which runs on a goroutine named after its manager.  `Sender` composes: `Program` gives for each operation the
checks of the handler, the session manager and the engine, then the method of send.go, in which `waitBeforeSend` and
`afterSend` are those of `Presence`; `Handling` gives for each event of whatsmeow what `handleEvent` does with the
presence manager and the backoff.  `up` is what `Client.IsConnected` says and `socket` is what is true; they differ as
they do in the code, since the state is stored when an event is handled, and not at all by `Disconnected`.
`Transmit` may fail after the message has arrived, which is what a deadline does.  The wait for a token is a step of any
length before it.  `Signal` is what a caller tells the server itself: `SendPresence` shows the account online, or
offline, and no manager learns of it (`asked`; a manager's own message is `online`), `SetTyping` shows its own
indicator (`typed`) or ends whatever indicator its chat shows.  The exchange of the manager by `SetPresenceConfig` is one step, although it writes three pointers.

`calm` records that no two methods of the presence manager have overlapped and that no "offline" was withheld
because the client took the connection for down.  Without the first the flag and the server can disagree (the
flag is swapped first, the message sent later); `OnlineIsWatched` and `IdleGoesOffline` say what holds as long as
that has not happened.

## 3. Runs

| Run | Checks | Instance | Distinct states |
|---|---|---|---|
| `event_queue` | `TypeOK`, `Conservation`, `LossesReported`, `Suffix`, `StreamSpec`, `EveryEventAccounted` | 3 places, 7 events of 2 types | 9 722 |
| `engine` | `TypeOK`, `NothingUnheard`, `ReconnectsOncePaired`, `ConnectingIsNotStuck`, `NoTransientLeftBehind`, `StartsFromRest` | 2 callers, 3 calls of any operation, 2 events | 775 039 |
| `engine_liveness` | `OperationsReturn` | 2 callers, 3 starts and stops, 2 events | 76 471 |
| `engine_serial` | `StoppedIsClosed`, `ConnectedIsReal`, `LifeSpec` | 1 caller, 5 starts, QR pairings and stops, 4 events | 75 957 |
| `session_manager` | `TypeOK`, `SessionsWithinLimit`, `MappedOwnsDirectory`, `CredentialsAreDurable`, `SomebodyCanGoOn`, `CredentialsLostOnPurpose`, `StoreSpec` | 2 names, limit 1, 2 callers, 3 calls of 7 operations, 1 restart | 916 092 |
| `rate_limiter` | `TypeOK`, `ThroughputBounded`, `SpacedFromSeen`, `BucketSpec`, `EveryWaitReturns` | 2 waiters, 3 calls, burst 2, a token every 2 ticks, interval 2, jitter 50 %, idle time until tick 5 | 78 102 |
| `sender` | `TypeOK`, `TypingIsStopped`, `OnlineIsWatched`, `DelayBounded`, `DelaysGrow` | 2 callers, 2 calls (text, stop), 3 events of all 7 kinds, jitter 20 %, cap at the third delay | 1 173 671 |
| `presence` | `AnswerAgreesWithEvents`, `IdleGoesOffline` | 1 caller, 2 calls of all 16 operations, 2 managers, 2 connections or losses | 319 240 |
| `sleep_monitor` | `SleepStops`, `WakeRestores`, `SleepIsUndone`, `MonitorReturns`, `CallbacksReturn` | 2 names, both paired before, limit 1, a caller with 2 calls (start, remove, shutdown), 2 sleeps, native and polling watcher | 316 847 |

Each of the following runs ends in a counterexample to what a comment of the repository says; `findings` in
`PROJECT.json` quotes it.

| Run | Violates | What happens |
|---|---|---|
| `session_manager_orphan` | `NoOrphanEngine` | `RemoveSession` between the halves of `Start` leaves a connected engine that no operation reaches |
| `session_manager_reset` | `ResetSparesPaired` | a pairing that succeeds while `StartPairing` resets the session loses its credentials |
| `presence_stopped` | `NobodyStaysOnline` | an engine that was stopped and started again has a presence manager whose idle callback does nothing |

Where the code does not keep what its comments say in five more places, no run is spent on it; the modules
contain these behaviours, and the properties that hold say no more than the code does:

- core/storage.go:160-161, "IsPaired checks if there is an existing authenticated session ... checks SQLite state":
  a logout that has deleted the devices on disk and then fails to read the new one (core/storage.go:211) leaves a
  session that calls itself paired, although the next start finds nothing.  `CredentialsAreDurable` and the store have
  this state between `Forget` and `Renew`.
- core/ratelimit.go:11, "no two messages faster than 800ms apart", and :38, "the minimum time between any two
  messages": two calls that sleep for the interval at the same time do not look again and are let go together
  (core/ratelimit.go:115), and the jitter shortens the interval of each.  `SpacedFromSeen` says what is kept.
- core/events.go:59, `message.sent` "is emitted when a message is successfully sent": `SendLocation` and
  `SendContact` return the id of a message and publish nothing (core/send.go:354, 378).
- core/events.go:62, `message.failed` "is emitted when a message fails to send": only the sends of texts publish it;
  those of media, locations and contacts return an error alone (core/send.go:413).  `AnswerAgreesWithEvents`
  says what each kind publishes.
- core/sleep.go:3, "On sleep → StopAll() so WhatsApp sees a clean disconnect, not a dead socket": the callback of the
  system allows the sleep as soon as its notice is queued (core/sleep_darwin.go:49, core/sleep_windows.go:47), so the
  machine may sleep, or be awake again, before `StopAll` has closed anything.  `SleepStops` is about the end of
  `onSleep`, whenever that is.

Some deviations from the documents need no interleaving to be seen: the `oldest_type`
of a drop notification is the type of the *latest* drop (core/events.go:245, 265); each `Start` and each pairing adds
one more handler to the same whatsmeow client, so that later events are published several times
(core/client.go:121); after a logout from the phone the engine stays `running` and `Start` does nothing
(core/engine.go:124); a failed phone pairing leaves its socket open, and `Stop` then returns at once
because the engine counts as stopped (core/client.go:224, core/engine.go:191); discovery looks for `wa.db`
and storage writes `whatsapp.db`, so a restart finds no session (core/session.go:117, core/storage.go:72); on Linux and
with the polling fallback nothing is recorded before sleep, so a wake starts nothing (core/sleep_linux.go:62).  With
overlapping calls, `Stop` can leave a stopped engine with an open socket (core/engine.go:136, 202), which is why
`StoppedIsClosed` and `LifeSpec` belong to the serial run.  The models contain all of these behaviours.

Nor do the properties say more than this: a send that fails after its message has arrived is reported as failed,
and who repeats it sends it twice (core/send.go:139); an account that `SendPresence` shows online, and an indicator
that `SetTyping` shows, stay until the caller ends them; a session that is still connecting when the machine goes to
sleep is stopped and not recorded (core/sleep.go:40); a session that somebody starts while `StopAll` runs stays
connected, at a sleep as at a shutdown (core/session.go:251-256); once the monitor has ended nobody empties its channel,
and a callback may wait for ever.

### Bounds

`MaxPushed`, `MaxCalls`, `MaxEvents`, `MaxRestarts`, `MaxSleeps` bound the number of publications, calls, events,
restarts and sleeps of a behaviour.  Seven events and three places are enough to overflow twice, clear a full queue
and overflow again.  Two callers and three calls are enough for each operation to run between any two steps of
another one and for a third to see what they left; two events are enough for one to be late while another is
handled (with three, 3 424 309 states, the properties of `engine` hold as well).  In `session_manager` the limit is
one for two names, so that both the refusal at the limit and the race for the last place happen; three calls
create, remove and create again under a caller that still holds the first engine.  Of operations that differ only in
what is left out of one of them the run has the larger one: `StartPhonePairing` for the QR pairing, whose failure leaves no
socket; `LogoutSession`, whose request may be left out, for `RemoveSession`; `Shutdown` is in `sleep_monitor`.  Two
callers of one engine interleave at every step of its methods.

In `rate_limiter` three calls are one more than the burst, so that a waiter sleeps for a token and another one
takes it; `Horizon` ends idle time, not the time that somebody sleeps for.  In `sender` two callers have the send
that shows the indicator and the stop that cuts it short, and three events of seven kinds make a connection that is
lost, lags, recovers, is replaced or logged out; `presence` has all operations for one caller at a time and the
replacement of the manager.  There one handler runs at a time; the callbacks of the idle timers always interleave
with everything.  `sleep_monitor` leaves room for a sleep during the wake from another one, and for a request in between.
Two sessions of an earlier run compete for one place, so that a start by the monitor may be refused
because a request was faster.  With two places, where the monitor stops and starts two sessions, `SleepStops` and
`WakeRestores` hold as well (2 155 200 states without the saved sessions), and both are proved for any number.  Two sleeps of at most three notices each are two more than the
channel has places, so that callbacks wait behind a monitor that is at work or waits for the lock.  Interchangeable callers, names,
handlers and managers are symmetric in the safety runs.

The system may stop (all calls made, no event left), so deadlock is not an error in these runs except for the
queue, where polling never stops.  `SomebodyCanGoOn` says instead that calls do not block each other.

### Fairness

`EventQueue!FairSpec` assumes that the application keeps polling: the SSE stream of the server polls every 50 ms.
`Engine!FairSpec` assumes weak fairness of each caller's next step, which the Go scheduler provides; nothing is
assumed of whatsmeow, of the network, of events or of new calls.  `RateLimiter!FairSpec` assumes that time goes on and
that a goroutine whose timer has fired runs.  `Sender!FairSpec` assumes that goroutines with something to do run, and
that a running timer fires.  `SleepSpec` assumes that the monitor and the callers go on; with a lock that is
released again after each critical section, and finitely many requests, weak fairness is enough for each to get
it.  It does not assume that the machine sleeps or wakes.

## 4. Proofs

TLAPS checks the following for every value of the constants; the assumptions are the named `ASSUME`s of
the modules (positive capacity, limit, burst and cost, a jitter between 0 and 100 %, a positive initial delay and
multiplier, bounds in `Nat`, a finite set of names, an owner that is no caller, a monitor that is a caller, managers
that are neither callers nor handlers) and, where a theorem has one, the hypothesis named below.  Every invariant
that a passing run checks is the statement of a theorem, with one exception at the end of this section.

- `EventQueueProofs`: `TypeCorrect`, `EventsConserved`, `LossesAlwaysReported`, `QueueIsSuffix`,
  `GapsAlwaysAnnounced`, and `Implements` (`Spec => StreamSpec`).  The inductive invariant is `IInv`, the
  conjunction of the invariants of the run and `GapsAnnounced`: that an answered event is the next one
  (`GapsAnnounced`) needs to know that the queue holds exactly the latest events (`Suffix`), which needs the
  counters to add up (`Conservation`, `LossesReported`).
- `EngineProofs`, for any number of callers, calls and events: `NoEngineLeftInTransit`, `TransientAlwaysOwned`,
  `StartNeverOvertakes`, `EventsAlwaysHeard`, `ReconnectAlwaysRestored`, `ConnectingNeverStuck`, `TypeCorrect`.
  - That no operation leaves an engine in `starting` or `stopping` is not inductive; what is, is that a transient
    state has a caller that is still to store a state of rest and that the value a compare-and-swap expects is
    `stopped` or `stopping` (`Lifecycle`).
  - For events and reconnection the invariant is `Wiring`: a caller that is about to dial has registered a handler,
    an event in flight was addressed to at least one, and automatic reconnection is off on a paired device only
    while a phone pairing that switches it on again is running, or the event that does so is still to be handled.
  - That a client does not stay `connecting` for ever rests on `Progress`: while it says so, either some caller is
    still to dial or to put the state back, or an event in flight will store another state, or the socket is open
    or due to be dialled.  A lost socket of a paired device is dialled again because automatic reconnection is
    then on, which is where `Wiring` comes in.
  - The types need a count (`Counted`): each call registers at most one handler, so the handlers and the calls
    that are still to register one (`Registers`) are together no more than the calls.
  - `ConnectedAlwaysReal` and `StoppedAlwaysClosed` are about `SerialSpec`, since concurrency breaks both
    properties.  For the first, `Truthful` says that the one event in flight agrees with the socket.  For the
    second, `Closed` follows the one caller that is on its way: which state it has stored, and that nothing is open
    or due to be dialled once it has disconnected (`Sound`).  The theorem has the hypothesis that nobody pairs by
    phone number: a failed phone pairing leaves the socket open (client.go:224) and `Stop` returns at once
    (engine.go:191), so without it the statement is false.
  - `ImplementsLife` (`SerialSpec => LifeSpec`) has the same hypothesis for the same reason: through a socket left open
    the phone links a stopped engine.  `LifeInv` says that a caller is in the method of its operation and that what it
    found out about the device is still true (`Headed`), because the socket is down until it dials (`Closed`), and that
    a running engine has neither a QR channel nor a pairing code.  `LifeOfOne` reduces the mapping to the one caller
    that is on its way; `Effect` then says what each of its steps does to the mapped engine, and `ShownStopped` that
    an engine shown stopped has no socket, so that nothing links or unlinks it.
- `SessionManagerProofs`: `TypeCorrect`, `LimitHolds`, `MappedAlwaysOwns`, `CredentialsAlwaysDurable` and
  `LossesArePurposeful`, for any finite set of names and any number of callers, calls, crashes and restarts, with the
  methods of engines interleaved in any way.  The inductive invariant `IInv` has a part for the files (`FilesInv`) and
  one for the callers (`CallersInv`).  In the first, that a directory agrees with the mapped engine
  (`CredentialsAreDurable`) needs that this engine has the database in there open (`MappedOwnsDirectory`): then
  clearing some other engine cannot reach it; and that only engines that are still paired are between the two steps of a
  logout (`ClearedPaired`).  The second says that the engine a caller works on without the lock, mapped or not, has
  the name of the call (`TargetFits`), and that a caller is at a label of its operation (`Fits`): that is
  why a logout of a removed engine cannot touch the directory of another session.  Each step is first shown to be a
  `FileStep`: it touches one engine (its state, its socket, its device by the phone, the device on disk or the
  one in memory), makes an engine or fails to, deletes an entry, drops them all, or touches nothing; and each kind
  preserves the first part.  The second is preserved by whatever moves one caller from a label to one that
  fits it (`CallerMoves`).  The proof of discovery leaves the names of the two files open, so it holds as well once
  they agree.
  - `LockSpansDeletion`: whoever is about to delete a directory has held `mu` since it stopped that session, alone,
    and its entry is still in the map; that is part of `CallersInv` (`LockFits`).
  - `ImplementsStore` (`Spec => StoreSpec`), the complete refinement.  Each kind of `FileStep` is shown to be a step of
    the store, or a stutter, one lemma for each (`LifeStore`, `SocketStore`, `PhoneStore`, `ClearStore`, `RenewStore`,
    `OpenedStore`, `DeleteStore`, ...).  It needs the invariant above and that no open database has a number yet to be
    given out (`DatabasesKnown`).  Two engines with the same database are what makes a name go astray; all others map to
    a session of their own, and what an engine outside the map does to its file is a step of a stranger
    (`StrangerStore`).
- `SleepMonitorProofs`: `LimitHoldsAcrossSleep`, `OwnsDirectoryAcrossSleep`,
  `CredentialsDurableAcrossSleep`, `LossesPurposefulAcrossSleep`, `LockSpansDeletionAcrossSleep` and `StoreAcrossSleep`
  carry the invariants and the refinement of the session manager over to a system with a monitor: a call that the
  monitor begins is one that a request could have begun, and the monitor's own steps are stutters of the store.
  `SleepAlwaysStops` and `WakeAlwaysRestores` rest on `SleepInv`: a recorded session that nobody else has touched
  stays mapped (`Kept`); after `onSleep` it says that it is stopped, or the `StopAll` of the monitor still has its
  engine before it (`Rests`); in `onWake` it is among the names still to be started, or `Start` was called for it
  (`Taken`).  It needs that no other caller is at work on that session, which is how `untouched` is defined, that no
  event changes what an engine says of itself, and that an engine which says that it is stopping has a caller that
  is about to store that it is stopped (`Held`): `StopAll` passes over such an engine, and since that caller would
  be another one at work on the session, there is none.  `SleepTypeCorrect` is the type invariant `SleepTypeOK`; it is
  in no run, because the runs of the monitor have the properties that it is about.
- `RateLimiterProofs`: `TypeCorrect`, `ThroughputAlwaysBounded`, `BucketAlwaysCounts`, `SendsAlwaysSpaced`, for any
  number of waiters and any configuration.  Throughput over any stretch of time follows from the amount that the
  bucket and the tokens handed out add up to (`BucketCounts`), which a refill raises by the time passed and a
  token moves from one to the other.  The minimum interval follows from what sleeping waiters know: a timer does
  not fire before the interval towards each send that the call had seen is over (`SleepsLongEnough`), because the
  time of the last send is never behind any of them (`Remembered`).  `ImplementsBucket` (`Spec => BucketSpec`) is the
  other half of the accounting, that no refill is forgotten either: a waiter that looks into the bucket leaves
  `Refilled` as it is, one that is let go lowers it by a token, and only time raises it.
- `BackoffProofs` has what is needed about core/backoff.go.  `Power` is a recursive function; that it satisfies its
  equation for every natural number is shown by induction over a *set* of numbers, with tables of the first *n*
  values as witnesses (`Tables`, `Powers`).  The invariant `BackoffInv` says that the recorded delays are
  jittered values of the attempts since the last `Reset`, in their order.
- `SenderProofs`, for any sets of callers, handlers and managers, any operations and events, and any number of
  calls: `SenderTypeCorrect`, `TypingIsAlwaysStopped`, `AnswersAreTrue`, `DelaysAreBounded`, `DelaysAlwaysGrow`.
  - What a goroutine has still to do is a sequence, so the invariants are about sequences: that some step of it is
    in a set (`Has`), that each step in one set is followed by one in another (`Followed`), that a set occurs at
    most once (`Once`).  `ConcatSteps`, `TailSteps` and `AfterSteps` say what becomes of these when a step is
    done, put in front or skipped to.
  - `Script` holds of every program, of every event handling and of whatever is left of them: the indicator that is
    shown is followed by the step that ends it, and what an early return drops contains neither that step nor
    anything that answers.  `Moves` describes how a step that succeeds changes the sequence, in five cases, and
    `MoveScript` shows that each keeps `Script`; a failure leaves only the deferred steps.  With `IndicatorInv` (a
    goroutine that composes has the stop function, and whoever has it still has the step) this gives
    `TypingIsAlwaysStopped`.
  - `Sending` holds besides of sends: nothing that can fail lies between the answer of the server and the event,
    and each is there once.  `Progress` ties the place in the program to the answer and to what has been published;
    `AnswersAreTrue` is its last case, when nothing is left to do: it says of texts and media, of locations and
    contacts, and of the rest what each of them publishes.
  - `DelaysAlwaysGrow` has the hypothesis `Outweighs`, that the multiplier outweighs the jitter even after rounding:
    with a jitter of *j* %, *InitialDelay* · (*Multiplier* · (100 − *j*) − (100 + *j*)) ≥ 100.  It holds of the
    defaults (two seconds, 2, 20 %, in milliseconds), and without it the statement is false.
- `PresenceProofs`, on the same terms: `OnlineAlwaysWatched`, the invariant about the idle timer.  It needs to know
  *where* in a method each goroutine is, so the sequences are read as words: `Outside` is the largest set of
  sequences made of steps that are not in presence.go and of whole methods, and `Methods`, `Typed`, `Hiding`,
  `Stopping` and the rest are what is left of a method at each of its places (`ProgramOutside` and
  `HandlingOutside` show that everything a goroutine may begin is in `Outside`).  `WatchInv` then says, while it
  is calm: at most one goroutine is inside a method; if it is about to send "online", its manager
  already knows; if it is in the middle of `BeforeSend`, the timer runs; and an account shown online has a
  manager that knows it and whose timer runs or that was stopped, or the goroutine inside is about to start the
  timer or to take the account offline (`Watched`).  The timer that fires is the hard case: the callback
  then watches in place of the timer, and if it finds its manager stopped, that is the exception that the
  property makes.  That the swapped flag and the message can be overtaken by another method is why `Alone` is
  needed, and `calm` in the property.

The four refinements (`StreamSpec`, `LifeSpec`, `StoreSpec`, `BucketSpec`) are about safety; the abstract
specifications state no fairness.

Model-checked only: the temporal properties (`EveryEventAccounted`, `OperationsReturn`, `EveryWaitReturns`,
`IdleGoesOffline`, `SleepIsUndone`, `MonitorReturns`, `CallbacksReturn`), since liveness is beyond the prover, and `SomebodyCanGoOn`, which
is stated with ENABLED.

## 5. Not modelled

- `Engine.SetRateLimiterConfig` and the exchange of sender and presence manager in `Engine.Logout`: they need several
  generations of limiter, client and sender in one model.  What `Logout` does to the files, and the old client that may
  keep its connection, are in `SessionManager`.
- `RateLimiter.SimulateTypingDelay`: a duration that nothing but the length of a sleep depends on.
- The recovery of a corrupted database in `Storage` (core/storage.go:77-89), which deletes the file, and the credentials
  in it, before anything else is opened: `CredentialsLostOnPurpose` is about files that can be read.
- The contents of messages and media, uploads, JSON, routing and authentication, profile queries, device properties,
  error values, `SendSticker` (which does nothing yet), the end of the macOS run loop, and the installation as
  a service: I/O without protocol state.
- An idle timeout of zero, which switches the timer off: `Presence` assumes a positive one.
- The limit of sessions is a constant: the code has 10 (core/session.go:42), its documents say 5.

What could follow: a `Sender` with two generations of client for `Logout`; the composition of `Sender` with
`RateLimiter` and `EventQueue`, which now share only their interfaces; `SessionManager` on top of the steps of `Client`
in place of a socket that is open or not.
