------------------------- MODULE SleepMonitorProofs -------------------------
(***************************************************************************)
(* Machine-checked proofs about SleepMonitor, for every set of sessions,   *)
(* every number of requests and of times the machine sleeps: the monitor   *)
(* keeps the invariants of the session manager, and what it promises of    *)
(* the sessions that nobody else touches.                                  *)
(***************************************************************************)
EXTENDS SleepMonitor, SessionManagerProofs

(* The monitor calls the session manager.                                  *)
MonitorCalls ==
    \/ Calls("StopAll", name[Monitor], "snapshot")
    \/ \E n \in Names : Calls("Start", n, "create")

LEMMA MonitorCallStep ==
  ASSUME FilesInv, CallersInv, Idle(Monitor), MonitorCalls
  PROVE  FileStep /\ FilesInv' /\ CallersInv'
<1>0. Monitor \in Callers
  BY MonitorAssumption
<1>1. PICK o \in {"StopAll", "Start"}, n \in Names, l \in {"snapshot", "create"} :
          Calls(o, n, l) /\ Fits(l, o)
  BY <1>0 DEF MonitorCalls, CallersInv, CallersType, Fits, Sweeping
<1>2. /\ op' = [op EXCEPT ![Monitor] = o]
      /\ name' = [name EXCEPT ![Monitor] = n]
      /\ pc' = [pc EXCEPT ![Monitor] = l]
      /\ UNCHANGED <<sessions, mu, store, target, todo>>
  BY <1>1 DEF Calls, Go
<1>3. o \in Operations /\ l \in Labels /\ l \notin Locked /\ l \notin Using
  BY DEF Operations, Sweeping, Labels, Locked, Using, InStop, InStart, InPair
<1>4. FileStep /\ FilesInv' /\ Known' = Known /\ Ids' = Ids /\ Mapped' = Mapped
  BY <1>2, LocalInv DEF TouchesNothing, Mapped
<1>5. mu # Monitor
  BY <1>0, NoLock DEF Idle, Locked, InStop
<1>6. CallersType'
  BY <1>0, <1>2, <1>3, <1>4, <1>5 DEF CallersInv, CallersType
<1>7. ASSUME NEW d \in Callers
      PROVE  (TargetFits(d) /\ LockFits(d) /\ Fits(pc[d], op[d]))'
  <2>1. CASE d = Monitor
    <3>1. pc'[d] = l /\ op'[d] = o /\ mu' # d
      BY <1>0, <1>2, <1>5, <2>1 DEF CallersInv, CallersType
    <3>2. l \notin {"unlink", "delete"}
      OBVIOUS
    <3> QED
      BY <1>1, <1>3, <3>1, <3>2 DEF TargetFits, LockFits
  <2>2. CASE d # Monitor
    <3>1. pc'[d] = pc[d] /\ op'[d] = op[d] /\ name'[d] = name[d]
      BY <1>2, <2>2 DEF CallersInv, CallersType
    <3>2. TargetFits(d) /\ LockFits(d) /\ Fits(pc[d], op[d])
      BY DEF CallersInv
    <3> QED
      BY <1>2, <1>4, <3>1, <3>2 DEF TargetFits, LockFits, store
  <2> QED
    BY <2>1, <2>2
<1> QED
  BY <1>4, <1>6, <1>7 DEF CallersInv

NamesType == names \subseteq Names /\ preSleepSessions \subseteq Names

LEMMA NextNamesType ==
  ASSUME NamesType, [SleepNext]_mvars
  PROVE  NamesType'
<1>1. \/ UNCHANGED <<names, preSleepSessions>>
      \/ names' \subseteq names \/ names' \subseteq Mapped \/ names' = preSleepSessions
  BY DEF SleepNext, mvars, monitor, MonitorStep, FallAsleep, WakeUp, Receive, ReturnOnStop,
     Collect, Record, StopAllSessions, Copy, StartNext, Forget, Request, StopMonitor,
     CallStep, Event
<1>2. UNCHANGED preSleepSessions \/ preSleepSessions' \in {names, {}}
  BY DEF SleepNext, mvars, monitor, MonitorStep, FallAsleep, WakeUp, Receive, ReturnOnStop,
     Collect, Record, StopAllSessions, Copy, StartNext, Forget, Request, StopMonitor, CallStep,
     Event
<1> QED
  BY <1>1, <1>2 DEF NamesType, Mapped

(* What a step does to the variables of the session manager.               *)
LEMMA StepOfManager ==
  ASSUME NamesType, [SleepNext]_mvars
  PROVE  \/ [Next]_vars
         \/ Idle(Monitor) /\ MonitorCalls /\ UNCHANGED process
<1>1. CASE FallAsleep \/ WakeUp
  BY <1>1 DEF FallAsleep, WakeUp
<1>2. CASE MonitorStep
  <2>1. CASE StopAllSessions \/ StartNext
    BY <2>1 DEF StopAllSessions, StartNext, MonitorCalls, Monitors, Calls, NamesType
  <2>2. CASE ~(StopAllSessions \/ StartNext)
    BY <1>2, <2>2 DEF MonitorStep, Receive, ReturnOnStop, Collect, Record, Copy, Forget
  <2> QED
    BY <2>1, <2>2
<1>3. CASE \E c \in Callers \ {Monitor} : Request(c) \/ StopMonitor(c)
  BY <1>3 DEF Request, StopMonitor, Next
<1>4. CASE \E c \in Callers : CallStep(c)
  BY <1>4 DEF CallStep, Next
<1>5. CASE Event
  BY <1>5 DEF Event, Next
<1>6. CASE UNCHANGED mvars
  BY <1>6 DEF mvars
<1> QED
  BY <1>1, <1>2, <1>3, <1>4, <1>5, <1>6 DEF SleepNext

LEMMA SleepNextStore ==
  StoreInv /\ NamesType /\ [SleepNext]_mvars => StoreInv' /\ NamesType' /\ StoreStep
<1> SUFFICES ASSUME StoreInv, NamesType, [SleepNext]_mvars
             PROVE  StoreInv' /\ NamesType' /\ StoreStep
  OBVIOUS
<1>0. NamesType'
  BY NextNamesType
<1>1. CASE [Next]_vars
  BY <1>0, <1>1, NextStore
<1>2. CASE Idle(Monitor) /\ MonitorCalls /\ UNCHANGED process
  <2>1. FilesInv /\ CallersInv /\ ProcessType /\ DatabasesKnown
    BY DEF StoreInv, IInv
  <2>2. FileStep /\ FilesInv' /\ CallersInv'
    BY <1>2, <2>1, MonitorCallStep
  <2>3. ProcessType'
    BY <1>2, <2>1 DEF ProcessType, process
  <2>4. StoreStep /\ DatabasesKnown'
    BY <2>1, <2>2, FileStepStore
  <2> QED
    BY <1>0, <2>2, <2>3, <2>4 DEF StoreInv, IInv
<1> QED
  BY <1>1, <1>2, StepOfManager

LEMMA MonitoredStoreInv == SleepSpec => [](StoreInv /\ NamesType)
<1>1. SleepInit => StoreInv /\ NamesType
  BY InitStore DEF SleepInit, NamesType
<1> QED
  BY <1>1, SleepNextStore, PTL DEF SleepSpec

(* With the monitor among the callers, too, and while the server shuts     *)
(* down under it, no more sessions are loaded than the limit allows        *)
(* (sleep.go:36-74, main.go:152).                                          *)
THEOREM LimitHoldsAcrossSleep == SleepSpec => []SessionsWithinLimit
<1>1. StoreInv => SessionsWithinLimit
  BY DEF StoreInv, IInv, FilesInv
<1> QED
  BY <1>1, MonitoredStoreInv, PTL

(* A session that a wake starts again works on its own directory, also if  *)
(* requests have removed or replaced it in its sleep.                      *)
THEOREM OwnsDirectoryAcrossSleep == SleepSpec => []MappedOwnsDirectory
<1>1. StoreInv => MappedOwnsDirectory
  BY DEF StoreInv, IInv, FilesInv
<1> QED
  BY <1>1, MonitoredStoreInv, PTL

(* No sleep, wake or shutdown makes the map and the credentials on disk    *)
(* disagree, at whatever step of a logout it comes.                        *)
THEOREM CredentialsDurableAcrossSleep == SleepSpec => []CredentialsAreDurable
<1>1. StoreInv => CredentialsAreDurable
  BY DEF StoreInv, IInv, FilesInv
<1> QED
  BY <1>1, MonitoredStoreInv, PTL

(* Between the stop of a session and its deletion the monitor does not get *)
(* in either: a wake cannot load it again in between (session.go:220-227,  *)
(* 266-283, sleep.go:36-74).                                               *)
THEOREM LockSpansDeletionAcrossSleep == SleepSpec => []DeletesWhatItStopped
<1>1. StoreInv => DeletesWhatItStopped
  BY CallersLock DEF StoreInv, IInv
<1> QED
  BY <1>1, MonitoredStoreInv, PTL

(* The sessions are a SessionStore also with the monitor among the         *)
(* callers: to stop all of them and to start some again is nothing that a  *)
(* user of the API could not see anyway.                                   *)
THEOREM StoreAcrossSleep == SleepSpec => StoreSpec
<1>1. SleepInit => Store!Init
  BY InitStore DEF SleepInit
<1>2. StoreInv /\ NamesType /\ [SleepNext]_mvars => [Store!Next]_(Store!svars)
  BY SleepNextStore DEF StoreStep
<1> QED
  BY <1>1, <1>2, MonitoredStoreInv, PTL DEF SleepSpec, StoreSpec, Store!Spec

(* No sleep, wake or shutdown loses the credentials of a session.          *)
THEOREM LossesPurposefulAcrossSleep == SleepSpec => CredentialsLostOnPurpose
<1>1. StoreInv /\ NamesType /\ [SleepNext]_mvars => [LostOnPurpose]_vars
  <2> SUFFICES ASSUME StoreInv, NamesType, [SleepNext]_mvars PROVE [LostOnPurpose]_vars
    OBVIOUS
  <2>1. CASE [Next]_vars
    BY <2>1, NextLosesOnPurpose DEF StoreInv
  <2>2. CASE MonitorCalls
    BY <2>2 DEF MonitorCalls, Calls, store, files, LostOnPurpose
  <2> QED
    BY <2>1, <2>2, StepOfManager
<1> QED
  BY <1>1, MonitoredStoreInv, PTL DEF SleepSpec, CredentialsLostOnPurpose

-----------------------------------------------------------------------------
(* The states of the engines.  Whatever touches one leaves the others      *)
(* alone, and an engine that is new, or that stays behind, is stopped.     *)
LEMMA TouchesOne ==
  ASSUME FilesInv, NEW e \in Known, TouchesEngine(e)
  PROVE  /\ UNCHANGED sessions
         /\ \A f \in Known \ {e} : engines'[f] = engines[f]
         /\ ChangesLife(e) \/ engines'[e].life = engines[e].life
         /\ \A f \in Known' : f \in Known \/ engines'[f].life = "stopped"
<1>0. engines \in Seq(Engines) /\ Len(engines) \in Nat
  BY LenProperties DEF FilesInv, FilesType
<1>1. CASE OneEngine(e) /\ UNCHANGED sessions
  <2>1. Known' = Known
    BY <1>1 DEF OneEngine, SameEngines, Known
  <2>2. ChangesLife(e) \/ engines'[e].life = engines[e].life
    BY <1>0, SetSocketKeeps, LinkKeeps, UnlinkKeeps, NewClientKeeps
       DEF TouchesEngine, ChangesSocket, LinksDevice, PairSuccess, UnlinksDevice, LoggedOut,
           ClearsFile, RenewsDevice
  <2> QED
    BY <1>1, <2>1, <2>2 DEF OneEngine
<1>2. CASE ClearsFile(e)
  BY <1>2 DEF ClearsFile, Known
<1>3. CASE RenewsDevice(e)
  <2>1. PICK p \in BOOLEAN : NewClient(e, p)
    BY <1>3 DEF RenewsDevice
  <2>2. /\ \A f \in Known \ {e} : engines'[f] = engines[f]
        /\ engines'[e].life = engines[e].life
        /\ \/ Len(engines') = Len(engines)
           \/ /\ Len(engines') = Len(engines) + 1
              /\ engines'[Len(engines) + 1].life = "stopped"
    BY <1>0, <2>1, NewClientKeeps, LeftBehindIs
  <2>3. \A f \in Known' : f \in Known \/ engines'[f].life = "stopped"
    BY <1>0, <2>2 DEF Known
  <2> QED
    BY <1>3, <2>2, <2>3 DEF RenewsDevice
<1>4. CASE ChangesLife(e) \/ ChangesSocket(e) \/ LinksDevice(e) \/ UnlinksDevice(e)
  <2>1. OneEngine(e) /\ UNCHANGED sessions
    BY <1>4, LifeOrSocketSets, LinkSets, UnlinkSets DEF SetCredentials
  <2> QED
    BY <1>1, <2>1
<1> QED
  BY <1>2, <1>3, <1>4 DEF TouchesEngine

(* A caller that sends a request to log out, or an event, keeps every life.*)
SameLives ==
    /\ \A f \in Known : engines'[f].life = engines[f].life
    /\ \A f \in Known' : f \in Known \/ engines'[f].life = "stopped"

LEMMA UnlinkSameLives ==
  ASSUME FilesInv, NEW e \in Known, PairSuccess(e) \/ LoggedOut(e) \/ Lost(e)
  PROVE  SameLives
<1>0. engines \in Seq(Engines)
  BY DEF FilesInv, FilesType
<1>1. OneEngine(e) /\ engines'[e].life = engines[e].life
  BY <1>0, LinkKeeps, UnlinkKeeps, SetSocketKeeps DEF PairSuccess, LoggedOut, Lost
<1>2. Known' = Known
  BY <1>1 DEF OneEngine, SameEngines, Known
<1> QED
  BY <1>1, <1>2 DEF OneEngine, SameLives

LEMMA AddSameLives ==
  ASSUME FilesInv, CallersInv, NEW c \in Callers, getOrCreateSession(c)
  PROVE  /\ SameLives
         /\ \A m \in Names \ {name[c]} : sessions'[m] = sessions[m]
         /\ Mapped \subseteq Mapped'
<1> DEFINE n == name[c]
<1>0. n \in Names /\ sessions \in [Names -> Ids] /\ Len(engines) \in Nat
  BY LenProperties DEF CallersInv, CallersType, FilesInv, FilesType
<1>1. CASE UNCHANGED <<engines, sessions>>
  BY <1>1 DEF SameLives, Known, Mapped
<1>2. CASE AddEngine(c)
  <2>1. Opened(n)
    BY <1>2 DEF AddEngine, Opened, getOrCreateSession
  <2>2. /\ Len(engines') = Len(engines) + 1
        /\ \A f \in Known : engines'[f] = engines[f]
        /\ engines'[Len(engines) + 1] = NewEngine(n, Len(engines) + 1)
    BY <1>0, <2>1, OpenedFacts DEF FilesInv
  <2>3. engines'[Len(engines) + 1].life = "stopped"
    BY <2>2 DEF NewEngine
  <2>4. SameLives
    BY <1>0, <2>2, <2>3 DEF SameLives, Known
  <2>5. UNCHANGED sessions \/ sessions' = [sessions EXCEPT ![n] = Len(engines) + 1]
    BY <1>2 DEF AddEngine
  <2> QED
    BY <1>0, <2>4, <2>5 DEF Mapped
<1> QED
  BY <1>1, <1>2 DEF getOrCreateSession, Reuse, Refuse, CreateFails

(* A step of caller c, who is not sweeping, leaves every session alone     *)
(* that has another name than the one c was called for.                    *)
Alone(n) ==
    /\ sessions'[n] = sessions[n]
    /\ engines'[sessions[n]].life = engines[sessions[n]].life

LastFits(c) == pc[c] = "last" => op[c] \in Sweeping

LEMMA LeavesAlone ==
  ASSUME FilesInv, CallersInv, NEW c \in Callers, CallerStep(c), LastFits(c),
         op[c] \notin Sweeping, NEW n \in Mapped, name[c] # n
  PROVE  Alone(n)
<1> DEFINE f == sessions[n]
<1>0. n \in Names /\ f \in Known /\ engines[f].name = n /\ sessions \in [Names -> Ids]
  BY MappedIsKnown DEF FilesInv, FilesType, MappedOwnsDirectory, Mapped
<1>1. ASSUME pc[c] \in Using
      PROVE  target[c] \in Known /\ f # target[c]
  BY <1>0, <1>1 DEF CallersInv, TargetFits
<1>2. CASE EngineStep(c)
  BY <1>0, <1>1, <1>2, EngineStepMoves, EngineStepFiles, TouchesOne DEF TouchesNothing, store, Alone
<1>3. CASE getOrCreateSession(c)
  BY <1>0, <1>3, AddSameLives DEF SameLives, Alone
<1>4. CASE LogoutRequest(c)
  <2>1. target[c] \in Known /\ UNCHANGED sessions
    BY <1>1, <1>4 DEF LogoutRequest, At, Using, Locked
  <2>2. UNCHANGED engines \/ LoggedOut(target[c])
    BY <1>4 DEF LogoutRequest, LoggedOut, Engine
  <2> QED
    BY <1>0, <2>1, <2>2, UnlinkSameLives DEF SameLives, Alone
<1>5. CASE Delete(c)
  BY <1>0, <1>5 DEF Delete, Unmap, Alone
<1>6. CASE Reset(c) \/ Remove(c) \/ getSession(c)
  BY <1>6 DEF Reset, Remove, getSession, store, Alone
<1>7. ~(Snapshot(c) \/ StopNext(c) \/ StopAllDone(c) \/ Last(c))
  BY DEF Snapshot, StopNext, StopAllDone, Last, At, LastFits, CallersInv, Fits
<1> QED
  BY <1>2, <1>3, <1>4, <1>5, <1>6, <1>7 DEF CallerStep

-----------------------------------------------------------------------------
(* An engine that says it is stopping is being stopped: some caller is     *)
(* between the two stores of Engine.Stop (engine.go:189-205), and will     *)
(* store that it is stopped.                                               *)
Finishing(c, e) == pc[c] \in {"hangup", "rest"} /\ target[c] = e

Held == \A e \in Known : engines[e].life = "stopping" => \E c \in Callers : Finishing(c, e)

LEMMA HeldKept ==
  ASSUME Held, NEW c \in Callers, pc[c] \notin {"hangup", "rest"}, SameLives,
         \A d \in Callers \ {c} : pc'[d] = pc[d] /\ target'[d] = target[d]
  PROVE  Held'
  BY DEF Held, SameLives, Finishing

LEMMA QuietLives ==
  ASSUME FilesInv, UNCHANGED engines
  PROVE  SameLives
  BY DEF SameLives, Known

LEMMA EngineStepHeld ==
  ASSUME FilesInv, CallersInv, Held, NEW c \in Callers, EngineStep(c)
  PROVE  Held'
<1> DEFINE e == target[c]
<1>0. /\ e \in Known /\ engines \in Seq(Engines) /\ UNCHANGED target
      /\ pc \in [Callers -> Labels]
  BY EngineStepMoves DEF CallersInv, CallersType, TargetFits, FilesInv, FilesType, locals
<1>1. \A d \in Callers \ {c} : pc'[d] = pc[d]
  BY <1>0, EngineStepMoves DEF Go
<1>2. \A f \in Known' : /\ f = e \/ f \notin Known => engines'[f].life # "stopping" \/ f = e
                        /\ f \in Known \ {e} => engines'[f].life = engines[f].life
  BY <1>0, EngineStepFiles, TouchesOne DEF TouchesNothing, store, Known
<1>3. SUFFICES ASSUME engines'[e].life = "stopping"
               PROVE  \E d \in Callers : Finishing(d, e)'
  BY <1>0, <1>1, <1>2, <1>3 DEF Held, Finishing
<1>4. CASE StoreStopping(c) \/ Disconnect(c)
  BY <1>0, <1>4 DEF StoreStopping, Disconnect, Go, Finishing
<1>5. CASE StoreStopped(c) \/ StoreRunning(c) \/ StorePairing(c)
  <2>1. \E l \in {"stopped", "running", "pairing"} : SetLife(e, l)
    BY <1>5 DEF StoreStopped, StoreRunning, StorePairing
  <2>2. engines'[e].life # "stopping"
    BY <1>0, <2>1, SetLifeKeeps DEF Lives
  <2> QED
    BY <1>3, <2>2
<1>6. CASE StartSwap(c) \/ CheckPaired(c) \/ Connect(c) \/ PairLoad(c) \/ PairCheck(c) \/ Dial(c)
           \/ StopLoad(c) \/ ClearDevices(c) \/ RenewDevice(c)
  <2>1. pc[c] \notin {"hangup", "rest"}
    BY <1>6 DEF StartSwap, CheckPaired, Connect, PairLoad, PairCheck, Dial, StopLoad,
       ClearDevices, RenewDevice, At
  <2>2. engines[e].life = "stopping"
    <3>1. CASE StartSwap(c)
      BY <1>0, <1>3, <3>1, SetLifeKeeps DEF StartSwap, Lives
    <3>2. CASE Connect(c) \/ Dial(c)
      BY <1>0, <1>3, <3>2, SetSocketKeeps, KnownIsEngine DEF Connect, Dial, Engine
    <3>3. CASE RenewDevice(c)
      BY <1>0, <1>3, <3>3, NewClientKeeps DEF RenewDevice
    <3>4. CASE CheckPaired(c) \/ PairLoad(c) \/ PairCheck(c) \/ StopLoad(c) \/ ClearDevices(c)
      BY <1>3, <3>4 DEF CheckPaired, PairLoad, PairCheck, StopLoad, ClearDevices, OnlyCaller, store
    <3> QED
      BY <1>6, <3>1, <3>2, <3>3, <3>4
  <2> QED
    BY <1>0, <1>1, <2>1, <2>2 DEF Held, Finishing
<1> QED
  BY <1>4, <1>5, <1>6 DEF EngineStep

LEMMA CallerStepHeld ==
  ASSUME FilesInv, CallersInv, Held, NEW c \in Callers, CallerStep(c)
  PROVE  Held'
<1> USE DEF CallersInv, CallersType, At, Go, Return, locals
<1>1. CASE EngineStep(c)
  BY <1>1, EngineStepHeld
<1>2. CASE getOrCreateSession(c)
  BY <1>2, AddSameLives, HeldKept DEF getOrCreateSession, Reuse, Refuse, CreateFails, AddEngine
<1>3. CASE LogoutRequest(c)
  <2>1. target[c] \in Known
    BY <1>3 DEF LogoutRequest, TargetFits, Using, Locked
  <2>2. UNCHANGED engines \/ LoggedOut(target[c])
    BY <1>3 DEF LogoutRequest, LoggedOut, Engine
  <2>3. SameLives
    BY <2>1, <2>2, QuietLives, UnlinkSameLives
  <2> QED
    BY <1>3, <2>3, HeldKept DEF LogoutRequest
<1>4. CASE Reset(c) \/ Remove(c)
  BY <1>4, QuietLives, HeldKept DEF Reset, Remove, Take, store
<1>5. CASE Delete(c)
  BY <1>5, QuietLives, HeldKept DEF Delete
<1>6. CASE getSession(c)
  BY <1>6, QuietLives, HeldKept DEF getSession, store
<1>7. CASE Snapshot(c) \/ StopNext(c)
  BY <1>7, QuietLives, HeldKept DEF Snapshot, StopNext, store
<1>8. CASE StopAllDone(c) \/ Last(c)
  BY <1>8, QuietLives, HeldKept DEF StopAllDone, Last, OnlyCaller, store
<1> QED
  BY <1>1, <1>2, <1>3, <1>4, <1>5, <1>6, <1>7, <1>8 DEF CallerStep

-----------------------------------------------------------------------------
(* The inductive invariant: where the monitor and its calls are, and what  *)
(* that means for the untouched sessions.                                  *)
Sweeps == {"snapshot", "sweep"} \cup InStop
Starts == {"create", "rest"} \cup InStart

MonitorControl ==
    \/ pc[Monitor] = "idle"
    \/ mpc = "watch" /\ op[Monitor] = "StopAll" /\ pc[Monitor] \in Sweeps
    \/ mpc = "wake" /\ op[Monitor] = "Start" /\ pc[Monitor] \in Starts

Kept == \A n \in untouched : n \in preSleepSessions /\ n \in Mapped /\ ~Busy(n)

Resting(n) ==
    \/ ~Live(sessions[n])
    \/ pc[Monitor] = "snapshot"
    \/ pc[Monitor] \in Sweeps /\ sessions[n] \in todo[Monitor]
    \/ pc[Monitor] \in InStop /\ sessions[n] = target[Monitor]

Rests == mpc = "watch" => \A n \in untouched : Resting(n)

Taken == mpc = "wake" => \A n \in untouched : n \in names \/ n \in resumed

SleepInv ==
    /\ MonitorControl
    /\ \A c \in Callers : LastFits(c)
    /\ Held
    /\ Kept /\ Rests /\ Taken

LEMMA InitSleepInv == SleepInit => SleepInv
<1> SUFFICES ASSUME SleepInit PROVE SleepInv
  OBVIOUS
<1>1. Known = {}
  BY EmptySeq DEF SleepInit, Init, Known
<1> QED
  BY <1>1, MonitorAssumption DEF SleepInit, Init, SleepInv, MonitorControl, LastFits, Held, Kept,
     Rests, Taken

(* Whatever a caller does, it stays in its operation.                      *)
LEMMA StepControl ==
  ASSUME CallersInv, NEW c \in Callers, CallerStep(c), LastFits(c)
  PROVE  /\ pc[c] # "idle" /\ UNCHANGED <<op, name>>
         /\ \A d \in Callers \ {c} : pc'[d] = pc[d] /\ target'[d] = target[d] /\ todo'[d] = todo[d]
         /\ LastFits(c)'
<1> USE DEF At, Go, Return, LastFits, CallersInv, CallersType, locals
<1>1. CASE EngineStep(c)
  <2>1. UNCHANGED <<op, name, target, todo>> /\ pc[c] # "idle" /\ \E l : Go(c, l)
    BY <1>1, EngineStepMoves DEF Using, Locked, InStop, InStart, InPair
  <2>2. pc'[c] # "last"
    <3>1. AfterRest(c) # "last"
      BY AfterRestFits
    <3> QED
      BY <1>1, <3>1 DEF EngineStep, StartSwap, CheckPaired, Connect, StoreRunning, StoreStopped,
         PairLoad, PairCheck, StorePairing, Dial, StopLoad, StoreStopping, Disconnect,
         ClearDevices, RenewDevice
  <2> QED
    BY <2>1, <2>2
<1>2. CASE getOrCreateSession(c)
  BY <1>2 DEF getOrCreateSession, Reuse, Refuse, CreateFails, AddEngine
<1>3. CASE Reset(c) \/ Remove(c)
  BY <1>3 DEF Reset, Remove, Take
<1>4. CASE LogoutRequest(c) \/ Delete(c)
  BY <1>4 DEF LogoutRequest, Delete
<1>5. CASE getSession(c)
  BY <1>5 DEF getSession
<1>6. CASE Snapshot(c) \/ StopNext(c)
  BY <1>6 DEF Snapshot, StopNext
<1>7. CASE StopAllDone(c)
  BY <1>7 DEF StopAllDone, OnlyCaller, Fits
<1>8. CASE Last(c)
  BY <1>8 DEF Last
<1> QED
  BY <1>1, <1>2, <1>3, <1>4, <1>5, <1>6, <1>7, <1>8 DEF CallerStep

(* The steps of the calls of the monitor, which never have the lock.       *)
LEMMA MonitorHasNoLock ==
  ASSUME CallersInv, NEW c \in Callers, op[c] \in {"Start", "StopAll"}
  PROVE  mu # c
  BY DEF CallersInv, LockFits, Removing, Pairing

LEMMA StartControl ==
  ASSUME CallersInv, NEW c \in Callers, CallerStep(c), op[c] = "Start", pc[c] \in Starts
  PROVE  /\ pc'[c] \in Starts \cup {"idle"}
         /\ getOrCreateSession(c) \/ EngineStep(c)
<1> USE DEF At, Go, Return, CallersInv, CallersType
<1>1. AfterRest(c) = "idle"
  BY MonitorHasNoLock DEF AfterRest, Sweeping
<1>2. \/ getOrCreateSession(c) \/ StartSwap(c) \/ CheckPaired(c) \/ Connect(c)
      \/ StoreRunning(c) \/ StoreStopped(c)
  BY DEF CallerStep, EngineStep, PairLoad, PairCheck, StorePairing, Dial, StopLoad,
     StoreStopping, Disconnect, ClearDevices, RenewDevice, Reset, Remove, LogoutRequest, Delete,
     getSession, Snapshot, StopNext, StopAllDone, Last, Starts, InStart
<1>3. CASE getOrCreateSession(c)
  BY <1>3 DEF getOrCreateSession, Reuse, Refuse, CreateFails, AddEngine, Starts, InStart
<1>4. CASE StartSwap(c) \/ CheckPaired(c) \/ Connect(c) \/ StoreRunning(c) \/ StoreStopped(c)
  BY <1>1, <1>4 DEF StartSwap, CheckPaired, Connect, StoreRunning, StoreStopped, Starts, InStart,
     EngineStep
<1> QED
  BY <1>2, <1>3, <1>4

StopSteps(c) ==
    Snapshot(c) \/ StopNext(c) \/ StopLoad(c) \/ StoreStopping(c) \/ Disconnect(c) \/ StoreStopped(c)

LEMMA StopAllControl ==
  ASSUME CallersInv, NEW c \in Callers, CallerStep(c), op[c] = "StopAll", pc[c] \in Sweeps
  PROVE  /\ pc'[c] \in Sweeps \cup {"idle"}
         /\ StopSteps(c) \/ StopAllDone(c)
         /\ AfterRest(c) = "sweep"
<1> USE DEF At, Go, Return, CallersInv, CallersType
<1>1. AfterRest(c) = "sweep"
  BY MonitorHasNoLock DEF AfterRest, Sweeping
<1>2. StopSteps(c) \/ StopAllDone(c)
  BY DEF StopSteps, CallerStep, EngineStep, StartSwap, CheckPaired, Connect, StoreRunning, PairLoad,
     PairCheck, StorePairing, Dial, ClearDevices, RenewDevice, getOrCreateSession, Reset, Remove,
     LogoutRequest, Delete, getSession, Last, Sweeps, InStop
<1>3. CASE Snapshot(c) \/ StopNext(c) \/ StopAllDone(c)
  BY <1>1, <1>2, <1>3 DEF Snapshot, StopNext, StopAllDone, Sweeps, InStop
<1>4. CASE StopLoad(c) \/ StoreStopping(c) \/ Disconnect(c) \/ StoreStopped(c)
  BY <1>1, <1>2, <1>4 DEF StopLoad, StoreStopping, Disconnect, StoreStopped, Sweeps, InStop
<1> QED
  BY <1>1, <1>2, <1>3, <1>4 DEF StopSteps

(* A step of somebody else.                                                *)
LEMMA CallStepSleepInv ==
  ASSUME IInv, SleepInv, NEW c \in Callers \ {Monitor}, CallStep(c)
  PROVE  SleepInv'
<1>0. /\ FilesInv /\ CallersInv /\ Monitor \in Callers /\ CallerStep(c)
      /\ UNCHANGED <<mpc, names, preSleepSessions, untouched, resumed>>
  BY MonitorAssumption DEF IInv, CallStep, monitor
<1>1. /\ pc[c] # "idle" /\ UNCHANGED <<op, name>>
      /\ \A d \in Callers \ {c} : pc'[d] = pc[d] /\ target'[d] = target[d] /\ todo'[d] = todo[d]
      /\ LastFits(c)'
  BY <1>0, StepControl DEF SleepInv
<1>2. MonitorControl' /\ (\A d \in Callers : LastFits(d)') /\ Held'
  BY <1>0, <1>1, CallerStepHeld DEF SleepInv, MonitorControl, LastFits
<1>3. ASSUME NEW n \in untouched
      PROVE  n \in Mapped' /\ ~Busy(n)' /\ Alone(n)
  <2>1. n \in Mapped /\ name[c] # n /\ op[c] \notin Sweeping
    BY <1>1 DEF SleepInv, Kept, Busy, Idle
  <2>2. Alone(n)
    BY <1>0, <2>1, LeavesAlone DEF SleepInv
  <2>3. ~Busy(n)'
    BY <1>1 DEF SleepInv, Kept, Busy, Idle
  <2> QED
    BY <2>1, <2>2, <2>3 DEF Alone, Mapped
<1>4. Kept' /\ Taken'
  BY <1>0, <1>3 DEF SleepInv, Kept, Taken
<1>5. Rests'
  BY <1>0, <1>1, <1>3 DEF SleepInv, Rests, Resting, Alone, Live
<1> QED
  BY <1>2, <1>4, <1>5 DEF SleepInv

(* The monitor's own steps, between its calls.                             *)
LEMMA MonitorStepSleepInv ==
  ASSUME IInv, SleepInv, MonitorStep
  PROVE  SleepInv'
<1>0. CallersType /\ FilesInv /\ Monitor \in Callers /\ pc[Monitor] = "idle" /\ UNCHANGED engines
  BY MonitorAssumption DEF IInv, CallersInv, MonitorStep, Receive, ReturnOnStop, Collect, Record,
     StopAllSessions, Copy, StartNext, Forget, Monitors, Idle, Calls, vars, store
<1>1. Held'
  <2>1. \A d \in Callers \ {Monitor} : pc'[d] = pc[d] /\ target'[d] = target[d]
    BY <1>0 DEF CallersType, MonitorStep, Receive, ReturnOnStop, Collect, Record,
       StopAllSessions, Copy, StartNext, Forget, Calls, Go, vars, locals
  <2> QED
    BY <1>0, <2>1, QuietLives, HeldKept DEF SleepInv
<1>2. CASE Receive \/ ReturnOnStop \/ Collect \/ Copy
  <2>1. UNCHANGED <<pc, op, name, sessions, untouched, preSleepSessions>> /\ mpc' # "watch"
    BY <1>2 DEF Receive, ReturnOnStop, Collect, Copy, Monitors, vars, locals
  <2>2. mpc' = "wake" => names' = preSleepSessions
    BY <1>2 DEF Receive, ReturnOnStop, Collect, Copy, Monitors
  <2> QED
    BY <1>0, <1>1, <2>1, <2>2 DEF SleepInv, MonitorControl, LastFits, Kept, Rests, Taken, Busy,
       Idle, Mapped
<1>3. CASE Record
  BY <1>0, <1>1, <1>3 DEF Record, Monitors, vars, locals, SleepInv, MonitorControl, LastFits, Kept,
     Rests, Taken, Busy, Idle, Mapped
<1>4. CASE Forget
  BY <1>0, <1>1, <1>4 DEF Forget, Monitors, vars, locals, SleepInv, MonitorControl, LastFits, Kept,
     Rests, Taken
<1>5. CASE StopAllSessions \/ StartNext
  <2>1. PICK o \in {"StopAll", "Start"}, n \in {name[Monitor]} \cup names,
             l \in {"snapshot", "create"} :
          Calls(o, n, l) /\ (IF o = "StopAll" THEN mpc' = "watch" /\ l = "snapshot"
                                              ELSE mpc' = "wake" /\ l = "create")
    BY <1>5 DEF StopAllSessions, StartNext, Monitors
  <2>2. /\ op'[Monitor] = o /\ pc'[Monitor] = l
        /\ UNCHANGED sessions
        /\ \A c \in Callers \ {Monitor} : op'[c] = op[c] /\ name'[c] = name[c] /\ pc'[c] = pc[c]
    BY <1>0, <2>1 DEF Calls, Go, CallersType
  <2>3. UNCHANGED <<untouched, preSleepSessions>>
    BY <1>5 DEF StopAllSessions, StartNext
  <2>4. MonitorControl' /\ (\A c \in Callers : LastFits(c)') /\ Kept'
    BY <2>1, <2>2, <2>3 DEF SleepInv, MonitorControl, LastFits, Sweeps, Starts, Kept, Busy, Idle,
       Mapped
  <2>5. Rests'
    BY <2>1, <2>2 DEF Rests, Resting
  <2>6. Taken'
    BY <1>5, <2>1, <2>3 DEF StopAllSessions, StartNext, Monitors, SleepInv, Taken
  <2> QED
    BY <1>1, <2>4, <2>5, <2>6 DEF SleepInv
<1> QED
  BY <1>2, <1>3, <1>4, <1>5 DEF MonitorStep

(* A new request touches the session it names, or all of them.             *)
LEMMA RequestSleepInv ==
  ASSUME IInv, SleepInv, NEW c \in Callers \ {Monitor}, Request(c)
  PROVE  SleepInv'
<1>0. CallersType /\ FilesInv /\ Monitor \in Callers
  BY MonitorAssumption DEF IInv, CallersInv
<1>1. /\ UNCHANGED <<sessions, engines, target, todo, mpc, names, preSleepSessions, resumed>>
      /\ untouched' = IF op'[c] \in Sweeping THEN {} ELSE untouched \ {name'[c]}
      /\ \A d \in Callers \ {c} : op'[d] = op[d] /\ name'[d] = name[d] /\ pc'[d] = pc[d]
      /\ pc[c] = "idle" /\ pc'[c] # "last"
  BY <1>0 DEF Request, Begin, Untouched, Go, Idle, CallersType, store
<1>2. untouched' \subseteq untouched
  BY <1>1
<1>3. MonitorControl' /\ \A d \in Callers : LastFits(d)'
  BY <1>0, <1>1 DEF SleepInv, MonitorControl, LastFits
<1>4. Held'
  BY <1>0, <1>1, QuietLives, HeldKept DEF SleepInv
<1>5. ASSUME NEW n \in untouched' PROVE ~Busy(n)'
  BY <1>1, <1>2 DEF SleepInv, Kept, Busy, Idle
<1>6. Kept' /\ Taken'
  BY <1>1, <1>2, <1>5 DEF SleepInv, Kept, Taken, Mapped
<1>7. Rests'
  BY <1>0, <1>1, <1>2 DEF SleepInv, Rests, Resting, Live
<1> QED
  BY <1>3, <1>4, <1>6, <1>7 DEF SleepInv

(* Nobody but the monitor is about to finish the stop of an untouched      *)
(* session.                                                                *)
LEMMA UntouchedIsNotStopping ==
  ASSUME IInv, SleepInv, NEW n \in untouched, pc[Monitor] \notin {"hangup", "rest"}
  PROVE  engines[sessions[n]].life # "stopping"
<1> DEFINE e == sessions[n]
<1>1. e \in Known /\ engines[e].name = n /\ ~Busy(n)
  BY MappedIsKnown DEF SleepInv, Kept, IInv, FilesInv, MappedOwnsDirectory
<1>2. ASSUME NEW d \in Callers, Finishing(d, e) PROVE FALSE
  <2>1. d # Monitor /\ pc[d] # "idle" /\ pc[d] \in Using
    BY <1>2 DEF Finishing, Using, Locked, InStop
  <2>2. op[d] \in Sweeping \/ name[d] = n
    BY <1>1, <1>2, <2>1 DEF Finishing, IInv, CallersInv, TargetFits
  <2> QED
    BY <1>1, <2>1, <2>2 DEF Busy, Idle
<1> QED
  BY <1>1, <1>2 DEF SleepInv, Held

(* A step of the monitor's call of StopAll.                                *)
LEMMA StopStepRests ==
  ASSUME IInv, SleepInv, CallStep(Monitor), op[Monitor] = "StopAll", pc[Monitor] \in Sweeps,
         NEW n \in untouched, Resting(n)
  PROVE  Resting(n)' /\ UNCHANGED sessions
<1> DEFINE c == Monitor
           e == sessions[n]
<1>0. /\ FilesInv /\ CallersInv /\ CallersType /\ c \in Callers /\ CallerStep(c)
      /\ n \in Mapped /\ e \in Known /\ engines \in Seq(Engines)
  BY MonitorAssumption, MappedIsKnown DEF IInv, CallersInv, CallStep, SleepInv, Kept, FilesInv,
     FilesType
<1>1. (StopSteps(c) \/ StopAllDone(c)) /\ AfterRest(c) = "sweep"
  BY <1>0, StopAllControl
<1>2. UNCHANGED sessions
  BY <1>1 DEF StopSteps, Snapshot, StopNext, StopAllDone, StopLoad, StoreStopping, Disconnect,
     StoreStopped, OnlyEngine, OnlyCaller
<1> USE DEF At, Go, Return, CallersType, Resting, Sweeps, InStop, Live
<1>3. CASE Snapshot(c)
  BY <1>0, <1>2, <1>3 DEF Snapshot
<1>4. CASE StopNext(c)
  BY <1>0, <1>2, <1>4 DEF StopNext, store
<1>5. CASE StopAllDone(c)
  BY <1>0, <1>2, <1>5 DEF StopAllDone, OnlyCaller, store
<1>6. CASE StopLoad(c)
  <2>1. /\ pc[c] = "stop" /\ UNCHANGED <<engines, target, todo>>
        /\ pc'[c] = IF engines[target[c]].life \in {"stopped", "stopping"} THEN "sweep" ELSE "stopping"
    BY <1>0, <1>1, <1>6 DEF StopLoad, OnlyCaller, store, locals, Engine
  <2>2. engines[e].life # "stopping"
    BY <2>1, UntouchedIsNotStopping
  <2> QED
    BY <1>2, <2>1, <2>2
<1>7. CASE StoreStopping(c) \/ Disconnect(c) \/ StoreStopped(c)
  <2>1. /\ pc[c] \in InStop /\ UNCHANGED <<target, todo>> /\ target[c] \in Known
        /\ pc'[c] \in {"hangup", "rest", "sweep"}
    BY <1>0, <1>1, <1>7 DEF StoreStopping, Disconnect, StoreStopped, OnlyEngine, locals,
       CallersInv, TargetFits, Using, Locked
  <2>2. e # target[c] => engines'[e] = engines[e]
    <3>1. TouchesEngine(target[c]) \/ TouchesNothing
      BY <1>0, <1>7, EngineStepFiles DEF EngineStep
    <3>2. CASE TouchesEngine(target[c])
      BY <1>0, <2>1, <3>2, TouchesOne
    <3>3. CASE TouchesNothing
      BY <3>3 DEF TouchesNothing, store
    <3> QED
      BY <3>1, <3>2, <3>3
  <2>3. CASE e # target[c]
    BY <1>2, <2>1, <2>2, <2>3
  <2>4. CASE e = target[c] /\ StoreStopped(c)
    BY <1>0, <1>2, <2>4, SetLifeKeeps DEF StoreStopped, Lives
  <2>5. CASE e = target[c] /\ (StoreStopping(c) \/ Disconnect(c))
    BY <1>0, <1>2, <2>1, <2>5 DEF StoreStopping, Disconnect
  <2> QED
    BY <1>7, <2>3, <2>4, <2>5
<1> QED
  BY <1>1, <1>2, <1>3, <1>4, <1>5, <1>6, <1>7 DEF StopSteps

(* A step of a call of the monitor.                                        *)
LEMMA MonitorCallSleepInv ==
  ASSUME IInv, SleepInv, CallStep(Monitor)
  PROVE  SleepInv'
<1> DEFINE c == Monitor
<1>0. /\ FilesInv /\ CallersInv /\ CallersType /\ c \in Callers /\ CallerStep(c)
      /\ UNCHANGED <<mpc, names, preSleepSessions, untouched, resumed>>
  BY MonitorAssumption DEF IInv, CallersInv, CallStep, monitor
<1>1. /\ pc[c] # "idle" /\ UNCHANGED <<op, name>>
      /\ \A d \in Callers \ {c} : pc'[d] = pc[d]
      /\ LastFits(c)'
  BY <1>0, StepControl DEF SleepInv
<1>2. (\A d \in Callers : LastFits(d)') /\ Taken' /\ Held'
  BY <1>0, <1>1, CallerStepHeld DEF SleepInv, LastFits, Taken
<1>3. \A n \in untouched : n \in preSleepSessions /\ n \in Mapped /\ ~Busy(n)'
  BY <1>0, <1>1 DEF SleepInv, Kept, Busy, Idle
<1>4. CASE op[c] = "Start" /\ mpc = "wake" /\ pc[c] \in Starts
  <2>1. pc'[c] \in Starts \cup {"idle"} /\ (getOrCreateSession(c) \/ EngineStep(c))
    BY <1>0, <1>4, StartControl
  <2>2. Mapped \subseteq Mapped'
    BY <1>0, <2>1, AddSameLives, EngineStepMoves DEF Mapped
  <2>3. Kept' /\ Rests' /\ MonitorControl'
    BY <1>0, <1>1, <1>3, <1>4, <2>1, <2>2 DEF Kept, Rests, MonitorControl
  <2> QED
    BY <1>2, <2>3 DEF SleepInv
<1>5. CASE op[c] = "StopAll" /\ mpc = "watch" /\ pc[c] \in Sweeps
  <2>1. MonitorControl'
    BY <1>0, <1>1, <1>5, StopAllControl DEF MonitorControl
  <2>2. \A n \in untouched : Resting(n)' /\ UNCHANGED sessions
    BY <1>5, StopStepRests DEF SleepInv, Rests
  <2>3. Kept' /\ Rests'
    BY <1>0, <1>3, <2>2 DEF Kept, Rests, Mapped
  <2> QED
    BY <1>2, <2>1, <2>3 DEF SleepInv
<1> QED
  BY <1>1, <1>4, <1>5 DEF SleepInv, MonitorControl

LEMMA NextSleepInv == IInv /\ NamesType /\ SleepInv /\ [SleepNext]_mvars => SleepInv'
<1> SUFFICES ASSUME IInv, NamesType, SleepInv, [SleepNext]_mvars PROVE SleepInv'
  OBVIOUS
<1>0. FilesInv /\ CallersInv
  BY DEF IInv
<1>1. CASE MonitorStep
  BY <1>1, MonitorStepSleepInv
<1>2. CASE \E c \in Callers \ {Monitor} : Request(c)
  BY <1>2, RequestSleepInv
<1>3. CASE \E c \in Callers : CallStep(c)
  BY <1>3, CallStepSleepInv, MonitorCallSleepInv
<1>4. CASE Event
  <2>1. UNCHANGED <<sessions, pc, op, name, target, todo, mpc, names, preSleepSessions, untouched,
                    resumed>>
    BY <1>4 DEF Event, EngineEvent, locals, monitor
  <2>2. SameLives
    <3>1. PICK e \in Known : PairSuccess(e) \/ LoggedOut(e) \/ Lost(e)
      BY <1>4 DEF Event, EngineEvent, Known
    <3> QED
      BY <1>0, <3>1, UnlinkSameLives
  <2>3. Held'
    BY <2>1, <2>2 DEF SleepInv, Held, SameLives, Finishing
  <2>4. ASSUME NEW n \in untouched PROVE n \in Mapped /\ Live(sessions[n])' = Live(sessions[n])
    <3>1. n \in Mapped /\ sessions[n] \in Known
      BY <1>0, MappedIsKnown DEF SleepInv, Kept, FilesInv
    <3> QED
      BY <2>1, <2>2, <3>1 DEF Live, SameLives
  <2> QED
    BY <2>1, <2>3, <2>4 DEF SleepInv, MonitorControl, LastFits, Kept, Rests, Taken, Resting, Busy,
       Idle, Mapped
<1>5. CASE FallAsleep \/ WakeUp \/ (\E c \in Callers : StopMonitor(c)) \/ UNCHANGED mvars
  <2>1. UNCHANGED <<vars, monitor>>
    BY <1>5 DEF FallAsleep, WakeUp, StopMonitor, mvars
  <2>2. UNCHANGED <<sessions, engines, pc, op, name, target, todo, mpc, names, preSleepSessions,
                    untouched, resumed>>
    BY <2>1 DEF vars, store, locals, monitor
  <2> QED
    BY <2>2 DEF SleepInv, MonitorControl, LastFits, Held, Finishing, Known, Kept, Rests, Taken,
       Resting, Busy, Idle, Mapped, Live
<1> QED
  BY <1>1, <1>2, <1>3, <1>4, <1>5 DEF SleepNext

LEMMA MonitoredInv == SleepSpec => [](IInv /\ NamesType /\ SleepInv)
<1>0. StoreInv => IInv
  BY DEF StoreInv
<1>1. SleepInit => SleepInv
  BY InitSleepInv
<1>2. IInv /\ NamesType /\ SleepInv /\ [SleepNext]_mvars => SleepInv'
  BY NextSleepInv
<1> QED
  BY <1>0, <1>1, <1>2, MonitoredStoreInv, PTL DEF SleepSpec

(* When onSleep has returned, the recorded sessions that nobody else has   *)
(* touched are in the map and at rest (sleep.go:36-52), for any number of  *)
(* sessions and of concurrent requests.                                    *)
THEOREM SleepAlwaysStops == SleepSpec => []SleepStops
<1>1. SleepInv => SleepStops
  BY DEF SleepInv, Kept, Rests, Resting, Sweeps, InStop, SleepStops, Idle
<1> QED
  BY <1>1, MonitoredInv, PTL

(* onWake forgets an untouched session only when it has started it again,  *)
(* and that session is still in the map (sleep.go:55-74).                  *)
THEOREM WakeAlwaysRestores == SleepSpec => WakeRestores
<1>1. ASSUME NamesType, SleepInv, [SleepNext]_mvars, preSleepSessions # {},
             preSleepSessions' = {}, mpc = "wake", NEW n \in untouched
      PROVE  n \in resumed /\ n \in Mapped
  <2>1. Forget
    BY <1>1 DEF SleepNext, mvars, monitor, MonitorStep, FallAsleep, WakeUp, Receive, ReturnOnStop,
       Collect, Record, StopAllSessions, Copy, StartNext, Forget, Monitors, Request, StopMonitor,
       CallStep, Event
  <2> QED
    BY <1>1, <2>1 DEF Forget, SleepInv, Kept, Taken
<1>2. NamesType /\ SleepInv /\ [SleepNext]_mvars =>
        [preSleepSessions # {} /\ preSleepSessions' = {} /\ mpc = "wake" =>
            \A n \in untouched : n \in resumed /\ n \in Mapped]_mvars
  BY <1>1
<1> QED
  BY <1>2, MonitoredInv, PTL DEF SleepSpec, WakeRestores
-----------------------------------------------------------------------------
(* Type correctness.                                                       *)
MachineType ==
    /\ watcher \in Watchers
    /\ asleep \in BOOLEAN /\ stopped \in BOOLEAN
    /\ sleeps \in 0 .. MaxSleeps

NoticesType == notices \in Seq({"sleep", "wake"})

MonitorType ==
    /\ mpc \in {"watch", "collect", "record", "stop", "copy", "wake", "returned"}
    /\ untouched \subseteq preSleepSessions /\ resumed \subseteq Names

LEMMA InitMonitorTypes == SleepInit => MachineType /\ NoticesType /\ MonitorType
<1> SUFFICES ASSUME SleepInit PROVE MachineType /\ NoticesType /\ MonitorType
  OBVIOUS
<1>1. asleep \in BOOLEAN /\ stopped \in BOOLEAN
  BY Zenon DEF SleepInit
<1>2. MachineType
  BY <1>1, MonitorAssumption DEF SleepInit, MachineType
<1>3. NoticesType /\ MonitorType
  BY DEF SleepInit, NoticesType, MonitorType
<1> QED
  BY <1>2, <1>3

LEMMA NextMachineType ==
  ASSUME MachineType, [SleepNext]_mvars
  PROVE  MachineType'
<1>1. CASE FallAsleep
  <2>1. asleep' \in BOOLEAN /\ stopped' \in BOOLEAN
    BY <1>1, Zenon DEF FallAsleep, MachineType
  <2> QED
    BY <1>1, <2>1, MonitorAssumption DEF FallAsleep, MachineType
<1>2. CASE WakeUp
  <2>1. asleep' \in BOOLEAN /\ stopped' \in BOOLEAN
    BY <1>2, Zenon DEF WakeUp, MachineType
  <2> QED
    BY <1>2, <2>1 DEF WakeUp, MachineType
<1>3. CASE \E c \in Callers : StopMonitor(c)
  <2>1. asleep' \in BOOLEAN /\ stopped' \in BOOLEAN
    BY <1>3, Zenon DEF StopMonitor, machine, MachineType
  <2> QED
    BY <1>3, <2>1 DEF StopMonitor, machine, MachineType
<1>4. CASE UNCHANGED <<machine, stopped>>
  BY <1>4 DEF machine, MachineType
<1> QED
  BY <1>1, <1>2, <1>3, <1>4 DEF SleepNext, mvars, MonitorStep, Receive, ReturnOnStop, Collect,
     Record, StopAllSessions, Copy, StartNext, Forget, Request, CallStep, Event

LEMMA NextNoticesType ==
  ASSUME NoticesType, [SleepNext]_mvars
  PROVE  NoticesType'
<1> DEFINE Notice == {"sleep", "wake"}
<1>0. notices \in Seq(Notice)
  BY DEF NoticesType
<1>1. CASE FallAsleep
  <2>1. Append(notices, "sleep") \in Seq(Notice)
    BY <1>0, AppendProperties
  <2> QED
    BY <1>0, <1>1, <2>1 DEF FallAsleep, NoticesType
<1>2. CASE WakeUp
  <2>1. <<"wake">> \in Seq(Notice) /\ <<"wake", "wake">> \in Seq(Notice)
    OBVIOUS
  <2>2. \A s \in Seq(Notice) : notices \o s \in Seq(Notice)
    BY <1>0, ConcatProperties
  <2> QED
    BY <1>0, <1>2, <2>1, <2>2 DEF WakeUp, Notified, NoticesType
<1>3. CASE Receive
  <2>1. Tail(notices) \in Seq(Notice)
    BY <1>0, <1>3, HeadTailProperties DEF Receive
  <2> QED
    BY <1>3, <2>1 DEF Receive, NoticesType
<1>4. CASE UNCHANGED notices
  BY <1>4 DEF NoticesType
<1> QED
  BY <1>1, <1>2, <1>3, <1>4 DEF SleepNext, mvars, MonitorStep, ReturnOnStop, Collect, Record,
     StopAllSessions, Copy, StartNext, Forget, Request, StopMonitor, CallStep, Event

LEMMA NextMonitorType ==
  ASSUME MonitorType, NamesType, [SleepNext]_mvars
  PROVE  MonitorType'
<1> USE DEF MonitorType
<1>1. CASE UNCHANGED monitor
  BY <1>1 DEF monitor
<1>2. CASE MonitorStep
  BY <1>2 DEF MonitorStep, Receive, ReturnOnStop, Collect, Record, StopAllSessions, Copy,
     StartNext, Forget, Monitors, NamesType
<1>3. CASE \E c \in Callers : Request(c)
  BY <1>3 DEF Request, Untouched
<1> QED
  BY <1>1, <1>2, <1>3 DEF SleepNext, mvars, FallAsleep, WakeUp, StopMonitor, CallStep, Event

(* Every variable of the monitor and of the session manager under it keeps *)
(* its type, however many notices wait in sleepWakeChan and before it      *)
(* (sleep.go:24-75).                                                       *)
THEOREM SleepTypeCorrect == SleepSpec => []SleepTypeOK
<1>1. SleepSpec => []MachineType
  BY InitMonitorTypes, NextMachineType, PTL DEF SleepSpec
<1>2. SleepSpec => []NoticesType
  BY InitMonitorTypes, NextNoticesType, PTL DEF SleepSpec
<1>3. SleepSpec => []MonitorType
  BY InitMonitorTypes, NextMonitorType, MonitoredStoreInv, PTL DEF SleepSpec
<1>4. StoreInv => TypeOK
  BY DEF StoreInv, IInv, FilesInv, FilesType, CallersInv, CallersType, ProcessType, TypeOK,
     Known, Ids
<1>5. StoreInv /\ NamesType /\ MachineType /\ NoticesType /\ MonitorType => SleepTypeOK
  BY <1>4 DEF NamesType, MachineType, NoticesType, MonitorType, SleepTypeOK
<1> QED
  BY <1>1, <1>2, <1>3, <1>5, MonitoredStoreInv, PTL
=============================================================================
