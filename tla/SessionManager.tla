--------------------------- MODULE SessionManager --------------------------
(***************************************************************************)
(* core/session.go: the map from session names to engines, the session     *)
(* directories on disk and the operations of the API, called on concurrent *)
(* goroutines (one for each HTTP request).  sm.mu is a reader/writer lock: *)
(* a critical section that only reads the map, or does nothing but update  *)
(* it, is one step; a section that also calls into an engine is several    *)
(* steps with the lock held, because callers that have obtained the engine *)
(* before use it without the lock.                                         *)
(*                                                                         *)
(* A call into an engine is several steps, too: each access to its state,  *)
(* each check of its credentials, the call of a method of its client.  The *)
(* client is modelled in Client; here it has a socket ("open") or not.     *)
(* The end of cmd/server's runServer is included: it stops all sessions    *)
(* and then shuts the HTTP server down.                                    *)
(***************************************************************************)
EXTENDS Integers, Sequences, FiniteSets, Functions

CONSTANTS
    Names,        \* session names
    Callers,      \* goroutines that call the API
    Free,         \* the owner of a lock that is free
    MaxSessions,  \* MaxSessions of session.go
    Ops,          \* the operations that the callers use
    MaxCalls,     \* bound: number of calls
    MaxRestarts   \* bound: number of restarts of the process

Pairing   == {"StartPairing", "StartPhonePairing"}
Removing  == {"RemoveSession", "LogoutSession"}
Sweeping  == {"StopAll", "Destroy", "Shutdown"}
Operations == {"Start", "Stop", "Logout"} \cup Pairing \cup Removing \cup Sweeping

ASSUME NamesAssumption  == IsFiniteSet(Names)
ASSUME FreeAssumption   == Free \notin Callers
ASSUME LimitAssumption  == MaxSessions \in Nat \ {0}
ASSUME OpsAssumption    == Ops \subseteq Operations
ASSUME BoundsAssumption == MaxCalls \in Nat /\ MaxRestarts \in Nat

VARIABLES
    sessions,   \* for each name the number of its engine, 0 if there is none
    mu,         \* owner of the write lock
    engines,    \* the engines created, by number
    dir,        \* directory of each session
    owner,      \* the engine that was the first to open the file in there
    cleared,    \* engines whose device is deleted on disk, not yet in memory
    pc, op, name, target, todo,   \* the callers: control and local variables
    calls, restarts,
    serving,    \* the HTTP server accepts requests
    destroyed   \* Destroy has set the map to nil

files   == <<dir, owner, cleared>>
store   == <<engines, files>>
locals  == <<name, target, todo, op>>
process == <<calls, restarts, serving, destroyed>>
vars    == <<sessions, mu, store, pc, locals, process>>

(* "db" and "paired": with the database of NewStorage, without or with the *)
(* credentials of a device.  "empty": NewEngine failed in a new directory. *)
Dirs   == {"none", "empty", "db", "paired"}
Lives  == {"stopped", "starting", "running", "stopping", "pairing"}
Ids    == 0 .. Len(engines)
Engines == [name : Names, life : Lives, open : BOOLEAN, paired : BOOLEAN, db : Nat]
InStop == {"stop", "stopping", "hangup", "rest"}
Locked == InStop \cup {"unlink", "delete"}
InStart == {"start", "connect", "reach", "ran"}
InPair  == {"pair", "check", "set", "dial"}
Labels  == Locked \cup InStart \cup InPair \cup
           {"idle", "create", "reset", "lookup", "clear", "renew", "remove", "snapshot", "sweep", "last"}

TypeOK ==
    /\ engines \in Seq(Engines)
    /\ sessions \in [Names -> Ids]
    /\ dir \in [Names -> Dirs]
    /\ owner \in [Names -> Ids]
    /\ cleared \subseteq Ids
    /\ pc \in [Callers -> Labels]
    /\ mu \in {Free} \cup {c \in Callers : pc[c] \in Locked}
    /\ op \in [Callers -> Operations]
    /\ name \in [Callers -> Names]
    /\ target \in [Callers -> Ids]
    /\ todo \in [Callers -> SUBSET Ids]
    /\ calls \in 0 .. MaxCalls
    /\ restarts \in 0 .. MaxRestarts
    /\ serving \in BOOLEAN /\ destroyed \in BOOLEAN

Idle(c) == pc[c] = "idle"
AllIdle == \A c \in Callers : Idle(c)
At(c, l) == pc[c] = l
Go(c, l) == pc' = [pc EXCEPT ![c] = l]
Return(c) == Go(c, "idle")

Mapped     == {n \in Names : sessions[n] # 0}
Unlocked   == mu = Free
Lock(c)    == Unlocked /\ mu' = c

(* An empty data directory, or one with the sessions of an earlier run.    *)
Init ==
    /\ sessions = [n \in Names |-> 0]
    /\ mu = Free
    /\ engines = <<>>
    /\ dir \in [Names -> {"none", "paired"}]
    /\ owner = [n \in Names |-> 0]
    /\ cleared = {}
    /\ pc = [c \in Callers |-> "idle"]
    /\ op = [c \in Callers |-> "Stop"]
    /\ \E n \in Names : name = [c \in Callers |-> n]
    /\ target = [c \in Callers |-> 0]
    /\ todo = [c \in Callers |-> {}]
    /\ calls = 0 /\ restarts = 0
    /\ serving = TRUE /\ destroyed = FALSE

-----------------------------------------------------------------------------
(* The engines: their state, their socket and their credentials.           *)

Live(e)    == engines[e].life # "stopped"
OwnsDir(e) == owner[engines[e].name] = engines[e].db

SetLife(e, l)   == engines' = [engines EXCEPT ![e].life = l]
SetSocket(e, o) == engines' = [engines EXCEPT ![e].open = o]

(* Credentials are written to the database that the engine has open: the   *)
(* one in the directory, or one that has been unlinked.                    *)
MUT_WrittenByName(e, paired) ==
    [dir EXCEPT ![engines[e].name] = IF paired THEN "paired" ELSE "db"]

DirAfter(e, paired) ==
    IF OwnsDir(e) THEN [dir EXCEPT ![engines[e].name] = IF paired THEN "paired" ELSE "db"]
                  ELSE dir

(* The phone links a device to the client, or unlinks it: whatsmeow saves  *)
(* the device, or deletes it and closes the connection.                    *)
Link(e) ==
    /\ engines' = [engines EXCEPT ![e].paired = TRUE]
    /\ dir' = DirAfter(e, TRUE)
    /\ UNCHANGED cleared

Unlink(e) ==
    /\ engines' = [engines EXCEPT ![e].paired = FALSE, ![e].open = FALSE]
    /\ dir' = DirAfter(e, FALSE)
    /\ cleared' = cleared \ {e}

(* NewEngine, for the engine e, opens the database in the directory of n   *)
(* or makes a new one.                                                     *)
FileOpened(n, e) == IF owner[n] = 0 THEN e ELSE owner[n]

NewEngine(n, e) ==
    [name |-> n, life |-> "stopped", open |-> FALSE, paired |-> dir[n] = "paired",
     db |-> FileOpened(n, e)]

-----------------------------------------------------------------------------
Begin(c) ==
    /\ Idle(c) /\ serving /\ calls < MaxCalls
    /\ calls' = calls + 1
    /\ \E o \in Ops, n \in Names :
        /\ op' = [op EXCEPT ![c] = o]
        /\ name' = [name EXCEPT ![c] = n]
        /\ Go(c, CASE o = "Start" -> "create"
                   [] o \in Pairing -> "reset"
                   [] o \in Removing -> "remove"
                   [] o \in Sweeping -> "snapshot"
                   [] OTHER -> "lookup")
    /\ UNCHANGED <<sessions, mu, store, target, todo, restarts, serving, destroyed>>

(* getOrCreateSession.  A write to the nil map after Destroy panics, which *)
(* ends the request.                                                       *)
Reuse(c) ==
    /\ sessions[name[c]] # 0
    /\ target' = [target EXCEPT ![c] = sessions[name[c]]]
    /\ Go(c, IF op[c] = "Start" THEN "start" ELSE "pair")
    /\ UNCHANGED <<sessions, engines, dir, owner>>

Refuse(c) ==
    /\ sessions[name[c]] = 0
    /\ Cardinality(Mapped) >= MaxSessions
    /\ Return(c)
    /\ UNCHANGED <<sessions, engines, dir, owner, target>>

MUT_LimitOffByOne(c) == sessions[name[c]] = 0 /\ Cardinality(Mapped) <= MaxSessions

MayCreate(c) == sessions[name[c]] = 0 /\ Cardinality(Mapped) < MaxSessions

CreateFails(c) ==
    /\ MayCreate(c)
    /\ dir' = IF dir[name[c]] = "none" THEN [dir EXCEPT ![name[c]] = "empty"] ELSE dir
    /\ Return(c)
    /\ UNCHANGED <<sessions, engines, owner, target>>

AddEngine(c) ==
    /\ MayCreate(c)
    /\ LET n == name[c]  e == Len(engines) + 1 IN
        /\ engines' = Append(engines, NewEngine(n, e))
        /\ dir' = [dir EXCEPT ![n] = IF @ = "paired" THEN @ ELSE "db"]
        /\ owner' = [owner EXCEPT ![n] = FileOpened(n, e)]
        /\ IF destroyed
           THEN Return(c) /\ UNCHANGED <<sessions, target>>
           ELSE /\ sessions' = [sessions EXCEPT ![n] = e]
                /\ target' = [target EXCEPT ![c] = e]
                /\ Go(c, IF op[c] = "Start" THEN "start" ELSE "pair")

getOrCreateSession(c) ==
    /\ At(c, "create") /\ Unlocked
    /\ Reuse(c) \/ Refuse(c) \/ CreateFails(c) \/ AddEngine(c)
    /\ UNCHANGED <<mu, cleared, name, op, todo, process>>

-----------------------------------------------------------------------------
(* The methods of an engine, on behalf of caller c, and mostly without the *)
(* lock: whoever else has the engine may be in the middle of another one.  *)
Engine(c) == engines[target[c]]

OnlyEngine == UNCHANGED <<sessions, mu, files, locals, process>>
OnlyCaller == UNCHANGED <<sessions, mu, store, locals, process>>

(* Where a caller goes on when the engine is at rest: Start and a pairing  *)
(* that failed return, the others have called Stop.                        *)
AfterRest(c) ==
    CASE mu = c             -> "delete"
      [] op[c] \in Sweeping -> "sweep"
      [] op[c] = "Logout"   -> "clear"
      [] OTHER              -> "idle"

(* Engine.Start: load and compare-and-swap, repeated until that succeeds.  *)
StartSwap(c) ==
    /\ At(c, "start")
    /\ IF Engine(c).life \in {"running", "starting", "pairing"}
       THEN Return(c) /\ UNCHANGED engines
       ELSE Go(c, "connect") /\ SetLife(target[c], "starting")
    /\ OnlyEngine

(* IsPaired, then client.Connect, which does nothing if it takes itself    *)
(* for connected, and may fail.                                            *)
CheckPaired(c) ==
    /\ At(c, "connect")
    /\ Go(c, IF Engine(c).paired THEN "reach" ELSE "rest")
    /\ OnlyCaller

Connect(c) ==
    /\ At(c, "reach")
    /\ \/ Go(c, "ran") /\ \E o \in {Engine(c).open, TRUE} : SetSocket(target[c], o)
       \/ Go(c, "rest") /\ UNCHANGED engines
    /\ OnlyEngine

StoreRunning(c) ==
    /\ At(c, "ran")
    /\ SetLife(target[c], "running")
    /\ Return(c)
    /\ OnlyEngine

StoreStopped(c) ==
    /\ At(c, "rest")
    /\ SetLife(target[c], "stopped")
    /\ Go(c, AfterRest(c))
    /\ OnlyEngine

(* Engine.StartPairing and StartPhonePairing: load, IsPaired, store, and   *)
(* the method of the client.  If that fails it may have left a socket open.*)
PairLoad(c) ==
    /\ At(c, "pair")
    /\ IF Engine(c).life \in {"pairing", "running"} THEN Return(c) ELSE Go(c, "check")
    /\ OnlyCaller

PairCheck(c) ==
    /\ At(c, "check")
    /\ IF Engine(c).paired THEN Return(c) ELSE Go(c, "set")
    /\ OnlyCaller

StorePairing(c) ==
    /\ At(c, "set")
    /\ SetLife(target[c], "pairing")
    /\ Go(c, "dial")
    /\ OnlyEngine

Dial(c) ==
    /\ At(c, "dial")
    /\ \/ Return(c) /\ \E o \in {Engine(c).open, TRUE} : SetSocket(target[c], o)
       \/ Go(c, "rest") /\ UNCHANGED engines
       \/ Go(c, "rest") /\ op[c] = "StartPhonePairing" /\ SetSocket(target[c], TRUE)
    /\ OnlyEngine

(* Engine.Stop: load, store, client.Disconnect, store.                     *)
StopLoad(c) ==
    /\ At(c, "stop")
    /\ Go(c, IF Engine(c).life \in {"stopped", "stopping"} THEN AfterRest(c) ELSE "stopping")
    /\ OnlyCaller

StoreStopping(c) ==
    /\ At(c, "stopping")
    /\ SetLife(target[c], "stopping")
    /\ Go(c, "hangup")
    /\ OnlyEngine

(* Disconnect does nothing if the client takes itself for disconnected,    *)
(* which it may after a late event or a pairing that failed.               *)
Disconnect(c) ==
    /\ At(c, "hangup")
    /\ \E o \in {Engine(c).open, FALSE} : SetSocket(target[c], o)
    /\ Go(c, "rest")
    /\ OnlyEngine

(* Storage.ClearSession in Engine.Logout: the devices in the database are  *)
(* deleted, then the device in memory is replaced by what is there now.    *)
(* Either may fail, and Logout returns.  The mutant: the one in memory goes*)
(* first, and nothing is deleted.                                          *)
MUT_ForgetsFirst(c) ==
    /\ At(c, "clear")
    /\ engines' = [engines EXCEPT ![target[c]].paired = FALSE]
    /\ Go(c, "renew")
    /\ OnlyEngine

ClearDevices(c) ==
    /\ At(c, "clear")
    /\ \/ /\ dir' = DirAfter(target[c], FALSE)
          /\ cleared' = IF Engine(c).paired THEN cleared \cup {target[c]} ELSE cleared
          /\ Go(c, "renew")
       \/ Return(c) /\ UNCHANGED <<dir, cleared>>
    /\ UNCHANGED <<sessions, mu, engines, owner, locals, process>>

(* With the new device goes a new client.  The old one stays behind if its *)
(* socket is open, or if somebody who still had it opens it now: somebody  *)
(* else with the same database.                                            *)
MayStayBehind(e) ==
    engines[e].open \/ \E d \in Callers : pc[d] \in {"reach", "dial"} /\ target[d] = e

Renewed(e, p) == [engines EXCEPT ![e].paired = p, ![e].open = FALSE]
LeftBehind(e) == [engines[e] EXCEPT !.life = "stopped", !.open = TRUE]

NewClient(e, p) ==
    \/ ~engines[e].open /\ engines' = Renewed(e, p)
    \/ MayStayBehind(e) /\ engines' = Append(Renewed(e, p), LeftBehind(e))

RenewDevice(c) ==
    /\ At(c, "renew")
    /\ LET e == target[c] IN
        \/ /\ \E p \in BOOLEAN :
                /\ OwnsDir(e) => p = (dir[engines[e].name] = "paired")
                /\ NewClient(e, p)
           /\ cleared' = cleared \ {e}
        \/ UNCHANGED <<engines, cleared>>
    /\ Return(c)
    /\ UNCHANGED <<sessions, mu, dir, owner, locals, process>>

EngineStep(c) ==
    \/ StartSwap(c) \/ CheckPaired(c) \/ Connect(c) \/ StoreRunning(c) \/ StoreStopped(c)
    \/ PairLoad(c) \/ PairCheck(c) \/ StorePairing(c) \/ Dial(c)
    \/ StopLoad(c) \/ StoreStopping(c) \/ Disconnect(c)
    \/ ClearDevices(c) \/ RenewDevice(c)

-----------------------------------------------------------------------------
(* StartPairing and StartPhonePairing first reset a session that exists    *)
(* and is not paired: stop its engine, delete it and its directory.        *)
Take(c, l) ==
    /\ Lock(c)
    /\ target' = [target EXCEPT ![c] = sessions[name[c]]]
    /\ Go(c, l)

Reset(c) ==
    /\ At(c, "reset") /\ Unlocked
    /\ IF sessions[name[c]] # 0 /\ ~engines[sessions[name[c]]].paired
       THEN Take(c, "stop")
       ELSE Go(c, "create") /\ UNCHANGED <<mu, target>>
    /\ UNCHANGED <<sessions, store, name, op, todo, process>>

(* RemoveSession and LogoutSession: all of it under the lock.              *)
Remove(c) ==
    /\ At(c, "remove") /\ Unlocked
    /\ IF sessions[name[c]] # 0
       THEN Take(c, IF op[c] = "LogoutSession" THEN "unlink" ELSE "stop")
       ELSE Return(c) /\ UNCHANGED <<mu, target>>
    /\ UNCHANGED <<sessions, store, name, op, todo, process>>

(* LogoutSession sends a request if the client is connected; that may fail.*)
LogoutRequest(c) ==
    /\ At(c, "unlink")
    /\ \/ Engine(c).open /\ Engine(c).paired /\ Unlink(target[c])
       \/ UNCHANGED <<engines, dir, cleared>>
    /\ Go(c, "stop")
    /\ UNCHANGED <<sessions, mu, owner, locals, process>>

(* os.RemoveAll: it may fail, on Windows because the database is open.     *)
MUT_RemoveDataDir(n) ==
    /\ owner' = [owner EXCEPT ![n] = 0]
    /\ dir' = [m \in Names |-> "none"]

RemoveDir(n) ==
    \/ owner' = [owner EXCEPT ![n] = 0] /\ dir' = [dir EXCEPT ![n] = "none"]
    \/ UNCHANGED <<owner, dir>>

MUT_StaysMapped(c) ==
    /\ UNCHANGED sessions
    /\ RemoveDir(name[c])

Unmap(c) ==
    /\ sessions' = [sessions EXCEPT ![name[c]] = 0]
    /\ RemoveDir(name[c])

MUT_RemoveKeepsLock(c) ==
    /\ At(c, "delete")
    /\ Unmap(c)
    /\ Go(c, IF op[c] \in Pairing THEN "create" ELSE "idle")
    /\ UNCHANGED <<mu, engines, cleared, locals, process>>

Delete(c) ==
    /\ At(c, "delete")
    /\ Unmap(c)
    /\ mu' = Free
    /\ Go(c, IF op[c] \in Pairing THEN "create" ELSE "idle")
    /\ UNCHANGED <<engines, cleared, locals, process>>

(* Stop and Logout: getSession, then the engine without the lock.          *)
getSession(c) ==
    /\ At(c, "lookup") /\ Unlocked
    /\ IF sessions[name[c]] = 0
       THEN Return(c) /\ UNCHANGED target
       ELSE Go(c, "stop") /\ target' = [target EXCEPT ![c] = sessions[name[c]]]
    /\ UNCHANGED <<sessions, mu, store, name, op, todo, process>>

(* StopAll takes a snapshot of the engines and stops them one by one.      *)
Snapshot(c) ==
    /\ At(c, "snapshot") /\ Unlocked
    /\ todo' = [todo EXCEPT ![c] = {sessions[n] : n \in Mapped}]
    /\ Go(c, "sweep")
    /\ UNCHANGED <<sessions, mu, store, name, op, target, process>>

StopNext(c) ==
    /\ At(c, "sweep")
    /\ \E e \in todo[c] :
        /\ todo' = [todo EXCEPT ![c] = @ \ {e}]
        /\ target' = [target EXCEPT ![c] = e]
    /\ Go(c, "stop")
    /\ UNCHANGED <<sessions, mu, store, name, op, process>>

StopAllDone(c) ==
    /\ At(c, "sweep") /\ todo[c] = {}
    /\ IF op[c] = "StopAll" THEN Return(c) ELSE Go(c, "last")
    /\ OnlyCaller

(* Destroy then drops the map; the server then stops to accept requests.   *)
Last(c) ==
    /\ At(c, "last")
    /\ IF op[c] = "Destroy"
       THEN /\ Unlocked
            /\ sessions' = [n \in Names |-> 0]
            /\ destroyed' = TRUE
            /\ UNCHANGED serving
       ELSE serving' = FALSE /\ UNCHANGED <<sessions, destroyed>>
    /\ Return(c)
    /\ UNCHANGED <<mu, store, locals, calls, restarts>>

CallerStep(c) ==
    \/ EngineStep(c)
    \/ getOrCreateSession(c) \/ Reset(c) \/ Remove(c) \/ LogoutRequest(c) \/ Delete(c)
    \/ getSession(c) \/ Snapshot(c) \/ StopNext(c) \/ StopAllDone(c) \/ Last(c)

-----------------------------------------------------------------------------
(* What happens to an engine by itself while its client has a socket: its  *)
(* device is linked, or is logged out from the phone, or the connection is *)
(* lost for good.                                                          *)
PairSuccess(e) == engines[e].open /\ ~engines[e].paired /\ Link(e)
LoggedOut(e)   == engines[e].open /\ engines[e].paired /\ Unlink(e)
Lost(e)        == engines[e].open /\ SetSocket(e, FALSE) /\ UNCHANGED <<dir, cleared>>

EngineEvent ==
    /\ \E e \in 1 .. Len(engines) : PairSuccess(e) \/ LoggedOut(e) \/ Lost(e)
    /\ UNCHANGED <<sessions, mu, owner, pc, locals, process>>

-----------------------------------------------------------------------------
(* The process ends, however, and starts again: discoverSessions loads     *)
(* the directories that contain the file it looks for, up to the limit     *)
(* (a database that exists opens again).                                   *)

DatabaseFile == "whatsapp.db"   \* storage.go:72
DiscoverFile == "wa.db"         \* session.go:117

Discoverable == {n \in Names : dir[n] \in {"db", "paired"} /\ DatabaseFile = DiscoverFile}

discoverSessions ==
    \E found \in SUBSET Discoverable :
        /\ Cardinality(found) <= MaxSessions
        /\ found # Discoverable => Cardinality(found) = MaxSessions
        /\ \E number \in Bijection(found, 1 .. Cardinality(found)) :
            /\ engines' = [i \in 1 .. Cardinality(found) |->
                  [NewEngine(CHOOSE n \in found : number[n] = i, i) EXCEPT !.db = i]]
            /\ sessions' = [n \in Names |-> IF n \in found THEN number[n] ELSE 0]
            /\ owner' = sessions'

Restart ==
    /\ restarts < MaxRestarts
    /\ restarts' = restarts + 1
    /\ discoverSessions
    /\ cleared' = {}
    /\ mu' = Free
    /\ pc' = [c \in Callers |-> "idle"]
    /\ target' = [c \in Callers |-> 0]
    /\ todo' = [c \in Callers |-> {}]
    /\ serving' = TRUE /\ destroyed' = FALSE
    /\ UNCHANGED <<dir, name, op, calls>>

-----------------------------------------------------------------------------
Next ==
    \/ EngineEvent
    \/ \E c \in Callers : Begin(c) \/ CallerStep(c)
    \/ Restart

Spec == Init /\ [][Next]_vars

-----------------------------------------------------------------------------
(* No interleaving of calls loads more than MaxSessions sessions.          *)
SessionsWithinLimit == Cardinality(Mapped) <= MaxSessions

(* The engine that the map has for a name is an engine of that name, and   *)
(* the database in the directory of that name is the one this engine has   *)
(* open: no two mapped engines share a database, and none works on a       *)
(* database that has been deleted and made anew under it.                  *)
MappedOwnsDirectory ==
    \A n \in Mapped : engines[sessions[n]].name = n /\ OwnsDir(sessions[n])

(* The engine e is the only one with its database: not so when a directory *)
(* could not be deleted and the engine made for it next opens the same.    *)
Sole(e) == \A f \in 1 .. Len(engines) : engines[f].db = engines[e].db => f = e

(* A reset or a removal deletes the session that it has stopped: whoever   *)
(* is about to delete holds the lock, alone, and the engine that it has    *)
(* stopped is still the one that the map has for the name.                 *)
DeletesWhatItStopped ==
    \A c \in Callers :
        /\ pc[c] \in {"unlink", "delete"} => mu = c
        /\ mu = c => name[c] \in Mapped /\ target[c] = sessions[name[c]]

(* What the map says of a session survives a crash at any moment: the      *)
(* directory has credentials exactly if the mapped engine is paired.  The  *)
(* one exception is a logout that failed half way, after it had deleted    *)
(* the device on disk: the engine goes on to call itself paired.           *)
CredentialsAreDurable ==
    \A n \in Mapped : Sole(sessions[n]) =>
        dir[n] = (IF engines[sessions[n]].paired /\ sessions[n] \notin cleared
                  THEN "paired" ELSE "db")

Revoked(n) ==
    \E e \in 1 .. Len(engines) :
        owner[n] = engines[e].db /\ engines[e].paired /\ ~engines'[e].paired

LostOnPurpose ==
    \A n \in Names : dir[n] = "paired" /\ dir'[n] # "paired" =>
        \/ Revoked(n)
        \/ \E c \in Callers : /\ name[c] = n /\ ~Idle(c)
                              /\ op[c] \in Removing \cup Pairing \cup {"Logout"}

(* Credentials on disk are never touched by a call for another session, or *)
(* by the start, the stop or the sweep of their own, at whatever point of  *)
(* an operation another one comes in: only the phone revokes them, or a    *)
(* call that resets, logs out or removes this very session.                *)
CredentialsLostOnPurpose == [][LostOnPurpose]_vars

(* The names whose database is open in an engine that is not, or is no     *)
(* longer, the one that the map has for it.                                *)
Astray == {n \in Names : \E e \in 1 .. Len(engines) :
              engines[e].name = n /\ OwnsDir(e) /\ sessions[n] # e}

SessionOf(n) ==
    IF sessions[n] = 0 THEN [open |-> FALSE, linked |-> FALSE, up |-> FALSE]
    ELSE LET e == engines[sessions[n]] IN [open |-> TRUE, linked |-> e.paired, up |-> e.open]

AllSessions == [n \in Names |-> SessionOf(n)]
Saved       == {n \in Names : dir[n] = "paired"}

Store == INSTANCE SessionStore WITH
    Limit <- MaxSessions, session <- AllSessions, saved <- Saved, astray <- Astray

(* The session manager implements SessionStore: whatever calls, events,    *)
(* crashes and restarts interleave, each step is a step of one session or  *)
(* of none, a device is linked or unlinked by the phone only while that    *)
(* session has a connection, and the credentials on disk move with it,     *)
(* unless its name has gone astray.  A logout alone moves them in two      *)
(* steps, on disk and then in memory, and may fail between the two.        *)
StoreSpec == Store!Spec

(* session.go:210: StartPairing resets a session that "exists but is not   *)
(* yet paired": it never deletes the credentials of a device.              *)
ResetSparesPaired ==
    [][\A c \in Callers : At(c, "delete") /\ op[c] \in Pairing /\ ~At(c, "delete")'
            => ~(dir[name[c]] = "paired" /\ dir'[name[c]] = "none")]_vars

(* While a call has not returned some caller can go on: no call ends with  *)
(* sm.mu locked, and none waits for what only a waiting one could do.      *)
SomebodyCanGoOn == AllIdle \/ \E c \in Callers : ENABLED CallerStep(c)

(* session.go:263: RemoveSession "stops and permanently removes a          *)
(* session"; session.go:17: any method may be called from any goroutine.   *)
(* When all calls have returned, an engine that runs or pairs and has a    *)
(* connection is in the map, where Stop, StopAll and RemoveSession can     *)
(* reach it.                                                               *)
NoOrphanEngine ==
    AllIdle /\ ~destroyed =>
        \A e \in 1 .. Len(engines) :
            Live(e) /\ engines[e].open => sessions[engines[e].name] = e
=============================================================================
