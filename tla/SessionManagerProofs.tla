----------------------- MODULE SessionManagerProofs -----------------------
(***************************************************************************)
(* Machine-checked proofs about SessionManager, for every finite set of    *)
(* names, every set of callers, limit, and number of calls and restarts.   *)
(***************************************************************************)
EXTENDS SessionManager, FiniteSetTheorems, FunctionTheorems, SequenceTheorems, TLAPS

-----------------------------------------------------------------------------
(* The engines.  What a step keeps of all of them, and of all but one.     *)
Known == 1 .. Len(engines)

SameEngines ==
    /\ engines' \in Seq(Engines) /\ Len(engines') = Len(engines)
    /\ \A e \in Known : engines'[e].name = engines[e].name /\ engines'[e].db = engines[e].db

OneEngine(e) ==
    /\ SameEngines
    /\ \A f \in Known \ {e} : engines'[f] = engines[f]

LEMMA KnownIsEngine ==
  ASSUME engines \in Seq(Engines), NEW e \in Known
  PROVE  /\ engines[e] \in Engines
         /\ engines[e].name \in Names /\ engines[e].life \in Lives
         /\ engines[e].open \in BOOLEAN
         /\ engines[e].paired \in BOOLEAN /\ engines[e].db \in Nat
<1>1. engines[e] \in Engines
  BY ElementOfSeq DEF Known
<1> QED
  BY <1>1 DEF Engines

(* One engine is replaced by another one of its name and its database.     *)
LEMMA Replaced ==
  ASSUME engines \in Seq(Engines), NEW e \in Known, NEW new \in Engines,
         new.name = engines[e].name, new.db = engines[e].db
  PROVE  LET s == [engines EXCEPT ![e] = new] IN
         /\ s \in Seq(Engines) /\ Len(s) = Len(engines) /\ s[e] = new
         /\ \A f \in Known : s[f].name = engines[f].name /\ s[f].db = engines[f].db
         /\ \A f \in Known \ {e} : s[f] = engines[f]
<1> DEFINE s == [engines EXCEPT ![e] = new]
<1>1. /\ s \in Seq(Engines) /\ Len(s) = Len(engines)
      /\ \A f \in Known : s[f] = IF f = e THEN new ELSE engines[f]
  BY ExceptSeq DEF Known
<1> HIDE DEF s
<1>2. /\ s[e] = new
      /\ \A f \in Known : s[f].name = engines[f].name /\ s[f].db = engines[f].db
      /\ \A f \in Known \ {e} : s[f] = engines[f]
  BY <1>1
<1> QED
  BY <1>1, <1>2 DEF s

LEMMA SetLifeKeeps ==
  ASSUME engines \in Seq(Engines), NEW e \in Known, NEW l \in Lives, SetLife(e, l)
  PROVE  /\ OneEngine(e)
         /\ engines'[e].life = l
         /\ engines'[e].open = engines[e].open /\ engines'[e].paired = engines[e].paired
<1> DEFINE new == [engines[e] EXCEPT !.life = l]
<1>1. /\ new \in Engines /\ new.name = engines[e].name /\ new.db = engines[e].db
      /\ new.life = l /\ new.open = engines[e].open /\ new.paired = engines[e].paired
  BY KnownIsEngine DEF Engines
<1>2. engines' = [engines EXCEPT ![e] = new]
  BY DEF SetLife
<1> HIDE DEF new
<1>3. OneEngine(e) /\ engines'[e] = new
  BY <1>1, <1>2, Replaced DEF OneEngine, SameEngines
<1> QED
  BY <1>1, <1>3

LEMMA SetSocketKeeps ==
  ASSUME engines \in Seq(Engines), NEW e \in Known, NEW o \in BOOLEAN, SetSocket(e, o)
  PROVE  /\ OneEngine(e)
         /\ engines'[e].open = o
         /\ engines'[e].life = engines[e].life /\ engines'[e].paired = engines[e].paired
<1> DEFINE new == [engines[e] EXCEPT !.open = o]
<1>1. /\ new \in Engines /\ new.name = engines[e].name /\ new.db = engines[e].db
      /\ new.open = o /\ new.life = engines[e].life /\ new.paired = engines[e].paired
  BY KnownIsEngine DEF Engines
<1>2. engines' = [engines EXCEPT ![e] = new]
  BY DEF SetSocket
<1> HIDE DEF new
<1>3. OneEngine(e) /\ engines'[e] = new
  BY <1>1, <1>2, Replaced DEF OneEngine, SameEngines
<1> QED
  BY <1>1, <1>3

LEMMA LinkKeeps ==
  ASSUME engines \in Seq(Engines), NEW e \in Known, Link(e)
  PROVE  /\ OneEngine(e)
         /\ engines'[e].paired = TRUE
         /\ engines'[e].life = engines[e].life /\ engines'[e].open = engines[e].open
<1> DEFINE new == [engines[e] EXCEPT !.paired = TRUE]
<1>1. /\ new \in Engines /\ new.name = engines[e].name /\ new.db = engines[e].db
      /\ new.paired = TRUE /\ new.life = engines[e].life /\ new.open = engines[e].open
  BY KnownIsEngine DEF Engines
<1>2. engines' = [engines EXCEPT ![e] = new]
  BY DEF Link
<1> HIDE DEF new
<1>3. OneEngine(e) /\ engines'[e] = new
  BY <1>1, <1>2, Replaced DEF OneEngine, SameEngines
<1> QED
  BY <1>1, <1>3

(* A new device, or none, and no socket: Unlink and Renewed.               *)
LEMMA RenewedIs ==
  ASSUME engines \in Seq(Engines), NEW e \in Known, NEW p \in BOOLEAN
  PROVE  LET s == Renewed(e, p) IN
         /\ s \in Seq(Engines) /\ Len(s) = Len(engines)
         /\ \A f \in Known : s[f].name = engines[f].name /\ s[f].db = engines[f].db
         /\ \A f \in Known \ {e} : s[f] = engines[f]
         /\ s[e].paired = p /\ s[e].open = FALSE /\ s[e].life = engines[e].life
<1> DEFINE mid == [engines[e] EXCEPT !.paired = p]
           new == [mid EXCEPT !.open = FALSE]
           sec == [engines EXCEPT ![e] = mid]
           s == Renewed(e, p)
<1>1. /\ mid \in Engines /\ mid.name = engines[e].name /\ mid.db = engines[e].db
      /\ mid.paired = p /\ mid.life = engines[e].life
  BY KnownIsEngine DEF Engines
<1>2. s = [sec EXCEPT ![e] = [sec[e] EXCEPT !.open = FALSE]]
  BY DEF Renewed
<1> HIDE DEF mid
<1>3. /\ new \in Engines /\ new.name = engines[e].name /\ new.db = engines[e].db
      /\ new.paired = p /\ new.open = FALSE /\ new.life = engines[e].life
  BY <1>1 DEF Engines
<1>4. /\ sec \in Seq(Engines) /\ Len(sec) = Len(engines)
      /\ \A f \in Known : sec[f] = IF f = e THEN mid ELSE engines[f]
  BY <1>1, ExceptSeq DEF Known
<1>5. s = [sec EXCEPT ![e] = new]
  BY <1>2, <1>4
<1> HIDE DEF sec, new, s
<1>6. /\ s \in Seq(Engines) /\ Len(s) = Len(sec)
      /\ \A f \in 1 .. Len(sec) : s[f] = IF f = e THEN new ELSE sec[f]
  BY <1>3, <1>4, <1>5, ExceptSeq DEF Known
<1>7. \A f \in Known : s[f] = IF f = e THEN new ELSE engines[f]
  BY <1>4, <1>6 DEF Known
<1>8. /\ s \in Seq(Engines) /\ Len(s) = Len(engines) /\ s[e] = new
      /\ \A f \in Known : s[f].name = engines[f].name /\ s[f].db = engines[f].db
      /\ \A f \in Known \ {e} : s[f] = engines[f]
  BY <1>3, <1>4, <1>6, <1>7
<1> QED
  BY <1>3, <1>8 DEF s

LEMMA UnlinkKeeps ==
  ASSUME engines \in Seq(Engines), NEW e \in Known, Unlink(e)
  PROVE  /\ OneEngine(e)
         /\ engines'[e].paired = FALSE /\ engines'[e].open = FALSE
         /\ engines'[e].life = engines[e].life
<1>1. engines' = Renewed(e, FALSE)
  BY DEF Unlink, Renewed
<1> QED
  BY <1>1, RenewedIs DEF OneEngine, SameEngines

(* With a new device, and perhaps an engine that stays behind.             *)
LEMMA NewClientKeeps ==
  ASSUME engines \in Seq(Engines), NEW e \in Known, NEW p \in BOOLEAN, NewClient(e, p)
  PROVE  /\ engines' \in Seq(Engines)
         /\ \A f \in Known : engines'[f].name = engines[f].name /\ engines'[f].db = engines[f].db
         /\ \A f \in Known \ {e} : engines'[f] = engines[f]
         /\ engines'[e].paired = p /\ engines'[e].open = FALSE
         /\ engines'[e].life = engines[e].life
         /\ \/ Len(engines') = Len(engines)
            \/ /\ Len(engines') = Len(engines) + 1
               /\ engines'[Len(engines) + 1] = LeftBehind(e)
<1> DEFINE s == Renewed(e, p)
<1>1. /\ s \in Seq(Engines) /\ Len(s) = Len(engines)
      /\ \A f \in Known : s[f].name = engines[f].name /\ s[f].db = engines[f].db
      /\ \A f \in Known \ {e} : s[f] = engines[f]
      /\ s[e].paired = p /\ s[e].open = FALSE /\ s[e].life = engines[e].life
  BY RenewedIs
<1> HIDE DEF s
<1>2. CASE engines' = s
  BY <1>1, <1>2
<1>3. CASE engines' = Append(s, LeftBehind(e))
  <2>1. LeftBehind(e) \in Engines
    BY KnownIsEngine DEF LeftBehind, Engines, Lives
  <2>2. /\ engines' \in Seq(Engines) /\ Len(engines') = Len(engines) + 1
        /\ \A f \in Known : engines'[f] = s[f]
        /\ engines'[Len(engines) + 1] = LeftBehind(e)
    BY <1>1, <1>3, <2>1, AppendProperties DEF Known
  <2> QED
    BY <1>1, <2>2
<1> QED
  BY <1>2, <1>3 DEF NewClient, s

LEMMA LeftBehindIs ==
  ASSUME engines \in Seq(Engines), NEW e \in Known
  PROVE  /\ LeftBehind(e).name = engines[e].name /\ LeftBehind(e).db = engines[e].db
         /\ LeftBehind(e).paired = engines[e].paired
         /\ LeftBehind(e).life = "stopped" /\ LeftBehind(e).open = TRUE
  BY KnownIsEngine DEF LeftBehind, Engines

-----------------------------------------------------------------------------
(* The inductive invariant of the files.  Its properties need each other:  *)
(* a directory can be compared with the mapped engine because that engine  *)
(* has the database in it open, and a device that has been deleted on disk *)
(* only is one that the engine still calls its own.                        *)
FilesType ==
    /\ engines \in Seq(Engines)
    /\ sessions \in [Names -> Ids]
    /\ dir \in [Names -> Dirs]
    /\ owner \in [Names -> Ids]
    /\ cleared \subseteq Known

ClearedPaired == \A e \in cleared : engines[e].paired

FilesInv ==
    /\ FilesType
    /\ SessionsWithinLimit
    /\ MappedOwnsDirectory
    /\ CredentialsAreDurable
    /\ ClearedPaired

LEMMA MappedIsKnown ==
  ASSUME FilesType
  PROVE  \A n \in Mapped : n \in Names /\ sessions[n] \in Known
  BY LenProperties DEF FilesType, Mapped, Ids, Known

(* Steps that leave the map alone, and the name and the database of each   *)
(* engine that there is.                                                   *)
SameMap ==
    /\ UNCHANGED <<sessions, owner>>
    /\ engines' \in Seq(Engines) /\ Len(engines) <= Len(engines')
    /\ \A e \in Known : engines'[e].name = engines[e].name /\ engines'[e].db = engines[e].db

LEMMA SameMapStep ==
  ASSUME FilesInv, SameMap
  PROVE  /\ sessions' \in [Names -> Ids'] /\ owner' \in [Names -> Ids']
         /\ Known \subseteq Known'
         /\ Mapped' = Mapped /\ \A n \in Mapped : sessions[n] \in Known
         /\ SessionsWithinLimit' /\ MappedOwnsDirectory'
         /\ \A e \in Known : Sole(e)' => Sole(e)
<1>0. FilesType /\ Len(engines) \in Nat /\ Len(engines') \in Nat
  BY LenProperties DEF FilesInv, FilesType, SameMap
<1>1. sessions' \in [Names -> Ids'] /\ owner' \in [Names -> Ids'] /\ Known \subseteq Known'
  BY <1>0 DEF FilesType, SameMap, Ids, Known
<1>2. Mapped' = Mapped /\ \A n \in Mapped : sessions[n] \in Known
  BY <1>0, MappedIsKnown DEF SameMap, Mapped
<1>3. SessionsWithinLimit'
  BY <1>2 DEF FilesInv, SessionsWithinLimit
<1>4. MappedOwnsDirectory'
  BY <1>2 DEF FilesInv, MappedOwnsDirectory, OwnsDir, SameMap
<1>5. \A e \in Known : Sole(e)' => Sole(e)
  BY <1>0, <1>1 DEF Sole, SameMap, Known
<1> QED
  BY <1>1, <1>2, <1>3, <1>4, <1>5

LEMMA SameEnginesMap ==
  ASSUME FilesInv, SameEngines \/ UNCHANGED engines, UNCHANGED <<sessions, owner>>
  PROVE  SameMap /\ Known' = Known
  BY LenProperties DEF FilesInv, FilesType, SameEngines, SameMap, Known

(* A step that leaves the credentials alone.                               *)
LEMMA QuietStep ==
  ASSUME FilesInv, SameEngines \/ UNCHANGED engines, UNCHANGED <<sessions, files>>,
         \A e \in Known : engines'[e].paired = engines[e].paired
  PROVE  FilesInv'
<1>1. SameMap /\ Known' = Known /\ UNCHANGED <<sessions, dir, owner, cleared>>
  BY SameEnginesMap DEF files
<1>2. FilesType' /\ SessionsWithinLimit' /\ MappedOwnsDirectory'
  BY <1>1, SameMapStep DEF FilesInv, FilesType, SameMap
<1>3. CredentialsAreDurable'
  BY <1>1, SameMapStep DEF FilesInv, CredentialsAreDurable
<1>4. ClearedPaired'
  BY <1>1 DEF FilesInv, FilesType, ClearedPaired
<1> QED
  BY <1>2, <1>3, <1>4 DEF FilesInv

(* The credentials of one engine change, and with them those in the        *)
(* directory, if that holds the engine's database.                         *)
SetCredentials(e, p) ==
    /\ OneEngine(e)
    /\ engines'[e].paired = p
    /\ dir' = DirAfter(e, p)
    /\ cleared' = cleared \ {e}
    /\ UNCHANGED <<sessions, owner>>

LEMMA DirAfterWrites ==
  ASSUME FilesType, NEW e \in Known, NEW p \in BOOLEAN
  PROVE  /\ DirAfter(e, p) \in [Names -> Dirs]
         /\ \A n \in Names :
               DirAfter(e, p)[n] = IF OwnsDir(e) /\ n = engines[e].name
                                   THEN IF p THEN "paired" ELSE "db"
                                   ELSE dir[n]
  BY KnownIsEngine DEF FilesType, DirAfter, Dirs

(* The engine e is the only one that a write to its file concerns.         *)
LEMMA OtherDirsKept ==
  ASSUME FilesInv, NEW e \in Known, NEW p \in BOOLEAN, dir' = DirAfter(e, p),
         NEW n \in Mapped, Sole(sessions[n]), sessions[n] # e
  PROVE  dir'[n] = dir[n]
<1>1. n \in Names /\ sessions[n] \in Known /\ FilesType
  BY MappedIsKnown DEF FilesInv
<1>2. engines[sessions[n]].name = n /\ OwnsDir(sessions[n])
  BY DEF FilesInv, MappedOwnsDirectory
<1>3. ~(OwnsDir(e) /\ n = engines[e].name)
  BY <1>1, <1>2 DEF OwnsDir, Sole, Known
<1> QED
  BY <1>1, <1>3, DirAfterWrites

LEMMA CredentialsStep ==
  ASSUME FilesInv, NEW e \in Known, NEW p \in BOOLEAN, SetCredentials(e, p)
  PROVE  FilesInv'
<1>0. /\ FilesType /\ SameMap /\ Known' = Known /\ sessions' = sessions
      /\ engines'[e].paired = p /\ \A f \in Known \ {e} : engines'[f] = engines[f]
      /\ cleared' = cleared \ {e} /\ dir' = DirAfter(e, p)
  BY SameEnginesMap DEF FilesInv, SetCredentials, OneEngine
<1>1. FilesType' /\ SessionsWithinLimit' /\ MappedOwnsDirectory'
  BY <1>0, SameMapStep, DirAfterWrites DEF FilesType, SameMap
<1>2. ASSUME NEW n \in Mapped, Sole(sessions[n])'
      PROVE  dir'[n] = IF engines'[sessions[n]].paired /\ sessions[n] \notin cleared'
                       THEN "paired" ELSE "db"
  <2> DEFINE s == sessions[n]
  <2>1. s \in Known /\ n \in Names /\ Sole(s)
    BY <1>0, <1>2, SameMapStep, MappedIsKnown
  <2>2. engines[s].name = n /\ OwnsDir(s)
    BY DEF FilesInv, MappedOwnsDirectory
  <2>3. dir[n] = IF engines[s].paired /\ s \notin cleared THEN "paired" ELSE "db"
    BY <2>1 DEF FilesInv, CredentialsAreDurable
  <2>4. CASE e = s
    BY <1>0, <2>1, <2>2, <2>4, DirAfterWrites
  <2>5. CASE e # s
    <3>1. dir'[n] = dir[n]
      BY <1>0, <2>1, <2>5, OtherDirsKept
    <3> QED
      BY <1>0, <2>1, <2>3, <2>5, <3>1
  <2> QED
    BY <2>4, <2>5
<1>3. CredentialsAreDurable'
  BY <1>0, <1>2, SameMapStep DEF CredentialsAreDurable
<1>4. ClearedPaired'
  BY <1>0 DEF FilesInv, FilesType, ClearedPaired
<1> QED
  BY <1>1, <1>3, <1>4 DEF FilesInv

(* ClearSession deletes the devices on disk, and the engine does not know. *)
ClearsFile(e) ==
    /\ dir' = DirAfter(e, FALSE)
    /\ cleared' = IF engines[e].paired THEN cleared \cup {e} ELSE cleared
    /\ UNCHANGED <<sessions, engines, owner>>

LEMMA ClearStep ==
  ASSUME FilesInv, NEW e \in Known, ClearsFile(e)
  PROVE  FilesInv'
<1>0. /\ FilesType /\ SameMap /\ Known' = Known /\ UNCHANGED <<sessions, engines>>
      /\ dir' = DirAfter(e, FALSE)
      /\ cleared' = IF engines[e].paired THEN cleared \cup {e} ELSE cleared
  BY SameEnginesMap DEF FilesInv, ClearsFile
<1>1. FilesType' /\ SessionsWithinLimit' /\ MappedOwnsDirectory'
  BY <1>0, SameMapStep, DirAfterWrites DEF FilesType, SameMap
<1>2. ASSUME NEW n \in Mapped, Sole(sessions[n])'
      PROVE  dir'[n] = IF engines[sessions[n]].paired /\ sessions[n] \notin cleared'
                       THEN "paired" ELSE "db"
  <2> DEFINE s == sessions[n]
  <2>1. s \in Known /\ n \in Names /\ Sole(s)
    BY <1>0, <1>2, SameMapStep, MappedIsKnown
  <2>2. engines[s].name = n /\ OwnsDir(s)
    BY DEF FilesInv, MappedOwnsDirectory
  <2>3. CASE e = s
    BY <1>0, <2>1, <2>2, <2>3, DirAfterWrites
  <2>4. CASE e # s
    <3>1. dir'[n] = dir[n]
      BY <1>0, <2>1, <2>4, OtherDirsKept
    <3>2. dir[n] = IF engines[s].paired /\ s \notin cleared THEN "paired" ELSE "db"
      BY <2>1 DEF FilesInv, CredentialsAreDurable
    <3> QED
      BY <1>0, <2>4, <3>1, <3>2
  <2> QED
    BY <2>3, <2>4
<1>3. CredentialsAreDurable'
  BY <1>0, <1>2, SameMapStep DEF CredentialsAreDurable
<1>4. ClearedPaired'
  BY <1>0 DEF FilesInv, FilesType, ClearedPaired
<1> QED
  BY <1>1, <1>3, <1>4 DEF FilesInv

(* Then the engine takes up what is there, and may leave another behind.   *)
RenewsDevice(e) ==
    /\ \E p \in BOOLEAN :
        /\ OwnsDir(e) => p = (dir[engines[e].name] = "paired")
        /\ NewClient(e, p)
    /\ cleared' = cleared \ {e}
    /\ UNCHANGED <<sessions, dir, owner>>

LEMMA RenewMap ==
  ASSUME FilesInv, NEW e \in Known, RenewsDevice(e)
  PROVE  SameMap
<1>1. engines \in Seq(Engines) /\ Len(engines) \in Nat
  BY LenProperties DEF FilesInv, FilesType
<1>2. PICK p \in BOOLEAN : NewClient(e, p)
  BY DEF RenewsDevice
<1>3. Len(engines') \in {Len(engines), Len(engines) + 1}
  BY <1>1, <1>2, NewClientKeeps
<1>4. /\ engines' \in Seq(Engines)
      /\ \A f \in Known : engines'[f].name = engines[f].name /\ engines'[f].db = engines[f].db
  BY <1>1, <1>2, NewClientKeeps
<1> QED
  BY <1>1, <1>3, <1>4 DEF RenewsDevice, SameMap

LEMMA RenewStep ==
  ASSUME FilesInv, NEW e \in Known, RenewsDevice(e)
  PROVE  FilesInv'
<1>0. FilesType /\ SameMap
  BY RenewMap DEF FilesInv
<1>1. PICK p \in BOOLEAN :
        /\ OwnsDir(e) => p = (dir[engines[e].name] = "paired")
        /\ NewClient(e, p)
  BY DEF RenewsDevice
<1>2. /\ UNCHANGED <<sessions, dir, owner>> /\ cleared' = cleared \ {e}
      /\ engines'[e].paired = p /\ \A f \in Known \ {e} : engines'[f] = engines[f]
      /\ cleared' \subseteq Known \ {e}
  BY <1>0, <1>1, NewClientKeeps DEF RenewsDevice, FilesType
<1>3. FilesType' /\ SessionsWithinLimit' /\ MappedOwnsDirectory'
  BY <1>0, <1>2, SameMapStep DEF FilesType, SameMap
<1>4. ASSUME NEW n \in Mapped, Sole(sessions[n])'
      PROVE  dir'[n] = IF engines'[sessions[n]].paired /\ sessions[n] \notin cleared'
                       THEN "paired" ELSE "db"
  <2> DEFINE s == sessions[n]
  <2>1. s \in Known /\ n \in Names /\ Sole(s)
    BY <1>0, <1>2, <1>4, SameMapStep, MappedIsKnown
  <2>2. engines[s].name = n /\ OwnsDir(s)
    BY DEF FilesInv, MappedOwnsDirectory
  <2>3. dir[n] = IF engines[s].paired /\ s \notin cleared THEN "paired" ELSE "db"
    BY <2>1 DEF FilesInv, CredentialsAreDurable
  <2>4. CASE e = s
    <3>1. p = (dir[n] = "paired")
      BY <1>1, <2>2, <2>4
    <3> QED
      BY <1>2, <2>3, <2>4, <3>1
  <2>5. CASE e # s
    BY <1>2, <2>1, <2>3, <2>5
  <2> QED
    BY <2>4, <2>5
<1>5. CredentialsAreDurable'
  BY <1>0, <1>2, <1>4, SameMapStep DEF CredentialsAreDurable
<1>6. ClearedPaired'
  BY <1>2 DEF FilesInv, ClearedPaired
<1> QED
  BY <1>3, <1>5, <1>6 DEF FilesInv

(* NewEngine fails: at most the directory of an unmapped name is made.     *)
LEMMA CreateFailsStep ==
  ASSUME FilesInv, NEW n \in Names, n \notin Mapped,
         dir' = IF dir[n] = "none" THEN [dir EXCEPT ![n] = "empty"] ELSE dir,
         UNCHANGED <<sessions, engines, owner, cleared>>
  PROVE  FilesInv'
<1>1. FilesType' /\ \A m \in Names \ {n} : dir'[m] = dir[m]
  BY DEF FilesInv, FilesType, Dirs, Ids, Known
<1>2. Mapped' = Mapped /\ Mapped \subseteq Names \ {n}
  BY DEF Mapped
<1>3. SessionsWithinLimit' /\ MappedOwnsDirectory'
  BY <1>2 DEF FilesInv, SessionsWithinLimit, MappedOwnsDirectory, OwnsDir
<1>4. CredentialsAreDurable'
  BY <1>1, <1>2 DEF FilesInv, CredentialsAreDurable, Sole
<1>5. ClearedPaired'
  BY DEF FilesInv, ClearedPaired
<1> QED
  BY <1>1, <1>3, <1>4, <1>5 DEF FilesInv

(* NewEngine succeeds for an unmapped name: the directory has a database.  *)
Opened(n) ==
    /\ engines' = Append(engines, NewEngine(n, Len(engines) + 1))
    /\ dir' = [dir EXCEPT ![n] = IF @ = "paired" THEN @ ELSE "db"]
    /\ owner' = [owner EXCEPT ![n] = FileOpened(n, Len(engines) + 1)]
    /\ UNCHANGED cleared

LEMMA OpenedFacts ==
  ASSUME FilesType, NEW n \in Names, Opened(n)
  PROVE  /\ engines' \in Seq(Engines) /\ Len(engines') = Len(engines) + 1
         /\ \A e \in Known : engines'[e] = engines[e]
         /\ engines'[Len(engines) + 1] = NewEngine(n, Len(engines) + 1)
         /\ dir' \in [Names -> Dirs] /\ owner' \in [Names -> Ids']
         /\ \A m \in Names \ {n} : dir'[m] = dir[m] /\ owner'[m] = owner[m]
         /\ owner'[n] = FileOpened(n, Len(engines) + 1)
         /\ dir'[n] = IF dir[n] = "paired" THEN "paired" ELSE "db"
<1>1. Len(engines) \in Nat
  BY LenProperties DEF FilesType
<1>2. FileOpened(n, Len(engines) + 1) \in 0 .. Len(engines) + 1
  BY <1>1 DEF FileOpened, FilesType, Ids
<1>3. NewEngine(n, Len(engines) + 1) \in Engines
  BY <1>1, <1>2 DEF NewEngine, Engines, Lives
<1>4. /\ engines' \in Seq(Engines) /\ Len(engines') = Len(engines) + 1
      /\ \A e \in Known : engines'[e] = engines[e]
      /\ engines'[Len(engines) + 1] = NewEngine(n, Len(engines) + 1)
  BY <1>3, AppendProperties DEF FilesType, Opened, Known
<1>5. dir' \in [Names -> Dirs] /\ owner' \in [Names -> Ids']
  BY <1>1, <1>2, <1>4 DEF FilesType, Opened, Ids, Dirs
<1>6. /\ \A m \in Names \ {n} : dir'[m] = dir[m] /\ owner'[m] = owner[m]
      /\ owner'[n] = FileOpened(n, Len(engines) + 1)
      /\ dir'[n] = IF dir[n] = "paired" THEN "paired" ELSE "db"
  BY DEF FilesType, Opened
<1> QED
  BY <1>4, <1>5, <1>6

LEMMA EqualBooleans ==
  ASSUME NEW a \in BOOLEAN, NEW b \in BOOLEAN, a <=> b
  PROVE  a = b
  OBVIOUS

LEMMA NewEngineReadsDirectory ==
  ASSUME NEW n, NEW e, NEW new, new = NewEngine(n, e)
  PROVE  new.life = "stopped" /\ ~new.open /\ (new.paired <=> dir[n] = "paired")
  BY Zenon DEF NewEngine

(* The new engine is put into the map, if that has room, or is dropped.    *)
LEMMA OpenedStep ==
  ASSUME FilesInv, NEW n \in Names, n \notin Mapped, Cardinality(Mapped) < MaxSessions,
         Opened(n),
         \/ UNCHANGED sessions
         \/ sessions' = [sessions EXCEPT ![n] = Len(engines) + 1]
  PROVE  FilesInv'
<1> DEFINE e == Len(engines) + 1
<1>0. FilesType /\ Len(engines) \in Nat /\ e \notin Known /\ Known' = Known \cup {e} /\ e # 0
  BY LenProperties, OpenedFacts DEF FilesInv, FilesType, Known
<1>1. FilesType'
  <2>1. cleared' \subseteq Known'
    BY <1>0 DEF FilesType, Opened
  <2>2. Len(engines') = e /\ e \in Nat
    BY <1>0, OpenedFacts
  <2>3. sessions' \in [Names -> Ids']
    BY <1>0, <2>2 DEF FilesType, Ids
  <2> QED
    BY <1>0, <2>1, <2>3, OpenedFacts DEF FilesType
<1>2. \A m \in Mapped : m \in Names \ {n} /\ sessions'[m] = sessions[m] /\ sessions[m] \in Known
  BY <1>0, MappedIsKnown DEF FilesType
<1>3. \/ Mapped' = Mapped
      \/ Mapped' = Mapped \cup {n} /\ sessions'[n] = e
  BY <1>0 DEF Mapped, FilesType
<1>4. SessionsWithinLimit'
  <2>1. IsFiniteSet(Mapped)
    BY NamesAssumption, FS_Subset DEF Mapped
  <2>2. Cardinality(Mapped \cup {n}) = Cardinality(Mapped) + 1 /\ Cardinality(Mapped) \in Nat
    BY <2>1, FS_AddElement, FS_CardinalityType
  <2>3. Cardinality(Mapped') \in {Cardinality(Mapped), Cardinality(Mapped) + 1}
    BY <1>3, <2>2
  <2> QED
    BY <2>2, <2>3, LimitAssumption DEF SessionsWithinLimit
<1>5. /\ engines'[e].name = n /\ engines'[e].db = FileOpened(n, e)
      /\ engines'[e].paired <=> dir[n] = "paired"
  <2>1. engines'[e] = NewEngine(n, e)
    BY <1>0, OpenedFacts
  <2>2. engines'[e].name = n /\ engines'[e].db = FileOpened(n, e)
    BY <2>1 DEF NewEngine
  <2>3. engines'[e].paired <=> dir[n] = "paired"
    BY <2>1, NewEngineReadsDirectory, Zenon
  <2> QED
    BY <2>2, <2>3, Zenon
<1>6. MappedOwnsDirectory'
  <2>1. \A m \in Mapped : engines'[sessions'[m]].name = m /\ owner'[m] = engines'[sessions'[m]].db
    BY <1>0, <1>2, OpenedFacts DEF FilesInv, MappedOwnsDirectory, OwnsDir
  <2>2. owner'[n] = engines'[e].db
    BY <1>0, <1>5, OpenedFacts
  <2> QED
    BY <1>2, <1>3, <1>5, <2>1, <2>2 DEF MappedOwnsDirectory, OwnsDir
<1>7. CredentialsAreDurable'
  <2>1. ASSUME NEW m \in Mapped, Sole(sessions[m])'
        PROVE  dir'[m] = IF engines'[sessions'[m]].paired /\ sessions'[m] \notin cleared'
                         THEN "paired" ELSE "db"
    <3>1. Sole(sessions[m])
      BY <1>0, <1>2, <2>1, OpenedFacts DEF Sole, Known
    <3>2. dir[m] = IF engines[sessions[m]].paired /\ sessions[m] \notin cleared
                   THEN "paired" ELSE "db"
      BY <3>1 DEF FilesInv, CredentialsAreDurable
    <3> QED
      <4>1. cleared' = cleared /\ engines'[sessions'[m]] = engines[sessions[m]] /\ dir'[m] = dir[m]
        BY <1>0, <1>2, OpenedFacts DEF Opened
      <4> QED
        BY <1>2, <3>2, <4>1
  <2>2. dir'[n] = IF engines'[e].paired /\ e \notin cleared' THEN "paired" ELSE "db"
    BY <1>0, <1>5, OpenedFacts DEF Opened, FilesType
  <2> QED
    BY <1>3, <2>1, <2>2 DEF CredentialsAreDurable
<1>8. ClearedPaired'
  BY <1>0, OpenedFacts DEF FilesInv, FilesType, ClearedPaired, Opened
<1> QED
  BY <1>1, <1>4, <1>6, <1>7, <1>8 DEF FilesInv

(* Fewer names mapped: the entry and the directory of one name go, or all  *)
(* entries do.                                                             *)
LEMMA FewerMapped ==
  ASSUME SessionsWithinLimit, Mapped' \subseteq Mapped
  PROVE  SessionsWithinLimit'
<1>1. IsFiniteSet(Mapped)
  BY NamesAssumption, FS_Subset DEF Mapped
<1>2. /\ Cardinality(Mapped') <= Cardinality(Mapped)
      /\ Cardinality(Mapped') \in Nat /\ Cardinality(Mapped) \in Nat
  BY <1>1, FS_Subset, FS_CardinalityType
<1> QED
  BY <1>2, LimitAssumption DEF SessionsWithinLimit

LEMMA UnmapStep ==
  ASSUME FilesInv, NEW n \in Names, UNCHANGED <<engines, cleared>>,
         sessions' = [sessions EXCEPT ![n] = 0], RemoveDir(n)
  PROVE  FilesInv'
<1>0. Len(engines) \in Nat
  BY LenProperties DEF FilesInv, FilesType
<1>1. /\ FilesType'
      /\ \A m \in Names \ {n} : dir'[m] = dir[m] /\ owner'[m] = owner[m]
  <2>1. sessions' \in [Names -> Ids]
    BY <1>0 DEF FilesInv, FilesType, Ids
  <2>2. /\ owner' \in [Names -> Ids] /\ dir' \in [Names -> Dirs]
        /\ \A m \in Names \ {n} : dir'[m] = dir[m] /\ owner'[m] = owner[m]
    <3>1. CASE UNCHANGED <<owner, dir>>
      BY <3>1 DEF FilesInv, FilesType
    <3>2. CASE owner' = [owner EXCEPT ![n] = 0] /\ dir' = [dir EXCEPT ![n] = "none"]
      BY <1>0, <3>2 DEF FilesInv, FilesType, Ids, Dirs
    <3> QED
      BY <3>1, <3>2 DEF RemoveDir
  <2> QED
    BY <2>1, <2>2 DEF FilesInv, FilesType, Ids, Known
<1>2. /\ Mapped' \subseteq Mapped
      /\ \A m \in Mapped' : m \in Names \ {n} /\ sessions'[m] = sessions[m]
  BY DEF FilesInv, FilesType, Mapped
<1>3. SessionsWithinLimit'
  BY <1>2, FewerMapped DEF FilesInv
<1>4. MappedOwnsDirectory'
  BY <1>1, <1>2 DEF FilesInv, MappedOwnsDirectory, OwnsDir
<1>5. CredentialsAreDurable' /\ ClearedPaired'
  BY <1>1, <1>2 DEF FilesInv, CredentialsAreDurable, Sole, ClearedPaired
<1> QED
  BY <1>1, <1>3, <1>4, <1>5 DEF FilesInv

LEMMA DropMapStep ==
  ASSUME FilesInv, sessions' = [n \in Names |-> 0], UNCHANGED store
  PROVE  FilesInv'
<1>0. Len(engines) \in Nat /\ Mapped' = {}
  BY LenProperties DEF FilesInv, FilesType, Mapped
<1>1. FilesType'
  BY <1>0 DEF FilesInv, FilesType, store, files, Ids, Known
<1>2. SessionsWithinLimit'
  BY <1>0, FewerMapped DEF FilesInv
<1>3. MappedOwnsDirectory' /\ CredentialsAreDurable' /\ ClearedPaired'
  BY <1>0 DEF MappedOwnsDirectory, CredentialsAreDurable, ClearedPaired, FilesInv, store, files
<1> QED
  BY <1>1, <1>2, <1>3 DEF FilesInv

(* Discovery numbers the sessions that it finds; it relies on nothing but  *)
(* the directories.                                                        *)
Discovered ==
    /\ \A n \in Mapped' : /\ ~engines'[sessions'[n]].open
                          /\ engines'[sessions'[n]].paired <=> dir[n] = "paired"
    /\ \A e \in Known' : sessions'[engines'[e].name] = e

LEMMA DiscoveryStep ==
  ASSUME FilesInv, discoverSessions, UNCHANGED dir, cleared' = {}
  PROVE  FilesInv' /\ Discovered
<1>1. PICK found \in SUBSET Discoverable :
        /\ Cardinality(found) <= MaxSessions
        /\ \E number \in Bijection(found, 1 .. Cardinality(found)) :
            /\ engines' = [i \in 1 .. Cardinality(found) |->
                  [NewEngine(CHOOSE n \in found : number[n] = i, i) EXCEPT !.db = i]]
            /\ sessions' = [n \in Names |-> IF n \in found THEN number[n] ELSE 0]
            /\ owner' = sessions'
  BY DEF discoverSessions
<1> DEFINE k == Cardinality(found)
<1>2. found \subseteq Names /\ \A n \in found : dir[n] \in {"db", "paired"}
  BY DEF Discoverable
<1>3. k \in Nat
  BY <1>2, NamesAssumption, FS_Subset, FS_CardinalityType
<1>4. PICK number \in Bijection(found, 1 .. k) :
            /\ engines' = [i \in 1 .. k |->
                  [NewEngine(CHOOSE n \in found : number[n] = i, i) EXCEPT !.db = i]]
            /\ sessions' = [n \in Names |-> IF n \in found THEN number[n] ELSE 0]
            /\ owner' = sessions'
  BY <1>1
<1> HIDE DEF k
<1>5. /\ \A n \in found : number[n] \in 1 .. k
      /\ \A a, b \in found : number[a] = number[b] => a = b
      /\ \A i \in 1 .. k : \E n \in found : number[n] = i
  <2>1. number \in [found -> 1 .. k]
    BY Fun_BijectionProperties
  <2>2. \A a, b \in found : number[a] = number[b] => a = b
    BY Fun_BijectionProperties
  <2>3. \A i \in 1 .. k : \E n \in found : number[n] = i
    BY DEF Bijection, Surjection
  <2> QED
    BY <2>1, <2>2, <2>3
<1> DEFINE at(i) == CHOOSE n \in found : number[n] = i
           new(i) == [NewEngine(at(i), i) EXCEPT !.db = i]
<1>6. \A i \in 1 .. k : at(i) \in found /\ number[at(i)] = i
  BY <1>5
<1>7. \A n \in found : at(number[n]) = n
  BY <1>5, <1>6
<1> HIDE DEF at
<1>8. ASSUME NEW i \in 1 .. k
      PROVE  /\ new(i) \in Engines /\ new(i).name = at(i) /\ new(i).db = i
             /\ ~new(i).open
             /\ new(i).paired <=> dir[at(i)] = "paired"
  <2> DEFINE e == NewEngine(at(i), i)
  <2>0. at(i) \in Names /\ i \in Nat
    BY <1>2, <1>3, <1>6
  <2>1. ~e.open /\ (e.paired <=> dir[at(i)] = "paired")
    BY NewEngineReadsDirectory, Zenon
  <2>2. FileOpened(at(i), i) \in Nat
    BY <2>0, LenProperties DEF FilesInv, FilesType, FileOpened, Ids
  <2>3. e \in Engines /\ e.name = at(i)
    BY <2>0, <2>2 DEF NewEngine, Engines, Lives
  <2> HIDE DEF e
  <2>4. /\ [e EXCEPT !.db = i] \in Engines
        /\ [e EXCEPT !.db = i].name = e.name
        /\ [e EXCEPT !.db = i].db = i
        /\ [e EXCEPT !.db = i].paired = e.paired
        /\ [e EXCEPT !.db = i].open = e.open
    BY <2>0, <2>3 DEF Engines
  <2> QED
    BY <2>1, <2>3, <2>4 DEF e
<1> HIDE DEF new
<1>9. engines' = [i \in 1 .. k |-> new(i)]
  BY <1>4 DEF new, at
<1>9a. \A i \in 1 .. k : new(i) \in Engines
  BY <1>8
<1>10. /\ engines' \in Seq(Engines) /\ Len(engines') = k
       /\ \A i \in 1 .. k : engines'[i] = new(i)
  BY <1>3, <1>9, <1>9a, IsASeq
<1>11. sessions' \in [Names -> 0 .. k]
  BY <1>3, <1>4, <1>5
<1>12. FilesType'
  BY <1>4, <1>10, <1>11 DEF FilesInv, FilesType, Ids
<1>13. Mapped' = found /\ \A n \in found : sessions'[n] = number[n]
  BY <1>2, <1>4, <1>5 DEF Mapped
<1>14. SessionsWithinLimit'
  BY <1>1, <1>13 DEF SessionsWithinLimit
<1>15. MappedOwnsDirectory'
  <2>1. ASSUME NEW n \in found
        PROVE  /\ engines'[number[n]].name = n /\ engines'[number[n]].db = number[n]
               /\ owner'[n] = number[n]
    <3>1. number[n] \in 1 .. k /\ at(number[n]) = n /\ n \in Names
      BY <1>2, <1>5, <1>7
    <3>2. owner'[n] = number[n]
      BY <1>4, <1>13
    <3>3. engines'[number[n]] = new(number[n])
      BY <1>10, <3>1
    <3> QED
      BY <1>8, <3>1, <3>2, <3>3
  <2> QED
    BY <1>13, <2>1 DEF MappedOwnsDirectory, OwnsDir
<1>16. CredentialsAreDurable' /\ ClearedPaired'
  BY <1>2, <1>5, <1>7, <1>8, <1>10, <1>13 DEF CredentialsAreDurable, ClearedPaired
<1>17. \A n \in Mapped' : ~engines'[sessions'[n]].open
  BY <1>5, <1>7, <1>8, <1>10, <1>13
<1>18. \A n \in Mapped' : engines'[sessions'[n]].paired <=> dir[n] = "paired"
  BY <1>5, <1>7, <1>8, <1>10, <1>13
<1>19. ASSUME NEW e \in Known'
       PROVE  sessions'[engines'[e].name] = e
  <2>1. e \in 1 .. k /\ engines'[e].name = at(e)
    BY <1>8, <1>10, <1>19 DEF Known
  <2> QED
    BY <1>6, <1>13, <2>1
<1> QED
  BY <1>12, <1>14, <1>15, <1>16, <1>17, <1>18, <1>19 DEF FilesInv, Discovered

-----------------------------------------------------------------------------
(* What a step does to the sessions and their files: something to one      *)
(* engine, an engine made, an entry deleted, all entries dropped, nothing. *)
ChangesLife(e)   == (\E l \in Lives : SetLife(e, l)) /\ UNCHANGED <<sessions, files>>
ChangesSocket(e) == (\E o \in BOOLEAN : SetSocket(e, o)) /\ UNCHANGED <<sessions, files>>

LinksDevice(e)   == PairSuccess(e) /\ UNCHANGED <<sessions, owner>>
UnlinksDevice(e) == LoggedOut(e) /\ UNCHANGED <<sessions, owner>>

TouchesEngine(e) ==
    \/ ChangesLife(e) \/ ChangesSocket(e) \/ LinksDevice(e) \/ UnlinksDevice(e)
    \/ ClearsFile(e) \/ RenewsDevice(e)

MakesEngine ==
    \E n \in Names :
        /\ n \notin Mapped /\ Cardinality(Mapped) < MaxSessions
        /\ Opened(n)
        /\ \/ UNCHANGED sessions
           \/ sessions' = [sessions EXCEPT ![n] = Len(engines) + 1]

FailsToMake ==
    /\ \E n \in Names \ Mapped :
        dir' = IF dir[n] = "none" THEN [dir EXCEPT ![n] = "empty"] ELSE dir
    /\ UNCHANGED <<sessions, engines, owner, cleared>>

DeletesEntry ==
    /\ \E n \in Mapped : sessions' = [sessions EXCEPT ![n] = 0] /\ RemoveDir(n)
    /\ UNCHANGED <<engines, cleared>>

DropsEntries == sessions' = [n \in Names |-> 0] /\ UNCHANGED store

TouchesNothing == UNCHANGED <<sessions, store>>

FileStep ==
    \/ \E e \in Known : TouchesEngine(e)
    \/ MakesEngine \/ FailsToMake \/ DeletesEntry \/ DropsEntries \/ TouchesNothing

EnginesKept ==
    /\ Len(engines) \in Nat /\ Len(engines') \in Nat /\ Len(engines) <= Len(engines')
    /\ \A e \in Known : engines'[e].name = engines[e].name

LEMMA SameMapKept ==
  ASSUME FilesInv, SameMap \/ UNCHANGED engines
  PROVE  EnginesKept
<1>1. Len(engines) \in Nat
  BY LenProperties DEF FilesInv, FilesType
<1>2. SameMap => Len(engines') \in Nat
  BY LenProperties DEF SameMap
<1> QED
  BY <1>1, <1>2 DEF SameMap, EnginesKept

LEMMA LinkSets ==
  ASSUME FilesInv, NEW e \in Known, LinksDevice(e)
  PROVE  SetCredentials(e, TRUE)
<1>1. e \notin cleared
  BY DEF FilesInv, ClearedPaired, LinksDevice, PairSuccess
<1> QED
  BY <1>1, LinkKeeps DEF FilesInv, FilesType, LinksDevice, PairSuccess, Link, SetCredentials

LEMMA UnlinkSets ==
  ASSUME FilesInv, NEW e \in Known, UnlinksDevice(e)
  PROVE  SetCredentials(e, FALSE)
BY UnlinkKeeps DEF FilesInv, FilesType, UnlinksDevice, LoggedOut, Unlink, SetCredentials

LEMMA LifeOrSocketSets ==
  ASSUME FilesInv, NEW e \in Known, ChangesLife(e) \/ ChangesSocket(e)
  PROVE  /\ OneEngine(e) /\ UNCHANGED <<sessions, files>>
         /\ engines'[e].paired = engines[e].paired
         /\ ChangesLife(e) => engines'[e].open = engines[e].open
BY SetLifeKeeps, SetSocketKeeps DEF FilesInv, FilesType, ChangesLife, ChangesSocket

LEMMA TouchStep ==
  ASSUME FilesInv, NEW e \in Known, TouchesEngine(e)
  PROVE  FilesInv' /\ SameMap
<1>1. CASE ChangesLife(e) \/ ChangesSocket(e)
  <2>1. /\ OneEngine(e) /\ UNCHANGED <<sessions, files>>
        /\ engines'[e].paired = engines[e].paired
    BY <1>1, LifeOrSocketSets
  <2> QED
    BY <2>1, QuietStep, SameEnginesMap DEF OneEngine, files
<1>2. CASE LinksDevice(e) \/ UnlinksDevice(e)
  <2>1. PICK p \in BOOLEAN : SetCredentials(e, p)
    BY <1>2, LinkSets, UnlinkSets
  <2> QED
    BY <2>1, CredentialsStep, SameEnginesMap DEF SetCredentials, OneEngine
<1>3. CASE ClearsFile(e)
  BY <1>3, ClearStep, SameEnginesMap DEF ClearsFile
<1>4. CASE RenewsDevice(e)
  BY <1>4, RenewStep, RenewMap
<1> QED
  BY <1>1, <1>2, <1>3, <1>4 DEF TouchesEngine

LEMMA FileStepInv ==
  ASSUME FilesInv, FileStep
  PROVE  FilesInv' /\ EnginesKept
<1>1. CASE \E e \in Known : TouchesEngine(e)
  BY <1>1, TouchStep, SameMapKept
<1>2. CASE MakesEngine
  <2>1. PICK n \in Names :
            /\ n \notin Mapped /\ Cardinality(Mapped) < MaxSessions
            /\ Opened(n)
            /\ \/ UNCHANGED sessions
               \/ sessions' = [sessions EXCEPT ![n] = Len(engines) + 1]
    BY <1>2 DEF MakesEngine
  <2>2. Len(engines) \in Nat
    BY LenProperties DEF FilesInv, FilesType
  <2>3. Len(engines') = Len(engines) + 1 /\ \A f \in Known : engines'[f] = engines[f]
    BY <2>1, OpenedFacts DEF FilesInv
  <2> QED
    BY <2>1, <2>2, <2>3, OpenedStep DEF EnginesKept
<1>3. CASE FailsToMake
  BY <1>3, CreateFailsStep, SameMapKept DEF FailsToMake
<1>4. CASE DeletesEntry
  <2>1. PICK n \in Names : sessions' = [sessions EXCEPT ![n] = 0] /\ RemoveDir(n)
    BY <1>4 DEF DeletesEntry, Mapped
  <2> QED
    BY <1>4, <2>1, UnmapStep, SameMapKept DEF DeletesEntry
<1>5. CASE DropsEntries
  BY <1>5, DropMapStep, SameMapKept DEF DropsEntries, store
<1>6. CASE TouchesNothing
  BY <1>6, QuietStep, SameMapKept DEF TouchesNothing, store
<1> QED
  BY <1>1, <1>2, <1>3, <1>4, <1>5, <1>6 DEF FileStep

-----------------------------------------------------------------------------
(* The callers: each is at a label of its operation, the engine that one   *)
(* works on has the name that it was called for, and who has the lock has  *)
(* taken the engine that the map has for the name.                         *)
CallersType ==
    /\ pc \in [Callers -> Labels]
    /\ mu \in {Free} \cup {c \in Callers : pc[c] \in Locked}
    /\ op \in [Callers -> Operations]
    /\ name \in [Callers -> Names]
    /\ target \in [Callers -> Ids]
    /\ todo \in [Callers -> SUBSET Known]

ProcessType ==
    /\ calls \in 0 .. MaxCalls
    /\ restarts \in 0 .. MaxRestarts
    /\ serving \in BOOLEAN /\ destroyed \in BOOLEAN

Using == InStart \cup InPair \cup Locked \cup {"clear", "renew"}

Fits(l, o) ==
    /\ l = "reset" => o \in Pairing
    /\ l = "remove" => o \in Removing
    /\ l = "clear" => o = "Logout"
    /\ l \in {"snapshot", "sweep"} => o \in Sweeping

TargetFits(c) ==
    pc[c] \in Using =>
        /\ target[c] \in Known
        /\ op[c] \notin Sweeping => engines[target[c]].name = name[c]

LockFits(c) ==
    /\ pc[c] \in {"unlink", "delete"} => mu = c
    /\ mu = c => /\ op[c] \in Removing \cup Pairing
                 /\ name[c] \in Mapped /\ target[c] = sessions[name[c]]

CallersInv ==
    /\ CallersType
    /\ \A c \in Callers : TargetFits(c) /\ LockFits(c) /\ Fits(pc[c], op[c])

LEMMA CallersLock == CallersInv => DeletesWhatItStopped
  BY DEF CallersInv, LockFits, DeletesWhatItStopped

(* Caller c moves to the label l and nobody else does.                     *)
Moves(c, l) ==
    /\ l \in Labels /\ Go(c, l)
    /\ UNCHANGED <<op, name>>
    /\ Fits(l, op[c])
    /\ UNCHANGED todo \/ \E E \in SUBSET Known' : todo' = [todo EXCEPT ![c] = E]
    /\ UNCHANGED target \/ \E e \in Ids' : target' = [target EXCEPT ![c] = e]
    /\ l \in Using =>
        /\ target'[c] \in Known'
        /\ op[c] \notin Sweeping => engines'[target'[c]].name = name[c]

KeepsLock(c, l) ==
    /\ UNCHANGED <<mu, sessions>>
    /\ mu = c => l \in Locked /\ UNCHANGED target
    /\ l \in {"unlink", "delete"} => mu = c

TakesLock(c, l) ==
    /\ mu = Free /\ mu' = c /\ UNCHANGED sessions
    /\ l \in Locked
    /\ op[c] \in Removing \cup Pairing
    /\ name[c] \in Mapped /\ target'[c] = sessions[name[c]]

LeavesLock(c, l) == mu \in {Free, c} /\ mu' = Free /\ l \notin {"unlink", "delete"}

LEMMA CallerMoves ==
  ASSUME CallersInv, EnginesKept, NEW c \in Callers, NEW l, Moves(c, l),
         KeepsLock(c, l) \/ TakesLock(c, l) \/ LeavesLock(c, l)
  PROVE  CallersInv'
<1>1. /\ pc' \in [Callers -> Labels]
      /\ pc'[c] = l /\ \A d \in Callers \ {c} : pc'[d] = pc[d]
      /\ UNCHANGED <<op, name>>
  BY DEF CallersInv, CallersType, Go, Moves
<1>2. Ids \subseteq Ids' /\ Known \subseteq Known' /\ c # Free
  BY FreeAssumption DEF EnginesKept, Ids, Known
<1>3. /\ target' \in [Callers -> Ids']
      /\ \A d \in Callers \ {c} : target'[d] = target[d]
  BY <1>2 DEF CallersInv, CallersType, Moves
<1>4. todo' \in [Callers -> SUBSET Known']
  BY <1>2 DEF CallersInv, CallersType, Moves
<1>5. mu' \in {Free} \cup {d \in Callers : pc'[d] \in Locked}
  BY <1>1 DEF CallersInv, CallersType, KeepsLock, TakesLock, LeavesLock
<1>6. CallersType'
  BY <1>1, <1>3, <1>4, <1>5 DEF CallersInv, CallersType
<1>7. ASSUME NEW d \in Callers \ {c}
      PROVE  TargetFits(d)'
  <2>1. pc'[d] = pc[d] /\ target'[d] = target[d] /\ TargetFits(d)
    BY <1>1, <1>3 DEF CallersInv
  <2> QED
    BY <1>1, <1>2, <2>1 DEF TargetFits, EnginesKept
<1>8. TargetFits(c)'
  BY <1>1 DEF TargetFits, Moves
<1>9. ASSUME NEW d \in Callers \ {c}
      PROVE  LockFits(d)'
  <2>1. pc'[d] = pc[d] /\ target'[d] = target[d] /\ LockFits(d) /\ d # Free
    BY <1>1, <1>3, FreeAssumption DEF CallersInv
  <2>2. mu' = d \/ mu = d => mu' = mu /\ Mapped' = Mapped /\ UNCHANGED sessions
    BY <1>2, <2>1 DEF KeepsLock, TakesLock, LeavesLock, Mapped
  <2> QED
    BY <1>1, <2>1, <2>2 DEF LockFits
<1>10. LockFits(c)'
  <2>1. CASE KeepsLock(c, l)
    <3>1. mu = c => LockFits(c) /\ UNCHANGED target /\ Mapped' = Mapped
      BY <2>1 DEF CallersInv, KeepsLock, Mapped
    <3> QED
      BY <1>1, <2>1, <3>1 DEF LockFits, KeepsLock
  <2>2. CASE TakesLock(c, l)
    BY <1>1, <2>2 DEF LockFits, TakesLock, Mapped
  <2>3. CASE LeavesLock(c, l)
    BY <1>1, <1>2, <2>3 DEF LockFits, LeavesLock
  <2> QED
    BY <2>1, <2>2, <2>3
<1>11. \A d \in Callers : Fits(pc[d], op[d])'
  BY <1>1 DEF CallersInv, Fits, Moves
<1> QED
  BY <1>6, <1>7, <1>8, <1>9, <1>10, <1>11 DEF CallersInv

(* Nobody moves.                                                           *)
LEMMA NobodyMoves ==
  ASSUME CallersInv, EnginesKept, UNCHANGED <<sessions, mu, pc, op, name, target, todo>>
  PROVE  CallersInv'
<1>1. Ids \subseteq Ids' /\ Known \subseteq Known' /\ Mapped' = Mapped
  BY DEF EnginesKept, Ids, Known, Mapped
<1>2. CallersType'
  BY <1>1 DEF CallersInv, CallersType
<1>3. \A d \in Callers : TargetFits(d)' /\ Fits(pc[d], op[d])'
  BY <1>1 DEF CallersInv, TargetFits, EnginesKept, Fits
<1>4. \A d \in Callers : LockFits(d)'
  BY <1>1 DEF CallersInv, LockFits
<1> QED
  BY <1>2, <1>3, <1>4 DEF CallersInv

-----------------------------------------------------------------------------
(* The steps of an engine's methods: first where the caller goes.          *)
LEMMA AfterRestFits ==
  ASSUME CallersInv, NEW c \in Callers
  PROVE  /\ AfterRest(c) \in {"delete", "sweep", "clear", "idle"}
         /\ Fits(AfterRest(c), op[c])
         /\ AfterRest(c) = "delete" <=> mu = c
<1>1. CASE mu = c
  <2>1. op[c] \notin Sweeping /\ op[c] # "Logout"
    BY <1>1 DEF CallersInv, LockFits, Removing, Pairing, Sweeping
  <2> QED
    BY <1>1, <2>1 DEF AfterRest, Fits
<1>2. CASE mu # c /\ op[c] \in Sweeping
  BY <1>2 DEF AfterRest, Fits
<1>3. CASE mu # c /\ op[c] \notin Sweeping /\ op[c] = "Logout"
  BY <1>3 DEF AfterRest, Fits
<1>4. CASE mu # c /\ op[c] \notin Sweeping /\ op[c] # "Logout"
  BY <1>4 DEF AfterRest, Fits
<1> QED
  BY <1>1, <1>2, <1>3, <1>4

LEMMA EngineStepMoves ==
  ASSUME CallersInv, NEW c \in Callers, EngineStep(c)
  PROVE  /\ UNCHANGED <<sessions, mu, locals, process>>
         /\ pc[c] \in Using
         /\ \E l \in Labels : /\ Go(c, l) /\ Fits(l, op[c])
                              /\ l \in {"unlink", "delete"} => mu = c
                              /\ mu = c => l \in Locked
<1>1. mu = c => pc[c] \in Locked
  BY FreeAssumption DEF CallersInv, CallersType
<1>2. UNCHANGED <<sessions, mu, locals, process>>
  BY DEF EngineStep, StartSwap, CheckPaired, Connect, StoreRunning, StoreStopped, PairLoad,
     PairCheck, StorePairing, Dial, StopLoad, StoreStopping, Disconnect, ClearDevices,
     RenewDevice, OnlyEngine, OnlyCaller
<1>3. CASE StartSwap(c) \/ CheckPaired(c) \/ Connect(c) \/ PairLoad(c) \/ PairCheck(c)
           \/ StorePairing(c) \/ Dial(c) \/ ClearDevices(c) \/ RenewDevice(c) \/ StoreRunning(c)
  <2>1. pc[c] \in Using \ Locked
    BY <1>3 DEF StartSwap, CheckPaired, Connect, PairLoad, PairCheck, StorePairing, Dial,
       ClearDevices, RenewDevice, StoreRunning, At, Using, Locked, InStop, InStart, InPair
  <2>2. ClearDevices(c) => op[c] = "Logout"
    BY DEF ClearDevices, At, CallersInv, Fits
  <2>3. \E l \in {"idle", "connect", "reach", "rest", "ran", "check", "set", "dial", "renew"} :
            Go(c, l)
    BY <1>3 DEF StartSwap, CheckPaired, Connect, PairLoad, PairCheck, StorePairing, Dial,
       ClearDevices, RenewDevice, StoreRunning, Return
  <2>4. \A l \in {"idle", "connect", "reach", "rest", "ran", "check", "set", "dial", "renew"} :
            l \in Labels /\ Fits(l, op[c]) /\ l \notin {"unlink", "delete"}
    BY DEF Labels, Fits, Locked, InStop, InStart, InPair
  <2> QED
    BY <1>1, <1>2, <2>1, <2>3, <2>4
<1>4. CASE StopLoad(c) \/ StoreStopping(c) \/ Disconnect(c) \/ StoreStopped(c)
  <2>1. pc[c] \in Using
    BY <1>4 DEF StopLoad, StoreStopping, Disconnect, StoreStopped, At, Using, Locked, InStop
  <2>2. \E l \in {"stopping", "hangup", "rest", AfterRest(c)} : Go(c, l)
    BY <1>4 DEF StopLoad, StoreStopping, Disconnect, StoreStopped
  <2>3. \A l \in {"stopping", "hangup", "rest"} :
            l \in Labels /\ Fits(l, op[c]) /\ l \notin {"unlink", "delete"} /\ l \in Locked
    BY DEF Labels, Fits, Locked, InStop
  <2>4. /\ AfterRest(c) \in Labels /\ Fits(AfterRest(c), op[c])
        /\ AfterRest(c) \in {"unlink", "delete"} <=> mu = c
        /\ mu = c => AfterRest(c) \in Locked
    BY AfterRestFits DEF Labels, Locked
  <2> QED
    BY <1>2, <2>1, <2>2, <2>3, <2>4
<1> QED
  BY <1>3, <1>4 DEF EngineStep

LEMMA EngineStepFiles ==
  ASSUME FilesInv, CallersInv, NEW c \in Callers, EngineStep(c)
  PROVE  TouchesEngine(target[c]) \/ TouchesNothing
<1> DEFINE e == target[c]
<1>1. e \in Known /\ engines \in Seq(Engines) /\ engines[e].open \in BOOLEAN
  BY EngineStepMoves, KnownIsEngine DEF CallersInv, TargetFits, FilesInv, FilesType
<1>2. UNCHANGED sessions
  BY EngineStepMoves
<1>3. CASE CheckPaired(c) \/ PairLoad(c) \/ PairCheck(c) \/ StopLoad(c)
  BY <1>3 DEF CheckPaired, PairLoad, PairCheck, StopLoad, OnlyCaller, TouchesNothing
<1>4. CASE StartSwap(c) \/ StoreRunning(c) \/ StoreStopped(c) \/ StorePairing(c) \/ StoreStopping(c)
  <2>1. \/ UNCHANGED engines
        \/ \E l \in {"starting", "running", "stopped", "pairing", "stopping"} : SetLife(e, l)
    BY <1>4 DEF StartSwap, StoreRunning, StoreStopped, StorePairing, StoreStopping
  <2>2. UNCHANGED files
    BY <1>4 DEF StartSwap, StoreRunning, StoreStopped, StorePairing, StoreStopping, OnlyEngine
  <2> QED
    BY <1>2, <2>1, <2>2 DEF TouchesEngine, ChangesLife, TouchesNothing, store, Lives
<1>5. CASE Connect(c) \/ Dial(c) \/ Disconnect(c)
  <2>1. UNCHANGED engines \/ \E o \in {engines[e].open, TRUE, FALSE} : SetSocket(e, o)
    BY <1>5 DEF Connect, Dial, Disconnect, Engine
  <2>2. UNCHANGED files
    BY <1>5 DEF Connect, Dial, Disconnect, OnlyEngine
  <2> QED
    BY <1>1, <1>2, <2>1, <2>2 DEF TouchesEngine, ChangesSocket, TouchesNothing, store
<1>6. CASE ClearDevices(c)
  BY <1>6 DEF ClearDevices, TouchesEngine, ClearsFile, TouchesNothing, store, files, Engine
<1>7. CASE RenewDevice(c)
  BY <1>7 DEF RenewDevice, TouchesEngine, RenewsDevice, TouchesNothing, store, files
<1> QED
  BY <1>3, <1>4, <1>5, <1>6, <1>7 DEF EngineStep

LEMMA EngineStepInv ==
  ASSUME FilesInv, CallersInv, NEW c \in Callers, EngineStep(c)
  PROVE  FileStep /\ FilesInv' /\ CallersInv'
<1>1. target[c] \in Known /\ TargetFits(c) /\ pc[c] \in Using
  BY EngineStepMoves DEF CallersInv, TargetFits
<1>2. FileStep
  BY <1>1, EngineStepFiles DEF FileStep
<1>3. FilesInv' /\ EnginesKept
  BY <1>2, FileStepInv
<1>4. PICK l \in Labels : /\ Go(c, l) /\ Fits(l, op[c])
                          /\ l \in {"unlink", "delete"} => mu = c
                          /\ mu = c => l \in Locked
  BY EngineStepMoves
<1>5. UNCHANGED <<sessions, mu, name, target, todo, op>>
  BY EngineStepMoves DEF locals
<1>6. target'[c] \in Known' /\ (op[c] \notin Sweeping => engines'[target'[c]].name = name[c])
  BY <1>1, <1>3, <1>5 DEF TargetFits, EnginesKept, Known
<1>7. Moves(c, l) /\ KeepsLock(c, l)
  BY <1>4, <1>5, <1>6 DEF Moves, KeepsLock
<1> QED
  BY <1>2, <1>3, <1>7, CallerMoves

-----------------------------------------------------------------------------
(* The other steps of a caller.  Those that leave the files alone:         *)
LEMMA LocalInv ==
  ASSUME FilesInv, TouchesNothing
  PROVE  FileStep /\ FilesInv' /\ EnginesKept /\ Known' = Known /\ Ids' = Ids
  BY FileStepInv DEF FileStep, TouchesNothing, store, Known, Ids

LEMMA TakeMoves ==
  ASSUME FilesInv, CallersInv, NEW c \in Callers, NEW l \in Locked, Take(c, l),
         sessions[name[c]] # 0, op[c] \in Removing \cup Pairing,
         UNCHANGED <<sessions, store, name, op, todo>>
  PROVE  FileStep /\ FilesInv' /\ CallersInv'
<1> DEFINE e == sessions[name[c]]
<1>1. FileStep /\ FilesInv' /\ EnginesKept /\ Known' = Known /\ Ids' = Ids
  BY LocalInv DEF TouchesNothing
<1>2. name[c] \in Mapped /\ e \in Known /\ e \in Ids' /\ engines[e].name = name[c]
  <2>1. name[c] \in Mapped
    BY DEF CallersInv, CallersType, Mapped
  <2> QED
    BY <1>1, <2>1, MappedIsKnown DEF FilesInv, FilesType, MappedOwnsDirectory
<1>3. target' = [target EXCEPT ![c] = e] /\ target'[c] = e
  BY DEF Take, CallersInv, CallersType
<1>4. l \in Labels /\ Fits(l, op[c])
  BY DEF Labels, Locked, InStop, Fits
<1>5. Moves(c, l)
  BY <1>1, <1>2, <1>3, <1>4 DEF Moves, Take, store
<1>6. TakesLock(c, l)
  BY <1>2, <1>3 DEF TakesLock, Take, Lock, Unlocked
<1> QED
  BY <1>1, <1>5, <1>6, CallerMoves

(* A caller that moves to a label where it has no engine and no lock.      *)
NoEngine == {"idle", "create", "sweep", "last"}

LEMMA PlainMoves ==
  ASSUME CallersInv, EnginesKept, NEW c \in Callers, NEW l \in NoEngine, Go(c, l), mu # c,
         UNCHANGED <<sessions, mu, name, op, target>>,
         UNCHANGED todo \/ \E E \in SUBSET Known' : todo' = [todo EXCEPT ![c] = E],
         l = "sweep" => op[c] \in Sweeping
  PROVE  CallersInv'
<1>1. l \in Labels /\ l \notin Using /\ l \notin Locked /\ Fits(l, op[c])
  BY DEF NoEngine, Labels, Using, Locked, InStop, InStart, InPair, Fits
<1>2. Moves(c, l)
  BY <1>1 DEF Moves
<1>3. KeepsLock(c, l)
  BY <1>1 DEF KeepsLock, Locked
<1> QED
  BY <1>2, <1>3, CallerMoves

LEMMA NoLock ==
  ASSUME CallersInv, NEW c \in Callers, pc[c] \notin Locked
  PROVE  mu # c
  BY FreeAssumption DEF CallersInv, CallersType

LEMMA ResetStep ==
  ASSUME FilesInv, CallersInv, NEW c \in Callers, Reset(c) \/ Remove(c)
  PROVE  FileStep /\ FilesInv' /\ CallersInv'
<1>1. /\ UNCHANGED <<sessions, store, name, op, todo>>
      /\ op[c] \in Removing \cup Pairing /\ mu # c
  BY NoLock DEF Reset, Remove, At, CallersInv, Fits, Locked, InStop
<1>2. CASE \E l \in {"stop", "unlink"} : Take(c, l) /\ sessions[name[c]] # 0
  BY <1>1, <1>2, TakeMoves DEF Locked, InStop
<1>3. CASE (Go(c, "create") \/ Go(c, "idle")) /\ UNCHANGED <<mu, target>>
  <2>1. FileStep /\ FilesInv' /\ EnginesKept
    BY <1>1, LocalInv DEF TouchesNothing
  <2> QED
    BY <1>1, <1>3, <2>1, PlainMoves DEF NoEngine
<1> QED
  BY <1>2, <1>3 DEF Reset, Remove, Return

LEMMA GetOrCreateStep ==
  ASSUME FilesInv, CallersInv, NEW c \in Callers, getOrCreateSession(c)
  PROVE  FileStep /\ FilesInv' /\ CallersInv'
<1> DEFINE n == name[c]
           next == IF op[c] = "Start" THEN "start" ELSE "pair"
<1>0. /\ pc[c] = "create" /\ UNCHANGED <<mu, cleared, name, op, todo>> /\ n \in Names
      /\ engines \in Seq(Engines) /\ FilesType /\ mu = Free /\ c # Free
  BY FreeAssumption DEF getOrCreateSession, At, CallersInv, CallersType, FilesInv, FilesType,
     Unlocked
<1>1. /\ next \in Labels /\ Fits(next, op[c]) /\ next \notin {"unlink", "delete"}
      /\ "idle" \in Labels /\ "idle" \notin Using /\ Fits("idle", op[c])
  BY DEF Labels, Fits, Using, Locked, InStop, InStart, InPair
<1> HIDE DEF next
<1>2. CASE UNCHANGED <<store, sessions, target>> /\ Return(c)
  <2>1. FileStep /\ FilesInv' /\ EnginesKept
    BY <1>2, LocalInv DEF TouchesNothing
  <2> QED
    BY <1>0, <1>2, <2>1, PlainMoves DEF Return, NoEngine
<1>3. CASE Reuse(c)
  <2>1. TouchesNothing
    BY <1>0, <1>3 DEF Reuse, TouchesNothing, store, files
  <2>2. FileStep /\ FilesInv' /\ EnginesKept /\ Known' = Known /\ Ids' = Ids
    BY <2>1, LocalInv
  <2>3. sessions[n] \in Known /\ engines[sessions[n]].name = n
    BY <1>0, <1>3, MappedIsKnown DEF Reuse, Mapped, FilesInv, MappedOwnsDirectory
  <2>4. Go(c, next) /\ target' = [target EXCEPT ![c] = sessions[n]] /\ UNCHANGED engines
    BY <1>3 DEF Reuse, next
  <2>5. sessions[n] \in Ids' /\ target'[c] \in Known' /\ engines'[target'[c]].name = name[c]
    BY <2>2, <2>3, <2>4 DEF CallersInv, CallersType, Known, Ids
  <2>6. Moves(c, next) /\ LeavesLock(c, next)
    BY <1>0, <1>1, <2>4, <2>5 DEF Moves, LeavesLock
  <2> QED
    BY <2>2, <2>6, CallerMoves
<1>4. CASE CreateFails(c)
  <2>1. FailsToMake
    BY <1>0, <1>4 DEF CreateFails, MayCreate, Mapped, FailsToMake
  <2>2. FileStep /\ FilesInv' /\ EnginesKept
    BY <2>1, FileStepInv DEF FileStep
  <2> QED
    BY <1>0, <1>4, <2>2, PlainMoves DEF CreateFails, Return, NoEngine
<1>5. CASE AddEngine(c)
  <2> DEFINE e == Len(engines) + 1
  <2>1. n \notin Mapped /\ Cardinality(Mapped) < MaxSessions /\ Opened(n)
    BY <1>0, <1>5 DEF AddEngine, MayCreate, Mapped, Opened
  <2>2. \/ UNCHANGED sessions /\ Return(c) /\ UNCHANGED target
        \/ /\ sessions' = [sessions EXCEPT ![n] = e]
           /\ target' = [target EXCEPT ![c] = e]
           /\ Go(c, next)
    BY <1>5 DEF AddEngine, next
  <2>3. FileStep /\ FilesInv' /\ EnginesKept
    <3>1. MakesEngine
      BY <1>0, <2>1, <2>2 DEF MakesEngine
    <3> QED
      BY <3>1, FileStepInv DEF FileStep
  <2>4. e \in Ids' /\ e \in Known' /\ engines'[e].name = n
    <3>1. /\ Len(engines) \in Nat /\ Len(engines') = e
          /\ engines'[e] = NewEngine(n, e)
      BY <1>0, <2>1, LenProperties, OpenedFacts
    <3>2. engines'[e].name = n
      BY <3>1 DEF NewEngine
    <3> QED
      BY <3>1, <3>2 DEF Ids, Known
  <2>5. CASE UNCHANGED sessions /\ Return(c) /\ UNCHANGED target
    BY <1>0, <2>3, <2>5, PlainMoves DEF Return, NoEngine
  <2>6. CASE target' = [target EXCEPT ![c] = e] /\ Go(c, next)
    <3>1. target'[c] = e
      BY <2>6 DEF CallersInv, CallersType
    <3>2. Moves(c, next) /\ LeavesLock(c, next)
      BY <1>0, <1>1, <2>4, <2>6, <3>1 DEF Moves, LeavesLock
    <3> QED
      BY <2>3, <3>2, CallerMoves
  <2> QED
    BY <2>2, <2>5, <2>6
<1> QED
  BY <1>0, <1>2, <1>3, <1>4, <1>5 DEF getOrCreateSession, Refuse, store, files

LEMMA LogoutRequestStep ==
  ASSUME FilesInv, CallersInv, NEW c \in Callers, LogoutRequest(c)
  PROVE  FileStep /\ FilesInv' /\ CallersInv'
<1> DEFINE e == target[c]
<1>1. /\ pc[c] = "unlink" /\ Go(c, "stop") /\ UNCHANGED <<sessions, mu, owner, name, op, target, todo>>
      /\ e \in Known /\ TargetFits(c) /\ pc[c] \in Using /\ mu = c
  BY DEF LogoutRequest, At, locals, CallersInv, TargetFits, LockFits, Using, Locked
<1>2. UnlinksDevice(e) \/ TouchesNothing
  BY <1>1 DEF LogoutRequest, Engine, UnlinksDevice, LoggedOut, TouchesNothing, store, files
<1>3. FileStep
  BY <1>1, <1>2 DEF FileStep, TouchesEngine
<1>4. FilesInv' /\ EnginesKept
  BY <1>3, FileStepInv
<1>5. "stop" \in Labels /\ "stop" \in Locked /\ Fits("stop", op[c])
  BY DEF Labels, Locked, InStop, Fits
<1>6. Moves(c, "stop") /\ KeepsLock(c, "stop")
  BY <1>1, <1>4, <1>5 DEF Moves, KeepsLock, TargetFits, EnginesKept, Known
<1> QED
  BY <1>3, <1>4, <1>6, CallerMoves

LEMMA DeleteStep ==
  ASSUME FilesInv, CallersInv, NEW c \in Callers, Delete(c)
  PROVE  FileStep /\ FilesInv' /\ CallersInv'
<1>1. /\ pc[c] = "delete" /\ mu = c /\ mu' = Free /\ name[c] \in Mapped
      /\ UNCHANGED <<engines, cleared, name, op, target, todo>>
      /\ Go(c, "create") \/ Go(c, "idle")
  BY DEF Delete, At, locals, CallersInv, LockFits
<1>2. FileStep
  BY <1>1 DEF Delete, Unmap, FileStep, DeletesEntry
<1>3. FilesInv' /\ EnginesKept
  BY <1>2, FileStepInv
<1>4. \A l \in {"create", "idle"} : l \in Labels /\ l \notin Using /\ Fits(l, op[c])
  BY DEF Labels, Using, Locked, InStop, InStart, InPair, Fits
<1>5. \A l \in {"create", "idle"} : Go(c, l) => Moves(c, l) /\ LeavesLock(c, l)
  BY <1>1, <1>4 DEF Moves, LeavesLock
<1> QED
  BY <1>1, <1>2, <1>3, <1>5, CallerMoves

LEMMA LookupStep ==
  ASSUME FilesInv, CallersInv, NEW c \in Callers, getSession(c)
  PROVE  FileStep /\ FilesInv' /\ CallersInv'
<1> DEFINE e == sessions[name[c]]
<1>1. UNCHANGED <<sessions, mu, store, name, op, todo>> /\ mu # c
  BY NoLock DEF getSession, At, Locked, InStop
<1>2. FileStep /\ FilesInv' /\ EnginesKept /\ Known' = Known /\ Ids' = Ids
  BY <1>1, LocalInv DEF TouchesNothing
<1>3. CASE Return(c) /\ UNCHANGED target
  BY <1>1, <1>2, <1>3, PlainMoves DEF Return, NoEngine
<1>4. CASE e # 0 /\ Go(c, "stop") /\ target' = [target EXCEPT ![c] = e]
  <2>1. name[c] \in Mapped
    BY <1>4 DEF CallersInv, CallersType, Mapped
  <2>2. e \in Known /\ e \in Ids' /\ engines[e].name = name[c] /\ target'[c] = e
    BY <1>2, <1>4, <2>1, MappedIsKnown
       DEF FilesInv, FilesType, MappedOwnsDirectory, CallersInv, CallersType
  <2>3. "stop" \in Labels /\ Fits("stop", op[c])
    BY DEF Labels, Locked, InStop, Fits
  <2>4. target'[c] \in Known' /\ engines'[target'[c]].name = name[c] /\ UNCHANGED <<op, name, todo>>
    BY <1>1, <1>2, <2>2 DEF store
  <2>5. Moves(c, "stop")
    BY <1>4, <2>2, <2>3, <2>4 DEF Moves
  <2>6. KeepsLock(c, "stop")
    BY <1>1 DEF KeepsLock
  <2> QED
    BY <1>2, <2>5, <2>6, CallerMoves
<1> QED
  BY <1>3, <1>4 DEF getSession

LEMMA SweepStep ==
  ASSUME FilesInv, CallersInv, NEW c \in Callers, Snapshot(c) \/ StopNext(c) \/ StopAllDone(c)
  PROVE  FileStep /\ FilesInv' /\ CallersInv'
<1>1. /\ UNCHANGED <<sessions, mu, store, name, op>> /\ mu # c
      /\ pc[c] \in {"snapshot", "sweep"} /\ op[c] \in Sweeping
  BY NoLock DEF Snapshot, StopNext, StopAllDone, OnlyCaller, locals, At, Locked, InStop,
     CallersInv, Fits
<1>2. FileStep /\ FilesInv' /\ EnginesKept /\ Known' = Known /\ Ids' = Ids
  BY <1>1, LocalInv DEF TouchesNothing
<1>3. CASE Snapshot(c)
  <2>1. {sessions[n] : n \in Mapped} \in SUBSET Known'
    BY <1>2, MappedIsKnown DEF FilesInv
  <2> QED
    BY <1>1, <1>2, <1>3, <2>1, PlainMoves DEF Snapshot, NoEngine
<1>4. CASE StopNext(c)
  <2>1. PICK e \in todo[c] : /\ todo' = [todo EXCEPT ![c] = @ \ {e}]
                             /\ target' = [target EXCEPT ![c] = e]
    BY <1>4 DEF StopNext
  <2>2. e \in Known /\ todo[c] \ {e} \in SUBSET Known' /\ e \in Ids' /\ target'[c] = e
    BY <1>2, <2>1 DEF CallersInv, CallersType, Known, Ids
  <2>3. "stop" \in Labels /\ Fits("stop", op[c])
    BY DEF Labels, Locked, InStop, Fits
  <2>4. Go(c, "stop") /\ \E E \in SUBSET Known' : todo' = [todo EXCEPT ![c] = E]
    BY <1>4, <2>1, <2>2 DEF StopNext
  <2>5. target'[c] \in Known' /\ op[c] \in Sweeping /\ UNCHANGED <<op, name>>
    BY <1>1, <1>2, <2>2
  <2>6. Moves(c, "stop")
    BY <2>1, <2>2, <2>3, <2>4, <2>5 DEF Moves
  <2>7. KeepsLock(c, "stop")
    BY <1>1 DEF KeepsLock
  <2> QED
    BY <1>2, <2>6, <2>7, CallerMoves
<1>5. CASE StopAllDone(c)
  BY <1>1, <1>2, <1>5, PlainMoves DEF StopAllDone, Return, NoEngine, OnlyCaller, locals
<1> QED
  BY <1>1, <1>3, <1>4, <1>5

LEMMA LastStep ==
  ASSUME FilesInv, CallersInv, NEW c \in Callers, Last(c)
  PROVE  FileStep /\ FilesInv' /\ CallersInv'
<1>1. UNCHANGED <<mu, store, name, op, target, todo>> /\ Go(c, "idle") /\ mu # c
  BY NoLock DEF Last, Return, locals, At, Locked, InStop
<1>2. CASE UNCHANGED sessions
  <2>1. FileStep /\ FilesInv' /\ EnginesKept
    BY <1>1, <1>2, LocalInv DEF TouchesNothing
  <2> QED
    BY <1>1, <1>2, <2>1, PlainMoves DEF NoEngine
<1>3. CASE mu = Free /\ sessions' = [n \in Names |-> 0]
  <2>1. FileStep
    BY <1>1, <1>3 DEF FileStep, DropsEntries
  <2>2. FilesInv' /\ EnginesKept
    BY <2>1, FileStepInv
  <2>3. "idle" \in Labels /\ "idle" \notin Using /\ Fits("idle", op[c])
    BY DEF Labels, Using, Locked, InStop, InStart, InPair, Fits
  <2>4. Moves(c, "idle") /\ LeavesLock(c, "idle")
    BY <1>1, <1>3, <2>3 DEF Moves, LeavesLock
  <2> QED
    BY <2>1, <2>2, <2>4, CallerMoves
<1> QED
  BY <1>2, <1>3 DEF Last, Unlocked

LEMMA CallerStepInv ==
  ASSUME FilesInv, CallersInv, NEW c \in Callers, CallerStep(c)
  PROVE  FileStep /\ FilesInv' /\ CallersInv'
BY EngineStepInv, GetOrCreateStep, ResetStep, LogoutRequestStep, DeleteStep, LookupStep,
   SweepStep, LastStep DEF CallerStep

LEMMA BeginStep ==
  ASSUME FilesInv, CallersInv, NEW c \in Callers, Begin(c)
  PROVE  FileStep /\ FilesInv' /\ CallersInv'
<1>1. PICK o \in Ops, n \in Names :
        /\ op' = [op EXCEPT ![c] = o]
        /\ name' = [name EXCEPT ![c] = n]
        /\ Go(c, CASE o = "Start" -> "create"
                   [] o \in Pairing -> "reset"
                   [] o \in Removing -> "remove"
                   [] o \in Sweeping -> "snapshot"
                   [] OTHER -> "lookup")
  BY DEF Begin
<1>2. o \in Operations
  BY OpsAssumption
<1>3. PICK l \in {"create", "reset", "remove", "snapshot", "lookup"} : Go(c, l) /\ Fits(l, o)
  BY <1>1, <1>2 DEF Operations, Pairing, Removing, Sweeping, Fits
<1>4. l \in Labels /\ l \notin Locked /\ l \notin Using /\ l \notin {"unlink", "delete"}
  BY DEF Labels, Locked, Using, InStop, InStart, InPair
<1>5. UNCHANGED <<sessions, mu, store, target, todo>> /\ mu # c
  BY NoLock DEF Begin, Idle, Locked, InStop
<1>6. FileStep /\ FilesInv' /\ Known' = Known /\ Ids' = Ids /\ Mapped' = Mapped
  BY <1>5, LocalInv DEF TouchesNothing, Mapped
<1>7. CallersType'
  BY <1>1, <1>2, <1>3, <1>4, <1>5, <1>6 DEF CallersInv, CallersType, Go
<1>8. ASSUME NEW d \in Callers
      PROVE  (TargetFits(d) /\ LockFits(d) /\ Fits(pc[d], op[d]))'
  <2>1. CASE d = c
    <3>1. pc'[c] = l /\ op'[c] = o /\ mu' # c
      BY <1>1, <1>3, <1>5 DEF CallersInv, CallersType, Go
    <3> QED
      BY <1>3, <1>4, <2>1, <3>1 DEF TargetFits, LockFits
  <2>2. CASE d # c
    <3>1. pc'[d] = pc[d] /\ op'[d] = op[d] /\ name'[d] = name[d]
      BY <1>1, <1>3, <2>2 DEF CallersInv, CallersType, Go
    <3>2. TargetFits(d) /\ LockFits(d) /\ Fits(pc[d], op[d])
      BY DEF CallersInv
    <3> QED
      BY <1>5, <1>6, <3>1, <3>2 DEF TargetFits, LockFits, store
  <2> QED
    BY <2>1, <2>2
<1> QED
  BY <1>6, <1>7, <1>8 DEF CallersInv

LEMMA EventStep ==
  ASSUME FilesInv, CallersInv, EngineEvent
  PROVE  FileStep /\ FilesInv' /\ CallersInv'
<1>1. PICK e \in Known : PairSuccess(e) \/ LoggedOut(e) \/ Lost(e)
  BY DEF EngineEvent, Known
<1>2. UNCHANGED <<sessions, owner, mu, pc, name, op, target, todo>>
  BY DEF EngineEvent, locals
<1>3. FileStep
  BY <1>1, <1>2 DEF FileStep, TouchesEngine, LinksDevice, UnlinksDevice, Lost, ChangesSocket, files
<1> QED
  BY <1>2, <1>3, FileStepInv, NobodyMoves

LEMMA RestartStep ==
  ASSUME FilesInv, CallersInv, Restart
  PROVE  FilesInv' /\ CallersInv'
<1>1. discoverSessions /\ UNCHANGED dir /\ cleared' = {}
  BY DEF Restart
<1>2. FilesInv'
  BY <1>1, DiscoveryStep
<1>3. 0 \in Ids'
  BY <1>2, LenProperties DEF FilesInv, FilesType, Ids
<1>4. CallersType'
  BY <1>3 DEF Restart, CallersInv, CallersType, Labels
<1>5. \A d \in Callers : pc'[d] = "idle" /\ mu' # d
  BY FreeAssumption DEF Restart
<1>6. \A d \in Callers : (TargetFits(d) /\ LockFits(d) /\ Fits(pc[d], op[d]))'
  BY <1>5 DEF TargetFits, LockFits, Fits, Using, Locked, InStop, InStart, InPair
<1> QED
  BY <1>2, <1>4, <1>6 DEF CallersInv

-----------------------------------------------------------------------------
(* The inductive invariant of the session manager.                         *)
IInv == FilesInv /\ CallersInv /\ ProcessType

LEMMA InitIInv == Init => IInv
<1> SUFFICES ASSUME Init PROVE IInv
  OBVIOUS
<1>1. engines \in Seq(Engines) /\ Len(engines) = 0 /\ Mapped = {} /\ cleared = {}
  BY EmptySeq DEF Init, Mapped
<1>2. FilesType /\ ClearedPaired
  BY <1>1 DEF Init, FilesType, ClearedPaired, Ids, Dirs
<1>3. SessionsWithinLimit
  BY <1>1, FS_EmptySet, LimitAssumption DEF SessionsWithinLimit
<1>4. MappedOwnsDirectory /\ CredentialsAreDurable
  BY <1>1 DEF MappedOwnsDirectory, CredentialsAreDurable
<1>5. CallersInv
  <2>1. CallersType
    BY <1>1 DEF Init, CallersType, Labels, Ids, Operations
  <2>2. \A c \in Callers : pc[c] = "idle" /\ mu # c
    BY FreeAssumption DEF Init
  <2> QED
    BY <2>1, <2>2 DEF CallersInv, TargetFits, LockFits, Fits, Using, Locked, InStop, InStart, InPair
<1>6. ProcessType
  <2>1. calls \in 0 .. MaxCalls /\ restarts \in 0 .. MaxRestarts
    BY BoundsAssumption DEF Init
  <2>2. serving \in BOOLEAN /\ destroyed \in BOOLEAN
    BY DEF Init
  <2> QED
    BY <2>1, <2>2 DEF ProcessType
<1> QED
  BY <1>2, <1>3, <1>4, <1>5, <1>6 DEF IInv, FilesInv

LEMMA NextProcessType ==
  ASSUME ProcessType, CallersInv, Next
  PROVE  ProcessType'
<1>1. ASSUME NEW c \in Callers, Begin(c)
      PROVE  ProcessType'
  <2>1. calls' \in 0 .. MaxCalls /\ restarts' \in 0 .. MaxRestarts
    BY <1>1, BoundsAssumption DEF Begin, ProcessType
  <2>2. serving' \in BOOLEAN /\ destroyed' \in BOOLEAN
    BY <1>1, Zenon DEF Begin, ProcessType
  <2> QED
    BY <2>1, <2>2 DEF ProcessType
<1>2. ASSUME NEW c \in Callers, CallerStep(c)
      PROVE  ProcessType'
  <2>1. \/ UNCHANGED process
        \/ /\ UNCHANGED <<calls, restarts>>
           /\ serving' \in {serving, FALSE} /\ destroyed' \in {destroyed, TRUE}
    BY <1>2, EngineStepMoves DEF CallerStep, getOrCreateSession, Reset, Remove, LogoutRequest,
       Delete, getSession, Snapshot, StopNext, StopAllDone, OnlyCaller, Last
  <2> QED
    BY <2>1 DEF ProcessType, process
<1>3. CASE EngineEvent
  BY <1>3 DEF EngineEvent, ProcessType, process
<1>4. CASE Restart
  <2>1. calls' \in 0 .. MaxCalls /\ restarts' \in 0 .. MaxRestarts
    BY <1>4, BoundsAssumption DEF Restart, ProcessType
  <2>2. serving' \in BOOLEAN /\ destroyed' \in BOOLEAN
    BY <1>4, Zenon DEF Restart, ProcessType
  <2> QED
    BY <2>1, <2>2 DEF ProcessType
<1> QED
  BY <1>1, <1>2, <1>3, <1>4 DEF Next

LEMMA UnchangedFiles ==
  ASSUME UNCHANGED vars
  PROVE  /\ UNCHANGED <<sessions, store, mu, pc, name, target, todo, op>>
         /\ UNCHANGED <<calls, restarts, serving, destroyed>>
  BY DEF vars, store, files, locals, process

LEMMA NextFiles ==
  ASSUME IInv, [Next]_vars
  PROVE  FileStep \/ Restart
<1>1. FilesInv /\ CallersInv
  BY DEF IInv
<1>2. CASE UNCHANGED vars
  BY <1>2, UnchangedFiles DEF FileStep, TouchesNothing
<1> QED
  BY <1>1, <1>2, BeginStep, CallerStepInv, EventStep DEF Next

LEMMA NextIInv == IInv /\ [Next]_vars => IInv'
<1> SUFFICES ASSUME IInv, [Next]_vars PROVE IInv'
  OBVIOUS
<1>0. FilesInv /\ CallersInv /\ ProcessType
  BY DEF IInv
<1>1. CASE Next
  <2>1. ProcessType'
    BY <1>0, <1>1, NextProcessType
  <2>2. FilesInv' /\ CallersInv'
    BY <1>0, <1>1, BeginStep, CallerStepInv, EventStep, RestartStep DEF Next
  <2> QED
    BY <2>1, <2>2 DEF IInv
<1>2. CASE UNCHANGED vars
  <2>1. FilesInv' /\ CallersInv'
    BY <1>0, <1>2, UnchangedFiles, LocalInv, NobodyMoves DEF TouchesNothing
  <2> QED
    BY <1>0, <1>2, <2>1, UnchangedFiles DEF IInv, ProcessType
<1> QED
  BY <1>1, <1>2

LEMMA Inductive == Spec => []IInv
  BY InitIInv, NextIInv, PTL DEF Spec

-----------------------------------------------------------------------------
(* session.go: every variable of the session manager has its type, at any  *)
(* point of any interleaving of the operations of its API and of the       *)
(* methods of its engines.                                                 *)
THEOREM TypeCorrect == Spec => []TypeOK
<1>1. Known \subseteq Ids
  BY DEF Known, Ids
<1>2. IInv => TypeOK
  BY <1>1 DEF IInv, FilesInv, FilesType, CallersInv, CallersType, ProcessType, TypeOK
<1> QED
  BY <1>2, Inductive, PTL

(* session.go, getOrCreateSession and discoverSessions: no interleaving of *)
(* calls, crashes and restarts loads more sessions than the limit.         *)
THEOREM LimitHolds == Spec => []SessionsWithinLimit
<1>1. IInv => SessionsWithinLimit
  BY DEF IInv, FilesInv
<1> QED
  BY <1>1, Inductive, PTL

(* session.go, NewEngine under the lock and os.RemoveAll only after the    *)
(* name is unmapped: a mapped engine has the database open that is in its  *)
(* session's directory.                                                    *)
THEOREM MappedAlwaysOwns == Spec => []MappedOwnsDirectory
<1>1. IInv => MappedOwnsDirectory
  BY DEF IInv, FilesInv
<1> QED
  BY <1>1, Inductive, PTL

(* What the map says of a session's credentials is what a crash at this    *)
(* moment would leave on disk, also between the two steps of a logout      *)
(* (storage.go:190-217) and when the second one fails: then, and only      *)
(* then, the engine calls itself paired with nothing on disk.              *)
THEOREM CredentialsAlwaysDurable == Spec => []CredentialsAreDurable
<1>1. IInv => CredentialsAreDurable
  BY DEF IInv, FilesInv
<1> QED
  BY <1>1, Inductive, PTL

(* session.go:220 and 266-283: between the stop of a session and the       *)
(* deletion of its entry and directory nobody else holds the lock, and the *)
(* entry still has the engine that was stopped.                            *)
THEOREM LockSpansDeletion == Spec => []DeletesWhatItStopped
<1>1. IInv => DeletesWhatItStopped
  BY CallersLock DEF IInv
<1> QED
  BY <1>1, Inductive, PTL

-----------------------------------------------------------------------------
(* Who removes credentials.                                                *)
Entitled(n) ==
    \E c \in Callers : /\ name[c] = n /\ ~Idle(c)
                      /\ op[c] \in Removing \cup Pairing \cup {"Logout"}

(* Whoever clears an engine touches the directory of its name only.        *)
LEMMA ClearTouchesOwn ==
  ASSUME FilesInv, NEW e \in Known, dir' = DirAfter(e, FALSE),
         NEW n \in Names, dir'[n] # dir[n]
  PROVE  n = engines[e].name /\ OwnsDir(e)
  BY DirAfterWrites DEF FilesInv

LEMMA UnlinkRevokes ==
  ASSUME FilesInv, NEW e \in Known, LoggedOut(e), NEW n \in Names, dir'[n] # dir[n]
  PROVE  Revoked(n)
<1>1. engines[e].paired /\ engines'[e].paired = FALSE
  BY UnlinkKeeps DEF LoggedOut, FilesInv, FilesType
<1>2. n = engines[e].name /\ OwnsDir(e)
  BY ClearTouchesOwn DEF LoggedOut, Unlink
<1> QED
  BY <1>1, <1>2 DEF Revoked, OwnsDir, Known

LEMMA CallerLosesOnPurpose ==
  ASSUME FilesInv, CallersInv, NEW c \in Callers, Begin(c) \/ CallerStep(c),
         NEW n \in Names, dir[n] = "paired", dir'[n] # "paired"
  PROVE  Revoked(n) \/ Entitled(n)
<1>1. CASE UNCHANGED dir
  BY <1>1
<1>2. CASE getOrCreateSession(c)
  <2>1. CASE CreateFails(c)
    BY <2>1 DEF CreateFails, FilesInv, FilesType
  <2>2. CASE AddEngine(c)
    BY <2>2 DEF AddEngine, FilesInv, FilesType
  <2> QED
    BY <1>1, <1>2, <2>1, <2>2 DEF getOrCreateSession, Reuse, Refuse
<1>3. CASE ClearDevices(c)
  <2>1. pc[c] = "clear" /\ op[c] = "Logout"
    BY <1>3 DEF ClearDevices, At, CallersInv, Fits
  <2>2. target[c] \in Known /\ engines[target[c]].name = name[c]
    BY <2>1 DEF CallersInv, TargetFits, Using, Sweeping
  <2>3. UNCHANGED dir \/ dir' = DirAfter(target[c], FALSE)
    BY <1>3 DEF ClearDevices
  <2>4. n = name[c]
    BY <2>2, <2>3, ClearTouchesOwn
  <2> QED
    BY <2>1, <2>4 DEF Entitled, Idle
<1>4. CASE LogoutRequest(c)
  <2>1. target[c] \in Known
    BY <1>4 DEF LogoutRequest, At, CallersInv, TargetFits, Using, Locked
  <2>2. UNCHANGED dir \/ LoggedOut(target[c])
    BY <1>4 DEF LogoutRequest, LoggedOut, Engine
  <2> QED
    BY <2>1, <2>2, UnlinkRevokes
<1>5. CASE Delete(c)
  <2>1. pc[c] = "delete" /\ op[c] \in Removing \cup Pairing
    BY <1>5 DEF Delete, At, CallersInv, LockFits
  <2>2. UNCHANGED dir \/ dir' = [dir EXCEPT ![name[c]] = "none"]
    BY <1>5 DEF Delete, Unmap, RemoveDir
  <2>3. n = name[c]
    BY <2>2 DEF FilesInv, FilesType
  <2> QED
    BY <2>1, <2>3 DEF Entitled, Idle
<1>6. CASE EngineStep(c)
  BY <1>1, <1>3, <1>6 DEF EngineStep, StartSwap, CheckPaired, Connect, StoreRunning, StoreStopped,
     PairLoad, PairCheck, StorePairing, Dial, StopLoad, StoreStopping, Disconnect, RenewDevice,
     OnlyEngine, OnlyCaller, store, files
<1>7. \/ UNCHANGED dir \/ getOrCreateSession(c) \/ EngineStep(c) \/ LogoutRequest(c) \/ Delete(c)
  BY DEF Begin, CallerStep, Reset, Remove, getSession, Snapshot, StopNext, StopAllDone, OnlyCaller,
     Last, store, files
<1> QED
  BY <1>1, <1>2, <1>4, <1>5, <1>6, <1>7

LEMMA EventLosesOnPurpose ==
  ASSUME FilesInv, EngineEvent, NEW n \in Names, dir[n] = "paired", dir'[n] # "paired"
  PROVE  Revoked(n)
<1>1. PICK e \in Known : PairSuccess(e) \/ LoggedOut(e) \/ Lost(e)
  BY DEF EngineEvent, Known
<1>2. ~PairSuccess(e)
  <2>1. SUFFICES ASSUME PairSuccess(e) PROVE FALSE
    OBVIOUS
  <2>2. dir' = dir \/ dir' = [dir EXCEPT ![engines[e].name] = "paired"]
    BY <2>1 DEF PairSuccess, Link, DirAfter
  <2> QED
    BY <2>2 DEF FilesInv, FilesType
<1> QED
  BY <1>1, <1>2, UnlinkRevokes DEF Lost

LEMMA NextLosesOnPurpose == IInv /\ [Next]_vars => [LostOnPurpose]_vars
<1> SUFFICES ASSUME IInv, Next, NEW n \in Names, dir[n] = "paired", dir'[n] # "paired"
             PROVE  Revoked(n) \/ Entitled(n)
  BY DEF LostOnPurpose, Entitled
<1>1. ASSUME NEW c \in Callers, Begin(c) \/ CallerStep(c)
      PROVE  Revoked(n) \/ Entitled(n)
  BY <1>1, CallerLosesOnPurpose DEF IInv
<1>2. CASE EngineEvent
  BY <1>2, EventLosesOnPurpose DEF IInv
<1>3. CASE Restart
  BY <1>3 DEF Restart
<1> QED
  BY <1>1, <1>2, <1>3 DEF Next

(* session.go: whatever interleaving of calls, the credentials of a        *)
(* session are lost only to the phone or to a call that is meant to reset, *)
(* log out or remove this very session.                                    *)
THEOREM LossesArePurposeful == Spec => CredentialsLostOnPurpose
  BY NextLosesOnPurpose, Inductive, PTL DEF Spec, CredentialsLostOnPurpose

-----------------------------------------------------------------------------
(* The session manager implements SessionStore.  First what the view of    *)
(* the store is after a step that changes one engine.                      *)
Shown(e) == Store!Loaded(engines[e].paired, engines[e].open)

LEMMA LoadedIs ==
  ASSUME NEW a \in BOOLEAN, NEW b \in BOOLEAN
  PROVE  /\ Store!Loaded(a, b).open
         /\ Store!Loaded(a, b).linked = a /\ Store!Loaded(a, b).up = b
  BY DEF Store!Loaded

View ==
    \A n \in Names :
        /\ sessions[n] = 0 => AllSessions[n] = Store!Closed
        /\ \A e : sessions[n] = e /\ e # 0 => AllSessions[n] = Shown(e)

LEMMA ViewOf == View
<1>1. ASSUME NEW n \in Names
      PROVE  AllSessions[n] = SessionOf(n)
  BY DEF AllSessions
<1>2. ASSUME NEW n \in Names, sessions[n] = 0
      PROVE  SessionOf(n) = Store!Closed
  BY <1>2 DEF SessionOf, Store!Closed
<1>3. ASSUME NEW n \in Names, NEW e, sessions[n] = e, e # 0
      PROVE  SessionOf(n) = Shown(e)
  BY <1>3, Zenon DEF SessionOf, Shown, Store!Loaded
<1> QED
  BY <1>1, <1>2, <1>3, Zenon DEF View

LEMMA SameCardinality ==
  ASSUME NEW S
  PROVE  Store!Cardinality(S) = Cardinality(S)
  BY Zenon DEF Store!Cardinality, Cardinality

LEMMA ViewType ==
  ASSUME FilesInv
  PROVE  /\ \A n \in Mapped : AllSessions[n] = Shown(sessions[n])
         /\ \A n \in Names : n \in Mapped <=> Store!IsOpen(n)
         /\ Store!OpenNames = Mapped
<1>1. ASSUME NEW n \in Mapped
      PROVE  AllSessions[n] = Shown(sessions[n]) /\ Store!IsOpen(n)
  <2>1. AllSessions[n] = Shown(sessions[n])
    BY ViewOf DEF Mapped, View
  <2>2. engines[sessions[n]].paired \in BOOLEAN /\ engines[sessions[n]].open \in BOOLEAN
    BY MappedIsKnown, KnownIsEngine DEF FilesInv, FilesType
  <2>3. Shown(sessions[n]).open
    BY <2>2, LoadedIs DEF Shown
  <2> QED
    BY <2>1, <2>3 DEF Store!IsOpen
<1>2. ASSUME NEW n \in Names \ Mapped
      PROVE  ~Store!IsOpen(n)
  <2>1. AllSessions[n] = Store!Closed
    BY ViewOf DEF Mapped, View
  <2> QED
    BY <2>1 DEF Store!IsOpen, Store!Closed
<1>3. \A n \in Names : n \in Mapped <=> Store!IsOpen(n)
  BY <1>1, <1>2
<1>4. Store!OpenNames = Mapped
  BY <1>3 DEF Store!OpenNames, Mapped
<1> QED
  BY <1>1, <1>3, <1>4

LEMMA SameAstray ==
  ASSUME FilesInv, SameMap, Len(engines') = Len(engines)
  PROVE  Astray' = Astray
<1>1. /\ Known' = Known /\ sessions' = sessions
      /\ \A e \in Known : engines'[e].name = engines[e].name /\ (OwnsDir(e)' <=> OwnsDir(e))
  BY DEF SameMap, OwnsDir, Known
<1>2. \A n \in Names : n \in Astray' <=> n \in Astray
  BY <1>1 DEF Astray, Known
<1> QED
  BY <1>2 DEF Astray

(* The sessions other than that of the engine that changes.                *)
LEMMA OthersView ==
  ASSUME FilesInv, SameMap, NEW e \in Known, \A f \in Known \ {e} : engines'[f] = engines[f],
         NEW m \in Names, m # engines[e].name \/ sessions[m] # e
  PROVE  AllSessions'[m] = AllSessions[m]
<1>1. CASE m \notin Mapped
  BY <1>1 DEF SameMap, AllSessions, SessionOf, Mapped
<1>2. CASE m \in Mapped
  <2>1. sessions[m] \in Known \ {e}
    BY <1>2, MappedIsKnown DEF FilesInv, MappedOwnsDirectory
  <2> QED
    BY <2>1 DEF SameMap, AllSessions, SessionOf
<1> QED
  BY <1>1, <1>2

LEMMA OneEngineView ==
  ASSUME FilesInv, SameMap, NEW e \in Known, \A f \in Known \ {e} : engines'[f] = engines[f]
  PROVE  /\ engines[e].name \in Names
         /\ sessions[engines[e].name] = e
              => /\ engines[e].name \in Mapped /\ OwnsDir(e)
                 /\ AllSessions[engines[e].name] = Shown(e)
                 /\ AllSessions' = [AllSessions EXCEPT ![engines[e].name] = Shown(e)']
         /\ sessions[engines[e].name] # e => AllSessions' = AllSessions
<1> DEFINE n == engines[e].name
<1>1. n \in Names
  BY KnownIsEngine DEF FilesInv, FilesType
<1>2. CASE sessions[n] = e
  <2>1. n \in Mapped /\ OwnsDir(e) /\ AllSessions[n] = Shown(e)
    BY <1>1, <1>2, ViewType DEF Mapped, Known, FilesInv, MappedOwnsDirectory
  <2>2. AllSessions'[n] = Shown(e)'
    <3>1. sessions'[n] = e /\ sessions'[n] # 0
      BY <1>2 DEF SameMap, Known
    <3>2. View'
      BY ViewOf, PTL
    <3> QED
      BY <1>1, <3>1, <3>2, Zenon DEF View
  <2>3. AllSessions' = [AllSessions EXCEPT ![n] = Shown(e)']
    <3>1. \A m \in Names \ {n} : AllSessions'[m] = AllSessions[m]
      BY OthersView
    <3> QED
      BY <1>1, <2>2, <3>1 DEF AllSessions
  <2> QED
    BY <1>1, <1>2, <2>1, <2>3
<1>3. CASE sessions[n] # e
  <2>1. \A m \in Names : AllSessions'[m] = AllSessions[m]
    BY <1>3, OthersView
  <2> QED
    BY <1>1, <1>3, <2>1 DEF AllSessions
<1> QED
  BY <1>2, <1>3

(* The credentials on disk after a call that writes to one engine's file.  *)
LEMMA DirAfterView ==
  ASSUME FilesType, NEW e \in Known, NEW p \in BOOLEAN, dir' = DirAfter(e, p)
  PROVE  /\ OwnsDir(e) /\ p => Saved' = Saved \cup {engines[e].name}
         /\ OwnsDir(e) /\ ~p => Saved' = Saved \ {engines[e].name}
         /\ ~OwnsDir(e) => Saved' = Saved
<1>1. engines[e].name \in Names
  BY KnownIsEngine DEF FilesType
<1>2. \A n \in Names : dir'[n] = IF OwnsDir(e) /\ n = engines[e].name
                                 THEN IF p THEN "paired" ELSE "db"
                                 ELSE dir[n]
  BY DirAfterWrites
<1> QED
  BY <1>1, <1>2 DEF Saved

(* An engine outside the map that still has the database of its name open  *)
(* makes that name go astray; a mapped engine is never the reason.         *)
LEMMA StrangerIsAstray ==
  ASSUME FilesType, NEW e \in Known, sessions[engines[e].name] # e, OwnsDir(e)
  PROVE  engines[e].name \in Astray
<1>1. engines[e].name \in Names
  BY KnownIsEngine DEF FilesType
<1> QED
  BY <1>1 DEF Astray, Known

-----------------------------------------------------------------------------
(* Each step of the session manager is one of the store or changes nothing *)
(* that the store shows.                                                   *)
StoreStep == [Store!Next]_(Store!svars)

LEMMA UnseenStore ==
  ASSUME AllSessions' = AllSessions, Saved' = Saved, Astray' = Astray
  PROVE  StoreStep
  BY DEF StoreStep, Store!svars

(* The life of an engine is not seen.                                      *)
LEMMA LifeStore ==
  ASSUME FilesInv, NEW e \in Known, ChangesLife(e)
  PROVE  StoreStep
<1>1. /\ OneEngine(e) /\ UNCHANGED <<sessions, files>> /\ SameMap
      /\ engines'[e].paired = engines[e].paired /\ engines'[e].open = engines[e].open
  BY LifeOrSocketSets, SameEnginesMap DEF OneEngine, files
<1>2. Shown(e)' = Shown(e)
  BY <1>1 DEF Shown
<1>3. AllSessions' = AllSessions
  <2> DEFINE n == engines[e].name
  <2>1. sessions[n] # e => AllSessions' = AllSessions
    BY <1>1, OneEngineView DEF OneEngine
  <2>2. sessions[n] = e => AllSessions' = [AllSessions EXCEPT ![n] = AllSessions[n]]
    BY <1>1, <1>2, OneEngineView DEF OneEngine
  <2>3. [AllSessions EXCEPT ![n] = AllSessions[n]] = AllSessions
    BY DEF AllSessions
  <2> QED
    BY <2>1, <2>2, <2>3
<1>4. Astray' = Astray /\ Saved' = Saved
  BY <1>1, SameAstray DEF OneEngine, SameEngines, Saved, files
<1> QED
  BY <1>3, <1>4, UnseenStore

LEMMA SocketStore ==
  ASSUME FilesInv, NEW e \in Known, ChangesSocket(e)
  PROVE  StoreStep
<1> DEFINE n == engines[e].name
<1>1. PICK o \in BOOLEAN : SetSocket(e, o)
  BY DEF ChangesSocket
<1>2. /\ OneEngine(e) /\ UNCHANGED <<sessions, files>> /\ SameMap
      /\ engines'[e].paired = engines[e].paired /\ engines'[e].open = o
  BY <1>1, SetSocketKeeps, SameEnginesMap
     DEF FilesInv, FilesType, ChangesSocket, OneEngine, files
<1>3. Astray' = Astray /\ Saved' = Saved
  BY <1>2, SameAstray DEF OneEngine, SameEngines, Saved, files
<1>4. CASE sessions[n] # e
  BY <1>2, <1>3, <1>4, OneEngineView, UnseenStore DEF OneEngine
<1>5. CASE sessions[n] = e
  <2>1. /\ n \in Names /\ n \in Mapped /\ AllSessions[n] = Shown(e)
        /\ AllSessions' = [AllSessions EXCEPT ![n] = Shown(e)']
    BY <1>2, <1>5, OneEngineView DEF OneEngine
  <2>2. Shown(e).linked = engines[e].paired /\ Shown(e)' = Store!Loaded(engines[e].paired, o)
    BY <1>2, KnownIsEngine, LoadedIs DEF Shown, FilesInv, FilesType
  <2>3. Store!Becomes(n, Store!Loaded(AllSessions[n].linked, o)) /\ Store!IsOpen(n)
    BY <2>1, <2>2, ViewType DEF Store!Becomes
  <2>4. CASE o = TRUE
    BY <1>3, <2>1, <2>3, <2>4 DEF Store!Dial, StoreStep, Store!Next
  <2>5. CASE o = FALSE
    BY <1>3, <2>1, <2>3, <2>5 DEF Store!HangUp, Store!AtRest, StoreStep, Store!Next
  <2> QED
    BY <2>4, <2>5
<1> QED
  BY <1>4, <1>5

(* Somebody outside the map writes to the file of an engine.               *)
LEMMA StrangerStore ==
  ASSUME FilesInv, NEW e \in Known, NEW p \in BOOLEAN, dir' = DirAfter(e, p),
         sessions[engines[e].name] # e, AllSessions' = AllSessions, Astray' = Astray
  PROVE  StoreStep
<1> DEFINE n == engines[e].name
<1>0. FilesType /\ n \in Names
  BY KnownIsEngine DEF FilesInv, FilesType
<1>1. CASE OwnsDir(e)
  <2>1. n \in Astray
    BY <1>0, <1>1, StrangerIsAstray
  <2>2. Saved' \in {Saved \cup {n}, Saved \ {n}}
    BY <1>0, <1>1, DirAfterView
  <2>3. Store!Stray(n)
    BY <2>1, <2>2 DEF Store!Stray
  <2> QED
    BY <1>0, <2>3 DEF StoreStep, Store!Next
<1>2. CASE ~OwnsDir(e)
  BY <1>0, <1>2, DirAfterView, UnseenStore
<1> QED
  BY <1>1, <1>2

(* The phone links or unlinks a device.                                    *)
LEMMA PhoneStore ==
  ASSUME FilesInv, NEW e \in Known, LinksDevice(e) \/ UnlinksDevice(e)
  PROVE  StoreStep
<1> DEFINE n == engines[e].name
<1>1. /\ engines \in Seq(Engines) /\ engines[e].open /\ engines[e].paired \in BOOLEAN
      /\ engines[e].open \in BOOLEAN
  BY KnownIsEngine DEF FilesInv, FilesType, LinksDevice, PairSuccess, UnlinksDevice, LoggedOut
<1>2. PICK p \in BOOLEAN :
        /\ SetCredentials(e, p)
        /\ p => LinksDevice(e)
        /\ ~p => UnlinksDevice(e)
  BY LinkSets, UnlinkSets
<1>3. OneEngine(e) /\ SameMap /\ dir' = DirAfter(e, p)
  BY <1>2, SameEnginesMap DEF SetCredentials, OneEngine
<1>4. Astray' = Astray
  BY <1>3, SameAstray DEF OneEngine, SameEngines
<1>5. CASE sessions[n] # e
  BY <1>3, <1>4, <1>5, OneEngineView, StrangerStore DEF OneEngine
<1>6. CASE sessions[n] = e
  <2>1. /\ n \in Names /\ OwnsDir(e) /\ AllSessions[n] = Shown(e)
        /\ AllSessions' = [AllSessions EXCEPT ![n] = Shown(e)']
    BY <1>3, <1>6, OneEngineView DEF OneEngine
  <2>2. CASE p
    <3>1. ~engines[e].paired /\ engines'[e].paired = TRUE /\ engines'[e].open = engines[e].open
      BY <1>1, <1>2, <2>2, LinkKeeps DEF LinksDevice, PairSuccess
    <3>2. Shown(e)' = Store!Loaded(TRUE, TRUE)
      BY <1>1, <3>1 DEF Shown
    <3>3. Saved' = Saved \cup {n}
      BY <1>3, <2>1, <2>2, DirAfterView DEF FilesInv
    <3>4. Shown(e).up /\ ~Shown(e).linked
      BY <1>1, <3>1, LoadedIs DEF Shown
    <3>5. Store!Link(n)
      BY <1>4, <2>1, <3>2, <3>3, <3>4 DEF Store!Link, Store!Becomes
    <3> QED
      BY <2>1, <3>5 DEF StoreStep, Store!Next
  <2>3. CASE ~p
    <3>1. engines[e].paired /\ engines'[e].paired = FALSE /\ engines'[e].open = FALSE
      BY <1>1, <1>2, <2>3, UnlinkKeeps DEF UnlinksDevice, LoggedOut
    <3>2. Shown(e)' = Store!AtRest(FALSE)
      BY <3>1 DEF Shown, Store!AtRest
    <3>3. Saved' = Saved \ {n}
      BY <1>3, <2>1, <2>3, DirAfterView DEF FilesInv
    <3>4. Shown(e).up /\ Shown(e).linked
      BY <1>1, <3>1, LoadedIs DEF Shown
    <3>5. Store!Unlink(n)
      BY <1>4, <2>1, <3>2, <3>3, <3>4 DEF Store!Unlink, Store!Becomes
    <3> QED
      BY <2>1, <3>5 DEF StoreStep, Store!Next
  <2> QED
    BY <2>2, <2>3
<1> QED
  BY <1>5, <1>6

(* A logout deletes the device on disk.                                    *)
LEMMA ClearStore ==
  ASSUME FilesInv, NEW e \in Known, ClearsFile(e)
  PROVE  StoreStep
<1> DEFINE n == engines[e].name
<1>1. AllSessions' = AllSessions /\ Astray' = Astray /\ dir' = DirAfter(e, FALSE)
  BY DEF ClearsFile, AllSessions, SessionOf, Astray, OwnsDir
<1>2. CASE sessions[n] # e
  BY <1>1, <1>2, StrangerStore
<1>3. CASE sessions[n] = e
  <2>1. n \in Names /\ n \in Mapped /\ OwnsDir(e) /\ FilesType
    BY <1>3, KnownIsEngine DEF FilesInv, FilesType, MappedOwnsDirectory, Mapped, Known
  <2>2. Saved' = Saved \ {n}
    BY <1>1, <2>1, DirAfterView
  <2>3. Store!Forget(n)
    BY <1>1, <2>1, <2>2, ViewType DEF Store!Forget
  <2> QED
    BY <2>1, <2>3 DEF StoreStep, Store!Next
<1> QED
  BY <1>2, <1>3

(* And takes up what is there, with an engine that may stay behind.        *)
LEMMA RenewAstray ==
  ASSUME FilesInv, NEW e \in Known, RenewsDevice(e)
  PROVE  /\ Astray' \in {Astray, Astray \cup {engines[e].name}}
         /\ sessions[engines[e].name] # e => Astray' = Astray
<1> DEFINE n == engines[e].name
           k == Len(engines)
<1>1. SameMap /\ FilesType /\ k \in Nat /\ n \in Names
  BY RenewMap, KnownIsEngine, LenProperties DEF FilesInv, FilesType
<1>2. PICK p \in BOOLEAN : NewClient(e, p)
  BY DEF RenewsDevice
<1>3. CASE Len(engines') = k
  BY <1>1, <1>3, SameAstray
<1>4. CASE Len(engines') = k + 1 /\ engines'[k + 1] = LeftBehind(e)
  <2>1. engines'[k + 1].name = n /\ engines'[k + 1].db = engines[e].db
    BY <1>1, <1>4, LeftBehindIs DEF FilesType
  <2>2. \A m \in Names \ {n} : m \in Astray' <=> m \in Astray
    <3> SUFFICES ASSUME NEW m \in Names, m # n
                 PROVE  m \in Astray' <=> m \in Astray
      OBVIOUS
    <3>1. \A i \in 1 .. k + 1 : i \in 1 .. k \/ i = k + 1
      BY <1>1
    <3>2. Len(engines') = k + 1 /\ 1 .. k \subseteq 1 .. k + 1
      BY <1>1, <1>4
    <3>3. \A i \in 1 .. k : engines'[i].name = engines[i].name /\ engines'[i].db = engines[i].db
      BY <1>1 DEF SameMap, Known
    <3>4. sessions' = sessions /\ owner' = owner
      BY <1>1 DEF SameMap
    <3>5. ASSUME m \in Astray PROVE m \in Astray'
      <4>1. PICK i \in 1 .. k : engines[i].name = m /\ OwnsDir(i) /\ sessions[m] # i
        BY <3>5 DEF Astray
      <4> QED
        BY <4>1, <3>2, <3>3, <3>4 DEF Astray, OwnsDir
    <3>6. ASSUME m \in Astray' PROVE m \in Astray
      <4>1. PICK i \in 1 .. k + 1 : engines'[i].name = m /\ OwnsDir(i)' /\ sessions'[m] # i
        BY <3>2, <3>6 DEF Astray
      <4>2. i \in 1 .. k
        BY <2>1, <3>1, <4>1
      <4> QED
        BY <4>1, <4>2, <3>3, <3>4 DEF Astray, OwnsDir
    <3> QED
      BY <3>5, <3>6
  <2>3. n \in Astray => n \in Astray'
    BY <1>1, <1>4 DEF Astray, OwnsDir, SameMap, Known
  <2>4. Astray' \in {Astray, Astray \cup {n}}
    <3>1. Astray \subseteq Names /\ Astray' \subseteq Names
      BY DEF Astray
    <3>2. CASE n \in Astray'
      <4>1. Astray' = Astray \cup {n}
        BY <1>1, <2>2, <3>1, <3>2
      <4> QED
        BY <4>1
    <3>3. CASE n \notin Astray'
      <4>1. Astray' = Astray
        <5>1. \A m \in Names : m \in Astray' <=> m \in Astray
          BY <2>2, <2>3, <3>3
        <5> QED
          BY <3>1, <5>1
      <4> QED
        BY <4>1
    <3> QED
      BY <3>2, <3>3
  <2>5. ASSUME sessions[n] # e, n \in Astray'
        PROVE  n \in Astray
    <3>1. PICK f \in 1 .. k + 1 : /\ engines'[f].name = n /\ OwnsDir(f)' /\ sessions'[n] # f
      BY <1>4, <2>5 DEF Astray
    <3>2. CASE f = k + 1
      <4>1. OwnsDir(e)
        BY <1>1, <2>1, <3>1, <3>2 DEF OwnsDir, SameMap
      <4> QED
        BY <1>1, <2>5, <4>1, StrangerIsAstray
    <3>3. CASE f # k + 1
      <4>1. f \in Known
        BY <1>1, <3>3 DEF Known
      <4> QED
        BY <1>1, <3>1, <4>1 DEF Astray, OwnsDir, SameMap, Known
    <3> QED
      BY <3>2, <3>3
  <2>6. sessions[n] # e => Astray' = Astray
    BY <2>3, <2>4, <2>5
  <2> QED
    BY <2>4, <2>6
<1> QED
  BY <1>1, <1>2, <1>3, <1>4, NewClientKeeps DEF FilesType

LEMMA RenewStore ==
  ASSUME FilesInv, NEW e \in Known, RenewsDevice(e)
  PROVE  StoreStep
<1> DEFINE n == engines[e].name
<1>1. PICK p \in BOOLEAN :
        /\ OwnsDir(e) => p = (dir[n] = "paired")
        /\ NewClient(e, p)
  BY DEF RenewsDevice
<1>2. /\ SameMap /\ engines'[e].paired = p /\ engines'[e].open = FALSE
      /\ \A f \in Known \ {e} : engines'[f] = engines[f]
  BY <1>1, RenewMap, NewClientKeeps DEF FilesInv, FilesType
<1>3. Saved' = Saved
  BY DEF RenewsDevice, Saved
<1>4. CASE sessions[n] # e
  BY <1>2, <1>3, <1>4, RenewAstray, OneEngineView, UnseenStore
<1>5. CASE sessions[n] = e
  <2>1. /\ n \in Names /\ n \in Mapped /\ OwnsDir(e)
        /\ AllSessions' = [AllSessions EXCEPT ![n] = Shown(e)']
    BY <1>2, <1>5, OneEngineView
  <2>2. p = (n \in Saved)
    <3>1. n \in Saved <=> dir[n] = "paired"
      BY <2>1 DEF Saved
    <3> QED
      BY <1>1, <2>1, <3>1
  <2>3. Shown(e)' = Store!AtRest(p)
    BY <1>2 DEF Shown, Store!AtRest
  <2>4. Store!Renew(n)
    BY <1>3, <2>1, <2>2, <2>3, RenewAstray, ViewType DEF Store!Renew, Store!Becomes
  <2> QED
    BY <2>1, <2>4 DEF StoreStep, Store!Next
<1> QED
  BY <1>4, <1>5

LEMMA TouchStore ==
  ASSUME FilesInv, NEW e \in Known, TouchesEngine(e)
  PROVE  StoreStep
  BY LifeStore, SocketStore, PhoneStore, ClearStore, RenewStore DEF TouchesEngine

-----------------------------------------------------------------------------
(* The databases have the numbers of the engines that made them.           *)
DatabasesKnown == \A e \in Known : engines[e].db \in Known

(* An engine is made for a name that is not mapped.                        *)
LEMMA CreateFailsStore ==
  ASSUME FilesInv, NEW n \in Names,
         dir' = IF dir[n] = "none" THEN [dir EXCEPT ![n] = "empty"] ELSE dir,
         UNCHANGED <<sessions, engines, owner>>
  PROVE  StoreStep
<1>1. Saved' = Saved
  BY DEF Saved, FilesInv, FilesType
<1> QED
  BY <1>1, UnseenStore DEF AllSessions, SessionOf, Astray, OwnsDir

LEMMA OpenedStore ==
  ASSUME FilesInv, DatabasesKnown, NEW n \in Names, n \notin Mapped,
         Cardinality(Mapped) < MaxSessions, Opened(n),
         \/ UNCHANGED sessions
         \/ sessions' = [sessions EXCEPT ![n] = Len(engines) + 1]
  PROVE  StoreStep
<1>e. PICK e : e = Len(engines) + 1
  OBVIOUS
<1> USE <1>e
<1>0. /\ FilesType /\ Len(engines) \in Nat /\ e \notin Known /\ Known' = Known \cup {e} /\ e # 0
      /\ sessions[n] = 0 /\ sessions \in [Names -> Ids] /\ owner[n] \in Ids
  BY LenProperties, OpenedFacts DEF FilesInv, FilesType, Known, Mapped
<1>1. /\ \A f \in Known : engines'[f] = engines[f]
      /\ \A m \in Names \ {n} : dir'[m] = dir[m] /\ owner'[m] = owner[m]
      /\ owner'[n] = FileOpened(n, e)
      /\ dir'[n] = IF dir[n] = "paired" THEN "paired" ELSE "db"
  BY <1>0, OpenedFacts
<1>2. engines'[e].name = n /\ engines'[e].db = FileOpened(n, e)
  <2>1. engines'[e] = NewEngine(n, e)
    BY <1>0, OpenedFacts
  <2> QED
    BY <2>1 DEF NewEngine
<1>3. Shown(e)' = Store!AtRest(n \in Saved)
  <2>1. engines'[e] = NewEngine(n, e) /\ engines'[e] \in Engines
    BY <1>0, OpenedFacts, ElementOfSeq
  <2>2. n \in Saved <=> dir[n] = "paired"
    BY DEF Saved
  <2>3. ~engines'[e].open /\ (engines'[e].paired <=> dir[n] = "paired")
    BY <2>1, NewEngineReadsDirectory
  <2>4. engines'[e].paired \in BOOLEAN /\ (n \in Saved) \in BOOLEAN /\ engines'[e].open \in BOOLEAN
    BY <2>1 DEF Engines
  <2>5. engines'[e].paired = (n \in Saved) /\ engines'[e].open = FALSE
    BY <2>2, <2>3, <2>4, EqualBooleans, Zenon
  <2>6. Shown(e)' = Store!Loaded(engines'[e].paired, engines'[e].open)
    BY DEF Shown
  <2> QED
    BY <2>5, <2>6, Zenon DEF Store!AtRest
<1>4. Saved' = Saved
  BY <1>1 DEF Saved
<1>5. \A m \in Names \ {n} : sessions'[m] = sessions[m]
  BY <1>0
<1>6. \A m \in Names \ {n} : SessionOf(m)' = SessionOf(m)
  <2>1. ASSUME NEW m \in Names \ {n}, m \in Mapped
        PROVE  engines'[sessions[m]] = engines[sessions[m]]
    BY <1>0, <1>1, <2>1, MappedIsKnown
  <2> QED
    BY <1>5, <2>1 DEF SessionOf, Mapped
<1>7. \A m \in Names \ {n} : m \in Astray' <=> m \in Astray
  BY SMTT(30), <1>0, <1>1, <1>2, <1>5 DEF Astray, OwnsDir, Known
<1>8. n \in Astray <=>
        owner[n] # 0 /\ \E f \in Known : engines[f].name = n /\ engines[f].db = owner[n]
  BY <1>0 DEF Astray, OwnsDir, Known, DatabasesKnown
<1>9. ~Store!IsOpen(n) /\ Store!OpenNames = Mapped
  BY ViewType
<1>10. CASE UNCHANGED sessions
  <2>1. n \in Astray'
    BY <1>0, <1>1, <1>2, <1>10 DEF Astray, OwnsDir, Known
  <2>2. Astray' = Astray \cup {n}
    BY <1>7, <2>1 DEF Astray
  <2>3. AllSessions' = AllSessions
    BY <1>0, <1>6, <1>10 DEF AllSessions, SessionOf
  <2>4. Store!GoAstray(n)
    BY <1>4, <1>9, <2>2, <2>3 DEF Store!GoAstray, Store!IsOpen
  <2> QED
    BY <2>4 DEF StoreStep, Store!Next
<1>11. CASE sessions' = [sessions EXCEPT ![n] = e]
  <2>1. sessions'[n] = e
    BY <1>0, <1>11
  <2>2. AllSessions'[n] = Shown(e)'
    <3>1. View'
      BY ViewOf, PTL
    <3> QED
      BY <1>0, <2>1, <3>1, Zenon DEF View
  <2>3. AllSessions' = [AllSessions EXCEPT ![n] = Shown(e)']
    <3>1. \A m \in Names \ {n} : AllSessions'[m] = AllSessions[m]
      BY <1>6 DEF AllSessions
    <3> QED
      BY <2>2, <3>1 DEF AllSessions
  <2>4. n \in Astray' <=> \E f \in Known : engines[f].name = n /\ engines[f].db = FileOpened(n, e)
    BY SMTT(30), <1>0, <1>1, <1>2, <2>1 DEF Astray, OwnsDir, Known
  <2>5. n \in Astray' <=> n \in Astray
    BY <1>0, <1>8, <2>4 DEF FileOpened, DatabasesKnown, Known
  <2>6. Astray' = Astray
    BY <1>7, <2>5 DEF Astray
  <2>7. Store!Open(n)
    <3>2. Store!Becomes(n, Store!AtRest(n \in Saved))
      BY <1>3, <2>3 DEF Store!Becomes
    <3>3. Store!Cardinality(Store!OpenNames) < MaxSessions
      BY <1>9, SameCardinality
    <3> QED
      BY <1>4, <1>9, <2>6, <3>2, <3>3, Zenon DEF Store!Open, Store!IsOpen
  <2> QED
    BY <2>7 DEF StoreStep, Store!Next
<1> QED
  BY <1>10, <1>11

(* The entry of a name goes, and its directory goes with it or stays.      *)
LEMMA DeleteStore ==
  ASSUME FilesInv, DatabasesKnown, NEW n \in Mapped, UNCHANGED <<engines, cleared>>,
         sessions' = [sessions EXCEPT ![n] = 0], RemoveDir(n)
  PROVE  StoreStep
<1>0. /\ n \in Names /\ sessions[n] \in Known /\ sessions \in [Names -> Ids]
      /\ owner \in [Names -> Ids] /\ dir \in [Names -> Dirs] /\ Known' = Known
      /\ engines[sessions[n]].name = n /\ OwnsDir(sessions[n])
  BY MappedIsKnown DEF FilesInv, FilesType, Mapped, Known, MappedOwnsDirectory
<1>1. sessions'[n] = 0 /\ \A m \in Names \ {n} : sessions'[m] = sessions[m]
  BY <1>0
<1>2. Store!IsOpen(n)
  BY <1>0, ViewType
<1>3. AllSessions' = [AllSessions EXCEPT ![n] = Store!Closed]
  BY <1>1 DEF AllSessions, SessionOf, Store!Closed
<1>4. CASE UNCHANGED <<owner, dir>>
  <2>1. Saved' = Saved
    BY <1>4 DEF Saved
  <2>2. \A m \in Names \ {n} : m \in Astray' <=> m \in Astray
    BY <1>1, <1>4 DEF Astray, OwnsDir
  <2>3. n \in Astray'
    BY <1>0, <1>1, <1>4 DEF Astray, OwnsDir, Known
  <2>4. Astray' = Astray \cup {n}
    BY <2>2, <2>3 DEF Astray
  <2> QED
    BY <1>2, <1>3, <2>1, <2>4 DEF Store!Close, Store!Becomes, StoreStep, Store!Next,
       Mapped
<1>5. CASE owner' = [owner EXCEPT ![n] = 0] /\ dir' = [dir EXCEPT ![n] = "none"]
  <2>1. /\ owner'[n] = 0 /\ dir'[n] = "none"
        /\ \A m \in Names \ {n} : owner'[m] = owner[m] /\ dir'[m] = dir[m]
    BY <1>0, <1>5
  <2>2. Saved' = Saved \ {n}
    BY <2>1 DEF Saved
  <2>3. \A m \in Names \ {n} : m \in Astray' <=> m \in Astray
    BY <1>1, <2>1 DEF Astray, OwnsDir
  <2>4. n \notin Astray'
    BY <2>1 DEF Astray, OwnsDir, Known, DatabasesKnown
  <2>5. Astray' = Astray \ {n}
    BY <2>3, <2>4 DEF Astray
  <2> QED
    BY <1>2, <1>3, <2>2, <2>5 DEF Store!Close, Store!Becomes, StoreStep, Store!Next,
       Mapped
<1> QED
  BY <1>4, <1>5 DEF RemoveDir

(* All entries go, and no engine and no directory with them.               *)
LEMMA DropStore ==
  ASSUME FilesInv, sessions' = [n \in Names |-> 0], UNCHANGED <<engines, dir, owner>>
  PROVE  StoreStep
<1>1. AllSessions' = [n \in Names |-> Store!Closed]
  BY DEF AllSessions, SessionOf, Store!Closed
<1>2. Saved' = Saved
  BY DEF Saved
<1>3. \A n \in Mapped : n \in Astray'
  BY MappedIsKnown DEF FilesInv, MappedOwnsDirectory, Astray, OwnsDir, Known
<1>4. \A n \in Names \ Mapped : n \in Astray' <=> n \in Astray
  BY DEF Astray, OwnsDir, Mapped
<1>5. Astray \subseteq Astray'
  BY DEF Astray, OwnsDir
<1>6. Astray' = Astray \cup Mapped
  BY <1>3, <1>4, <1>5 DEF Astray, Mapped
<1>7. Store!Drop
  BY <1>1, <1>2, <1>6, ViewType DEF Store!Drop
<1> QED
  BY <1>7 DEF StoreStep, Store!Next

(* The next process finds sessions, and nobody else has their files open.  *)
LEMMA DiscoveryStore ==
  ASSUME FilesInv, discoverSessions, UNCHANGED dir, cleared' = {}
  PROVE  StoreStep /\ DatabasesKnown'
<1>1. FilesInv' /\ Discovered /\ owner' = sessions'
  BY DiscoveryStep DEF discoverSessions
<1>2. Saved' = Saved
  BY DEF Saved
<1>3. Astray' = {}
  BY <1>1 DEF Astray, Discovered, Known
<1>4. ASSUME NEW n \in Names
      PROVE  AllSessions'[n] = IF n \in Mapped' THEN Store!AtRest(n \in Saved) ELSE Store!Closed
  <2>0. View'
    BY ViewOf, PTL
  <2>1. CASE n \notin Mapped'
    <3>1. AllSessions'[n] = Store!Closed
      BY <2>0, <2>1 DEF View, Mapped
    <3> QED
      BY <2>1, <3>1
  <2>2. CASE n \in Mapped'
    <3>e. PICK e : e = sessions'[n]
      OBVIOUS
    <3> USE <3>e
    <3> DEFINE r == engines'[e]
    <3>1. e \in 1 .. Len(engines') /\ e # 0
      BY <1>1, <2>2, LenProperties DEF FilesInv, FilesType, Mapped, Ids
    <3>2. r \in Engines
      BY <1>1, <3>1, ElementOfSeq DEF FilesInv, FilesType
    <3>3. ~r.open /\ (r.paired <=> dir[n] = "paired")
      BY <1>1, <2>2 DEF Discovered
    <3>4. n \in Saved <=> dir[n] = "paired"
      BY DEF Saved
    <3>5. AllSessions'[n] = Shown(e)'
      BY <2>0, <3>1, Zenon DEF View
    <3>6. Shown(e)' = Store!Loaded(r.paired, r.open)
      BY DEF Shown
    <3> HIDE DEF r
    <3>7. r.paired \in BOOLEAN /\ r.open \in BOOLEAN /\ (n \in Saved) \in BOOLEAN
      BY <3>2 DEF Engines
    <3>8. r.paired = (n \in Saved) /\ r.open = FALSE
      BY <3>3, <3>4, <3>7, EqualBooleans, Zenon
    <3>9. AllSessions'[n] = Store!AtRest(n \in Saved)
      BY <3>5, <3>6, <3>8, Zenon DEF Store!AtRest
    <3> QED
      BY <2>2, <3>9
  <2> QED
    BY <2>1, <2>2
<1>5. AllSessions' =
        [n \in Names |-> IF n \in Mapped' THEN Store!AtRest(n \in Saved) ELSE Store!Closed]
  BY <1>4 DEF AllSessions
<1>6. Mapped' \in SUBSET Names /\ Store!Cardinality(Mapped') <= MaxSessions
  BY <1>1, SameCardinality DEF Mapped, FilesInv, SessionsWithinLimit
<1>7. Store!Recover
  BY <1>2, <1>3, <1>5, <1>6, Zenon DEF Store!Recover
<1>8. ASSUME NEW e \in Known'
      PROVE  engines'[e].db \in Known'
  <2> DEFINE n == engines'[e].name
  <2>1. engines'[e] \in Engines
    BY <1>1, ElementOfSeq DEF FilesInv, FilesType, Known
  <2>2. n \in Names /\ sessions'[n] = e /\ e # 0
    BY <1>1, <2>1 DEF Engines, Discovered, Known
  <2>3. owner'[n] = engines'[e].db
    BY <1>1, <2>2 DEF FilesInv, MappedOwnsDirectory, OwnsDir, Mapped
  <2> QED
    BY <1>1, <2>2, <2>3
<1> QED
  BY <1>7, <1>8 DEF StoreStep, Store!Next, DatabasesKnown

LEMMA FileStepStore ==
  ASSUME FilesInv, DatabasesKnown, FileStep
  PROVE  StoreStep /\ DatabasesKnown'
<1>0. engines \in Seq(Engines) /\ Len(engines) \in Nat
  BY LenProperties DEF FilesInv, FilesType
<1>1. CASE UNCHANGED engines
  <2>1. DatabasesKnown'
    BY <1>1 DEF DatabasesKnown, Known
  <2>2. CASE \E e \in Known : TouchesEngine(e)
    BY <2>1, <2>2, TouchStore
  <2>3. CASE MakesEngine
    BY <2>1, <2>3, OpenedStore DEF MakesEngine
  <2>4. CASE FailsToMake
    BY <2>1, <2>4, CreateFailsStore DEF FailsToMake
  <2>5. CASE DeletesEntry
    BY <2>1, <2>5, DeleteStore DEF DeletesEntry
  <2>6. CASE DropsEntries
    BY <2>1, <2>6, DropStore DEF DropsEntries, store, files
  <2>7. CASE TouchesNothing
    <3>1. AllSessions' = AllSessions /\ Saved' = Saved /\ Astray' = Astray
      BY <2>7 DEF TouchesNothing, store, files, AllSessions, SessionOf, Saved, Astray, OwnsDir
    <3> QED
      BY <2>1, <3>1, UnseenStore
  <2> QED
    BY <2>2, <2>3, <2>4, <2>5, <2>6, <2>7 DEF FileStep
<1>2. CASE \E e \in Known : TouchesEngine(e)
  <2>1. PICK e \in Known : TouchesEngine(e)
    BY <1>2
  <2>2. SameMap /\ Known \subseteq Known'
    BY <2>1, TouchStep, SameMapStep
  <2>3. ASSUME NEW f \in Known'
        PROVE  engines'[f].db \in Known
    <3>1. CASE f \in Known
      BY <2>2, <3>1 DEF SameMap, DatabasesKnown
    <3>2. CASE f \notin Known
      <4>1. RenewsDevice(e)
        <5>1. Len(engines') # Len(engines)
          BY <3>2 DEF Known
        <5>2. ~ChangesLife(e) /\ ~ChangesSocket(e)
          BY <5>1, LifeOrSocketSets DEF OneEngine, SameEngines
        <5>3. ~LinksDevice(e) /\ ~UnlinksDevice(e)
          BY <5>1, LinkSets, UnlinkSets DEF SetCredentials, OneEngine, SameEngines
        <5>4. ~ClearsFile(e)
          BY <5>1 DEF ClearsFile
        <5> QED
          BY <2>1, <5>2, <5>3, <5>4 DEF TouchesEngine
      <4>2. PICK p \in BOOLEAN : NewClient(e, p)
        BY <4>1 DEF RenewsDevice
      <4>3. /\ Len(engines') = Len(engines) + 1
            /\ engines'[Len(engines) + 1] = LeftBehind(e)
        BY <1>0, <3>2, <4>2, NewClientKeeps DEF Known
      <4>4. f = Len(engines) + 1
        BY <1>0, <3>2, <4>3 DEF Known
      <4> QED
        BY <1>0, <4>3, <4>4, LeftBehindIs DEF DatabasesKnown
    <3> QED
      BY <3>1, <3>2
  <2>4. DatabasesKnown'
    BY <2>2, <2>3 DEF DatabasesKnown
  <2> QED
    BY <2>1, <2>4, TouchStore
<1>3. CASE MakesEngine
  <2>1. PICK n \in Names :
            /\ n \notin Mapped /\ Cardinality(Mapped) < MaxSessions
            /\ Opened(n)
            /\ \/ UNCHANGED sessions
               \/ sessions' = [sessions EXCEPT ![n] = Len(engines) + 1]
    BY <1>3 DEF MakesEngine
  <2>2. StoreStep
    BY <2>1, OpenedStore
  <2>3. /\ Len(engines') = Len(engines) + 1
        /\ \A f \in Known : engines'[f] = engines[f]
        /\ engines'[Len(engines) + 1] = NewEngine(n, Len(engines) + 1)
    BY <1>0, <2>1, OpenedFacts DEF FilesInv
  <2>4. FileOpened(n, Len(engines) + 1) \in 1 .. Len(engines) + 1
    BY <1>0 DEF FileOpened, FilesInv, FilesType, Ids
  <2>5. engines'[Len(engines) + 1].db \in 1 .. Len(engines) + 1
    BY <2>3, <2>4 DEF NewEngine
  <2>6. DatabasesKnown'
    BY <1>0, <2>3, <2>5 DEF DatabasesKnown, Known
  <2> QED
    BY <2>2, <2>6
<1> QED
  BY <1>1, <1>2, <1>3 DEF FileStep, FailsToMake, DeletesEntry, DropsEntries, TouchesNothing, store

(* The invariant that the refinement needs.                                *)
StoreInv == IInv /\ DatabasesKnown

LEMMA InitStore == Init => StoreInv /\ Store!Init
<1> SUFFICES ASSUME Init PROVE StoreInv /\ Store!Init
  OBVIOUS
<1>1. Len(engines) = 0 /\ Known = {}
  BY EmptySeq DEF Init, Known
<1>2. StoreInv
  BY <1>1, InitIInv DEF StoreInv, DatabasesKnown
<1>3. AllSessions = [n \in Names |-> Store!Closed]
  BY DEF Init, AllSessions, SessionOf, Store!Closed
<1>4. Saved \in SUBSET Names /\ Astray = {}
  BY <1>1 DEF Saved, Astray, Known
<1> QED
  BY <1>2, <1>3, <1>4 DEF Store!Init

LEMMA NextStore == StoreInv /\ [Next]_vars => StoreInv' /\ StoreStep
<1> SUFFICES ASSUME StoreInv, [Next]_vars PROVE StoreInv' /\ StoreStep
  OBVIOUS
<1>0. FilesInv /\ DatabasesKnown /\ IInv
  BY DEF StoreInv, IInv
<1>1. IInv'
  BY <1>0, NextIInv
<1>2. CASE Restart
  BY <1>0, <1>1, <1>2, DiscoveryStore DEF Restart, StoreInv
<1>3. CASE FileStep
  BY <1>0, <1>1, <1>3, FileStepStore DEF StoreInv
<1> QED
  BY <1>0, <1>2, <1>3, NextFiles

LEMMA InductiveStore == Spec => []StoreInv
<1>1. Init => StoreInv
  BY InitStore
<1>2. StoreInv /\ [Next]_vars => StoreInv'
  BY NextStore
<1> QED
  BY <1>1, <1>2, PTL DEF Spec

(* session.go and engine.go: for any number of sessions, callers, calls    *)
(* and restarts, with the methods of an engine interleaved in any way, the *)
(* session manager implements SessionStore: sessions are independent of    *)
(* each other and limited in number, a device is linked or unlinked only   *)
(* while its session has a connection, and the credentials on disk follow  *)
(* the session that is open, a logout that fails half way included.        *)
THEOREM ImplementsStore == Spec => StoreSpec
<1>1. Init => Store!Init
  BY InitStore
<1>2. StoreInv /\ [Next]_vars => [Store!Next]_(Store!svars)
  BY NextStore DEF StoreStep
<1> QED
  BY <1>1, <1>2, InductiveStore, PTL DEF Spec, StoreSpec, Store!Spec
============================================================================
