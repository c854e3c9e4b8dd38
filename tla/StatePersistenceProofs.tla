------------------------ MODULE StatePersistenceProofs ------------------------
(***************************************************************************)
(* Proofs about the state file, for any handlers, any number of changes    *)
(* and whatever happens besides.                                           *)
(***************************************************************************)
EXTENDS StatePersistence, TLAPS

-----------------------------------------------------------------------------
(* The inductive invariant *)

\* Exactly the handlers that save hold the lock, and they save for a change.
Locked ==
  \A h \in Handlers :
    /\ task[h].pc \in UnderLock <=> h \in lock
    /\ task[h].pc \in UnderLock \cup {"queue"} => task[h].change \in Changes

\* Only a temporary file that was synced is ever renamed.
Renamed ==
  /\ \A h \in Handlers : AtStep(h, "rename") => task[h].temp.whole
  /\ \A image \in landing : image.whole

\* What a save in progress will leave in the file, as long as nothing was undone.
Progress(h) ==
  /\ task[h].pc \in {"queue", "snapshot"} => task[h].change \in inMemory
  /\ task[h].pc \in {"create", "sync", "rename"} =>
       /\ task[h].change \in task[h].snap
       /\ stateFile.has \subseteq task[h].snap
       /\ task[h].snap \subseteq inMemory
  /\ task[h].pc \in {"sync", "rename"} => task[h].temp.has = task[h].snap

Kept ==
  ~disturbed =>
    /\ landing = {}
    /\ acked \subseteq stateFile.has
    /\ stateFile.has \subseteq inMemory
    /\ \A h \in Handlers : Progress(h)

Durable == StoreTypeOK /\ Locked /\ WholeFile /\ Renamed /\ Kept

-----------------------------------------------------------------------------
LEMMA IdleType == Resting \in Task /\ Nothing \in FileImage
BY DEF Resting, Task, Nothing, FileImage, Steps

LEMMA DurableInit == StoreInit => Durable
<1> SUFFICES ASSUME StoreInit PROVE Durable
  OBVIOUS
<1>1. Resting.pc = "idle" /\ Nothing.has = {} /\ Nothing.whole
  BY DEF Resting, Nothing
<1>2. \A h \in Handlers : task[h] = Resting
  BY DEF StoreInit
<1>3. StoreTypeOK
  <2>1. 0 \in 0..MaxChanges
    BY MaxChangesAssumption
  <2>2. inMemory = {} /\ stateFile \in FileImage /\ task \in [Handlers -> Task]
    BY <1>1, IdleType DEF StoreInit
  <2>3. QED BY <2>1, <2>2 DEF StoreInit, StoreTypeOK
<1>4. Locked /\ Renamed
  BY <1>1, <1>2 DEF StoreInit, Locked, Renamed, AtStep, UnderLock
<1>5. WholeFile /\ Kept
  BY <1>1, <1>2 DEF StoreInit, WholeFile, Kept, Progress
<1>6. QED BY <1>3, <1>4, <1>5 DEF Durable

\* The handler of a step, and what the others keep: their tasks.
LEMMA Others ==
  ASSUME task \in [Handlers -> Task], NEW h \in Handlers, NEW r, Becomes(h, r)
  PROVE  /\ task'[h] = r
         /\ \A g \in Handlers \ {h} : task'[g] = task[g]
         /\ r \in Task => task' \in [Handlers -> Task]
BY DEF Becomes

\* At most the handler of a step saves.
LEMMA Alone ==
  ASSUME StoreTypeOK, Locked, NEW h \in Handlers, NEW g \in Handlers,
         task[h].pc \in UnderLock, task[g].pc \in UnderLock
  PROVE  g = h
BY DEF StoreTypeOK, Locked

LEMMA ChangeKeeps ==
  ASSUME Durable, NEW h \in Handlers, Change(h) PROVE Durable'
<1> DEFINE r == [Resting EXCEPT !.pc = "queue", !.change = made + 1]
<1>1. /\ made + 1 \in Changes /\ made + 1 \in 0..MaxChanges
  BY MaxChangesAssumption DEF Change, Durable, StoreTypeOK, Changes
<1>2. r \in Task /\ r.pc = "queue" /\ r.change = made + 1
  BY <1>1, IdleType DEF Task, Steps, Resting
<1> HIDE DEF r
<1>3. Becomes(h, r)
  BY DEF Change, r
<1>4. /\ task'[h] = r
      /\ \A g \in Handlers \ {h} : task'[g] = task[g]
      /\ task' \in [Handlers -> Task]
  BY <1>2, <1>3, Others DEF Durable, StoreTypeOK
<1>5. StoreTypeOK'
  BY <1>1, <1>4 DEF Durable, StoreTypeOK, Change
<1>6. Locked'
  BY <1>1, <1>2, <1>4 DEF Durable, Locked, Change, AtStep, UnderLock
<1>7. WholeFile' /\ Renamed'
  BY <1>2, <1>4 DEF Durable, WholeFile, Renamed, Change, AtStep
<1>8. Kept'
  BY <1>2, <1>4 DEF Durable, Kept, Progress, Change
<1>9. QED BY <1>5, <1>6, <1>7, <1>8 DEF Durable

\* The common part of the steps of a handler's own save.
LEMMA SavingKeeps ==
  ASSUME Durable, NEW h \in Handlers, NEW r \in Task, Becomes(h, r),
         task[h].pc \in UnderLock, r.pc \in UnderLock, r.change = task[h].change,
         r.pc = "rename" => r.temp.whole,
         ~disturbed => /\ r.pc = "snapshot" => r.change \in inMemory
                       /\ r.pc \in {"create", "sync", "rename"} =>
                            /\ r.change \in r.snap
                            /\ stateFile.has \subseteq r.snap
                            /\ r.snap \subseteq inMemory
                       /\ r.pc \in {"sync", "rename"} => r.temp.has = r.snap,
         UNCHANGED <<inMemory, made, lock, stateFile, landing, acked, disturbed>>
  PROVE  Durable'
<1>1. /\ task'[h] = r
      /\ \A g \in Handlers \ {h} : task'[g] = task[g]
      /\ task' \in [Handlers -> Task]
  BY Others DEF Durable, StoreTypeOK
<1>2. StoreTypeOK'
  BY <1>1 DEF Durable, StoreTypeOK
<1>3. Locked'
  BY <1>1 DEF Durable, Locked
<1>4. WholeFile' /\ Renamed'
  BY <1>1 DEF Durable, WholeFile, Renamed, AtStep
<1>5. Kept'
  BY <1>1 DEF Durable, Kept, Progress, UnderLock
<1>6. QED BY <1>2, <1>3, <1>4, <1>5 DEF Durable

LEMMA SnapshotKeeps ==
  ASSUME Durable, NEW h \in Handlers, Snapshot(h) PROVE Durable'
<1> DEFINE r == [task[h] EXCEPT !.snap = inMemory, !.pc = "create"]
<1>1. task[h] \in Task /\ task[h].pc = "snapshot" /\ inMemory \in SUBSET Changes
  BY DEF Durable, StoreTypeOK, Snapshot, AtStep
<1>2. r \in Task /\ r.pc = "create" /\ r.snap = inMemory /\ r.change = task[h].change
  BY <1>1 DEF Task, Steps
<1>3. ~disturbed => task[h].change \in inMemory /\ stateFile.has \subseteq inMemory
  BY <1>1 DEF Durable, Kept, Progress
<1>4. Becomes(h, r) /\ UNCHANGED <<inMemory, made, lock, stateFile, landing, acked, disturbed>>
  BY DEF Snapshot
<1> HIDE DEF r
<1>5. QED BY <1>1, <1>2, <1>3, <1>4, SavingKeeps DEF UnderLock

LEMMA CreateKeeps ==
  ASSUME Durable, NEW h \in Handlers, Create(h) PROVE Durable'
<1> DEFINE image == [has |-> task[h].snap, whole |-> FALSE]
           r == [task[h] EXCEPT !.temp = image, !.pc = "sync"]
<1>1. task[h] \in Task /\ task[h].pc = "create"
  BY DEF Durable, StoreTypeOK, Create, AtStep
<1>2. image \in FileImage /\ image.has = task[h].snap
  BY <1>1 DEF Task, FileImage
<1>3. Becomes(h, r) /\ UNCHANGED <<inMemory, made, lock, stateFile, landing, acked, disturbed>>
  BY DEF Create
<1> HIDE DEF image
<1>4. /\ r \in Task /\ r.pc = "sync" /\ r.temp = image
      /\ r.snap = task[h].snap /\ r.change = task[h].change
  BY <1>1, <1>2 DEF Task, Steps
<1> HIDE DEF r
<1>5. ~disturbed => /\ task[h].change \in task[h].snap
                    /\ stateFile.has \subseteq task[h].snap
                    /\ task[h].snap \subseteq inMemory
  BY <1>1 DEF Durable, Kept, Progress
<1>6. QED BY <1>1, <1>2, <1>3, <1>4, <1>5, SavingKeeps DEF UnderLock

LEMMA SyncKeeps ==
  ASSUME Durable, NEW h \in Handlers, Sync(h) PROVE Durable'
<1> DEFINE r == [task[h] EXCEPT !.temp = Synced(h), !.pc = "rename"]
<1>1. task[h] \in Task /\ task[h].pc = "sync"
  BY DEF Durable, StoreTypeOK, Sync, AtStep
<1>2. Synced(h) \in FileImage /\ Synced(h).whole /\ Synced(h).has = task[h].temp.has
  BY <1>1 DEF Task, FileImage, Synced
<1>3. Becomes(h, r) /\ UNCHANGED <<inMemory, made, lock, stateFile, landing, acked, disturbed>>
  BY DEF Sync
<1>4. /\ r \in Task /\ r.pc = "rename" /\ r.temp = Synced(h)
      /\ r.snap = task[h].snap /\ r.change = task[h].change
  BY <1>1, <1>2 DEF Task, Steps
<1> HIDE DEF r
<1>5. ~disturbed => /\ task[h].change \in task[h].snap
                    /\ stateFile.has \subseteq task[h].snap
                    /\ task[h].snap \subseteq inMemory
                    /\ task[h].temp.has = task[h].snap
  BY <1>1 DEF Durable, Kept, Progress
<1>6. QED BY <1>1, <1>2, <1>3, <1>4, <1>5, SavingKeeps DEF UnderLock

LEMMA AcquireKeeps ==
  ASSUME Durable, NEW h \in Handlers, Acquire(h) PROVE Durable'
<1> DEFINE r == [task[h] EXCEPT !.pc = "snapshot"]
<1>1. task[h] \in Task /\ task[h].pc = "queue" /\ lock = {} /\ lock' = {h}
  BY DEF Durable, StoreTypeOK, Acquire, AtStep, Free
<1>2. Becomes(h, r) /\ UNCHANGED <<inMemory, made, stateFile, landing, acked, disturbed>>
  BY DEF Acquire
<1>3. r \in Task /\ r.pc = "snapshot" /\ r.change = task[h].change
  BY <1>1 DEF Task, Steps
<1> HIDE DEF r
<1>4. /\ task'[h] = r
      /\ \A g \in Handlers \ {h} : task'[g] = task[g]
      /\ task' \in [Handlers -> Task]
  BY <1>2, <1>3, Others DEF Durable, StoreTypeOK
<1>5. StoreTypeOK'
  BY <1>1, <1>2, <1>4 DEF Durable, StoreTypeOK
<1>6. Locked'
  BY <1>1, <1>3, <1>4 DEF Durable, Locked, UnderLock
<1>7. WholeFile' /\ Renamed'
  BY <1>2, <1>3, <1>4 DEF Durable, WholeFile, Renamed, AtStep
<1>8. Kept'
  BY <1>1, <1>2, <1>3, <1>4 DEF Durable, Kept, Progress
<1>9. QED BY <1>5, <1>6, <1>7, <1>8 DEF Durable

\* A handler that goes back to idle, with its lock, leaves the others as they are.
LEMMA Leaves ==
  ASSUME StoreTypeOK, Locked, NEW h \in Handlers, Becomes(h, Resting),
         lock' = LockAfter(h) \/ (lock' = lock /\ task[h].pc \notin UnderLock)
  PROVE  /\ task'[h] = Resting
         /\ \A g \in Handlers \ {h} : task'[g] = task[g]
         /\ task' \in [Handlers -> Task]
         /\ lock' \subseteq Handlers /\ \A f, g \in lock' : f = g
         /\ Locked'
<1>1. /\ task'[h] = Resting
      /\ \A g \in Handlers \ {h} : task'[g] = task[g]
      /\ task' \in [Handlers -> Task]
  BY IdleType, Others DEF StoreTypeOK
<1>2. lock' \subseteq lock /\ \A g \in Handlers \ {h} : g \in lock' <=> g \in lock
  BY DEF LockAfter
<1>3. h \notin lock'
  BY DEF LockAfter, Locked
<1>4. Resting.pc = "idle"
  BY DEF Resting
<1>5. Locked'
  BY <1>1, <1>2, <1>3, <1>4 DEF Locked, UnderLock
<1>6. QED BY <1>1, <1>2, <1>5 DEF StoreTypeOK

LEMMA RenameKeeps ==
  ASSUME Durable, NEW h \in Handlers, Rename(h)
  PROVE  Durable' /\ (disturbed \/ stateFile.has \subseteq stateFile'.has)
<1>1. /\ task[h] \in Task /\ task[h].pc = "rename"
      /\ task[h].change \in Changes /\ task[h].temp.whole
  BY DEF Durable, StoreTypeOK, Rename, AtStep, Locked, Renamed, UnderLock
<1>2. /\ stateFile' = task[h].temp /\ lock' = LockAfter(h) /\ Becomes(h, Resting)
      /\ acked' = acked \cup {task[h].change}
      /\ UNCHANGED <<inMemory, made, landing, disturbed>>
  BY DEF Rename
<1>3. /\ task'[h] = Resting
      /\ \A g \in Handlers \ {h} : task'[g] = task[g]
      /\ task' \in [Handlers -> Task]
      /\ lock' \subseteq Handlers /\ \A f, g \in lock' : f = g
      /\ Locked'
  BY <1>2, Leaves DEF Durable
<1>4. StoreTypeOK'
  BY <1>1, <1>2, <1>3 DEF Durable, StoreTypeOK, Task
<1>5. WholeFile'
  BY <1>1, <1>2 DEF WholeFile
<1>6. Renamed'
  BY <1>2, <1>3 DEF Durable, Renamed, AtStep, Resting
<1>7. ~disturbed => /\ task[h].change \in stateFile'.has
                    /\ stateFile.has \subseteq stateFile'.has
                    /\ stateFile'.has \subseteq inMemory
  BY <1>1, <1>2 DEF Durable, Kept, Progress
<1>8. Kept'
  <2>1. SUFFICES ASSUME ~disturbed
                 PROVE  landing' = {} /\ acked' \subseteq stateFile'.has
                        /\ stateFile'.has \subseteq inMemory' /\ \A g \in Handlers : Progress(g)'
    BY <1>2 DEF Kept
  <2>2. landing' = {} /\ acked' \subseteq stateFile'.has /\ stateFile'.has \subseteq inMemory'
    BY <1>2, <1>7, <2>1 DEF Durable, Kept
  <2>3. Progress(h)'
    BY <1>3 DEF Progress, Resting
  <2>4. ASSUME NEW g \in Handlers \ {h} PROVE Progress(g)'
    <3>1. task'[g] = task[g] /\ Progress(g)
      BY <1>3, <2>1 DEF Durable, Kept
    <3>2. task[g].pc \notin UnderLock
      BY <1>1, Alone DEF Durable, UnderLock
    <3>3. QED BY <1>2, <3>1, <3>2 DEF Progress, UnderLock
  <2>5. QED BY <2>2, <2>3, <2>4
<1>9. QED BY <1>3, <1>4, <1>5, <1>6, <1>7, <1>8 DEF Durable

\* The steps after which a handler is idle and the file is as before.
LEMMA GivingUpKeeps ==
  ASSUME Durable, NEW h \in Handlers, Becomes(h, Resting),
         lock' = LockAfter(h) \/ (lock' = lock /\ task[h].pc \notin UnderLock),
         landing' \subseteq FileImage, \A image \in landing' : image.whole,
         inMemory' \subseteq Changes, disturbed' \in BOOLEAN,
         ~disturbed' => ~disturbed /\ landing' = landing /\ inMemory \subseteq inMemory',
         UNCHANGED <<made, stateFile, acked>>
  PROVE  Durable'
<1>1. /\ task'[h] = Resting
      /\ \A g \in Handlers \ {h} : task'[g] = task[g]
      /\ task' \in [Handlers -> Task]
      /\ lock' \subseteq Handlers /\ \A f, g \in lock' : f = g
      /\ Locked'
  BY Leaves DEF Durable
<1>2. StoreTypeOK'
  BY <1>1 DEF Durable, StoreTypeOK
<1>3. WholeFile' /\ Renamed'
  BY <1>1 DEF Durable, WholeFile, Renamed, AtStep, Resting
<1>4. Kept'
  <2>1. SUFFICES ASSUME ~disturbed'
                 PROVE  landing' = {} /\ acked' \subseteq stateFile'.has
                        /\ stateFile'.has \subseteq inMemory' /\ \A g \in Handlers : Progress(g)'
    BY DEF Kept
  <2>2. landing' = {} /\ acked' \subseteq stateFile'.has /\ stateFile'.has \subseteq inMemory'
    BY <2>1 DEF Durable, Kept
  <2>3. Progress(h)'
    BY <1>1 DEF Progress, Resting
  <2>4. ASSUME NEW g \in Handlers \ {h} PROVE Progress(g)'
    BY <1>1, <2>1 DEF Durable, Kept, Progress
  <2>5. QED BY <2>2, <2>3, <2>4
<1>5. QED BY <1>1, <1>2, <1>3, <1>4 DEF Durable

LEMMA SaveFailsKeeps ==
  ASSUME Durable, NEW h \in Handlers, SaveFails(h) PROVE Durable'
BY GivingUpKeeps DEF SaveFails, AckedOnError, Durable, StoreTypeOK, Renamed

LEMMA ReloadAssignKeeps ==
  ASSUME Durable, NEW h \in Handlers, ReloadAssign(h) PROVE Durable'
<1>1. task[h] \in Task /\ task[h].pc \notin UnderLock
  BY DEF Durable, StoreTypeOK, ReloadAssign, AtStep, UnderLock
<1>2. inMemory' \subseteq Changes /\ disturbed' \in BOOLEAN
  BY <1>1 DEF Durable, StoreTypeOK, ReloadAssign, Task
<1>3. ~disturbed' => ~disturbed /\ inMemory \subseteq inMemory'
  BY DEF ReloadAssign
<1>4. QED BY <1>1, <1>2, <1>3, GivingUpKeeps DEF ReloadAssign, Durable, StoreTypeOK, Renamed

LEMMA DisconnectKeeps ==
  ASSUME Durable, NEW h \in Handlers, DropHandler(h) PROVE Durable'
<1>1. task[h] \in Task /\ inMemory \subseteq Changes
  BY DEF Durable, StoreTypeOK
<1>2. landing' \subseteq FileImage /\ \A image \in landing' : image.whole
  BY <1>1 DEF Durable, StoreTypeOK, Renamed, DropHandler, Task
<1>3. disturbed' \in BOOLEAN /\ (~disturbed' => ~disturbed /\ landing' = landing)
  BY DEF Durable, StoreTypeOK, DropHandler
<1>4. QED BY <1>1, <1>2, <1>3, GivingUpKeeps DEF DropHandler

LEMMA ReloadReadKeeps ==
  ASSUME Durable, NEW h \in Handlers, ReloadRead(h) PROVE Durable'
<1> DEFINE r == [Resting EXCEPT !.snap = stateFile.has, !.pc = "assign"]
<1>1. stateFile.has \in SUBSET Changes /\ task[h].pc = "idle"
  BY DEF Durable, StoreTypeOK, FileImage, ReloadRead, AtStep
<1>2. r \in Task /\ r.pc = "assign"
  BY <1>1, IdleType DEF Task, Steps, Resting
<1>3. Becomes(h, r) /\ UNCHANGED <<inMemory, made, lock, stateFile, landing, acked, disturbed>>
  BY DEF ReloadRead
<1> HIDE DEF r
<1>4. /\ task'[h] = r
      /\ \A g \in Handlers \ {h} : task'[g] = task[g]
      /\ task' \in [Handlers -> Task]
  BY <1>2, <1>3, Others DEF Durable, StoreTypeOK
<1>5. StoreTypeOK'
  BY <1>3, <1>4 DEF Durable, StoreTypeOK
<1>6. Locked'
  BY <1>1, <1>2, <1>3, <1>4 DEF Durable, Locked, UnderLock
<1>7. WholeFile' /\ Renamed'
  BY <1>2, <1>3, <1>4 DEF Durable, WholeFile, Renamed, AtStep
<1>8. Kept'
  BY <1>2, <1>3, <1>4 DEF Durable, Kept, Progress
<1>9. QED BY <1>5, <1>6, <1>7, <1>8 DEF Durable

\* An abandoned rename only lands after a disturbance.
LEMMA LandKeeps ==
  ASSUME Durable, NEW image \in landing, Land(image) PROVE Durable' /\ disturbed
<1>1. disturbed /\ disturbed'
  BY DEF Durable, StoreTypeOK, Kept, Land
<1>2. image \in FileImage /\ image.whole /\ landing' \subseteq landing
  BY DEF Durable, StoreTypeOK, Renamed, Land
<1>3. StoreTypeOK' /\ Locked' /\ WholeFile' /\ Renamed'
  BY <1>2 DEF Durable, StoreTypeOK, Locked, WholeFile, Renamed, Land, AtStep
<1>4. QED BY <1>1, <1>3 DEF Durable, Kept

LEMMA KillKeeps == ASSUME Durable, Kill PROVE Durable'
<1>1. \A h \in Handlers : task'[h] = Resting
  BY DEF Kill
<1>2. inMemory' \subseteq Changes /\ task' \in [Handlers -> Task]
  BY IdleType DEF Durable, StoreTypeOK, FileImage, Kill
<1>3. StoreTypeOK'
  BY <1>2 DEF Durable, StoreTypeOK, Kill
<1>4. Locked' /\ Renamed' /\ WholeFile'
  BY <1>1 DEF Kill, Durable, Locked, Renamed, WholeFile, AtStep, Resting, UnderLock
<1>5. Kept'
  BY <1>1 DEF Kill, Durable, Kept, Progress, Resting
<1>6. QED BY <1>3, <1>4, <1>5 DEF Durable

LEMMA DurableUnchanged == ASSUME Durable, UNCHANGED storeVars PROVE Durable'
BY DEF storeVars, Durable, StoreTypeOK, Locked, WholeFile, Renamed, Kept, Progress, AtStep

LEMMA DurableStep == ASSUME Durable, [StoreNext]_storeVars PROVE Durable'
<1>1. CASE UNCHANGED storeVars
  BY <1>1, DurableUnchanged
<1>2. ASSUME NEW h \in Handlers,
             \/ Change(h) \/ ReloadRead(h)
             \/ Step(h) \/ SaveFails(h) \/ DropHandler(h)
      PROVE  Durable'
  BY <1>2, ChangeKeeps, ReloadReadKeeps, AcquireKeeps, SnapshotKeeps, CreateKeeps,
     SyncKeeps, RenameKeeps, ReloadAssignKeeps, SaveFailsKeeps, DisconnectKeeps DEF Step
<1>3. ASSUME NEW image \in landing, Land(image) PROVE Durable'
  BY <1>3, LandKeeps
<1>4. CASE Kill
  BY <1>4, KillKeeps
<1>5. QED BY <1>1, <1>2, <1>3, <1>4 DEF StoreNext

-----------------------------------------------------------------------------
(* Theorems *)

THEOREM AlwaysDurable == StoreSpec => []Durable
<1>1. StoreInit => Durable
  BY DurableInit
<1>2. Durable /\ [StoreNext]_storeVars => Durable'
  BY DurableStep
<1>3. QED BY <1>1, <1>2, PTL DEF StoreSpec

\* Every reachable state is well typed; in particular at most one handler is in
\* persist_from_runtime's section under persist_lock.
THEOREM TypeCorrect == StoreSpec => []StoreTypeOK
<1>1. Durable => StoreTypeOK
  BY DEF Durable
<1>2. QED BY <1>1, AlwaysDurable, PTL

\* The state file is one complete snapshot at every moment at which
\* save_state_file can be interrupted.
THEOREM FileAlwaysWhole == StoreSpec => []WholeFile
<1>1. Durable => WholeFile
  BY DEF Durable
<1>2. QED BY <1>1, AlwaysDurable, PTL

\* What a handler has answered with success is in the state file, unless a rename
\* was abandoned or reload_settings has undone a change.
THEOREM AckedAlwaysKept == StoreSpec => []AckedIsSaved
<1>1. Durable => AckedIsSaved
  BY DEF Durable, Kept, AckedIsSaved
<1>2. QED BY <1>1, AlwaysDurable, PTL

-----------------------------------------------------------------------------
(* The refinement *)

LEMMA StoreBegins == StoreInit => Store!Init
<1>1. Nothing.has = {} /\ Nothing.whole
  BY DEF Nothing
<1>2. QED BY <1>1 DEF StoreInit, Readable, Store!Init

\* A rename is a save of the abstract store.
LEMMA RenameSaves == ASSUME Durable, NEW h \in Handlers, Rename(h) PROVE Store!Save
<1>1. Durable' /\ (disturbed \/ stateFile.has \subseteq stateFile'.has)
  BY RenameKeeps
<1>2. Readable = stateFile.has /\ Readable' = stateFile'.has
  BY <1>1 DEF Durable, WholeFile, Readable
<1>3. acked \subseteq acked' /\ disturbed' = disturbed
  BY DEF Rename
<1>4. ~disturbed => acked' \ acked \subseteq stateFile'.has
  BY <1>1, <1>3 DEF Durable, Kept
<1>5. stateFile'.has \in SUBSET Changes /\ acked' \in SUBSET Changes
  BY <1>1 DEF Durable, StoreTypeOK, FileImage
<1>6. QED BY <1>1, <1>2, <1>3, <1>4, <1>5 DEF Store!Save

\* So is an abandoned one, once the promise is void.
LEMMA LandSaves == ASSUME Durable, NEW image \in landing, Land(image) PROVE Store!Save
<1>1. Durable' /\ disturbed
  BY LandKeeps
<1>2. Readable' = stateFile'.has
  BY <1>1 DEF Durable, WholeFile, Readable
<1>3. acked' = acked /\ disturbed' = disturbed
  BY DEF Land
<1>4. stateFile'.has \in SUBSET Changes /\ acked' \in SUBSET Changes
  BY <1>1 DEF Durable, StoreTypeOK, FileImage
<1>5. QED BY <1>1, <1>2, <1>3, <1>4 DEF Store!Save

\* The steps that leave the file and the answers alone stutter, or void the promise.
LEMMA FileKept ==
  ASSUME Durable, UNCHANGED <<stateFile, acked>>, disturbed' = disturbed \/ disturbed' = TRUE
  PROVE  Store!Loosen \/ UNCHANGED <<Readable, acked, disturbed>>
BY DEF Store!Loosen, Readable

LEMMA HandlerKeepsFile ==
  ASSUME Durable, NEW h \in Handlers, ~Rename(h),
         \/ Change(h) \/ ReloadRead(h)
         \/ Step(h) \/ SaveFails(h) \/ DropHandler(h)
  PROVE  UNCHANGED <<stateFile, acked>> /\ (disturbed' = disturbed \/ disturbed' = TRUE)
<1>1. disturbed \in BOOLEAN
  BY DEF Durable, StoreTypeOK
<1>2. CASE Change(h) \/ ReloadRead(h) \/ Acquire(h) \/ Snapshot(h) \/ Create(h) \/ Sync(h)
  BY <1>2 DEF Change, ReloadRead, Acquire, Snapshot, Create, Sync
<1>3. CASE SaveFails(h)
  BY <1>3 DEF SaveFails, AckedOnError
<1>4. CASE ReloadAssign(h)
  BY <1>1, <1>4 DEF ReloadAssign
<1>5. CASE DropHandler(h)
  BY <1>1, <1>5 DEF DropHandler
<1>6. QED BY <1>2, <1>3, <1>4, <1>5 DEF Step

LEMMA StoreStep ==
  ASSUME Durable, [StoreNext]_storeVars PROVE [Store!Next]_<<Readable, acked, disturbed>>
<1>1. ASSUME NEW h \in Handlers, Rename(h) PROVE Store!Next
  BY <1>1, RenameSaves DEF Store!Next
<1>2. ASSUME NEW image \in landing, Land(image) PROVE Store!Next
  BY <1>2, LandSaves DEF Store!Next
<1>3. ASSUME NEW h \in Handlers, ~Rename(h),
             \/ Change(h) \/ ReloadRead(h)
             \/ Step(h) \/ SaveFails(h) \/ DropHandler(h)
      PROVE  [Store!Next]_<<Readable, acked, disturbed>>
  <2>1. UNCHANGED <<stateFile, acked>> /\ (disturbed' = disturbed \/ disturbed' = TRUE)
    BY <1>3, HandlerKeepsFile
  <2>2. QED BY <2>1, FileKept DEF Store!Next
<1>4. CASE Kill
  <2>1. UNCHANGED <<stateFile, acked>> /\ disturbed' = disturbed
    BY <1>4 DEF Kill
  <2>2. QED BY <2>1, FileKept DEF Store!Next
<1>5. CASE UNCHANGED storeVars
  <2>1. UNCHANGED <<stateFile, acked>> /\ disturbed' = disturbed
    BY <1>5 DEF storeVars
  <2>2. QED BY <2>1, FileKept DEF Store!Next
<1>6. QED BY <1>1, <1>2, <1>3, <1>4, <1>5 DEF StoreNext

\* From outside, the protocol under persist_lock is a store that can always be read,
\* only grows and acknowledges only what it holds, until a rename is abandoned or a
\* reload undoes a change.
THEOREM StoreImplemented == StoreSpec => ImplementsStore
<1>1. StoreInit => Store!Init
  BY StoreBegins
<1>2. Durable /\ [StoreNext]_storeVars => [Store!Next]_<<Readable, acked, disturbed>>
  BY StoreStep
<1>3. QED BY <1>1, <1>2, AlwaysDurable, PTL DEF StoreSpec, ImplementsStore, Store!Spec, Store!storeVars
=============================================================================
