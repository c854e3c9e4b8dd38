--------------------------- MODULE StatePersistence ---------------------------
(***************************************************************************)
(* The daemon's state file (crates/tunnelmuxd/src): every handler that     *)
(* changes the persisted state saves a snapshot of it under persist_lock   *)
(* (persist_from_runtime in runtime.rs) by writing, syncing and renaming a *)
(* temporary file (save_state_file in persistence.rs), and answers once    *)
(* the rename is done. reload_settings (api.rs) reads the file back into   *)
(* memory when there is no config file. The process may be killed at any   *)
(* moment and started again.                                               *)
(*                                                                         *)
(* A state is the set of the changes it reflects, and a change is a number *)
(* (a route that was added). One action is what a handler does between two *)
(* awaits.                                                                 *)
(***************************************************************************)
EXTENDS Naturals

CONSTANTS
  Handlers,     \* tasks that serve requests
  MaxChanges,   \* bound: how many changes are made
  Events        \* what may happen besides changes and their saves

\* io: the disk refuses an operation; disconnect: the client goes away and the
\* server drops its handler; kill: the process dies and is started again;
\* reload: POST /v1/settings/reload without a config file.
EventKinds == {"io", "disconnect", "kill", "reload"}

ASSUME MaxChangesAssumption == MaxChanges \in Nat
ASSUME EventsAssumption == Events \subseteq EventKinds

VARIABLES
  inMemory,   \* RuntimeState::persisted
  made,       \* the number of changes made so far
  lock,       \* persist_lock: nobody or the handler that holds it
  task,       \* what every handler is doing
  stateFile,  \* the state file
  landing,    \* renames on the blocking pool that nobody awaits any more
  acked,      \* history: the changes that were answered with success
  disturbed   \* history: a rename was abandoned, or a reload undid a change

storeVars == <<inMemory, made, lock, task, stateFile, landing, acked, disturbed>>

-----------------------------------------------------------------------------
(* Types *)

Changes == 1..MaxChanges
FileImage == [has: SUBSET Changes, whole: BOOLEAN]   \* what a file holds

Steps == {"idle",
          "queue",                        \* at persist_lock
          "snapshot", "create",           \* persist_from_runtime
          "sync", "rename",               \* save_state_file
          "assign"}                       \* reload_settings
UnderLock == {"snapshot", "create", "sync", "rename"}

\* change: what it is about to answer for; 0 is none.
Task == [pc: Steps, change: {0} \cup Changes, snap: SUBSET Changes, temp: FileImage]

Nothing == [has |-> {}, whole |-> TRUE]
Resting == [pc |-> "idle", change |-> 0, snap |-> {}, temp |-> Nothing]

AtStep(h, step) == task[h].pc = step
Becomes(h, r) == task' = [task EXCEPT ![h] = r]

\* The lock once a handler has returned or was dropped. (Mutant: it is kept.)
LockAfter_Kept(h) == lock
LockAfter(h) == lock \ {h}

\* The daemon has loaded its state file.
StoreInit ==
  /\ stateFile = Nothing
  /\ inMemory = stateFile.has
  /\ made = 0
  /\ lock = {}
  /\ task = [h \in Handlers |-> Resting]
  /\ landing = {}
  /\ acked = {}
  /\ disturbed = FALSE

-----------------------------------------------------------------------------
(* A change and its save *)

\* The handler's critical section on the runtime mutex (add_route).
Change(h) ==
  /\ AtStep(h, "idle")
  /\ made < MaxChanges
  /\ made' = made + 1
  /\ inMemory' = inMemory \cup {made + 1}
  /\ Becomes(h, [Resting EXCEPT !.pc = "queue", !.change = made + 1])
  /\ UNCHANGED <<lock, stateFile, landing, acked, disturbed>>

\* persist_lock.lock().
Free == lock = {}

Acquire(h) ==
  /\ AtStep(h, "queue")
  /\ Free
  /\ lock' = lock \cup {h}
  /\ Becomes(h, [task[h] EXCEPT !.pc = "snapshot"])
  /\ UNCHANGED <<inMemory, made, stateFile, landing, acked, disturbed>>

Snapshot(h) ==
  /\ AtStep(h, "snapshot")
  /\ Becomes(h, [task[h] EXCEPT !.snap = inMemory, !.pc = "create"])
  /\ UNCHANGED <<inMemory, made, lock, stateFile, landing, acked, disturbed>>

\* The temporary file is created and written; what is in it so far is not whole.
Create(h) ==
  /\ AtStep(h, "create")
  /\ Becomes(h, [task[h] EXCEPT !.temp = [has |-> task[h].snap, whole |-> FALSE],
                                !.pc = "sync"])
  /\ UNCHANGED <<inMemory, made, lock, stateFile, landing, acked, disturbed>>

\* sync_all. (Mutant: the data is still on its way when it returns.)
Synced_Not(h) == task[h].temp
Synced(h) == [task[h].temp EXCEPT !.whole = TRUE]

Sync(h) ==
  /\ AtStep(h, "sync")
  /\ Becomes(h, [task[h] EXCEPT !.temp = Synced(h), !.pc = "rename"])
  /\ UNCHANGED <<inMemory, made, lock, stateFile, landing, acked, disturbed>>

\* The rename is done; the lock is released and the client has its answer.
Rename(h) ==
  /\ AtStep(h, "rename")
  /\ stateFile' = task[h].temp
  /\ lock' = LockAfter(h)
  /\ acked' = acked \cup {task[h].change}
  /\ Becomes(h, Resting)
  /\ UNCHANGED <<inMemory, made, landing, disturbed>>

\* The disk refuses: an error is answered, and what was changed stays in memory.
\* (Mutant: the error is swallowed.)
AckedOnError_Success(h) == acked \cup {task[h].change}
AckedOnError(h) == acked

SaveFails(h) ==
  /\ "io" \in Events
  /\ task[h].pc \in {"create", "sync", "rename"}
  /\ lock' = LockAfter(h)
  /\ acked' = AckedOnError(h)
  /\ Becomes(h, Resting)
  /\ UNCHANGED <<inMemory, made, stateFile, landing, disturbed>>

-----------------------------------------------------------------------------
(* reload_settings without a config file *)

ReloadRead(h) ==
  /\ "reload" \in Events
  /\ AtStep(h, "idle")
  /\ stateFile.whole
  /\ Becomes(h, [Resting EXCEPT !.snap = stateFile.has, !.pc = "assign"])
  /\ UNCHANGED <<inMemory, made, lock, stateFile, landing, acked, disturbed>>

ReloadAssign(h) ==
  /\ AtStep(h, "assign")
  /\ inMemory' = task[h].snap
  /\ disturbed' = (disturbed \/ ~(inMemory \subseteq task[h].snap))
  /\ Becomes(h, Resting)
  /\ UNCHANGED <<made, lock, stateFile, landing, acked>>

-----------------------------------------------------------------------------
(* The environment *)

\* A handler is dropped where it awaits: the lock's guard goes with it, but a
\* rename that the blocking pool has in hand is carried out all the same.
DropHandler(h) ==
  /\ "disconnect" \in Events
  /\ ~AtStep(h, "idle")
  /\ landing' = IF AtStep(h, "rename") THEN landing \cup {task[h].temp} ELSE landing
  /\ disturbed' = (disturbed \/ AtStep(h, "rename"))
  /\ lock' = LockAfter(h)
  /\ Becomes(h, Resting)
  /\ UNCHANGED <<inMemory, made, stateFile, acked>>

\* An abandoned rename.
Land(image) ==
  /\ image \in landing
  /\ landing' = landing \ {image}
  /\ stateFile' = image
  /\ UNCHANGED <<inMemory, made, lock, task, acked, disturbed>>

\* The process is killed, and started again from the state file.
Kill ==
  /\ "kill" \in Events
  /\ stateFile.whole
  /\ inMemory' = stateFile.has
  /\ lock' = {}
  /\ task' = [h \in Handlers |-> Resting]
  /\ landing' = {}
  /\ UNCHANGED <<made, stateFile, acked, disturbed>>

-----------------------------------------------------------------------------
Step(h) ==
  \/ Acquire(h) \/ Snapshot(h) \/ Create(h) \/ Sync(h) \/ Rename(h)
  \/ ReloadAssign(h)

StoreNext ==
  \/ \E h \in Handlers : \/ Change(h) \/ ReloadRead(h)
                         \/ Step(h) \/ SaveFails(h) \/ DropHandler(h)
  \/ \E image \in landing : Land(image)
  \/ Kill

StoreSpec == StoreInit /\ [][StoreNext]_storeVars

\* Handlers are polled, the disk answers and the lock is handed on in turn
\* (tokio's Mutex is fair; with finitely many changes weak fairness suffices).
StoreFairness == \A h \in Handlers : WF_storeVars(Step(h))

FairStoreSpec == StoreSpec /\ StoreFairness

-----------------------------------------------------------------------------
(* Properties *)

StoreTypeOK ==
  /\ inMemory \subseteq Changes
  /\ made \in 0..MaxChanges
  /\ lock \subseteq Handlers /\ \A g, h \in lock : g = h
  /\ task \in [Handlers -> Task]
  /\ stateFile \in FileImage
  /\ landing \subseteq FileImage
  /\ acked \subseteq Changes
  /\ disturbed \in BOOLEAN

\* Wherever the process is killed, the state file is one complete snapshot: the
\* next start can read it.
WholeFile == stateFile.whole

\* A change that was answered with success is in the state file, and stays there
\* through later saves, failed saves and restarts; unless a rename was abandoned
\* or a reload has undone changes.
AckedIsSaved == ~disturbed => acked \subseteq stateFile.has

\* A save always comes to an end: no handler that failed or was dropped keeps the
\* others from saving.
Answered == \A h \in Handlers : AtStep(h, "queue") ~> AtStep(h, "idle")

\* What the next start reads; of a torn file, what no store holds.
Readable == IF stateFile.whole THEN stateFile.has ELSE {0}

Store == INSTANCE DurableStore WITH stored <- Readable, loose <- disturbed

\* The saves of all handlers, their failures, the dropped ones and the restarts are,
\* from outside, the steps of a store that only grows and acknowledges only what it
\* holds; with the same exceptions, and without them for being readable.
ImplementsStore == Store!Spec

\* What AckedIsSaved says, without its exceptions: success is never answered for a
\* change that the state file lacks.
AckedAlwaysSaved == acked \subseteq stateFile.has

=============================================================================
