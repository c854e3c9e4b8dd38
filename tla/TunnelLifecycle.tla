--------------------------- MODULE TunnelLifecycle ---------------------------
(***************************************************************************)
(* The tunnel lifecycle of the daemon (crates/tunnelmuxd/src): the runtime *)
(* maps guarded by the runtime mutex (RuntimeState in lib.rs), the HTTP    *)
(* handlers start_tunnel, stop_tunnel and delete_tunnel (api.rs), the      *)
(* reconcile pass with its auto restarts (runtime.rs), which the monitor   *)
(* task and the status, dashboard and workspace handlers all run, and the  *)
(* teardown of DaemonHandle::shutdown (lib.rs).                            *)
(*                                                                         *)
(* One action is one section of a task between two awaits: what a task     *)
(* does while it holds the runtime mutex is atomic, and any other task may *)
(* run whenever a task awaits the mutex, a child process or the disk.      *)
(*                                                                         *)
(* A provider process is named by the generation of the start that spawned *)
(* it: a start takes a new generation and spawns at most one process.      *)
(* Generation 0 stands for "none".                                         *)
(***************************************************************************)
EXTENDS Naturals, FiniteSets

CONSTANTS
  Tunnels,          \* tunnel ids
  Clients,          \* tasks that serve control-plane requests
  Monitor,          \* the monitor_runtime_state task
  Pollers,          \* tasks that run the reconcile pass: the monitor and
                    \* the clients that ask for status snapshots
  Teardown,         \* the task that calls DaemonHandle::shutdown
  MaxAutoRestarts,  \* --max-auto-restarts
  MaxGeneration,    \* bound: start, stop and delete requests are accepted
                    \* while fewer generations than this were handed out
  Faults            \* which environment faults occur

Actors  == Clients \cup {Monitor, Teardown}

\* disconnect: the HTTP client goes away and the server drops the handler;
\* persist: the state file cannot be written; inspect: try_wait fails.
FaultKinds == {"disconnect", "persist", "inspect"}

ASSUME ActorsAssumption ==
  /\ Monitor \notin Clients
  /\ Teardown \notin Clients
  /\ Monitor # Teardown
  /\ Pollers \subseteq Clients \cup {Monitor}
ASSUME TunnelsAssumption == IsFiniteSet(Tunnels) /\ Tunnels # {}
ASSUME BoundsAssumption == MaxAutoRestarts \in Nat /\ MaxGeneration \in Nat
ASSUME FaultsAssumption == Faults \subseteq FaultKinds

VARIABLES
  running,    \* running_tunnels: the committed provider of each tunnel
  pending,    \* pending_restarts
  inflight,   \* in_flight_starts: the generation that may commit
  nextGen,    \* next_start_generation (a u64 that does not wrap in practice)
  status,     \* persisted.tunnels: the state of each tunnel's status entry
  saved,      \* the statuses in the state file
  alive,      \* generations whose provider process is alive
  listening,  \* tunnels with a gateway listener (gateway_bindings)
  shutting,   \* AppState::is_shutting_down
  task,       \* what every actor is doing
  stopMark    \* history: the newest generation that a stop has cancelled

vars == <<running, pending, inflight, nextGen, status, saved, alive, listening,
          shutting, task, stopMark>>

-----------------------------------------------------------------------------
(* Types *)

States == {"Absent", "Idle", "Starting", "Running", "Stopped", "Error"}
Ops    == {"none", "start", "stop", "delete", "poll", "shutdown"}
Steps  == {"idle",
           "detach", "terminate",              \* stop_running_process
           "begin", "saveBegin",               \* start_tunnel
           "spawn", "await", "failed",
           "release", "record",                \* stop_tunnel, delete_tunnel
           "reconcile", "collect", "restart", "requeue",
           "save",
           "flagged", "drain", "closing", "closed"}

RunningTunnel  == [gen: Nat, auto: BOOLEAN, count: Nat]
PendingRestart == [gen: Nat, auto: BOOLEAN, count: Nat, due: BOOLEAN]
Task == [op: Ops, pc: Steps, tunnel: Tunnels, auto: BOOLEAN, count: Nat,
         gen: Nat, child: Nat, todo: SUBSET Tunnels, changed: BOOLEAN]

NotRunning == [gen |-> 0, auto |-> FALSE, count |-> 0]
\* gen: the run whose exit asked for this restart.
NoRestart  == [gen |-> 0, auto |-> FALSE, count |-> 0, due |-> FALSE]

IsRunning(t)   == running[t].gen # 0
IsScheduled(t) == pending[t].gen # 0

Idle(t) == [op |-> "none", pc |-> "idle", tunnel |-> t, auto |-> FALSE, count |-> 0,
            gen |-> 0, child |-> 0, todo |-> {}, changed |-> FALSE]

At(a, step) == task[a].pc = step

\* What actor a is doing becomes r.
Becomes(a, r) == task' = [task EXCEPT ![a] = r]

\* Its handler goes on at a step.
Goto(a, step) == Becomes(a, [task[a] EXCEPT !.pc = step])

\* Its handler returns: the locals are dropped.
Return(a) == Becomes(a, Idle(task[a].tunnel))

\* All that its handler still does is to save the state.
\* (Mutant: the handler forgets to.)
Finish_Unsaved(a) == Return(a)
Finish(a) == Becomes(a, [Idle(task[a].tunnel) EXCEPT !.pc = "save"])

\* Its reconcile pass goes on with the next due restart.
NextDue(a, changed) ==
  Becomes(a, [Idle(task[a].tunnel) EXCEPT !.op = "poll", !.pc = "restart",
                                          !.todo = task[a].todo, !.changed = changed])

\* RuntimeState::start_is_current. (Mutant: nothing is checked.)
IsCurrent_Always(a) == TRUE
IsCurrent(a) == inflight[task[a].tunnel] = task[a].gen

\* The running map without a tunnel. (Mutant: read instead of removed.)
Without_Kept(t) == running
Without(t) == [running EXCEPT ![t] = NotRunning]

\* The processes once the child a task owns is dropped: kill_on_drop(true).
\* (Mutant: it is not set.)
Dropped_Alive(a) == alive
Dropped(a) == alive \ {task[a].child}

-----------------------------------------------------------------------------
(* The daemon has started: the reclaim pass left no tunnel Running or      *)
(* Starting (Idle and Error entries behave like Stopped ones here),        *)
(* nothing runs, and the gateway of the tunnel "primary" listens.          *)

Init ==
  /\ running = [t \in Tunnels |-> NotRunning]
  /\ pending = [t \in Tunnels |-> NoRestart]
  /\ inflight = [t \in Tunnels |-> 0]
  /\ nextGen = 0
  /\ status \in [Tunnels -> {"Absent", "Stopped"}]
  /\ saved = status
  /\ alive = {}
  /\ \E primary \in Tunnels : listening \in {{}, {primary}}
  /\ shutting = FALSE
  /\ \E t \in Tunnels : task = [a \in Actors |-> Idle(t)]
  /\ stopMark = [t \in Tunnels |-> 0]

-----------------------------------------------------------------------------
(* Requests *)

\* The server takes requests until DaemonHandle::shutdown ends the listener.
Serving == task[Teardown].pc \notin {"closing", "closed"}

Accept(a, op, t, auto, step) ==
  /\ At(a, "idle")
  /\ Becomes(a, [Idle(t) EXCEPT !.op = op, !.auto = auto, !.pc = step])
  /\ UNCHANGED <<running, pending, inflight, nextGen, status, saved, alive,
                 listening, shutting, stopMark>>

StartRequest(a, t, auto) ==
  /\ a \in Clients /\ Serving
  /\ nextGen < MaxGeneration
  /\ ~shutting
  /\ Accept(a, "start", t, auto, "detach")

StopRequest(a, t) ==
  /\ a \in Clients /\ Serving
  /\ nextGen < MaxGeneration
  /\ Accept(a, "stop", t, FALSE, "detach")

DeleteRequest(a, t) ==
  /\ a \in Clients /\ Serving
  /\ nextGen < MaxGeneration
  /\ Accept(a, "delete", t, FALSE, "detach")

\* A tick of the monitor, or a GET of status, dashboard or workspace.
PollRequest(a) ==
  /\ a \in Pollers
  /\ a \in Clients => Serving
  /\ ~shutting
  /\ Accept(a, "poll", task[a].tunnel, FALSE, "reconcile")

-----------------------------------------------------------------------------
(* stop_running_process, which start, stop, delete and shutdown call first *)

AfterStop(op) == CASE op = "start"    -> "begin"
                   [] op = "shutdown" -> "drain"
                   [] OTHER           -> "release"

\* cancel_start, and the maps forget the tunnel; its process is now owned by
\* this task.
Detach(a) ==
  LET t == task[a].tunnel
      g == running[t].gen
  IN
  /\ At(a, "detach")
  /\ nextGen' = nextGen + 1
  /\ inflight' = [inflight EXCEPT ![t] = 0]
  /\ running' = Without(t)
  /\ pending' = [pending EXCEPT ![t] = NoRestart]
  /\ stopMark' = [stopMark EXCEPT ![t] = nextGen + 1]
  /\ Becomes(a, [task[a] EXCEPT !.child = g,
                                !.pc = IF g = 0 THEN AfterStop(task[a].op) ELSE "terminate"])
  /\ UNCHANGED <<status, saved, alive, listening, shutting>>

\* terminate_child: kill and wait.
Terminate(a) ==
  /\ At(a, "terminate")
  /\ alive' = alive \ {task[a].child}
  /\ Becomes(a, [task[a] EXCEPT !.child = 0, !.pc = AfterStop(task[a].op)])
  /\ UNCHANGED <<running, pending, inflight, nextGen, status, saved, listening,
                 shutting, stopMark>>

\* try_wait fails: the handler gives up and the dropped child is killed;
\* shutdown logs it and goes on.
TerminateFails(a) ==
  /\ At(a, "terminate")
  /\ "inspect" \in Faults
  /\ alive' = Dropped(a)
  /\ IF a = Teardown THEN Becomes(a, [task[a] EXCEPT !.child = 0, !.pc = "drain"])
                     ELSE Return(a)
  /\ UNCHANGED <<running, pending, inflight, nextGen, status, saved, listening,
                 shutting, stopMark>>

-----------------------------------------------------------------------------
(* start_tunnel *)

\* begin_start, and the status entry is overwritten.
Begin(a) ==
  LET t == task[a].tunnel IN
  /\ At(a, "begin")
  /\ nextGen' = nextGen + 1
  /\ inflight' = [inflight EXCEPT ![t] = nextGen + 1]
  /\ status' = [status EXCEPT ![t] = "Starting"]
  /\ pending' = [pending EXCEPT ![t] = NoRestart]
  /\ Becomes(a, [task[a] EXCEPT !.gen = nextGen + 1, !.pc = "saveBegin"])
  /\ UNCHANGED <<running, saved, alive, listening, shutting, stopMark>>

SaveBegin(a) ==
  /\ At(a, "saveBegin")
  /\ saved' = status
  /\ Goto(a, "spawn")
  /\ UNCHANGED <<running, pending, inflight, nextGen, status, alive, listening,
                 shutting, stopMark>>

\* The state file cannot be written: cancel_start, whoever's start it is.
SaveBeginFails(a) ==
  /\ At(a, "saveBegin")
  /\ "persist" \in Faults
  /\ nextGen' = nextGen + 1
  /\ inflight' = [inflight EXCEPT ![task[a].tunnel] = 0]
  /\ Return(a)
  /\ UNCHANGED <<running, pending, status, saved, alive, listening, shutting, stopMark>>

-----------------------------------------------------------------------------
(* spawn_provider_process, for start_tunnel and process_pending_restart *)

Spawn(a) ==
  LET t == task[a].tunnel IN
  /\ At(a, "spawn")
  /\ listening' = listening \cup {t}
  /\ alive' = alive \cup {task[a].gen}
  /\ Becomes(a, [task[a] EXCEPT !.child = task[a].gen, !.pc = "await"])
  /\ UNCHANGED <<running, pending, inflight, nextGen, status, saved, shutting, stopMark>>

\* The gateway address is taken, or (with a listener up) the binary cannot run.
SpawnFails(a) ==
  /\ At(a, "spawn")
  /\ \E up \in {{}, {task[a].tunnel}} : listening' = listening \cup up
  /\ Goto(a, "failed")
  /\ UNCHANGED <<running, pending, inflight, nextGen, status, saved, alive,
                 shutting, stopMark>>

\* Exit, timeout or closed log: the child is terminated or dropped.
NotReady(a) ==
  /\ At(a, "await")
  /\ alive' = alive \ {task[a].child}
  /\ Becomes(a, [task[a] EXCEPT !.child = 0, !.pc = "failed"])
  /\ UNCHANGED <<running, pending, inflight, nextGen, status, saved, listening,
                 shutting, stopMark>>

\* The check under the mutex that a commit depends on. (Mutant: a start that was
\* admitted before the shutdown began is let through.)
MayCommit_WhileShutting(a) == IsCurrent(a)
MayCommit(a) == ~shutting /\ IsCurrent(a)

\* wait_for_provider_startup returned the URL, or the provider stayed up, and
\* the start is still wanted. The child moves into running_tunnels; one that it
\* replaces there is dropped, which kills it. Only start_tunnel clears a pending
\* restart here.
Commit(a) ==
  LET t == task[a].tunnel IN
  /\ At(a, "await")
  /\ MayCommit(a)
  /\ inflight' = [inflight EXCEPT ![t] = 0]
  /\ running' = [running EXCEPT ![t] =
                   [gen |-> task[a].child, auto |-> task[a].auto, count |-> task[a].count]]
  /\ alive' = alive \ {running[t].gen}
  /\ pending' = IF task[a].op = "start" THEN [pending EXCEPT ![t] = NoRestart] ELSE pending
  /\ status' = [status EXCEPT ![t] = "Running"]
  /\ IF task[a].op = "start" THEN Finish(a) ELSE NextDue(a, TRUE)
  /\ UNCHANGED <<nextGen, saved, listening, shutting, stopMark>>

\* The start was cancelled or overtaken: terminate_child on its child. (Neither
\* can be undone, so finding it out and terminating the child is one step.)
Discard(a) ==
  /\ At(a, "await")
  /\ ~MayCommit(a)
  /\ alive' = alive \ {task[a].child}
  /\ IF task[a].op = "start" THEN Return(a) ELSE NextDue(a, task[a].changed)
  /\ UNCHANGED <<running, pending, inflight, nextGen, status, saved, listening,
                 shutting, stopMark>>

StartFailed(a) ==
  LET t == task[a].tunnel IN
  /\ At(a, "failed") /\ task[a].op = "start"
  /\ IF IsCurrent(a)
       THEN /\ inflight' = [inflight EXCEPT ![t] = 0]
            /\ status' = [status EXCEPT ![t] = "Error"]
            /\ Finish(a)
       ELSE /\ Return(a)
            /\ UNCHANGED <<inflight, status>>
  /\ UNCHANGED <<running, pending, nextGen, saved, alive, listening, shutting, stopMark>>

-----------------------------------------------------------------------------
(* stop_tunnel and delete_tunnel after stop_running_process *)

\* release_tunnel_gateway_listener.
Release(a) ==
  LET t == task[a].tunnel IN
  /\ At(a, "release")
  /\ listening' = listening \ {t}
  /\ Becomes(a, [task[a] EXCEPT !.changed = (t \in listening), !.pc = "record"])
  /\ UNCHANGED <<running, pending, inflight, nextGen, status, saved, alive,
                 shutting, stopMark>>

RecordStop(a) ==
  LET t == task[a].tunnel IN
  /\ At(a, "record") /\ task[a].op = "stop"
  /\ pending' = [pending EXCEPT ![t] = NoRestart]
  /\ status' = [status EXCEPT ![t] = "Stopped"]
  /\ Finish(a)
  /\ UNCHANGED <<running, inflight, nextGen, saved, alive, listening, shutting, stopMark>>

\* The state is written only if something was removed: the status entry, the
\* listener or routes of the tunnel (of which this module knows nothing).
Erase(a) ==
  LET t == task[a].tunnel IN
  /\ At(a, "record") /\ task[a].op = "delete"
  /\ running' = Without(t)
  /\ alive' = alive \ {running[t].gen}
  /\ pending' = [pending EXCEPT ![t] = NoRestart]
  /\ status' = [status EXCEPT ![t] = "Absent"]
  /\ \E routes \in BOOLEAN :
       IF status[t] # "Absent" \/ task[a].changed \/ routes THEN Finish(a) ELSE Return(a)
  /\ UNCHANGED <<inflight, nextGen, saved, listening, shutting, stopMark>>

\* persist_from_runtime, the last step of every handler.
Save(a) ==
  /\ At(a, "save")
  /\ saved' = status
  /\ Return(a)
  /\ UNCHANGED <<running, pending, inflight, nextGen, status, alive, listening,
                 shutting, stopMark>>

SaveFails(a) ==
  /\ At(a, "save")
  /\ "persist" \in Faults
  /\ Return(a)
  /\ UNCHANGED <<running, pending, inflight, nextGen, status, saved, alive,
                 listening, shutting, stopMark>>

-----------------------------------------------------------------------------
(* reconcile_runtime_and_maybe_restart *)

\* determine_exit_action. (Mutant: an off-by-one in the budget.)
Exhausted_OneLate(count) == count > MaxAutoRestarts
Exhausted(count) == MaxAutoRestarts = 0 \/ count >= MaxAutoRestarts
ExitAction(auto, count) ==
  IF ~auto THEN "NoRestart" ELSE IF Exhausted(count) THEN "Exhausted" ELSE "Restart"

\* A restart that is due once its backoff has elapsed.
RestartOf(g, auto, count) == [gen |-> g, auto |-> auto, count |-> count + 1, due |-> FALSE]

\* The state that the status entry shows. (Mutant: the action itself.)
StatusOfExit_Action(action) == action
StatusOfExit(action) == CASE action = "NoRestart" -> "Stopped"
                          [] action = "Exhausted" -> "Error"
                          [] action = "Restart"   -> "Starting"

\* The tunnels whose process try_wait finds exited, and what then follows.
Exited(broken) ==
  {t \in Tunnels \ broken : IsRunning(t) /\ running[t].gen \notin alive}
ExitOf(t) == ExitAction(running[t].auto, running[t].count)

\* What is scheduled after the pass. (Mutant: the restart is not scheduled.)
PendingAfter_Lost(t, broken) ==
  IF t \notin broken \cup Exited(broken) THEN pending[t] ELSE NoRestart
PendingAfter(t, broken) ==
  IF t \notin broken \cup Exited(broken) THEN pending[t]
  ELSE IF t \in Exited(broken) /\ ExitOf(t) = "Restart"
       THEN RestartOf(running[t].gen, running[t].auto, running[t].count)
       ELSE NoRestart

StatusAfter(t, broken) ==
  CASE t \in broken         -> "Error"
    [] t \in Exited(broken) -> StatusOfExit(ExitOf(t))
    [] t \notin broken \cup Exited(broken) ->
         IF IsRunning(t) THEN "Running" ELSE status[t]

\* One pass over running_tunnels; try_wait fails for the broken ones.
Examine(a, broken) ==
  /\ running' = [t \in Tunnels |-> IF t \in broken \cup Exited(broken)
                                    THEN NotRunning ELSE running[t]]
  /\ alive' = alive \ {running[t].gen : t \in broken}
  /\ pending' = [t \in Tunnels |-> PendingAfter(t, broken)]
  /\ status' = [t \in Tunnels |-> StatusAfter(t, broken)]
  /\ Becomes(a, [task[a] EXCEPT !.changed = (status' # status \/ running' # running),
                                !.pc = "collect"])
  /\ UNCHANGED <<inflight, nextGen, saved, listening, shutting, stopMark>>

Reconcile(a) ==
  /\ At(a, "reconcile")
  /\ \E broken \in SUBSET {t \in Tunnels : IsRunning(t)} :
       /\ broken = {} \/ "inspect" \in Faults
       /\ Examine(a, broken)

\* A restart whose backoff has elapsed. (Mutant: the comparison is reversed.)
Due_Reversed(t) == IsScheduled(t) /\ ~pending[t].due
Due(t) == IsScheduled(t) /\ pending[t].due

\* The due restarts are read once for the whole pass.
CollectDue(a) ==
  /\ At(a, "collect")
  /\ Becomes(a, [task[a] EXCEPT !.todo = {t \in Tunnels : Due(t)}, !.pc = "restart"])
  /\ UNCHANGED <<running, pending, inflight, nextGen, status, saved, alive,
                 listening, shutting, stopMark>>

BeginRestart(a, t) ==
  /\ At(a, "restart") /\ t \in task[a].todo
  /\ IsScheduled(t)
  /\ nextGen' = nextGen + 1
  /\ inflight' = [inflight EXCEPT ![t] = nextGen + 1]
  /\ pending' = [pending EXCEPT ![t] = NoRestart]
  /\ status' = [status EXCEPT ![t] = "Starting"]
  /\ Becomes(a, [task[a] EXCEPT !.tunnel = t, !.auto = pending[t].auto,
                                !.count = pending[t].count, !.gen = nextGen + 1,
                                !.todo = @ \ {t}, !.pc = "spawn"])
  /\ UNCHANGED <<running, saved, alive, listening, shutting, stopMark>>

\* Another task took the restart, or a stop cancelled it.
SkipRestart(a, t) ==
  /\ At(a, "restart") /\ t \in task[a].todo
  /\ ~IsScheduled(t)
  /\ Becomes(a, [task[a] EXCEPT !.todo = @ \ {t}])
  /\ UNCHANGED <<running, pending, inflight, nextGen, status, saved, alive,
                 listening, shutting, stopMark>>

\* The first of the two critical sections that follow a failed restart.
RestartFailed(a) ==
  LET t == task[a].tunnel IN
  /\ At(a, "failed") /\ task[a].op = "poll"
  /\ IF IsCurrent(a)
       THEN inflight' = [inflight EXCEPT ![t] = 0] /\ Goto(a, "requeue")
       ELSE inflight' = inflight /\ NextDue(a, task[a].changed)
  /\ UNCHANGED <<running, pending, nextGen, status, saved, alive, listening,
                 shutting, stopMark>>

\* The second one. The generation is not looked at again.
Requeue(a) ==
  LET t == task[a].tunnel
      again == ExitAction(task[a].auto, task[a].count) = "Restart"
  IN
  /\ At(a, "requeue")
  /\ pending' = IF again
                 THEN [pending EXCEPT ![t] = RestartOf(task[a].gen, task[a].auto, task[a].count)]
                 ELSE pending
  /\ status' = [status EXCEPT ![t] = IF again THEN "Starting" ELSE "Error"]
  /\ NextDue(a, TRUE)
  /\ UNCHANGED <<running, inflight, nextGen, saved, alive, listening, shutting, stopMark>>

PollDone(a) ==
  /\ At(a, "restart") /\ task[a].todo = {}
  /\ IF task[a].changed THEN Finish(a) ELSE Return(a)
  /\ UNCHANGED <<running, pending, inflight, nextGen, status, saved, alive,
                 listening, shutting, stopMark>>

-----------------------------------------------------------------------------
(* DaemonHandle::shutdown and stop_all_running_tunnels *)

BeginShutdown ==
  /\ At(Teardown, "idle")
  /\ shutting' = TRUE
  /\ Becomes(Teardown, [task[Teardown] EXCEPT !.op = "shutdown", !.pc = "flagged"])
  /\ UNCHANGED <<running, pending, inflight, nextGen, status, saved, alive,
                 listening, stopMark>>

\* Every in-flight start is cancelled; the running tunnels are stopped in turn.
CollectTunnels ==
  /\ At(Teardown, "flagged")
  /\ nextGen' = nextGen + Cardinality({t \in Tunnels : inflight[t] # 0})
  /\ inflight' = [t \in Tunnels |-> 0]
  /\ Becomes(Teardown, [task[Teardown] EXCEPT !.todo = {t \in Tunnels : IsRunning(t)},
                                              !.pc = "drain"])
  /\ UNCHANGED <<running, pending, status, saved, alive, listening, shutting, stopMark>>

DrainNext(t) ==
  /\ At(Teardown, "drain") /\ t \in task[Teardown].todo
  /\ Becomes(Teardown, [task[Teardown] EXCEPT !.todo = @ \ {t}, !.tunnel = t, !.pc = "detach"])
  /\ UNCHANGED <<running, pending, inflight, nextGen, status, saved, alive,
                 listening, shutting, stopMark>>

\* The gateway bindings are taken and stopped; the control plane is told to end.
DrainDone ==
  /\ At(Teardown, "drain") /\ task[Teardown].todo = {}
  /\ listening' = {}
  /\ Goto(Teardown, "closing")
  /\ UNCHANGED <<running, pending, inflight, nextGen, status, saved, alive,
                 shutting, stopMark>>

\* The graceful end waits for the request handlers, not for the monitor.
Close ==
  /\ At(Teardown, "closing")
  /\ \A c \in Clients : At(c, "idle")
  /\ Goto(Teardown, "closed")
  /\ UNCHANGED <<running, pending, inflight, nextGen, status, saved, alive,
                 listening, shutting, stopMark>>

-----------------------------------------------------------------------------
(* The environment *)

\* A provider process exits by itself.
Die(g) ==
  /\ g \in alive
  /\ alive' = alive \ {g}
  /\ UNCHANGED <<running, pending, inflight, nextGen, status, saved, listening,
                 shutting, task, stopMark>>

\* The backoff of a pending restart elapses.
Elapse(t) ==
  /\ IsScheduled(t) /\ ~pending[t].due
  /\ pending' = [pending EXCEPT ![t].due = TRUE]
  /\ UNCHANGED <<running, inflight, nextGen, status, saved, alive, listening,
                 shutting, task, stopMark>>

\* A client goes away and its handler is dropped where it awaits, which kills
\* the child it owns (kill_on_drop) and skips the rest of the handler.
Disconnect(a) ==
  /\ a \in Clients /\ ~At(a, "idle")
  /\ "disconnect" \in Faults
  /\ alive' = Dropped(a)
  /\ Return(a)
  /\ UNCHANGED <<running, pending, inflight, nextGen, status, saved, listening,
                 shutting, stopMark>>

-----------------------------------------------------------------------------
Request(a) ==
  \/ \E t \in Tunnels, auto \in BOOLEAN : StartRequest(a, t, auto)
  \/ \E t \in Tunnels : StopRequest(a, t) \/ DeleteRequest(a, t)
  \/ PollRequest(a)

\* What a task does on its own once it was asked.
Step(a) ==
  \/ Detach(a) \/ Terminate(a)
  \/ Begin(a) \/ SaveBegin(a) \/ Spawn(a) \/ SpawnFails(a) \/ NotReady(a)
  \/ Commit(a) \/ Discard(a) \/ StartFailed(a)
  \/ Release(a) \/ RecordStop(a) \/ Erase(a) \/ Save(a)
  \/ Reconcile(a) \/ CollectDue(a) \/ RestartFailed(a) \/ Requeue(a) \/ PollDone(a)
  \/ \E t \in Tunnels : BeginRestart(a, t) \/ SkipRestart(a, t)

Fault(a) == TerminateFails(a) \/ SaveBeginFails(a) \/ SaveFails(a) \/ Disconnect(a)

Shutdown ==
  \/ BeginShutdown \/ CollectTunnels \/ DrainDone \/ Close
  \/ \E t \in Tunnels : DrainNext(t)

Next ==
  \/ \E a \in Actors : Request(a) \/ Step(a) \/ Fault(a)
  \/ Shutdown
  \/ \E g \in alive : Die(g)
  \/ \E t \in Tunnels : Elapse(t)

Spec == Init /\ [][Next]_vars

\* Tasks are scheduled, waits end (the startup wait and the kill have timeouts),
\* the monitor ticks and backoffs elapse. Requests, exits, faults and the
\* beginning of a shutdown need not happen.
Fairness ==
  /\ \A a \in Actors : WF_vars(Step(a))
  /\ WF_vars(PollRequest(Monitor))
  /\ WF_vars(CollectTunnels \/ DrainDone \/ Close \/ \E t \in Tunnels : DrainNext(t))
  /\ \A t \in Tunnels : WF_vars(Elapse(t))

FairSpec == Spec /\ Fairness
-----------------------------------------------------------------------------
(* Invariants *)

TypeOK ==
  /\ running \in [Tunnels -> RunningTunnel]
  /\ pending \in [Tunnels -> PendingRestart]
  /\ inflight \in [Tunnels -> Nat]
  /\ nextGen \in Nat
  /\ status \in [Tunnels -> States]
  /\ saved \in [Tunnels -> States]
  /\ alive \subseteq Nat
  /\ listening \subseteq Tunnels
  /\ shutting \in BOOLEAN
  /\ task \in [Actors -> Task]
  /\ stopMark \in [Tunnels -> Nat]

\* Every live provider process has an owner that will see it die: the running map
\* or one task. No process is lost when starts, stops, deletes, restarts and
\* dropped handlers overlap, or when a commit replaces a running entry.
NoOrphanProvider ==
  \A g \in alive : \/ \E t \in Tunnels : running[t].gen = g
                   \/ \E a \in Actors : task[a].child = g

\* No process has two owners: the child that a stop, a start or a restart
\* terminates is never the one a tunnel runs on, or another task's.
NoSharedProvider ==
  /\ \A t, u \in Tunnels : IsRunning(t) /\ t # u => running[t].gen # running[u].gen
  /\ \A t \in Tunnels, a \in Actors : IsRunning(t) => running[t].gen # task[a].child
  /\ \A a, b \in Actors : task[a].child # 0 /\ a # b => task[a].child # task[b].child

\* What runs, and what may still commit, was begun after the last stop, delete
\* or start detached the tunnel; and a start in flight is newer than what runs,
\* so a late answer of an older start never replaces a newer provider.
LatestWins ==
  \A t \in Tunnels :
    /\ IsRunning(t) => running[t].gen > stopMark[t]
    /\ inflight[t] # 0 => inflight[t] > stopMark[t] /\ inflight[t] > running[t].gen

\* A scheduled restart was asked for by the start (auto_restart), and neither it
\* nor a provider it has brought up exceeds the restart budget, however exits,
\* failed attempts and several reconcile passes interleave.
RestartBudget ==
  \A t \in Tunnels :
    /\ IsScheduled(t) => pending[t].auto /\ pending[t].count \in 1..MaxAutoRestarts
    /\ running[t].count <= MaxAutoRestarts

\* Once shutdown has stopped the tunnels it found, nothing is registered as
\* running and nothing can be any more: a start that was past its checks when
\* shutdown began does not slip a provider in behind it.
NothingAfterShutdown ==
  task[Teardown].pc \in {"closing", "closed"} => \A t \in Tunnels : ~IsRunning(t)

\* After a stop or a delete of a tunnel has recorded its outcome, no restart that
\* stems from before it is scheduled: stopped stays stopped.
Stopping(t) ==
  \E a \in Actors : task[a].tunnel = t /\ task[a].op \in {"start", "stop", "delete", "shutdown"}
NoResurrection ==
  \A t \in Tunnels : IsScheduled(t) => pending[t].gen > stopMark[t] \/ Stopping(t)

Quiet == ~shutting /\ \A a \in Actors : At(a, "idle")

\* Between requests and passes, a tunnel reported as Running has a provider and a
\* tunnel reported as Starting has a restart coming.
NoPhantomStatus ==
  Quiet => \A t \in Tunnels :
             /\ status[t] = "Running" => IsRunning(t)
             /\ status[t] = "Starting" => IsScheduled(t)

\* Between requests and passes, the state file holds the statuses in memory: every
\* change of a status was followed by a save that could see it.
DurableWhenQuiet == Quiet => saved = status

-----------------------------------------------------------------------------
(* What the protocol is for *)

\* The provider that the running map holds for each tunnel.
Registered == [t \in Tunnels |-> running[t].gen]

Supervisor == INSTANCE TunnelSupervisor WITH
  serving <- Registered, admitted <- inflight, issued <- nextGen,
  halted <- stopMark, closed <- shutting

\* start_is_current under the mutex makes the await between spawn and commit
\* invisible: whatever stops, other starts, restarts, reconcile passes, dropped
\* handlers and a shutdown do meanwhile, a provider is registered only if its own
\* start is the one admitted at that moment, and otherwise never.
ImplementsSupervisor == Supervisor!Spec

-----------------------------------------------------------------------------
(* Liveness *)

\* A tunnel does not stay in Starting: its start, or the restart it waits for,
\* comes to an end while the daemon is up.
StartingEnds ==
  \A t \in Tunnels : status[t] = "Starting" ~> status[t] # "Starting" \/ shutting

\* Once a shutdown has begun, every provider process this daemon started ends,
\* those of starts and restarts that were under way included, and none comes
\* after them.
ShutdownTerminatesAll == shutting ~> [](alive = {})

\* A scheduled auto restart is carried out: the tunnel comes up, or it leaves
\* Starting (the budget is used up, or it was stopped).
RestartServed ==
  \A t \in Tunnels :
    IsScheduled(t) ~> IsRunning(t) \/ status[t] # "Starting" \/ shutting

=============================================================================
