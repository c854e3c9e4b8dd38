------------------------ MODULE TunnelLifecycleProofs ------------------------
(***************************************************************************)
(* Proofs about the tunnel lifecycle, for any tunnels, clients, pollers,   *)
(* restart budget and set of faults.                                       *)
(***************************************************************************)
EXTENDS TunnelLifecycle, FiniteSetTheorems, TLAPS

-----------------------------------------------------------------------------
(* Records that the actions build *)

\* A well-typed new task of one actor keeps the tasks well-typed.
LEMMA TaskUpdate ==
  ASSUME task \in [Actors -> Task], NEW a \in Actors, NEW r \in Task, Becomes(a, r)
  PROVE  task' \in [Actors -> Task]
BY DEF Becomes

\* An idle task, and one that changes its step, its child or both, is a task.
LEMMA IdleType == ASSUME NEW t \in Tunnels PROVE Idle(t) \in Task
BY DEF Idle, Task, Ops, Steps

LEMMA ChildType ==
  ASSUME NEW r \in Task, NEW s \in Steps, NEW g \in Nat
  PROVE  [r EXCEPT !.child = g, !.pc = s] \in Task
BY DEF Task

\* So is one that changes its flag, or what is left to do in its reconcile pass.
LEMMA ChangedType ==
  ASSUME NEW r \in Task, NEW s \in Steps, NEW c \in BOOLEAN
  PROVE  [r EXCEPT !.changed = c, !.pc = s] \in Task
BY DEF Task

LEMMA TodoType ==
  ASSUME NEW r \in Task, NEW s \in Steps, NEW todo \in SUBSET Tunnels
  PROVE  /\ [r EXCEPT !.todo = todo, !.pc = s] \in Task
         /\ [r EXCEPT !.todo = todo] \in Task
BY DEF Task

\* A task that begins a start with generation g.
LEMMA StartingType ==
  ASSUME NEW r \in Task, NEW s \in Steps, NEW g \in Nat
  PROVE  [r EXCEPT !.gen = g, !.pc = s] \in Task
BY DEF Task

LEMMA RestartingType ==
  ASSUME NEW r \in Task, NEW s \in Steps, NEW g \in Nat, NEW t \in Tunnels,
         NEW auto \in BOOLEAN, NEW c \in Nat, NEW todo \in SUBSET Tunnels
  PROVE  [r EXCEPT !.tunnel = t, !.auto = auto, !.count = c, !.gen = g,
                   !.todo = todo, !.pc = s] \in Task
BY DEF Task

LEMMA AskedType ==
  ASSUME NEW r \in Task, NEW s \in Steps, NEW op \in Ops, NEW auto \in BOOLEAN
  PROVE  [r EXCEPT !.op = op, !.auto = auto, !.pc = s] \in Task
BY DEF Task

LEMMA PassType ==
  ASSUME NEW r \in Task, NEW s \in Steps, NEW op \in Ops, NEW todo \in SUBSET Tunnels,
         NEW c \in BOOLEAN
  PROVE  [r EXCEPT !.op = op, !.pc = s, !.todo = todo, !.changed = c] \in Task
BY DEF Task

LEMMA GotoType ==
  ASSUME task \in [Actors -> Task], NEW a \in Actors, NEW s \in Steps, Goto(a, s)
  PROVE  task' \in [Actors -> Task]
<1>1. [task[a] EXCEPT !.pc = s] \in Task
  BY DEF Task
<1> QED BY <1>1, TaskUpdate DEF Goto

\* The ways a handler or a reconcile pass goes on keep the tasks well-typed.
LEMMA ReturnType ==
  ASSUME task \in [Actors -> Task], NEW a \in Actors, Return(a)
  PROVE  task' \in [Actors -> Task]
<1>1. Idle(task[a].tunnel) \in Task
  BY IdleType DEF Task
<1> QED BY <1>1, TaskUpdate DEF Return

LEMMA FinishType ==
  ASSUME task \in [Actors -> Task], NEW a \in Actors, Finish(a)
  PROVE  task' \in [Actors -> Task]
<1>1. [Idle(task[a].tunnel) EXCEPT !.pc = "save"] \in Task
  BY IdleType DEF Task, Steps
<1> QED BY <1>1, TaskUpdate DEF Finish

LEMMA NextDueType ==
  ASSUME task \in [Actors -> Task], NEW a \in Actors, NEW c \in BOOLEAN, NextDue(a, c)
  PROVE  task' \in [Actors -> Task]
<1>1. task[a].tunnel \in Tunnels /\ task[a].todo \in SUBSET Tunnels
  BY DEF Task
<1>2. [Idle(task[a].tunnel) EXCEPT !.op = "poll", !.pc = "restart",
                                   !.todo = task[a].todo, !.changed = c] \in Task
  BY <1>1, IdleType, PassType DEF Steps, Ops
<1> QED BY <1>2, TaskUpdate DEF NextDue

\* The null records belong to their types, and so does a scheduled restart.
LEMMA NullTypes == NotRunning \in RunningTunnel /\ NoRestart \in PendingRestart
BY DEF NotRunning, NoRestart, RunningTunnel, PendingRestart

LEMMA RestartType ==
  ASSUME NEW g \in Nat, NEW auto \in BOOLEAN, NEW count \in Nat
  PROVE  RestartOf(g, auto, count) \in PendingRestart
BY DEF RestartOf, PendingRestart

\* The number of in-flight starts that a shutdown cancels is a number.
LEMMA CancelledType == Cardinality({t \in Tunnels : inflight[t] # 0}) \in Nat
<1>1. IsFiniteSet({t \in Tunnels : inflight[t] # 0})
  BY TunnelsAssumption, FS_Subset
<1> QED BY <1>1, FS_CardinalityType

-----------------------------------------------------------------------------
(* Type correctness *)

LEMMA TypeInit == Init => TypeOK
<1> SUFFICES ASSUME Init PROVE TypeOK
  OBVIOUS
<1>1. task \in [Actors -> Task]
  BY IdleType DEF Init
<1>2. status \in [Tunnels -> States] /\ saved \in [Tunnels -> States]
  BY DEF Init, States
<1> QED BY <1>1, <1>2, NullTypes DEF Init, TypeOK

\* What an examined tunnel becomes.
LEMMA ExaminedTypes ==
  ASSUME TypeOK, NEW t \in Tunnels, NEW broken \in SUBSET {u \in Tunnels : IsRunning(u)}
  PROVE  /\ PendingAfter(t, broken) \in PendingRestart
         /\ StatusAfter(t, broken) \in States
<1>1. /\ running[t].gen \in Nat /\ running[t].auto \in BOOLEAN /\ running[t].count \in Nat
  BY DEF TypeOK, RunningTunnel
<1>2. RestartOf(running[t].gen, running[t].auto, running[t].count) \in PendingRestart
  BY <1>1, RestartType
<1>3. PendingAfter(t, broken) \in PendingRestart
  BY <1>2, NullTypes DEF PendingAfter, TypeOK
<1>4. ExitOf(t) \in {"NoRestart", "Exhausted", "Restart"}
  BY <1>1 DEF ExitOf, ExitAction
<1>5. StatusOfExit(ExitOf(t)) \in States
  BY <1>4 DEF StatusOfExit, States
<1>6. StatusAfter(t, broken) \in States
  BY <1>5 DEF StatusAfter, States, TypeOK
<1> QED BY <1>3, <1>6

\* A step of a task on its own keeps the types.
LEMMA TypeTaskStep ==
  ASSUME TypeOK, NEW a \in Actors, Step(a)
  PROVE  TypeOK'
<1> DEFINE t == task[a].tunnel
<1>0. /\ task \in [Actors -> Task] /\ task[a] \in Task /\ t \in Tunnels
      /\ task[a].op \in Ops /\ task[a].auto \in BOOLEAN /\ task[a].count \in Nat
      /\ task[a].gen \in Nat /\ task[a].todo \in SUBSET Tunnels
      /\ task[a].changed \in BOOLEAN /\ task[a].child \in Nat
  BY DEF TypeOK, Task
<1>r. \A u \in Tunnels : /\ running[u].gen \in Nat /\ running[u].auto \in BOOLEAN
                         /\ running[u].count \in Nat
  BY DEF TypeOK, RunningTunnel
<1>p. \A u \in Tunnels : /\ pending[u].gen \in Nat /\ pending[u].auto \in BOOLEAN
                         /\ pending[u].count \in Nat
  BY DEF TypeOK, PendingRestart
<1>s. AfterStop(task[a].op) \in Steps
  BY <1>0 DEF AfterStop, Ops, Steps
<1> HIDE DEF t
<1>1. CASE Detach(a)
  <2>1. task' \in [Actors -> Task]
    BY <1>0, <1>1, <1>r, <1>s, ChildType, TaskUpdate DEF Detach, Steps, t
  <2> QED BY <1>0, <1>1, <2>1, NullTypes DEF Detach, Without, TypeOK, t
<1>2. CASE Terminate(a)
  <2>1. task' \in [Actors -> Task]
    BY <1>0, <1>2, <1>s, ChildType, TaskUpdate DEF Terminate
  <2> QED BY <1>2, <2>1 DEF Terminate, TypeOK
<1>3. CASE Begin(a)
  <2>1. [task[a] EXCEPT !.gen = nextGen + 1, !.pc = "saveBegin"] \in Task
    <3>1. nextGen + 1 \in Nat /\ "saveBegin" \in Steps
      BY DEF TypeOK, Steps
    <3> QED BY <1>0, <3>1, StartingType
  <2>2. task' \in [Actors -> Task]
    BY <1>0, <1>3, <2>1, TaskUpdate DEF Begin
  <2> QED BY <1>0, <1>3, <2>2, NullTypes DEF Begin, TypeOK, States, t
<1>4. CASE SaveBegin(a)
  <2>1. task' \in [Actors -> Task]
    BY <1>0, <1>4, GotoType DEF SaveBegin, Steps
  <2> QED BY <1>4, <2>1 DEF SaveBegin, TypeOK
<1>5. CASE Spawn(a)
  <2>1. task' \in [Actors -> Task]
    BY <1>0, <1>5, ChildType, TaskUpdate DEF Spawn, Steps
  <2> QED BY <1>0, <1>5, <2>1 DEF Spawn, TypeOK, t
<1>6. CASE SpawnFails(a)
  <2>1. task' \in [Actors -> Task]
    BY <1>0, <1>6, GotoType DEF SpawnFails, Steps
  <2> QED BY <1>0, <1>6, <2>1 DEF SpawnFails, TypeOK, t
<1>7. CASE NotReady(a)
  <2>1. task' \in [Actors -> Task]
    BY <1>0, <1>7, ChildType, TaskUpdate DEF NotReady, Steps
  <2> QED BY <1>7, <2>1 DEF NotReady, TypeOK
<1>8. CASE Commit(a)
  <2>1. task' \in [Actors -> Task]
    BY <1>0, <1>8, FinishType, NextDueType DEF Commit
  <2>2. [gen |-> task[a].child, auto |-> task[a].auto, count |-> task[a].count]
          \in RunningTunnel
    BY <1>0 DEF RunningTunnel
  <2> QED BY <1>0, <1>8, <2>1, <2>2, NullTypes DEF Commit, TypeOK, States, t
<1>9. CASE Discard(a)
  <2>1. task' \in [Actors -> Task]
    BY <1>0, <1>9, ReturnType, NextDueType DEF Discard
  <2> QED BY <1>9, <2>1 DEF Discard, TypeOK
<1>10. CASE StartFailed(a)
  <2>1. task' \in [Actors -> Task]
    BY <1>0, <1>10, ReturnType, FinishType DEF StartFailed
  <2> QED BY <1>0, <1>10, <2>1 DEF StartFailed, TypeOK, States, t
<1>11. CASE Release(a)
  <2>1. [task[a] EXCEPT !.changed = (t \in listening), !.pc = "record"] \in Task
    <3>1. (t \in listening) \in BOOLEAN /\ "record" \in Steps
      BY DEF Steps
    <3> QED BY <1>0, <3>1, ChangedType, Zenon
  <2>2. task' \in [Actors -> Task]
    BY <1>0, <1>11, <2>1, TaskUpdate DEF Release, t
  <2> QED BY <1>11, <2>2 DEF Release, TypeOK
<1>12. CASE RecordStop(a)
  <2>1. task' \in [Actors -> Task]
    BY <1>0, <1>12, FinishType DEF RecordStop
  <2> QED BY <1>0, <1>12, <2>1, NullTypes DEF RecordStop, TypeOK, States, t
<1>13. CASE Erase(a)
  <2>1. task' \in [Actors -> Task]
    BY <1>0, <1>13, FinishType, ReturnType DEF Erase
  <2> QED BY <1>0, <1>13, <2>1, NullTypes DEF Erase, Without, TypeOK, States, t
<1>14. CASE Save(a)
  <2>1. task' \in [Actors -> Task]
    BY <1>0, <1>14, ReturnType DEF Save
  <2> QED BY <1>14, <2>1 DEF Save, TypeOK
<1>15. CASE Reconcile(a)
  <2>1. PICK broken \in SUBSET {u \in Tunnels : IsRunning(u)} :
          Examine(a, broken)
    BY <1>15 DEF Reconcile
  <2>2. \A u \in Tunnels : /\ PendingAfter(u, broken) \in PendingRestart
                           /\ StatusAfter(u, broken) \in States
    BY ExaminedTypes, <2>1
  <2>3. [task[a] EXCEPT !.changed = (status' # status \/ running' # running),
                        !.pc = "collect"] \in Task
    BY <1>0, ChangedType DEF Steps
  <2>4. task' \in [Actors -> Task]
    BY <1>0, <2>1, <2>3, TaskUpdate DEF Examine
  <2>5. running' \in [Tunnels -> RunningTunnel]
    BY <2>1, NullTypes DEF Examine, TypeOK
  <2> QED BY <2>1, <2>2, <2>4, <2>5 DEF Examine, TypeOK
<1>16. CASE CollectDue(a)
  <2>1. [task[a] EXCEPT !.todo = {u \in Tunnels : Due(u)}, !.pc = "restart"] \in Task
    BY <1>0 DEF Task, Steps
  <2>2. task' \in [Actors -> Task]
    BY <1>0, <1>16, <2>1, TaskUpdate DEF CollectDue
  <2> QED BY <1>16, <2>2 DEF CollectDue, TypeOK
<1>17. CASE RestartFailed(a)
  <2>1. task' \in [Actors -> Task]
    BY <1>0, <1>17, GotoType, NextDueType DEF RestartFailed, Steps
  <2> QED BY <1>0, <1>17, <2>1 DEF RestartFailed, TypeOK, t
<1>18. CASE Requeue(a)
  <2>1. task' \in [Actors -> Task]
    BY <1>0, <1>18, NextDueType DEF Requeue
  <2>2. RestartOf(task[a].gen, task[a].auto, task[a].count) \in PendingRestart
    BY <1>0, RestartType
  <2> QED BY <1>0, <1>18, <2>1, <2>2 DEF Requeue, TypeOK, States, t
<1>19. CASE PollDone(a)
  <2>1. task' \in [Actors -> Task]
    BY <1>0, <1>19, FinishType, ReturnType DEF PollDone
  <2> QED BY <1>19, <2>1 DEF PollDone, TypeOK
<1>20. ASSUME NEW u \in Tunnels, BeginRestart(a, u) PROVE TypeOK'
  <2>1. [task[a] EXCEPT !.tunnel = u, !.auto = pending[u].auto, !.count = pending[u].count,
                        !.gen = nextGen + 1, !.todo = @ \ {u}, !.pc = "spawn"] \in Task
    <3>1. nextGen + 1 \in Nat /\ "spawn" \in Steps
      BY DEF TypeOK, Steps
    <3>2. task[a].todo \ {u} \in SUBSET Tunnels
      BY <1>0
    <3> QED BY <1>0, <1>p, <3>1, <3>2, RestartingType
  <2>2. task' \in [Actors -> Task]
    BY <1>0, <1>20, <2>1, TaskUpdate DEF BeginRestart
  <2> QED BY <1>20, <2>2, NullTypes DEF BeginRestart, TypeOK, States
<1>21. ASSUME NEW u \in Tunnels, SkipRestart(a, u) PROVE TypeOK'
  <2>1. [task[a] EXCEPT !.todo = @ \ {u}] \in Task
    BY <1>0 DEF Task
  <2>2. task' \in [Actors -> Task]
    BY <1>0, <1>21, <2>1, TaskUpdate DEF SkipRestart
  <2> QED BY <1>21, <2>2 DEF SkipRestart, TypeOK
<1> QED
  BY <1>1, <1>2, <1>3, <1>4, <1>5, <1>6, <1>7, <1>8, <1>9, <1>10, <1>11, <1>12, <1>13,
     <1>14, <1>15, <1>16, <1>17, <1>18, <1>19, <1>20, <1>21 DEF Step

LEMMA TypeRequest ==
  ASSUME TypeOK, NEW a \in Actors, Request(a)
  PROVE  TypeOK'
<1>0. task \in [Actors -> Task] /\ task[a].tunnel \in Tunnels
  BY DEF TypeOK, Task
<1>1. ASSUME NEW op \in Ops, NEW t \in Tunnels, NEW auto \in BOOLEAN, NEW s \in Steps,
             Accept(a, op, t, auto, s)
      PROVE  TypeOK'
  <2>1. [Idle(t) EXCEPT !.op = op, !.auto = auto, !.pc = s] \in Task
    BY IdleType, AskedType
  <2>2. task' \in [Actors -> Task]
    BY <1>0, <1>1, <2>1, TaskUpdate DEF Accept
  <2> QED BY <1>1, <2>2 DEF Accept, TypeOK
<1>2. /\ {"start", "stop", "delete", "poll"} \subseteq Ops
      /\ {"detach", "reconcile"} \subseteq Steps
  BY DEF Ops, Steps
<1>3. CASE \E t \in Tunnels, auto \in BOOLEAN : StartRequest(a, t, auto)
  BY <1>1, <1>2, <1>3 DEF StartRequest
<1>4. CASE \E t \in Tunnels : StopRequest(a, t) \/ DeleteRequest(a, t)
  BY <1>1, <1>2, <1>4 DEF StopRequest, DeleteRequest
<1>5. CASE PollRequest(a)
  BY <1>0, <1>1, <1>2, <1>5 DEF PollRequest
<1> QED BY <1>3, <1>4, <1>5 DEF Request

LEMMA TypeFault ==
  ASSUME TypeOK, NEW a \in Actors, Fault(a)
  PROVE  TypeOK'
<1>0. task \in [Actors -> Task] /\ task[a] \in Task /\ task[a].tunnel \in Tunnels
  BY DEF TypeOK, Task
<1>1. CASE TerminateFails(a)
  <2>1. task' \in [Actors -> Task]
    BY <1>0, <1>1, ChildType, TaskUpdate, ReturnType DEF TerminateFails, Steps
  <2> QED BY <1>1, <2>1 DEF TerminateFails, Dropped, TypeOK
<1>2. CASE SaveBeginFails(a)
  <2>1. task' \in [Actors -> Task]
    BY <1>0, <1>2, ReturnType DEF SaveBeginFails
  <2> QED BY <1>0, <1>2, <2>1 DEF SaveBeginFails, TypeOK
<1>3. CASE SaveFails(a)
  <2>1. task' \in [Actors -> Task]
    BY <1>0, <1>3, ReturnType DEF SaveFails
  <2> QED BY <1>3, <2>1 DEF SaveFails, TypeOK
<1>4. CASE Disconnect(a)
  <2>1. task' \in [Actors -> Task]
    BY <1>0, <1>4, ReturnType DEF Disconnect
  <2> QED BY <1>4, <2>1 DEF Disconnect, Dropped, TypeOK
<1> QED BY <1>1, <1>2, <1>3, <1>4 DEF Fault

LEMMA TypeShutdown ==
  ASSUME TypeOK, Shutdown
  PROVE  TypeOK'
<1>0. /\ task \in [Actors -> Task] /\ Teardown \in Actors /\ task[Teardown] \in Task
      /\ task[Teardown].todo \in SUBSET Tunnels
  BY DEF TypeOK, Task, Actors
<1>1. CASE BeginShutdown
  <2>1. [task[Teardown] EXCEPT !.op = "shutdown", !.pc = "flagged"] \in Task
    BY <1>0 DEF Task, Ops, Steps
  <2>2. task' \in [Actors -> Task]
    BY <1>0, <1>1, <2>1, TaskUpdate DEF BeginShutdown
  <2> QED BY <1>1, <2>2 DEF BeginShutdown, TypeOK
<1>2. CASE CollectTunnels
  <2>1. [task[Teardown] EXCEPT !.todo = {t \in Tunnels : IsRunning(t)}, !.pc = "drain"]
          \in Task
    BY <1>0 DEF Task, Steps
  <2>2. task' \in [Actors -> Task]
    BY <1>0, <1>2, <2>1, TaskUpdate DEF CollectTunnels
  <2> QED BY <1>2, <2>2, CancelledType DEF CollectTunnels, TypeOK
<1>3. CASE DrainDone
  <2>1. task' \in [Actors -> Task]
    BY <1>0, <1>3, GotoType DEF DrainDone, Steps
  <2> QED BY <1>3, <2>1 DEF DrainDone, TypeOK
<1>4. CASE Close
  <2>1. task' \in [Actors -> Task]
    BY <1>0, <1>4, GotoType DEF Close, Steps
  <2> QED BY <1>4, <2>1 DEF Close, TypeOK
<1>5. ASSUME NEW t \in Tunnels, DrainNext(t) PROVE TypeOK'
  <2>1. [task[Teardown] EXCEPT !.todo = @ \ {t}, !.tunnel = t, !.pc = "detach"] \in Task
    BY <1>0 DEF Task, Steps
  <2>2. task' \in [Actors -> Task]
    BY <1>0, <1>5, <2>1, TaskUpdate DEF DrainNext
  <2> QED BY <1>5, <2>2 DEF DrainNext, TypeOK
<1> QED BY <1>1, <1>2, <1>3, <1>4, <1>5 DEF Shutdown

\* Every step of the daemon and of its environment keeps the types.
LEMMA TypeStep == TypeOK /\ [Next]_vars => TypeOK'
<1> SUFFICES ASSUME TypeOK, [Next]_vars PROVE TypeOK'
  OBVIOUS
<1>1. CASE UNCHANGED vars
  BY <1>1 DEF vars, TypeOK
<1>2. ASSUME NEW g \in alive, Die(g) PROVE TypeOK'
  BY <1>2 DEF Die, TypeOK
<1>3. ASSUME NEW t \in Tunnels, Elapse(t) PROVE TypeOK'
  <2>1. [pending[t] EXCEPT !.due = TRUE] \in PendingRestart
    BY DEF TypeOK, PendingRestart
  <2> QED BY <1>3, <2>1 DEF Elapse, TypeOK
<1> QED BY <1>1, <1>2, <1>3, TypeRequest, TypeTaskStep, TypeFault, TypeShutdown DEF Next

\* The variables keep their types (the runtime maps, the statuses, the tasks).
THEOREM TypeCorrect == Spec => []TypeOK
BY TypeInit, TypeStep, PTL DEF Spec

-----------------------------------------------------------------------------
(* Who owns which process                                                  *)
(*                                                                         *)
(* LatestWins, NoOrphanProvider and NoSharedProvider are not inductive:    *)
(* they also need that generations are handed out in order, where a task   *)
(* may hold a child, and that no one else has the generation of a start    *)
(* that has not spawned yet.                                               *)

\* Every generation was handed out.
HandedOut ==
  /\ \A t \in Tunnels : running[t].gen <= nextGen /\ inflight[t] <= nextGen /\ stopMark[t] <= nextGen
  /\ \A a \in Actors : task[a].gen <= nextGen /\ task[a].child <= nextGen

\* A task that will spawn with its generation.
Fresh(a) == task[a].pc \in {"saveBegin", "spawn"}

\* A task owns a child only while it waits for it or terminates it.
ChildHeld(a) ==
  /\ task[a].pc = "await" => task[a].child = task[a].gen
  /\ task[a].pc \notin {"await", "terminate"} => task[a].child = 0
  /\ task[a].pc \in {"saveBegin", "spawn", "await"} => task[a].gen # 0

\* The generation of such a task belongs to nobody else.
FreshUnused(a) ==
  Fresh(a) => /\ \A t \in Tunnels : running[t].gen # task[a].gen
              /\ \A b \in Actors : task[b].child # task[a].gen
              /\ \A b \in Actors \ {a} : Fresh(b) => task[b].gen # task[a].gen

Ownership ==
  /\ TypeOK
  /\ HandedOut
  /\ \A a \in Actors : ChildHeld(a) /\ FreshUnused(a)
  /\ 0 \notin alive
  /\ LatestWins
  /\ NoOrphanProvider
  /\ NoSharedProvider

LEMMA OwnershipInit == Init => Ownership
<1> SUFFICES ASSUME Init PROVE Ownership
  OBVIOUS
<1>1. TypeOK
  BY TypeInit
<1>2. \A t \in Tunnels : running[t].gen = 0 /\ inflight[t] = 0 /\ stopMark[t] = 0
  BY DEF Init, NotRunning
<1>3. \A a \in Actors : task[a].gen = 0 /\ task[a].child = 0 /\ task[a].pc = "idle"
  BY DEF Init, Idle
<1>4. nextGen = 0 /\ alive = {}
  BY DEF Init
<1> QED
  BY <1>1, <1>2, <1>3, <1>4
  DEF Ownership, HandedOut, ChildHeld, FreshUnused, Fresh, LatestWins, NoOrphanProvider,
      NoSharedProvider, IsRunning

\* A step in which a task ends up with no child and without a start to spawn, and
\* in which processes only end and tunnels only leave the running map (with their
\* process, if it was alive), keeps the invariant.
LEMMA PassiveStep ==
  ASSUME Ownership, TypeOK', NEW a \in Actors, NEW r \in Task, Becomes(a, r),
         r.child = 0, r.pc \notin {"saveBegin", "spawn", "await"},
         nextGen <= nextGen', r.gen <= nextGen', stopMark' = stopMark,
         \A t \in Tunnels : inflight'[t] \in {inflight[t], 0},
         \A t \in Tunnels : running'[t].gen \in {running[t].gen, 0},
         alive' \subseteq alive, task[a].child \notin alive',
         \A t \in Tunnels : running[t].gen \in alive' => running'[t].gen = running[t].gen
  PROVE  Ownership'
<1>1. /\ \A t \in Tunnels : /\ running[t].gen \in Nat /\ running'[t].gen \in Nat
                             /\ inflight[t] \in Nat /\ stopMark[t] \in Nat
      /\ nextGen \in Nat /\ nextGen' \in Nat
      /\ \A b \in Actors : task[b].gen \in Nat /\ task[b].child \in Nat
  BY DEF Ownership, TypeOK, RunningTunnel, Task
<1>2. /\ task'[a] = r
      /\ \A b \in Actors \ {a} : task'[b] = task[b]
  BY DEF Becomes, Ownership, TypeOK
<1>3. HandedOut'
  BY <1>1, <1>2 DEF Ownership, HandedOut
<1>4. ASSUME NEW b \in Actors PROVE (ChildHeld(b) /\ FreshUnused(b))'
  BY <1>1, <1>2, <1>4 DEF Ownership, ChildHeld, FreshUnused, Fresh
<1>5. LatestWins'
  BY <1>1 DEF Ownership, LatestWins, IsRunning
<1>6. NoOrphanProvider'
  BY <1>2 DEF Ownership, NoOrphanProvider
<1>7. NoSharedProvider'
  BY <1>1, <1>2 DEF Ownership, NoSharedProvider, IsRunning
<1> QED BY <1>3, <1>4, <1>5, <1>6, <1>7 DEF Ownership

\* What the actions that hand out generations or move a child need to know.
LEMMA OwnershipFacts ==
  ASSUME Ownership, NEW a \in Actors
  PROVE  /\ task \in [Actors -> Task] /\ task[a] \in Task /\ task[a].tunnel \in Tunnels
         /\ nextGen \in Nat
         /\ \A t \in Tunnels : /\ running[t].gen \in 0..nextGen /\ inflight[t] \in 0..nextGen
                               /\ stopMark[t] \in 0..nextGen
         /\ \A b \in Actors : task[b].gen \in 0..nextGen /\ task[b].child \in 0..nextGen
BY DEF Ownership, HandedOut, TypeOK, Task, RunningTunnel

\* A stop takes the process from the running map and holds it as its child.
LEMMA OwnershipDetach ==
  ASSUME Ownership, TypeOK', NEW a \in Actors, Detach(a)
  PROVE  Ownership'
<1> DEFINE t == task[a].tunnel
           g == running[t].gen
<1>0. /\ task[a] \in Task /\ t \in Tunnels /\ nextGen \in Nat
      /\ \A u \in Tunnels : /\ running[u].gen \in 0..nextGen /\ inflight[u] \in 0..nextGen
                            /\ stopMark[u] \in 0..nextGen
      /\ \A b \in Actors : task[b].gen \in 0..nextGen /\ task[b].child \in 0..nextGen
  BY OwnershipFacts
<1>1. /\ task'[a].gen = task[a].gen /\ task'[a].child = g
      /\ task'[a].pc = IF g = 0 THEN AfterStop(task[a].op) ELSE "terminate"
      /\ \A b \in Actors \ {a} : task'[b] = task[b]
  BY <1>0 DEF Detach, Becomes, Ownership, TypeOK, Task
<1>2. /\ running'[t].gen = 0 /\ \A u \in Tunnels \ {t} : running'[u] = running[u]
      /\ inflight'[t] = 0 /\ \A u \in Tunnels \ {t} : inflight'[u] = inflight[u]
      /\ stopMark'[t] = nextGen + 1 /\ \A u \in Tunnels \ {t} : stopMark'[u] = stopMark[u]
      /\ nextGen' = nextGen + 1 /\ alive' = alive
  BY <1>0 DEF Detach, Without, NotRunning, Ownership, TypeOK
<1>3. AfterStop(task[a].op) \notin {"saveBegin", "spawn", "await", "terminate"}
  BY <1>0 DEF AfterStop, Task, Ops
<1>4. task[a].child = 0 /\ ~Fresh(a) /\ ~Fresh(a)'
  BY <1>1, <1>3 DEF Detach, At, Ownership, ChildHeld, Fresh
<1> HIDE DEF t, g
<1>5. HandedOut'
  BY <1>0, <1>1, <1>2, Z3 DEF HandedOut, g
<1>6. ASSUME NEW b \in Actors PROVE (ChildHeld(b) /\ FreshUnused(b))'
  <2>1. CASE b = a
    BY <1>1, <1>3, <1>4, <2>1 DEF ChildHeld, FreshUnused
  <2>2. CASE b # a
    BY <1>0, <1>1, <1>2, <1>4, <2>2 DEF Ownership, ChildHeld, FreshUnused, Fresh, g
  <2> QED BY <2>1, <2>2
<1>7. LatestWins'
  BY <1>0, <1>2 DEF Ownership, LatestWins, IsRunning
<1>8. NoOrphanProvider'
  BY <1>0, <1>1, <1>2, <1>4 DEF Ownership, NoOrphanProvider, g
<1>9. NoSharedProvider'
  BY <1>0, <1>1, <1>2 DEF Ownership, NoSharedProvider, IsRunning, g
<1> QED BY <1>2, <1>5, <1>6, <1>7, <1>8, <1>9 DEF Ownership

\* A start or a restart takes the next generation.
LEMMA OwnershipBegin ==
  ASSUME Ownership, TypeOK', NEW a \in Actors, NEW t \in Tunnels,
         nextGen' = nextGen + 1, inflight' = [inflight EXCEPT ![t] = nextGen + 1],
         task[a].pc \in {"begin", "restart"}, NEW r \in Task, Becomes(a, r),
         r.pc \in {"saveBegin", "spawn"}, r.gen = nextGen + 1, r.child = task[a].child,
         UNCHANGED <<running, alive, stopMark>>
  PROVE  Ownership'
<1>0. /\ nextGen \in Nat
      /\ \A u \in Tunnels : /\ running[u].gen \in 0..nextGen /\ inflight[u] \in 0..nextGen
                            /\ stopMark[u] \in 0..nextGen
      /\ \A b \in Actors : task[b].gen \in 0..nextGen /\ task[b].child \in 0..nextGen
  BY OwnershipFacts
<1>1. task'[a] = r /\ \A b \in Actors \ {a} : task'[b] = task[b]
  BY DEF Becomes, Ownership, TypeOK
<1>2. inflight'[t] = nextGen + 1 /\ \A u \in Tunnels \ {t} : inflight'[u] = inflight[u]
  BY DEF Ownership, TypeOK
<1>3. r.child = 0
  BY DEF Ownership, ChildHeld
<1>4. HandedOut'
  BY <1>0, <1>1, <1>2 DEF HandedOut
<1>5. ASSUME NEW b \in Actors PROVE (ChildHeld(b) /\ FreshUnused(b))'
  <2>1. CASE b = a
    BY <1>0, <1>1, <1>3, <2>1 DEF ChildHeld, FreshUnused, Fresh
  <2>2. CASE b # a
    BY <1>0, <1>1, <1>3, <2>2 DEF Ownership, ChildHeld, FreshUnused, Fresh
  <2> QED BY <2>1, <2>2
<1>6. LatestWins'
  BY <1>0, <1>2 DEF Ownership, LatestWins, IsRunning
<1>7. NoOrphanProvider'
  BY <1>1, <1>3 DEF Ownership, NoOrphanProvider
<1>8. NoSharedProvider'
  BY <1>1, <1>3 DEF Ownership, NoSharedProvider, IsRunning
<1> QED BY <1>4, <1>5, <1>6, <1>7, <1>8 DEF Ownership

LEMMA OwnershipSpawn ==
  ASSUME Ownership, TypeOK', NEW a \in Actors, Spawn(a)
  PROVE  Ownership'
<1>0. /\ task[a] \in Task /\ nextGen \in Nat
      /\ \A b \in Actors : task[b].gen \in 0..nextGen /\ task[b].child \in 0..nextGen
  BY OwnershipFacts
<1>1. /\ task'[a].gen = task[a].gen /\ task'[a].child = task[a].gen /\ task'[a].pc = "await"
      /\ \A b \in Actors \ {a} : task'[b] = task[b]
  BY <1>0 DEF Spawn, Becomes, Ownership, TypeOK, Task
<1>2. alive' = alive \cup {task[a].gen}
      /\ UNCHANGED <<running, inflight, stopMark, nextGen>>
  BY DEF Spawn
<1>3. /\ Fresh(a) /\ task[a].child = 0 /\ task[a].gen # 0
      /\ \A t \in Tunnels : running[t].gen # task[a].gen
      /\ \A b \in Actors : task[b].child # task[a].gen
      /\ \A b \in Actors \ {a} : Fresh(b) => task[b].gen # task[a].gen
  BY DEF Spawn, At, Ownership, ChildHeld, FreshUnused, Fresh
<1>4. HandedOut'
  BY <1>0, <1>1, <1>2 DEF Ownership, HandedOut
<1>5. ASSUME NEW b \in Actors PROVE (ChildHeld(b) /\ FreshUnused(b))'
  <2>1. CASE b = a
    BY <1>1, <1>3, <2>1 DEF ChildHeld, FreshUnused, Fresh
  <2>2. CASE b # a
    BY <1>1, <1>2, <1>3, <2>2 DEF Ownership, ChildHeld, FreshUnused, Fresh
  <2> QED BY <2>1, <2>2
<1>6. LatestWins'
  BY <1>2 DEF Ownership, LatestWins, IsRunning
<1>7. NoOrphanProvider'
  BY <1>1, <1>2, <1>3 DEF Ownership, NoOrphanProvider
<1>8. NoSharedProvider'
  BY <1>1, <1>2, <1>3 DEF Ownership, NoSharedProvider, IsRunning
<1> QED BY <1>2, <1>3, <1>4, <1>5, <1>6, <1>7, <1>8 DEF Ownership

\* A commit moves the child into the running map.
LEMMA OwnershipCommit ==
  ASSUME Ownership, TypeOK', NEW a \in Actors, Commit(a)
  PROVE  Ownership'
<1> DEFINE t == task[a].tunnel
           g == task[a].child
<1>0. /\ task[a] \in Task /\ t \in Tunnels /\ nextGen \in Nat
      /\ \A u \in Tunnels : /\ running[u].gen \in 0..nextGen /\ inflight[u] \in 0..nextGen
                            /\ stopMark[u] \in 0..nextGen
      /\ \A b \in Actors : task[b].gen \in 0..nextGen /\ task[b].child \in 0..nextGen
  BY OwnershipFacts
<1>1. /\ task'[a].gen = 0 /\ task'[a].child = 0 /\ task'[a].pc \in {"save", "restart"}
      /\ \A b \in Actors \ {a} : task'[b] = task[b]
  <2>1. CASE Finish(a)
    BY <2>1 DEF Finish, Becomes, Idle, Ownership, TypeOK
  <2>2. CASE NextDue(a, TRUE)
    BY <2>2 DEF NextDue, Becomes, Idle, Ownership, TypeOK
  <2> QED BY <2>1, <2>2 DEF Commit
<1>2. /\ running'[t].gen = g /\ \A u \in Tunnels \ {t} : running'[u] = running[u]
      /\ inflight'[t] = 0 /\ \A u \in Tunnels \ {t} : inflight'[u] = inflight[u]
      /\ alive' = alive \ {running[t].gen} /\ UNCHANGED <<stopMark, nextGen>>
  BY <1>0 DEF Commit, Ownership, TypeOK
<1>3. g = task[a].gen /\ g # 0 /\ g = inflight[t] /\ ~Fresh(a) /\ ~Fresh(a)'
  BY <1>1 DEF Commit, MayCommit, IsCurrent, At, Ownership, ChildHeld, Fresh
<1> HIDE DEF t, g
<1>4. HandedOut'
  BY <1>0, <1>1, <1>2 DEF Ownership, HandedOut, g
<1>5. ASSUME NEW b \in Actors PROVE (ChildHeld(b) /\ FreshUnused(b))'
  <2>1. CASE b = a
    BY <1>1, <1>3, <2>1 DEF ChildHeld, FreshUnused
  <2>2. CASE b # a
    BY <1>0, <1>1, <1>2, <1>3, <2>2 DEF Ownership, ChildHeld, FreshUnused, Fresh, g
  <2> QED BY <2>1, <2>2
<1>6. LatestWins'
  BY <1>0, <1>2, <1>3 DEF Ownership, LatestWins, IsRunning
<1>7. NoOrphanProvider'
  BY <1>0, <1>1, <1>2 DEF Ownership, NoOrphanProvider, g
<1>8. NoSharedProvider'
  BY <1>0, <1>1, <1>2, <1>3 DEF Ownership, NoSharedProvider, IsRunning, g
<1> QED BY <1>2, <1>4, <1>5, <1>6, <1>7, <1>8 DEF Ownership

\* PassiveStep for the ways in which a handler or a pass goes on.
LEMMA PassiveEnd ==
  ASSUME Ownership, TypeOK', NEW a \in Actors, NEW c \in BOOLEAN,
         Return(a) \/ Finish(a) \/ NextDue(a, c),
         nextGen <= nextGen', stopMark' = stopMark,
         \A t \in Tunnels : inflight'[t] \in {inflight[t], 0},
         \A t \in Tunnels : running'[t].gen \in {running[t].gen, 0},
         alive' \subseteq alive, task[a].child \notin alive',
         \A t \in Tunnels : running[t].gen \in alive' => running'[t].gen = running[t].gen
  PROVE  Ownership'
<1> DEFINE t == task[a].tunnel
<1>0. task[a].tunnel \in Tunnels /\ task[a].todo \in SUBSET Tunnels /\ nextGen' \in Nat
  BY DEF Ownership, TypeOK, Task
<1>1. CASE Return(a)
  <2>1. Idle(t) \in Task /\ Idle(t).child = 0 /\ Idle(t).gen = 0 /\ Idle(t).pc = "idle"
    BY <1>0, IdleType DEF Idle
  <2> QED BY <1>0, <1>1, <2>1, PassiveStep DEF Return
<1>2. CASE Finish(a)
  <2> DEFINE r == [Idle(t) EXCEPT !.pc = "save"]
  <2>1. r \in Task /\ r.child = 0 /\ r.gen = 0 /\ r.pc = "save"
    BY <1>0, IdleType DEF Idle, Task, Steps
  <2>2. Becomes(a, r)
    BY <1>2 DEF Finish
  <2> HIDE DEF r
  <2> QED BY <1>0, <2>1, <2>2, PassiveStep
<1>3. CASE NextDue(a, c)
  <2> DEFINE r == [Idle(t) EXCEPT !.op = "poll", !.pc = "restart",
                                  !.todo = task[a].todo, !.changed = c]
  <2>1. r \in Task
    BY <1>0, IdleType, PassType DEF Steps, Ops
  <2>2. r.child = 0 /\ r.gen = 0 /\ r.pc = "restart"
    BY DEF Idle
  <2>3. Becomes(a, r)
    BY <1>3 DEF NextDue
  <2> HIDE DEF r
  <2> QED BY <1>0, <2>1, <2>2, <2>3, PassiveStep
<1> QED BY <1>1, <1>2, <1>3

\* PassiveStep for a step that leaves the runtime maps alone, apart from a start
\* that it may cancel, and goes on with the child it had: none.
LEMMA PassiveGoto ==
  ASSUME Ownership, TypeOK', NEW a \in Actors, task[a].child = 0,
         NEW r \in Task, Becomes(a, r), r.child = 0, r.gen = task[a].gen,
         r.pc \notin {"saveBegin", "spawn", "await"},
         UNCHANGED <<running, nextGen, alive, stopMark>>,
         \A t \in Tunnels : inflight'[t] \in {inflight[t], 0}
  PROVE  Ownership'
<1>1. 0 \notin alive /\ task[a].gen <= nextGen /\ nextGen <= nextGen'
  BY DEF Ownership, HandedOut, TypeOK
<1> QED BY <1>1, PassiveStep

LEMMA OwnershipTaskStep ==
  ASSUME Ownership, TypeOK', NEW a \in Actors, Step(a)
  PROVE  Ownership'
<1> DEFINE t == task[a].tunnel
<1>0. /\ task[a] \in Task /\ t \in Tunnels /\ nextGen \in Nat /\ nextGen <= nextGen
      /\ running \in [Tunnels -> RunningTunnel] /\ inflight \in [Tunnels -> Nat]
      /\ task \in [Actors -> Task] /\ task' \in [Actors -> Task] /\ task'[a] \in Task
  BY DEF Ownership, TypeOK, Task
<1>c. /\ 0 \notin alive /\ task[a].gen <= nextGen
      /\ task[a].pc \notin {"await", "terminate"} => task[a].child = 0
  BY DEF Ownership, HandedOut, ChildHeld
<1> HIDE DEF t
<1>1. CASE Detach(a)
  BY <1>1, OwnershipDetach
<1>2. CASE Terminate(a)
  <2> DEFINE r == [task[a] EXCEPT !.child = 0, !.pc = AfterStop(task[a].op)]
  <2>1. AfterStop(task[a].op) \in Steps \ {"saveBegin", "spawn", "await"}
    BY <1>0 DEF AfterStop, Task, Ops, Steps
  <2>2. r \in Task /\ r.child = 0 /\ r.gen = task[a].gen /\ r.pc = AfterStop(task[a].op)
    BY <1>0, <2>1, ChildType DEF Task
  <2>3. Becomes(a, r) /\ alive' = alive \ {task[a].child}
    BY <1>2 DEF Terminate
  <2>4. UNCHANGED <<running, inflight, nextGen, stopMark>>
    BY <1>2 DEF Terminate
  <2> HIDE DEF r
  <2> QED BY <1>0, <1>c, <2>1, <2>2, <2>3, <2>4, PassiveStep
<1>3. CASE Begin(a)
  <2> DEFINE r == [task[a] EXCEPT !.gen = nextGen + 1, !.pc = "saveBegin"]
  <2>1. Becomes(a, r) /\ task[a].pc = "begin"
    BY <1>3 DEF Begin, At
  <2>2. r = task'[a]
    BY <1>0, <2>1 DEF Becomes
  <2>3. r.gen = nextGen + 1 /\ r.pc = "saveBegin" /\ r.child = task[a].child
    BY <1>0 DEF Task
  <2>4. /\ nextGen' = nextGen + 1 /\ inflight' = [inflight EXCEPT ![t] = nextGen + 1]
        /\ UNCHANGED <<running, alive, stopMark>>
    BY <1>3 DEF Begin, t
  <2> HIDE DEF r
  <2> QED BY <1>0, <2>1, <2>2, <2>3, <2>4, OwnershipBegin
<1>4. CASE SaveBegin(a)
  <2>1. /\ task'[a].gen = task[a].gen /\ task'[a].child = task[a].child
        /\ task'[a].pc = "spawn" /\ task[a].pc = "saveBegin"
        /\ \A b \in Actors \ {a} : task'[b] = task[b]
    BY <1>0, <1>4 DEF SaveBegin, Goto, Becomes, At, Task
  <2>2. UNCHANGED <<running, inflight, nextGen, alive, stopMark>>
    BY <1>4 DEF SaveBegin
  <2>3. HandedOut'
    BY <2>1, <2>2 DEF Ownership, HandedOut
  <2>4. ASSUME NEW b \in Actors PROVE (ChildHeld(b) /\ FreshUnused(b))'
    BY <2>1, <2>2 DEF Ownership, ChildHeld, FreshUnused, Fresh
  <2>5. (LatestWins /\ NoOrphanProvider /\ NoSharedProvider)'
    BY <2>1, <2>2
    DEF Ownership, LatestWins, NoOrphanProvider, NoSharedProvider, IsRunning
  <2> QED BY <2>2, <2>3, <2>4, <2>5 DEF Ownership
<1>5. CASE Spawn(a)
  BY <1>5, OwnershipSpawn
<1>6. CASE SpawnFails(a)
  <2> DEFINE r == [task[a] EXCEPT !.pc = "failed"]
  <2>1. Becomes(a, r) /\ r = task'[a] /\ task[a].child = 0
    BY <1>0, <1>c, <1>6 DEF SpawnFails, Goto, Becomes, At
  <2>2. r.child = 0 /\ r.gen = task[a].gen /\ r.pc = "failed"
    BY <1>0, <2>1 DEF Task
  <2>3. UNCHANGED <<running, inflight, nextGen, alive, stopMark>>
    BY <1>6 DEF SpawnFails
  <2> HIDE DEF r
  <2> QED BY <1>0, <2>1, <2>2, <2>3, PassiveGoto
<1>7. CASE NotReady(a)
  <2> DEFINE r == [task[a] EXCEPT !.child = 0, !.pc = "failed"]
  <2>1. Becomes(a, r) /\ r = task'[a] /\ alive' = alive \ {task[a].child}
    BY <1>0, <1>7 DEF NotReady, Becomes
  <2>2. r.child = 0 /\ r.gen = task[a].gen /\ r.pc = "failed"
    BY <1>0 DEF Task
  <2>3. UNCHANGED <<running, inflight, nextGen, stopMark>>
    BY <1>7 DEF NotReady
  <2> HIDE DEF r
  <2> QED BY <1>0, <1>c, <2>1, <2>2, <2>3, PassiveStep
<1>8. CASE Commit(a)
  BY <1>8, OwnershipCommit
<1>9. CASE Discard(a)
  <2>1. UNCHANGED <<running, inflight, nextGen, stopMark>> /\ alive' = alive \ {task[a].child}
    BY <1>9 DEF Discard
  <2>2. (Return(a) \/ NextDue(a, task[a].changed)) /\ task[a].changed \in BOOLEAN
    BY <1>0, <1>9 DEF Discard, Task
  <2> QED BY <1>0, <2>1, <2>2, PassiveEnd
<1>10. CASE StartFailed(a)
  <2>1. UNCHANGED <<running, nextGen, alive, stopMark>> /\ (Return(a) \/ Finish(a))
    BY <1>10 DEF StartFailed
  <2>2. \A u \in Tunnels : inflight'[u] \in {inflight[u], 0}
    BY <1>0, <1>10 DEF StartFailed
  <2>3. task[a].child = 0
    BY <1>c, <1>10 DEF StartFailed, At
  <2> QED BY <1>0, <1>c, <2>1, <2>2, <2>3, PassiveEnd
<1>11. CASE Release(a)
  <2> DEFINE r == [task[a] EXCEPT !.changed = (t \in listening), !.pc = "record"]
  <2>1. Becomes(a, r) /\ r = task'[a] /\ task[a].child = 0
    BY <1>0, <1>c, <1>11 DEF Release, Becomes, At, t
  <2>2. r.child = 0 /\ r.gen = task[a].gen /\ r.pc = "record"
    BY <1>0, <2>1 DEF Task
  <2>3. UNCHANGED <<running, inflight, nextGen, alive, stopMark>>
    BY <1>11 DEF Release
  <2> HIDE DEF r
  <2> QED BY <1>0, <2>1, <2>2, <2>3, PassiveGoto
<1>12. CASE RecordStop(a)
  <2>1. UNCHANGED <<running, inflight, nextGen, alive, stopMark>> /\ Finish(a)
    BY <1>12 DEF RecordStop
  <2>2. task[a].child = 0
    BY <1>c, <1>12 DEF RecordStop, At
  <2> QED BY <1>0, <1>c, <2>1, <2>2, PassiveEnd
<1>13. CASE Erase(a)
  <2>1. UNCHANGED <<inflight, nextGen, stopMark>> /\ (Return(a) \/ Finish(a))
    BY <1>13 DEF Erase
  <2>2. task[a].child = 0
    BY <1>c, <1>13 DEF Erase, At
  <2>3. /\ alive' = alive \ {running[t].gen} /\ running'[t].gen = 0
        /\ \A u \in Tunnels \ {t} : running'[u] = running[u]
    BY <1>0, <1>13 DEF Erase, Without, NotRunning, t
  <2>4. \A u \in Tunnels : running[u].gen \in alive' => running'[u].gen = running[u].gen
    BY <2>3
  <2> QED BY <1>0, <1>c, <2>1, <2>2, <2>3, <2>4, PassiveEnd
<1>14. CASE Save(a)
  <2>1. UNCHANGED <<running, inflight, nextGen, alive, stopMark>> /\ Return(a)
    BY <1>14 DEF Save
  <2>2. task[a].child = 0
    BY <1>c, <1>14 DEF Save, At
  <2> QED BY <1>0, <1>c, <2>1, <2>2, PassiveEnd
<1>15. CASE Reconcile(a)
  <2>1. PICK broken \in SUBSET {u \in Tunnels : IsRunning(u)} : Examine(a, broken)
    BY <1>15 DEF Reconcile
  <2>2. task[a].child = 0
    BY <1>c, <1>15 DEF Reconcile, At
  <2> DEFINE r == [task[a] EXCEPT !.changed = (status' # status \/ running' # running),
                                  !.pc = "collect"]
  <2>3. Becomes(a, r) /\ r = task'[a]
    BY <1>0, <2>1 DEF Examine, Becomes
  <2>4. r.child = 0 /\ r.gen = task[a].gen /\ r.pc = "collect"
    BY <1>0, <2>2 DEF Task
  <2>5. UNCHANGED <<inflight, nextGen, stopMark>> /\ alive' \subseteq alive
    BY <2>1 DEF Examine
  <2>6. \A u \in Tunnels : /\ running'[u].gen \in {running[u].gen, 0}
                           /\ running[u].gen \in alive' => running'[u].gen = running[u].gen
    BY <1>0, <2>1 DEF Examine, Exited, NotRunning
  <2> HIDE DEF r
  <2> QED BY <1>0, <1>c, <2>2, <2>3, <2>4, <2>5, <2>6, PassiveStep
<1>16. CASE CollectDue(a)
  <2> DEFINE r == [task[a] EXCEPT !.todo = {u \in Tunnels : Due(u)}, !.pc = "restart"]
  <2>1. Becomes(a, r) /\ r = task'[a] /\ task[a].child = 0
    BY <1>0, <1>c, <1>16 DEF CollectDue, Becomes, At
  <2>2. r.child = 0 /\ r.gen = task[a].gen /\ r.pc = "restart"
    BY <1>0, <2>1 DEF Task
  <2>3. UNCHANGED <<running, inflight, nextGen, alive, stopMark>>
    BY <1>16 DEF CollectDue
  <2> HIDE DEF r
  <2> QED BY <1>0, <2>1, <2>2, <2>3, PassiveGoto
<1>17. CASE RestartFailed(a)
  <2>1. UNCHANGED <<running, nextGen, alive, stopMark>>
    BY <1>17 DEF RestartFailed
  <2>2. \A u \in Tunnels : inflight'[u] \in {inflight[u], 0}
    BY <1>0, <1>17 DEF RestartFailed
  <2>3. task[a].child = 0
    BY <1>c, <1>17 DEF RestartFailed, At
  <2>4. CASE Goto(a, "requeue")
    <3> DEFINE r == [task[a] EXCEPT !.pc = "requeue"]
    <3>1. Becomes(a, r) /\ r = task'[a]
      BY <1>0, <2>4 DEF Goto, Becomes
    <3>2. r.child = 0 /\ r.gen = task[a].gen /\ r.pc = "requeue"
      BY <1>0, <2>3 DEF Task
    <3> HIDE DEF r
    <3> QED BY <1>0, <2>1, <2>2, <2>3, <3>1, <3>2, PassiveGoto
  <2>5. CASE NextDue(a, task[a].changed)
    <3>1. task[a].changed \in BOOLEAN
      BY <1>0 DEF Task
    <3> QED BY <1>0, <1>c, <2>1, <2>2, <2>3, <2>5, <3>1, PassiveEnd
  <2> QED BY <1>17, <2>4, <2>5 DEF RestartFailed
<1>18. CASE Requeue(a)
  <2>1. UNCHANGED <<running, inflight, nextGen, alive, stopMark>> /\ NextDue(a, TRUE)
    BY <1>18 DEF Requeue
  <2>2. task[a].child = 0
    BY <1>c, <1>18 DEF Requeue, At
  <2> QED BY <1>0, <1>c, <2>1, <2>2, PassiveEnd
<1>19. CASE PollDone(a)
  <2>1. UNCHANGED <<running, inflight, nextGen, alive, stopMark>> /\ (Return(a) \/ Finish(a))
    BY <1>19 DEF PollDone
  <2>2. task[a].child = 0
    BY <1>c, <1>19 DEF PollDone, At
  <2> QED BY <1>0, <1>c, <2>1, <2>2, PassiveEnd
<1>20. ASSUME NEW u \in Tunnels, BeginRestart(a, u) PROVE Ownership'
  <2> DEFINE r == [task[a] EXCEPT !.tunnel = u, !.auto = pending[u].auto,
                                  !.count = pending[u].count, !.gen = nextGen + 1,
                                  !.todo = @ \ {u}, !.pc = "spawn"]
  <2>1. Becomes(a, r) /\ r = task'[a] /\ task[a].pc = "restart"
    BY <1>0, <1>20 DEF BeginRestart, Becomes, At
  <2>2. r.gen = nextGen + 1 /\ r.pc = "spawn" /\ r.child = task[a].child
    BY <1>0 DEF Task
  <2>3. /\ nextGen' = nextGen + 1 /\ inflight' = [inflight EXCEPT ![u] = nextGen + 1]
        /\ UNCHANGED <<running, alive, stopMark>>
    BY <1>20 DEF BeginRestart
  <2> HIDE DEF r
  <2> QED BY <1>0, <2>1, <2>2, <2>3, OwnershipBegin
<1>21. ASSUME NEW u \in Tunnels, SkipRestart(a, u) PROVE Ownership'
  <2> DEFINE r == [task[a] EXCEPT !.todo = @ \ {u}]
  <2>1. Becomes(a, r) /\ r = task'[a] /\ task[a].child = 0 /\ task[a].pc = "restart"
    BY <1>0, <1>c, <1>21 DEF SkipRestart, Becomes, At
  <2>2. r.child = 0 /\ r.gen = task[a].gen /\ r.pc = "restart"
    BY <1>0, <2>1 DEF Task
  <2>3. UNCHANGED <<running, inflight, nextGen, alive, stopMark>>
    BY <1>21 DEF SkipRestart
  <2> HIDE DEF r
  <2> QED BY <1>0, <2>1, <2>2, <2>3, PassiveGoto
<1> QED
  BY <1>1, <1>2, <1>3, <1>4, <1>5, <1>6, <1>7, <1>8, <1>9, <1>10, <1>11, <1>12, <1>13,
     <1>14, <1>15, <1>16, <1>17, <1>18, <1>19, <1>20, <1>21 DEF Step

LEMMA OwnershipRequest ==
  ASSUME Ownership, TypeOK', NEW a \in Actors, Request(a)
  PROVE  Ownership'
<1>1. ASSUME NEW op \in Ops, NEW t \in Tunnels, NEW auto \in BOOLEAN,
             NEW s \in Steps \ {"saveBegin", "spawn", "await"}, Accept(a, op, t, auto, s)
      PROVE  Ownership'
  <2> DEFINE r == [Idle(t) EXCEPT !.op = op, !.auto = auto, !.pc = s]
  <2>1. r \in Task /\ r.child = 0 /\ r.gen = 0 /\ r.pc = s
    BY IdleType, AskedType DEF Idle
  <2>2. /\ Becomes(a, r) /\ task[a].child = 0
        /\ UNCHANGED <<running, inflight, nextGen, alive, stopMark>>
    BY <1>1 DEF Accept, At, Ownership, ChildHeld
  <2>3. 0 \notin alive /\ 0 <= nextGen /\ nextGen <= nextGen
    BY DEF Ownership, TypeOK
  <2> HIDE DEF r
  <2> QED BY <2>1, <2>2, <2>3, PassiveStep
<1>2. /\ {"start", "stop", "delete", "poll"} \subseteq Ops
      /\ {"detach", "reconcile"} \subseteq Steps \ {"saveBegin", "spawn", "await"}
      /\ task[a].tunnel \in Tunnels
  BY DEF Ops, Steps, Ownership, TypeOK, Task
<1>3. CASE \E t \in Tunnels, auto \in BOOLEAN : StartRequest(a, t, auto)
  BY <1>1, <1>2, <1>3 DEF StartRequest
<1>4. CASE \E t \in Tunnels : StopRequest(a, t) \/ DeleteRequest(a, t)
  BY <1>1, <1>2, <1>4 DEF StopRequest, DeleteRequest
<1>5. CASE PollRequest(a)
  BY <1>1, <1>2, <1>5 DEF PollRequest
<1> QED BY <1>3, <1>4, <1>5 DEF Request

LEMMA OwnershipFault ==
  ASSUME Ownership, TypeOK', NEW a \in Actors, Fault(a)
  PROVE  Ownership'
<1>0. /\ task[a] \in Task /\ nextGen \in Nat /\ nextGen <= nextGen
      /\ task \in [Actors -> Task] /\ task' \in [Actors -> Task] /\ task'[a] \in Task
      /\ inflight \in [Tunnels -> Nat]
  BY DEF Ownership, TypeOK, Task
<1>c. /\ 0 \notin alive /\ task[a].gen <= nextGen
      /\ task[a].pc \notin {"await", "terminate"} => task[a].child = 0
  BY DEF Ownership, HandedOut, ChildHeld
<1>1. CASE TerminateFails(a)
  <2>1. UNCHANGED <<running, inflight, nextGen, stopMark>> /\ alive' = alive \ {task[a].child}
    BY <1>1 DEF TerminateFails, Dropped
  <2>2. CASE Return(a)
    BY <1>0, <2>1, <2>2, PassiveEnd
  <2>3. CASE Becomes(a, [task[a] EXCEPT !.child = 0, !.pc = "drain"])
    <3> DEFINE r == [task[a] EXCEPT !.child = 0, !.pc = "drain"]
    <3>1. Becomes(a, r) /\ r = task'[a]
      BY <1>0, <2>3 DEF Becomes
    <3>2. r.child = 0 /\ r.gen = task[a].gen /\ r.pc = "drain"
      BY <1>0 DEF Task
    <3> HIDE DEF r
    <3> QED BY <1>0, <1>c, <2>1, <3>1, <3>2, PassiveStep
  <2>4. a = Teardown => Becomes(a, [task[a] EXCEPT !.child = 0, !.pc = "drain"])
    BY <1>1 DEF TerminateFails
  <2> QED BY <1>1, <2>2, <2>3, <2>4 DEF TerminateFails
<1>2. CASE SaveBeginFails(a)
  <2>1. /\ UNCHANGED <<running, alive, stopMark>> /\ Return(a)
        /\ nextGen' = nextGen + 1 /\ nextGen <= nextGen + 1
        /\ \A u \in Tunnels : inflight'[u] \in {inflight[u], 0}
    BY <1>0, <1>2 DEF SaveBeginFails
  <2>2. task[a].child = 0
    BY <1>c, <1>2 DEF SaveBeginFails, At
  <2> QED BY <1>c, <2>1, <2>2, PassiveEnd
<1>3. CASE SaveFails(a)
  <2>1. UNCHANGED <<running, inflight, nextGen, alive, stopMark>> /\ Return(a)
    BY <1>3 DEF SaveFails
  <2>2. task[a].child = 0
    BY <1>c, <1>3 DEF SaveFails, At
  <2> QED BY <1>0, <1>c, <2>1, <2>2, PassiveEnd
<1>4. CASE Disconnect(a)
  <2>1. /\ UNCHANGED <<running, inflight, nextGen, stopMark>> /\ Return(a)
        /\ alive' = alive \ {task[a].child}
    BY <1>4 DEF Disconnect, Dropped
  <2> QED BY <1>0, <2>1, PassiveEnd
<1> QED BY <1>1, <1>2, <1>3, <1>4 DEF Fault

LEMMA OwnershipShutdown ==
  ASSUME Ownership, TypeOK', Shutdown
  PROVE  Ownership'
<1>0. /\ Teardown \in Actors /\ task[Teardown] \in Task /\ nextGen \in Nat /\ nextGen <= nextGen
      /\ task \in [Actors -> Task] /\ task' \in [Actors -> Task] /\ task'[Teardown] \in Task
      /\ inflight \in [Tunnels -> Nat]
  BY DEF Actors, Ownership, TypeOK, Task
<1>c. /\ 0 \notin alive /\ task[Teardown].gen <= nextGen
      /\ task[Teardown].pc \notin {"await", "terminate"} => task[Teardown].child = 0
  BY <1>0 DEF Ownership, HandedOut, ChildHeld
<1>1. ASSUME NEW r, Becomes(Teardown, r), task[Teardown].child = 0, r.child = 0,
             r.gen = task[Teardown].gen, r.pc \notin {"saveBegin", "spawn", "await"},
             UNCHANGED <<running, alive, stopMark>>, nextGen <= nextGen', nextGen' \in Nat,
             \A t \in Tunnels : inflight'[t] \in {inflight[t], 0}
      PROVE  Ownership'
  <2>1. r \in Task
    BY <1>0, <1>1 DEF Becomes
  <2>2. r.gen <= nextGen'
    BY <1>0, <1>c, <1>1 DEF Task
  <2> QED BY <1>0, <1>c, <1>1, <2>1, <2>2, PassiveStep
<1>2. CASE BeginShutdown
  <2> DEFINE r == [task[Teardown] EXCEPT !.op = "shutdown", !.pc = "flagged"]
  <2>1. /\ r.child = task[Teardown].child /\ r.gen = task[Teardown].gen /\ r.pc = "flagged"
        /\ task[Teardown].pc = "idle" /\ Becomes(Teardown, r)
        /\ UNCHANGED <<running, inflight, nextGen, alive, stopMark>>
    BY <1>0, <1>2 DEF BeginShutdown, At, Task
  <2> HIDE DEF r
  <2> QED BY <1>0, <1>c, <1>1, <2>1
<1>3. CASE CollectTunnels
  <2> DEFINE r == [task[Teardown] EXCEPT !.todo = {t \in Tunnels : IsRunning(t)}, !.pc = "drain"]
  <2>1. /\ r.child = task[Teardown].child /\ r.gen = task[Teardown].gen /\ r.pc = "drain"
        /\ task[Teardown].pc = "flagged" /\ Becomes(Teardown, r)
        /\ UNCHANGED <<running, alive, stopMark>>
    BY <1>0, <1>3 DEF CollectTunnels, At, Task
  <2>2. nextGen <= nextGen' /\ nextGen' \in Nat
    BY <1>0, <1>3, CancelledType DEF CollectTunnels
  <2>3. \A t \in Tunnels : inflight'[t] \in {inflight[t], 0}
    BY <1>3 DEF CollectTunnels
  <2> HIDE DEF r
  <2> QED BY <1>c, <1>1, <2>1, <2>2, <2>3
<1>4. CASE DrainDone \/ Close
  <2>1. PICK s \in {"closing", "closed"} : Goto(Teardown, s)
    BY <1>4 DEF DrainDone, Close
  <2> DEFINE r == [task[Teardown] EXCEPT !.pc = s]
  <2>2. /\ r.child = task[Teardown].child /\ r.gen = task[Teardown].gen /\ r.pc = s
        /\ Becomes(Teardown, r)
    BY <1>0, <2>1 DEF Goto, Task
  <2>3. /\ task[Teardown].pc \in {"drain", "closing"}
        /\ UNCHANGED <<running, inflight, nextGen, alive, stopMark>>
    BY <1>4 DEF DrainDone, Close, At
  <2> HIDE DEF r
  <2> QED BY <1>0, <1>c, <1>1, <2>2, <2>3
<1>5. ASSUME NEW t \in Tunnels, DrainNext(t) PROVE Ownership'
  <2> DEFINE r == [task[Teardown] EXCEPT !.todo = @ \ {t}, !.tunnel = t, !.pc = "detach"]
  <2>1. /\ r.child = task[Teardown].child /\ r.gen = task[Teardown].gen /\ r.pc = "detach"
        /\ task[Teardown].pc = "drain" /\ Becomes(Teardown, r)
        /\ UNCHANGED <<running, inflight, nextGen, alive, stopMark>>
    BY <1>0, <1>5 DEF DrainNext, At, Task
  <2> HIDE DEF r
  <2> QED BY <1>0, <1>c, <1>1, <2>1
<1> QED BY <1>2, <1>3, <1>4, <1>5 DEF Shutdown

LEMMA OwnershipStep == Ownership /\ [Next]_vars => Ownership'
<1> SUFFICES ASSUME Ownership, [Next]_vars PROVE Ownership'
  OBVIOUS
<1>t. TypeOK'
  BY TypeStep DEF Ownership
<1>1. ASSUME UNCHANGED <<running, inflight, nextGen, task, stopMark>>, alive' \subseteq alive
      PROVE  Ownership'
  BY <1>t, <1>1
  DEF Ownership, HandedOut, ChildHeld, FreshUnused, Fresh, LatestWins, NoOrphanProvider,
      NoSharedProvider, IsRunning
<1>2. CASE UNCHANGED vars
  BY <1>1, <1>2 DEF vars
<1>3. CASE \E g \in alive : Die(g)
  BY <1>1, <1>3 DEF Die
<1>4. CASE \E t \in Tunnels : Elapse(t)
  BY <1>1, <1>4 DEF Elapse
<1> QED
  BY <1>t, <1>2, <1>3, <1>4, OwnershipRequest, OwnershipTaskStep, OwnershipFault,
     OwnershipShutdown DEF Next

LEMMA OwnershipHolds == Spec => []Ownership
BY OwnershipInit, OwnershipStep, PTL DEF Spec

\* Whatever starts, stops, deletes, restarts, dropped handlers and a shutdown do
\* to each other, a live provider process always has an owner...
THEOREM ProvidersOwned == Spec => []NoOrphanProvider
BY OwnershipHolds, PTL DEF Ownership

\* ... and only one.
THEOREM ProvidersNotShared == Spec => []NoSharedProvider
BY OwnershipHolds, PTL DEF Ownership

\* What runs was started after the last stop of its tunnel, and a start in flight
\* is newer than what runs (begin_start, start_is_current, cancel_start).
THEOREM LatestStartWins == Spec => []LatestWins
BY OwnershipHolds, PTL DEF Ownership

-----------------------------------------------------------------------------
(* What a step of a handler or of the monitor does to its own task *)

\* The steps of every task but the teardown.
HandlerSteps == Steps \ {"flagged", "drain", "closing", "closed"}

LEMMA StepShape ==
  ASSUME TypeOK, TypeOK', NEW a \in Actors, a # Teardown,
         task[a].pc \in HandlerSteps, task[a].op # "shutdown",
         Step(a) \/ Fault(a) \/ Request(a)
  PROVE  /\ \A b \in Actors \ {a} : task'[b] = task[b]
         /\ task'[a].pc \in HandlerSteps /\ task'[a].op # "shutdown"
         /\ \/ task'[a].count \in {task[a].count, 0}
            \/ \E t \in Tunnels : IsScheduled(t) /\ task'[a].count = pending[t].count
<1>0. /\ task \in [Actors -> Task] /\ task[a] \in Task
      /\ task' \in [Actors -> Task] /\ task'[a] \in Task
      /\ a # Teardown /\ task[a].pc \in HandlerSteps /\ task[a].op # "shutdown"
      /\ task[a].op \in Ops /\ task'[a].pc \in Steps
  BY DEF TypeOK, Task
<1>a. AfterStop(task[a].op) \in {"begin", "release"}
  BY <1>0 DEF AfterStop, Ops
<1>b. ASSUME NEW c \in BOOLEAN, NextDue(a, c)
      PROVE  /\ \A b \in Actors \ {a} : task'[b] = task[b]
             /\ task'[a].pc = "restart" /\ task'[a].op = "poll" /\ task'[a].count = 0
  BY <1>0, <1>b DEF NextDue, Becomes, Idle
<1>d. task[a].changed \in BOOLEAN
  BY <1>0 DEF Task
<1>1. CASE Detach(a)
  BY <1>0, <1>a, <1>1 DEF Detach, At, Becomes, HandlerSteps
<1>2. CASE Terminate(a)
  BY <1>0, <1>a, <1>2 DEF Terminate, Becomes, HandlerSteps
<1>3. CASE Begin(a)
  BY <1>0, <1>a, <1>3 DEF Begin, Becomes, HandlerSteps
<1>4. CASE SaveBegin(a)
  BY <1>0, <1>a, <1>4 DEF SaveBegin, Goto, Becomes, HandlerSteps
<1>5. CASE Spawn(a)
  BY <1>0, <1>a, <1>5 DEF Spawn, Becomes, HandlerSteps
<1>6. CASE SpawnFails(a)
  BY <1>0, <1>a, <1>6 DEF SpawnFails, Goto, Becomes, HandlerSteps
<1>7. CASE NotReady(a)
  BY <1>0, <1>a, <1>7 DEF NotReady, Becomes, HandlerSteps
<1>8. CASE Commit(a)
  <2>1. CASE Finish(a)
    BY <1>0, <2>1 DEF Finish, Idle, Becomes, HandlerSteps
  <2>2. CASE NextDue(a, TRUE)
    BY <1>0, <1>b, <2>2 DEF HandlerSteps
  <2> QED BY <1>8, <2>1, <2>2 DEF Commit
<1>9. CASE Discard(a)
  <2>1. CASE Return(a)
    BY <1>0, <2>1 DEF Return, Idle, Becomes, HandlerSteps
  <2>2. CASE NextDue(a, task[a].changed)
    BY <1>0, <1>b, <1>d, <2>2 DEF HandlerSteps
  <2> QED BY <1>9, <2>1, <2>2 DEF Discard
<1>10. CASE StartFailed(a)
  BY <1>0, <1>a, <1>10 DEF StartFailed, Return, Finish, Idle, Becomes, HandlerSteps
<1>11. CASE Release(a)
  BY <1>0, <1>a, <1>11 DEF Release, Becomes, HandlerSteps
<1>12. CASE RecordStop(a)
  BY <1>0, <1>a, <1>12 DEF RecordStop, Finish, Idle, Becomes, HandlerSteps
<1>13. CASE Erase(a)
  BY <1>0, <1>a, <1>13 DEF Erase, Finish, Return, Idle, Becomes, HandlerSteps
<1>14. CASE Save(a)
  BY <1>0, <1>a, <1>14 DEF Save, Return, Idle, Becomes, HandlerSteps
<1>15. CASE Reconcile(a)
  BY <1>0, <1>a, <1>15 DEF Reconcile, Examine, Becomes, HandlerSteps
<1>16. CASE CollectDue(a)
  BY <1>0, <1>a, <1>16 DEF CollectDue, Becomes, HandlerSteps
<1>17. CASE RestartFailed(a)
  <2>1. CASE Goto(a, "requeue")
    BY <1>0, <2>1 DEF Goto, Becomes, HandlerSteps
  <2>2. CASE NextDue(a, task[a].changed)
    BY <1>0, <1>b, <1>d, <2>2 DEF HandlerSteps
  <2> QED BY <1>17, <2>1, <2>2 DEF RestartFailed
<1>18. CASE Requeue(a)
  BY <1>0, <1>a, <1>18 DEF Requeue, NextDue, Idle, Becomes, HandlerSteps
<1>19. CASE PollDone(a)
  BY <1>0, <1>a, <1>19 DEF PollDone, Finish, Return, Idle, Becomes, HandlerSteps
<1>20. CASE \E t \in Tunnels : BeginRestart(a, t)
  BY <1>0, <1>20 DEF BeginRestart, Becomes, HandlerSteps
<1>21. CASE \E t \in Tunnels : SkipRestart(a, t)
  BY <1>0, <1>21 DEF SkipRestart, Becomes, HandlerSteps
<1>22. CASE Fault(a)
  BY <1>0, <1>22 DEF Fault, TerminateFails, SaveBeginFails, SaveFails, Disconnect, Return,
     Idle, Becomes, HandlerSteps
<1>23. CASE Request(a)
  <2>1. ASSUME NEW op \in Ops \ {"shutdown"}, NEW t \in Tunnels, NEW auto \in BOOLEAN,
               NEW s \in HandlerSteps, Accept(a, op, t, auto, s)
        PROVE  /\ \A b \in Actors \ {a} : task'[b] = task[b]
               /\ task'[a].pc = s /\ task'[a].op = op /\ task'[a].count = 0
    BY <1>0, <2>1 DEF Accept, Becomes, Idle
  <2>2. /\ {"start", "stop", "delete", "poll"} \subseteq Ops \ {"shutdown"}
        /\ {"detach", "reconcile"} \subseteq HandlerSteps /\ task[a].tunnel \in Tunnels
    BY <1>0 DEF Ops, Steps, HandlerSteps, Task
  <2>3. CASE \E t \in Tunnels, auto \in BOOLEAN : StartRequest(a, t, auto)
    BY <2>1, <2>2, <2>3 DEF StartRequest
  <2>4. CASE \E t \in Tunnels : StopRequest(a, t) \/ DeleteRequest(a, t)
    BY <2>1, <2>2, <2>4 DEF StopRequest, DeleteRequest
  <2>5. CASE PollRequest(a)
    BY <2>1, <2>2, <2>5 DEF PollRequest
  <2> QED BY <1>23, <2>3, <2>4, <2>5 DEF Request
<1> QED
  BY <1>1, <1>2, <1>3, <1>4, <1>5, <1>6, <1>7, <1>8, <1>9, <1>10, <1>11, <1>12, <1>13,
     <1>14, <1>15, <1>16, <1>17, <1>18, <1>19, <1>20, <1>21, <1>22, <1>23 DEF Step

-----------------------------------------------------------------------------
(* The teardown *)

TeardownSteps == {"idle", "flagged", "drain", "detach", "terminate", "closing", "closed"}

\* The teardown still has tunnel t to stop.
ToBeStopped(t) ==
  \/ task[Teardown].pc \in {"idle", "flagged"}
  \/ task[Teardown].pc \in {"drain", "detach", "terminate"} /\ t \in task[Teardown].todo
  \/ task[Teardown].pc = "detach" /\ t = task[Teardown].tunnel

\* Only the teardown task tears down, the flag says so from its first step on, and
\* what is running from then on is what it still has to stop.
Orderly ==
  /\ TypeOK
  /\ \A a \in Actors \ {Teardown} : task[a].pc \in HandlerSteps /\ task[a].op # "shutdown"
  /\ task[Teardown].pc \in TeardownSteps
  /\ task[Teardown].pc # "idle" => task[Teardown].op = "shutdown"
  /\ shutting = (task[Teardown].pc # "idle")
  /\ \A t \in Tunnels : IsRunning(t) => ToBeStopped(t)

LEMMA OrderlyInit == Init => Orderly
<1> SUFFICES ASSUME Init PROVE Orderly
  OBVIOUS
<1>1. TypeOK
  BY TypeInit
<1>2. \A a \in Actors : task[a].op = "none" /\ task[a].pc = "idle"
  BY DEF Init, Idle
<1>3. Teardown \in Actors /\ shutting = FALSE
  BY DEF Init, Actors
<1> QED
  BY <1>1, <1>2, <1>3 DEF Orderly, HandlerSteps, TeardownSteps, Steps, ToBeStopped

\* No step of a task registers a provider once the shutdown has begun.
LEMMA NothingRegistered ==
  ASSUME TypeOK, NEW a \in Actors, Step(a) \/ Fault(a) \/ Request(a)
  PROVE  /\ shutting' = shutting
         /\ shutting => \A t \in Tunnels : running'[t].gen \in {running[t].gen, 0}
<1>0. running \in [Tunnels -> RunningTunnel] /\ task[a].tunnel \in Tunnels
  BY DEF TypeOK, Task
<1>1. CASE Detach(a) \/ Erase(a)
  BY <1>0, <1>1 DEF Detach, Erase, Without, NotRunning
<1>2. CASE Commit(a)
  BY <1>2 DEF Commit, MayCommit
<1>3. CASE Reconcile(a)
  BY <1>0, <1>3 DEF Reconcile, Examine, NotRunning
<1>4. CASE Terminate(a) \/ Begin(a) \/ SaveBegin(a) \/ Spawn(a) \/ SpawnFails(a) \/ NotReady(a)
  BY <1>4 DEF Terminate, Begin, SaveBegin, Spawn, SpawnFails, NotReady
<1>5. CASE Discard(a) \/ StartFailed(a) \/ Release(a) \/ RecordStop(a) \/ Save(a)
  BY <1>5 DEF Discard, StartFailed, Release, RecordStop, Save
<1>6. CASE CollectDue(a) \/ RestartFailed(a) \/ Requeue(a) \/ PollDone(a)
  BY <1>6 DEF CollectDue, RestartFailed, Requeue, PollDone
<1>7. CASE \E t \in Tunnels : BeginRestart(a, t) \/ SkipRestart(a, t)
  BY <1>7 DEF BeginRestart, SkipRestart
<1>8. CASE Fault(a)
  BY <1>8 DEF Fault, TerminateFails, SaveBeginFails, SaveFails, Disconnect
<1>9. CASE Request(a)
  BY <1>9 DEF Request, StartRequest, StopRequest, DeleteRequest, PollRequest, Accept
<1> QED
  BY <1>1, <1>2, <1>3, <1>4, <1>5, <1>6, <1>7, <1>8, <1>9 DEF Step

\* Of the steps of the other tasks, the teardown only takes those of
\* stop_running_process.
LEMMA TeardownStops ==
  ASSUME Orderly, Step(Teardown) \/ Fault(Teardown) \/ Request(Teardown)
  PROVE  Detach(Teardown) \/ Terminate(Teardown) \/ TerminateFails(Teardown)
<1>1. task[Teardown].pc \in TeardownSteps
  BY DEF Orderly
<1>2. Teardown \notin Clients /\ Teardown \notin Pollers
  BY ActorsAssumption
<1>3. CASE Step(Teardown)
  BY <1>1, <1>3 DEF TeardownSteps, At, Step, Begin, SaveBegin, Spawn, SpawnFails, NotReady,
     Commit, Discard, StartFailed, Release, RecordStop, Erase, Save, Reconcile, CollectDue,
     RestartFailed, Requeue, PollDone, BeginRestart, SkipRestart
<1>4. CASE Fault(Teardown)
  BY <1>1, <1>2, <1>4 DEF TeardownSteps, At, Fault, SaveBeginFails, SaveFails, Disconnect
<1>5. CASE Request(Teardown)
  BY <1>2, <1>5 DEF Request, StartRequest, StopRequest, DeleteRequest, PollRequest
<1> QED BY <1>3, <1>4, <1>5

\* What these steps do to the teardown task.
LEMMA TeardownTask ==
  ASSUME Orderly, Detach(Teardown) \/ Terminate(Teardown) \/ TerminateFails(Teardown)
  PROVE  /\ task'[Teardown].op = task[Teardown].op /\ task'[Teardown].todo = task[Teardown].todo
         /\ task'[Teardown].count = task[Teardown].count
         /\ task'[Teardown].pc \in {"drain", "terminate"}
         /\ \A b \in Actors \ {Teardown} : task'[b] = task[b]
<1>0. Teardown \in Actors /\ task \in [Actors -> Task] /\ task[Teardown] \in Task
  BY DEF Actors, Orderly, TypeOK
<1>1. AfterStop(task[Teardown].op) = "drain"
  BY DEF Detach, Terminate, TerminateFails, At, Orderly, AfterStop
<1>2. ASSUME NEW g, NEW s \in {"drain", "terminate"},
             Becomes(Teardown, [task[Teardown] EXCEPT !.child = g, !.pc = s])
      PROVE  /\ task'[Teardown].op = task[Teardown].op
             /\ task'[Teardown].todo = task[Teardown].todo
             /\ task'[Teardown].count = task[Teardown].count
             /\ task'[Teardown].pc \in {"drain", "terminate"}
             /\ \A b \in Actors \ {Teardown} : task'[b] = task[b]
  BY <1>0, <1>2 DEF Becomes, Task
<1>3. CASE Detach(Teardown)
  BY <1>1, <1>2, <1>3 DEF Detach
<1>4. CASE Terminate(Teardown)
  BY <1>1, <1>2, <1>4 DEF Terminate
<1>5. CASE TerminateFails(Teardown)
  BY <1>2, <1>5 DEF TerminateFails
<1> QED BY <1>3, <1>4, <1>5

LEMMA OrderlyStep == Orderly /\ [Next]_vars => Orderly'
<1> SUFFICES ASSUME Orderly, [Next]_vars PROVE Orderly'
  OBVIOUS
<1>t. TypeOK /\ TypeOK'
  BY TypeStep DEF Orderly
<1>0. /\ Teardown \in Actors /\ task \in [Actors -> Task] /\ task[Teardown] \in Task
      /\ task[Teardown].tunnel \in Tunnels
      /\ running \in [Tunnels -> RunningTunnel]
  BY <1>t DEF Actors, TypeOK, Task
<1>1. ASSUME NEW a \in Actors \ {Teardown}, Step(a) \/ Fault(a) \/ Request(a)
      PROVE  Orderly'
  <2>1. /\ \A b \in Actors \ {a} : task'[b] = task[b]
        /\ task'[a].pc \in HandlerSteps /\ task'[a].op # "shutdown"
    BY <1>t, <1>1, StepShape DEF Orderly
  <2>2. /\ shutting' = shutting
        /\ shutting => \A t \in Tunnels : running'[t].gen \in {running[t].gen, 0}
    BY <1>t, <1>1, NothingRegistered
  <2>3. task'[Teardown] = task[Teardown]
    BY <1>0, <1>1, <2>1
  <2>4. ASSUME NEW t \in Tunnels, running'[t].gen # 0 PROVE ToBeStopped(t)'
    BY <2>2, <2>3, <2>4 DEF Orderly, ToBeStopped, IsRunning
  <2> QED BY <1>t, <2>1, <2>2, <2>3, <2>4 DEF Orderly, IsRunning
<1>2. ASSUME Detach(Teardown) \/ Terminate(Teardown) \/ TerminateFails(Teardown)
      PROVE  Orderly'
  <2>1. /\ task[Teardown].pc \in {"detach", "terminate"} /\ task[Teardown].op = "shutdown"
        /\ AfterStop(task[Teardown].op) = "drain"
    BY <1>2 DEF Detach, Terminate, TerminateFails, At, Orderly, AfterStop
  <2>2. /\ task'[Teardown].op = "shutdown" /\ task'[Teardown].todo = task[Teardown].todo
        /\ task'[Teardown].pc \in {"drain", "terminate"}
        /\ \A b \in Actors \ {Teardown} : task'[b] = task[b]
    BY <1>2, <2>1, TeardownTask
  <2>3. shutting' = shutting
    BY <1>2 DEF Detach, Terminate, TerminateFails
  <2>4. ASSUME NEW t \in Tunnels, running'[t].gen # 0 PROVE t \in task[Teardown].todo
    <3>1. CASE Detach(Teardown)
      BY <1>0, <2>4, <3>1
      DEF Detach, Without, NotRunning, At, Orderly, ToBeStopped, IsRunning
    <3>2. CASE Terminate(Teardown) \/ TerminateFails(Teardown)
      BY <2>4, <3>2 DEF Terminate, TerminateFails, At, Orderly, ToBeStopped, IsRunning
    <3> QED BY <1>2, <3>1, <3>2
  <2> QED
    BY <1>t, <2>1, <2>2, <2>3, <2>4
    DEF Orderly, TeardownSteps, IsRunning, ToBeStopped
<1>3. CASE Shutdown
  <2>1. \A b \in Actors \ {Teardown} : task'[b] = task[b]
    BY <1>0, <1>3
    DEF Shutdown, BeginShutdown, CollectTunnels, DrainDone, Close, DrainNext, Goto, Becomes
  <2>2. UNCHANGED running
    BY <1>3 DEF Shutdown, BeginShutdown, CollectTunnels, DrainDone, Close, DrainNext
  <2>3. CASE BeginShutdown
    BY <1>0, <1>t, <2>1, <2>2, <2>3
    DEF BeginShutdown, Becomes, At, Orderly, TeardownSteps, ToBeStopped, IsRunning, Task
  <2>4. CASE CollectTunnels
    BY <1>0, <1>t, <2>1, <2>2, <2>4
    DEF CollectTunnels, Becomes, At, Orderly, TeardownSteps, ToBeStopped, IsRunning, Task
  <2>5. CASE DrainDone
    BY <1>0, <1>t, <2>1, <2>2, <2>5
    DEF DrainDone, Goto, Becomes, At, Orderly, TeardownSteps, ToBeStopped, IsRunning, Task
  <2>6. CASE Close
    BY <1>0, <1>t, <2>1, <2>2, <2>6
    DEF Close, Goto, Becomes, At, Orderly, TeardownSteps, ToBeStopped, IsRunning, Task
  <2>7. ASSUME NEW t \in Tunnels, DrainNext(t) PROVE Orderly'
    BY <1>0, <1>t, <2>1, <2>2, <2>7
    DEF DrainNext, Becomes, At, Orderly, TeardownSteps, ToBeStopped, IsRunning, Task
  <2> QED BY <1>3, <2>3, <2>4, <2>5, <2>6, <2>7 DEF Shutdown
<1>4. CASE UNCHANGED vars \/ (\E g \in alive : Die(g)) \/ \E t \in Tunnels : Elapse(t)
  <2>1. UNCHANGED <<running, shutting, task>>
    BY <1>4 DEF vars, Die, Elapse
  <2> QED BY <1>t, <2>1 DEF Orderly, ToBeStopped, IsRunning
<1> QED
  BY <1>1, <1>2, <1>3, <1>4, TeardownStops DEF Next

LEMMA OrderlyHolds == Spec => []Orderly
BY OrderlyInit, OrderlyStep, PTL DEF Spec

\* When shutdown has stopped the tunnels it found, nothing is registered as running
\* and no start or restart registers anything any more.
THEOREM NothingRegisteredAfterShutdown == Spec => []NothingAfterShutdown
<1>1. Orderly => NothingAfterShutdown
  BY DEF Orderly, NothingAfterShutdown, ToBeStopped
<1> QED BY <1>1, OrderlyHolds, PTL

-----------------------------------------------------------------------------
(* The restart budget *)

\* Neither a task that is bringing a provider up exceeds the budget.
Budgeted ==
  /\ TypeOK
  /\ RestartBudget
  /\ \A a \in Actors : task[a].count <= MaxAutoRestarts

\* The running map and the schedule may only lose entries, or gain one within the
\* budget.
RunningKept  ==
  \A t \in Tunnels : running'[t].count <= MaxAutoRestarts
PendingKept ==
  \A t \in Tunnels :
    pending'[t].gen # 0 => pending'[t].auto /\ pending'[t].count \in 1..MaxAutoRestarts

\* determine_exit_action schedules a restart only within the budget.
LEMMA RestartWithinBudget ==
  ASSUME NEW g, NEW auto \in BOOLEAN, NEW count \in Nat, ExitAction(auto, count) = "Restart"
  PROVE  /\ RestartOf(g, auto, count).auto
         /\ RestartOf(g, auto, count).count \in 1..MaxAutoRestarts
BY BoundsAssumption DEF ExitAction, Exhausted, RestartOf

LEMMA BudgetMaps ==
  ASSUME Budgeted, TypeOK', NEW a \in Actors, Step(a)
  PROVE  RunningKept /\ PendingKept
<1>0. /\ task[a] \in Task /\ task[a].tunnel \in Tunnels /\ MaxAutoRestarts \in Nat
      /\ task[a].count \in Nat /\ task[a].count <= MaxAutoRestarts /\ task[a].auto \in BOOLEAN
      /\ running \in [Tunnels -> RunningTunnel] /\ pending \in [Tunnels -> PendingRestart]
  BY BoundsAssumption DEF Budgeted, TypeOK, Task
<1>1. \A t \in Tunnels : running[t].count <= MaxAutoRestarts
  BY DEF Budgeted, RestartBudget
<1>2. \A t \in Tunnels :
        pending[t].gen # 0 => pending[t].auto /\ pending[t].count \in 1..MaxAutoRestarts
  BY DEF Budgeted, RestartBudget, IsScheduled
<1>3. running' = running => RunningKept
  BY <1>1 DEF RunningKept
<1>4. pending' = pending => PendingKept
  BY <1>2 DEF PendingKept
<1>5. ASSUME NEW t \in Tunnels, pending' = [pending EXCEPT ![t] = NoRestart]
      PROVE  PendingKept
  BY <1>0, <1>2, <1>5 DEF PendingKept, NoRestart
<1>6. ASSUME NEW t \in Tunnels, running' = Without(t)
      PROVE  RunningKept
  BY <1>0, <1>1, <1>6 DEF RunningKept, Without, NotRunning
<1>7. CASE Detach(a)
  BY <1>0, <1>5, <1>6, <1>7 DEF Detach
<1>8. CASE Begin(a) \/ RecordStop(a) \/ \E t \in Tunnels : BeginRestart(a, t)
  BY <1>0, <1>3, <1>5, <1>8 DEF Begin, RecordStop, BeginRestart
<1>9. CASE Commit(a)
  <2>1. RunningKept
    BY <1>0, <1>1, <1>9 DEF Commit, RunningKept
  <2>2. PendingKept
    BY <1>0, <1>4, <1>5, <1>9 DEF Commit
  <2> QED BY <2>1, <2>2
<1>10. CASE Erase(a)
  BY <1>0, <1>5, <1>6, <1>10 DEF Erase
<1>11. CASE Reconcile(a)
  <2>1. PICK broken \in SUBSET {u \in Tunnels : IsRunning(u)} : Examine(a, broken)
    BY <1>11 DEF Reconcile
  <2>2. RunningKept
    BY <1>0, <1>1, <2>1 DEF Examine, RunningKept, NotRunning
  <2>3. ASSUME NEW t \in Tunnels, PendingAfter(t, broken).gen # 0
        PROVE  /\ PendingAfter(t, broken).auto
               /\ PendingAfter(t, broken).count \in 1..MaxAutoRestarts
    <3>1. CASE PendingAfter(t, broken) = pending[t]
      BY <1>2, <2>3, <3>1
    <3>2. CASE /\ ExitOf(t) = "Restart"
               /\ PendingAfter(t, broken)
                    = RestartOf(running[t].gen, running[t].auto, running[t].count)
      <4>1. running[t].auto \in BOOLEAN /\ running[t].count \in Nat
        BY <1>0 DEF RunningTunnel
      <4> QED BY <3>2, <4>1, RestartWithinBudget DEF ExitOf
    <3>3. CASE PendingAfter(t, broken) = NoRestart
      BY <2>3, <3>3 DEF NoRestart
    <3> QED BY <3>1, <3>2, <3>3 DEF PendingAfter
  <2>4. PendingKept
    BY <2>1, <2>3 DEF Examine, PendingKept
  <2> QED BY <2>2, <2>4
<1>12. CASE Requeue(a)
  <2>1. PendingKept
    <3>1. CASE ExitAction(task[a].auto, task[a].count) = "Restart"
      <4>1. pending' = [pending EXCEPT ![task[a].tunnel] =
                          RestartOf(task[a].gen, task[a].auto, task[a].count)]
        BY <1>12, <3>1 DEF Requeue
      <4> QED BY <1>0, <1>2, <3>1, <4>1, RestartWithinBudget DEF PendingKept
    <3>2. CASE ExitAction(task[a].auto, task[a].count) # "Restart"
      BY <1>4, <1>12, <3>2 DEF Requeue
    <3> QED BY <3>1, <3>2
  <2> QED BY <1>3, <1>12, <2>1 DEF Requeue
<1>13. CASE Terminate(a) \/ SaveBegin(a) \/ Spawn(a) \/ SpawnFails(a) \/ NotReady(a)
  BY <1>3, <1>4, <1>13 DEF Terminate, SaveBegin, Spawn, SpawnFails, NotReady
<1>14. CASE Discard(a) \/ StartFailed(a) \/ Release(a) \/ Save(a) \/ CollectDue(a)
  BY <1>3, <1>4, <1>14 DEF Discard, StartFailed, Release, Save, CollectDue
<1>15. CASE RestartFailed(a) \/ PollDone(a) \/ \E t \in Tunnels : SkipRestart(a, t)
  BY <1>3, <1>4, <1>15 DEF RestartFailed, PollDone, SkipRestart
<1> QED
  BY <1>7, <1>8, <1>9, <1>10, <1>11, <1>12, <1>13, <1>14, <1>15 DEF Step

LEMMA BudgetStep == Budgeted /\ Orderly /\ [Next]_vars => Budgeted'
<1> SUFFICES ASSUME Budgeted, Orderly, [Next]_vars PROVE Budgeted'
  OBVIOUS
<1>t. TypeOK /\ TypeOK'
  BY TypeStep DEF Budgeted
<1>0. /\ Teardown \in Actors /\ task \in [Actors -> Task] /\ task[Teardown] \in Task
      /\ MaxAutoRestarts \in Nat
  BY <1>t, BoundsAssumption DEF Actors, TypeOK
<1>1. ASSUME RunningKept, PendingKept, \A a \in Actors : task'[a].count <= MaxAutoRestarts
      PROVE  Budgeted'
  BY <1>t, <1>1 DEF Budgeted, RestartBudget, RunningKept, PendingKept, IsScheduled
<1>2. UNCHANGED <<running, pending>> => RunningKept /\ PendingKept
  BY DEF Budgeted, RestartBudget, RunningKept, PendingKept, IsScheduled
<1>3. ASSUME NEW a \in Actors, Step(a) \/ Fault(a) \/ Request(a)
      PROVE  RunningKept /\ PendingKept
  <2>1. CASE Step(a)
    BY <1>t, <2>1, BudgetMaps
  <2>2. CASE Fault(a) \/ Request(a)
    BY <1>2, <2>2 DEF Fault, TerminateFails, SaveBeginFails, SaveFails, Disconnect, Request,
       StartRequest, StopRequest, DeleteRequest, PollRequest, Accept
  <2> QED BY <1>3, <2>1, <2>2
<1>4. ASSUME NEW a \in Actors \ {Teardown}, Step(a) \/ Fault(a) \/ Request(a)
      PROVE  Budgeted'
  <2>1. /\ \A b \in Actors \ {a} : task'[b] = task[b]
        /\ \/ task'[a].count \in {task[a].count, 0}
           \/ \E t \in Tunnels : IsScheduled(t) /\ task'[a].count = pending[t].count
    BY <1>t, <1>4, StepShape DEF Orderly
  <2>2. \A b \in Actors : task'[b].count <= MaxAutoRestarts
    BY <1>0, <2>1 DEF Budgeted, RestartBudget
  <2> QED BY <1>1, <1>3, <1>4, <2>2
<1>5. ASSUME Step(Teardown) \/ Fault(Teardown) \/ Request(Teardown)
      PROVE  Budgeted'
  <2>1. Detach(Teardown) \/ Terminate(Teardown) \/ TerminateFails(Teardown)
    BY <1>5, TeardownStops
  <2>2. \A b \in Actors : task'[b].count = task[b].count
    BY <2>1, TeardownTask
  <2> QED BY <1>0, <1>1, <1>3, <1>5, <2>2 DEF Budgeted
<1>6. CASE Shutdown
  <2>1. \A b \in Actors : task'[b].count = task[b].count
    <3>1. CASE BeginShutdown
      BY <1>0, <3>1 DEF BeginShutdown, Becomes, Task
    <3>2. CASE CollectTunnels
      BY <1>0, <3>2 DEF CollectTunnels, Becomes, Task
    <3>3. CASE DrainDone \/ Close
      BY <1>0, <3>3 DEF DrainDone, Close, Goto, Becomes, Task
    <3>4. CASE \E t \in Tunnels : DrainNext(t)
      BY <1>0, <3>4 DEF DrainNext, Becomes, Task
    <3> QED BY <1>6, <3>1, <3>2, <3>3, <3>4 DEF Shutdown
  <2>2. UNCHANGED <<running, pending>>
    BY <1>6 DEF Shutdown, BeginShutdown, CollectTunnels, DrainDone, Close, DrainNext
  <2> QED BY <1>1, <1>2, <2>1, <2>2 DEF Budgeted
<1>7. CASE UNCHANGED vars \/ \E g \in alive : Die(g)
  <2>1. UNCHANGED <<running, pending, task>>
    BY <1>7 DEF vars, Die
  <2> QED BY <1>1, <1>2, <2>1 DEF Budgeted
<1>8. ASSUME NEW t \in Tunnels, Elapse(t) PROVE Budgeted'
  <2>1. PendingKept
    <3>1. /\ pending \in [Tunnels -> PendingRestart] /\ pending[t].gen # 0
          /\ pending' = [pending EXCEPT ![t].due = TRUE]
      BY <1>t, <1>8 DEF Elapse, TypeOK, IsScheduled
    <3>2. \A u \in Tunnels : /\ pending'[u].gen = pending[u].gen
                             /\ pending'[u].auto = pending[u].auto
                             /\ pending'[u].count = pending[u].count
      BY <3>1 DEF PendingRestart
    <3> QED BY <3>2 DEF Budgeted, RestartBudget, PendingKept, IsScheduled
  <2>2. RunningKept /\ UNCHANGED task
    BY <1>8 DEF Elapse, Budgeted, RestartBudget, RunningKept
  <2> QED BY <1>1, <2>1, <2>2 DEF Budgeted
<1> QED BY <1>4, <1>5, <1>6, <1>7, <1>8 DEF Next

\* An auto restart is only ever scheduled, and a provider only ever brought up by
\* one, within --max-auto-restarts, and only for a start that asked for restarts.
THEOREM RestartsBudgeted == Spec => []RestartBudget
<1>1. Init => Budgeted
  <2> SUFFICES ASSUME Init PROVE Budgeted
    OBVIOUS
  <2>1. /\ \A t \in Tunnels : running[t].count = 0 /\ pending[t].gen = 0
        /\ \A a \in Actors : task[a].count = 0
    BY DEF Init, NotRunning, NoRestart, Idle
  <2> QED BY <2>1, TypeInit, BoundsAssumption DEF Budgeted, RestartBudget, IsScheduled
<1>2. Budgeted => RestartBudget
  BY DEF Budgeted
<1> QED BY <1>1, <1>2, BudgetStep, OrderlyHolds, PTL DEF Spec
-----------------------------------------------------------------------------
(* Statuses, when no fault occurs *)

(* NoPhantomStatus and DurableWhenQuiet speak of moments when no task is    *)
(* under way; at any other moment some task answers for what is not in      *)
(* order yet, and hands that over to whoever cancels or overtakes it.       *)

\* A task at a step is one of a handler that has this step.
Role(r) ==
  /\ r.pc \in {"detach", "terminate"} => r.op \in {"start", "stop", "delete", "shutdown"}
  /\ r.pc \in {"begin", "saveBegin"} => r.op = "start"
  /\ r.pc \in {"spawn", "await", "failed"} => r.op \in {"start", "poll"}
  /\ r.pc \in {"release", "record"} => r.op \in {"stop", "delete"}
  /\ r.pc \in {"reconcile", "collect", "restart", "requeue"} => r.op = "poll"
  /\ r.pc \in {"saveBegin", "spawn", "await", "failed", "requeue"} => r.gen # 0
  /\ r.pc = "await" => r.child # 0

\* Task a will give the status of tunnel t a new value in any case.
Concludes(a, t) ==
  /\ task[a].tunnel = t
  /\ \/ task[a].op = "start" /\ task[a].pc \in {"detach", "terminate", "begin"}
     \/ /\ task[a].op \in {"stop", "delete"}
        /\ task[a].pc \in {"detach", "terminate", "release", "record"}

\* Task a is bringing tunnel t up, and nobody has cancelled or overtaken it.
Attempts(a, t) ==
  /\ task[a].tunnel = t
  /\ \/ task[a].pc \in {"saveBegin", "spawn", "await", "failed"} /\ IsCurrent(a)
     \/ task[a].pc = "requeue"

MindedAt(t) ==
  /\ status[t] = "Running" => IsRunning(t) \/ \E a \in Actors : Concludes(a, t)
  /\ status[t] = "Starting" =>
       IsScheduled(t) \/ \E a \in Actors : Concludes(a, t) \/ Attempts(a, t)

\* Task a will save the state: in any case, because its pass has changed
\* something, or because its restart has and is still current. A delete of a
\* tunnel that has no status entry may end without a save.
WillSave(a) ==
  \/ task[a].pc \in {"save", "saveBegin", "requeue"}
  \/ task[a].op = "start" /\ task[a].pc \in {"detach", "terminate", "begin"}
  \/ /\ task[a].op \in {"stop", "delete"}
     /\ task[a].pc \in {"detach", "terminate", "release", "record"}
     /\ task[a].op = "stop" \/ status[task[a].tunnel] # "Absent"
  \/ /\ task[a].op = "poll" /\ task[a].changed
     /\ task[a].pc \in {"collect", "restart", "spawn", "await", "failed"}
  \/ /\ task[a].op = "poll" /\ task[a].pc \in {"spawn", "await", "failed"}
     /\ IsCurrent(a) /\ status[task[a].tunnel] # "Absent"

Roles  == \A a \in Actors : Role(task[a])
Minded == \A t \in Tunnels : MindedAt(t)
Saving == saved = status \/ \E a \in Actors : WillSave(a)

\* Until a shutdown begins, which drops what is scheduled.
Kept == shutting \/ (Roles /\ Minded /\ Saving)

\* The tasks that most steps leave behind.
LEMMA IdleRole ==
  ASSUME NEW t \in Tunnels
  PROVE  /\ Role(Idle(t)) /\ Role([Idle(t) EXCEPT !.pc = "save"])
         /\ \A todo, c : Role([Idle(t) EXCEPT !.op = "poll", !.pc = "restart", !.todo = todo,
                                              !.changed = c])
BY DEF Role, Idle

\* One task moves, to a record whose role is right.
LEMMA RolesMove ==
  ASSUME TypeOK, Roles, NEW a \in Actors, NEW r, Becomes(a, r), Role(r)
  PROVE  Roles'
BY DEF TypeOK, Roles, Becomes

LEMMA ReturnRoles ==
  ASSUME TypeOK, Roles, NEW a \in Actors, Return(a) \/ Finish(a) \/ \E c : NextDue(a, c)
  PROVE  Roles'
<1>1. task[a].tunnel \in Tunnels
  BY DEF TypeOK, Task
<1>2. CASE Return(a)
  BY <1>1, <1>2, IdleRole, RolesMove DEF Return
<1>3. CASE Finish(a)
  BY <1>1, <1>3, IdleRole, RolesMove DEF Finish
<1>4. CASE \E c : NextDue(a, c)
  BY <1>1, <1>4, IdleRole, RolesMove DEF NextDue
<1> QED BY <1>2, <1>3, <1>4

LEMMA StepRoles ==
  ASSUME Ownership, Roles, NEW a \in Actors, task[a].op # "shutdown", Step(a)
  PROVE  Roles'
<1>t. TypeOK /\ task[a] \in Task /\ Role(task[a]) /\ nextGen \in Nat
  BY DEF Ownership, TypeOK, Roles
<1>0. task[a].op \in {"start", "stop", "delete", "shutdown"} =>
        AfterStop(task[a].op) = IF task[a].op = "start" THEN "begin" ELSE "release"
  BY DEF AfterStop
<1>1. CASE Detach(a)
  <2>1. task[a].op \in {"start", "stop", "delete"}
    BY <1>t, <1>1 DEF Detach, At, Role
  <2> DEFINE g == running[task[a].tunnel].gen
             r == [task[a] EXCEPT !.child = g,
                                  !.pc = IF g = 0 THEN AfterStop(task[a].op) ELSE "terminate"]
  <2>2. Role(r)
    BY <1>t, <1>0, <2>1 DEF Role, Task
  <2> QED BY <1>1, <1>t, <2>2, RolesMove DEF Detach
<1>2. CASE Terminate(a)
  <2>1. task[a].op \in {"start", "stop", "delete"}
    BY <1>t, <1>2 DEF Terminate, At, Role
  <2>2. Role([task[a] EXCEPT !.child = 0, !.pc = AfterStop(task[a].op)])
    BY <1>t, <1>0, <2>1 DEF Role, Task
  <2> QED BY <1>2, <1>t, <2>2, RolesMove DEF Terminate
<1>3. CASE Begin(a)
  <2>1. Role([task[a] EXCEPT !.gen = nextGen + 1, !.pc = "saveBegin"])
    BY <1>t, <1>3 DEF Begin, At, Role, Task
  <2> QED BY <1>3, <1>t, <2>1, RolesMove DEF Begin
<1>4. CASE SaveBegin(a)
  <2>1. Role([task[a] EXCEPT !.pc = "spawn"])
    BY <1>t, <1>4 DEF SaveBegin, At, Role, Task
  <2> QED BY <1>4, <1>t, <2>1, RolesMove DEF SaveBegin, Goto
<1>5. CASE Spawn(a)
  <2>1. Role([task[a] EXCEPT !.child = task[a].gen, !.pc = "await"])
    BY <1>t, <1>5 DEF Spawn, At, Role, Task
  <2> QED BY <1>5, <1>t, <2>1, RolesMove DEF Spawn
<1>6. CASE SpawnFails(a)
  <2>1. Role([task[a] EXCEPT !.pc = "failed"])
    BY <1>t, <1>6 DEF SpawnFails, At, Role, Task
  <2> QED BY <1>6, <1>t, <2>1, RolesMove DEF SpawnFails, Goto
<1>7. CASE NotReady(a)
  <2>1. Role([task[a] EXCEPT !.child = 0, !.pc = "failed"])
    BY <1>t, <1>7 DEF NotReady, At, Role, Task
  <2> QED BY <1>7, <1>t, <2>1, RolesMove DEF NotReady
<1>8. CASE Commit(a) \/ Discard(a) \/ StartFailed(a) \/ RecordStop(a) \/ Erase(a) \/ Save(a)
  BY <1>8, <1>t, ReturnRoles DEF Commit, Discard, StartFailed, RecordStop, Erase, Save
<1>9. CASE Release(a)
  <2>1. Role([task[a] EXCEPT !.changed = (task[a].tunnel \in listening), !.pc = "record"])
    BY <1>t, <1>9 DEF Release, At, Role, Task
  <2> QED BY <1>9, <1>t, <2>1, RolesMove DEF Release
<1>10. CASE Reconcile(a)
  <2>1. \A c : Role([task[a] EXCEPT !.changed = c, !.pc = "collect"])
    BY <1>t, <1>10 DEF Reconcile, At, Role, Task
  <2> QED BY <1>10, <1>t, <2>1, RolesMove DEF Reconcile, Examine
<1>11. CASE CollectDue(a)
  <2>1. Role([task[a] EXCEPT !.todo = {t \in Tunnels : Due(t)}, !.pc = "restart"])
    BY <1>t, <1>11 DEF CollectDue, At, Role, Task
  <2> QED BY <1>11, <1>t, <2>1, RolesMove DEF CollectDue
<1>12. CASE RestartFailed(a)
  <2>1. Role([task[a] EXCEPT !.pc = "requeue"])
    BY <1>t, <1>12 DEF RestartFailed, At, Role, Task
  <2> QED BY <1>12, <1>t, <2>1, RolesMove, ReturnRoles DEF RestartFailed, Goto
<1>13. CASE Requeue(a) \/ PollDone(a)
  BY <1>13, <1>t, ReturnRoles DEF Requeue, PollDone
<1>14. ASSUME NEW t \in Tunnels, BeginRestart(a, t) PROVE Roles'
  <2> DEFINE r == [task[a] EXCEPT !.tunnel = t, !.auto = pending[t].auto,
                     !.count = pending[t].count, !.gen = nextGen + 1, !.todo = @ \ {t}, !.pc = "spawn"]
  <2>1. Role(r)
    BY <1>t, <1>14 DEF BeginRestart, At, Role, Task
  <2> QED BY <1>14, <1>t, <2>1, RolesMove DEF BeginRestart
<1>15. ASSUME NEW t \in Tunnels, SkipRestart(a, t) PROVE Roles'
  <2>1. Role([task[a] EXCEPT !.todo = @ \ {t}])
    BY <1>t DEF Role, Task
  <2> QED BY <1>15, <1>t, <2>1, RolesMove DEF SkipRestart
<1> QED
  BY <1>1, <1>2, <1>3, <1>4, <1>5, <1>6, <1>7, <1>8, <1>9, <1>10, <1>11, <1>12, <1>13,
     <1>14, <1>15 DEF Step

LEMMA RequestRoles ==
  ASSUME TypeOK, Roles, NEW a \in Actors, Request(a)
  PROVE  Roles'
<1>1. ASSUME NEW op, NEW t \in Tunnels, NEW auto, NEW s, Accept(a, op, t, auto, s),
             \/ op \in {"start", "stop", "delete"} /\ s = "detach"
             \/ op = "poll" /\ s = "reconcile"
      PROVE  Roles'
  <2>1. Role([Idle(t) EXCEPT !.op = op, !.auto = auto, !.pc = s])
    BY <1>1 DEF Role, Idle
  <2> QED BY <1>1, <2>1, RolesMove DEF Accept
<1>2. task[a].tunnel \in Tunnels
  BY DEF TypeOK, Task
<1> QED BY <1>1, <1>2 DEF Request, StartRequest, StopRequest, DeleteRequest, PollRequest
\* What is in order at a tunnel stays so when nothing there changes and the task
\* that moves keeps what it answers for.
LEMMA MindedElsewhere ==
  ASSUME NEW a \in Actors, NEW t, MindedAt(t),
         \A b \in Actors \ {a} : task'[b] = task[b],
         status'[t] = status[t], inflight'[t] = inflight[t],
         running'[t].gen = 0 => running[t].gen = 0,
         pending'[t].gen = 0 => pending[t].gen = 0,
         Concludes(a, t) => Concludes(a, t)',
         Attempts(a, t) => Attempts(a, t)' \/ Concludes(a, t)'
  PROVE  MindedAt(t)'
<1>1. ASSUME NEW b \in Actors
      PROVE  /\ Concludes(b, t) => Concludes(b, t)'
             /\ Attempts(b, t) => Attempts(b, t)' \/ Concludes(b, t)'
  BY DEF Concludes, Attempts, IsCurrent
<1>2. status'[t] = "Running" => IsRunning(t)' \/ \E b \in Actors : Concludes(b, t)'
  BY <1>1 DEF MindedAt, IsRunning
<1>3. status'[t] = "Starting" =>
        IsScheduled(t)' \/ \E b \in Actors : Concludes(b, t)' \/ Attempts(b, t)'
  BY <1>1 DEF MindedAt, IsScheduled
<1> QED BY <1>2, <1>3 DEF MindedAt

\* A tunnel that the moving task has nothing to do with.
LEMMA MindedApart ==
  ASSUME NEW a \in Actors, NEW t, MindedAt(t),
         \A b \in Actors \ {a} : task'[b] = task[b],
         status'[t] = status[t], inflight'[t] = inflight[t],
         running'[t].gen = 0 => running[t].gen = 0,
         pending'[t].gen = 0 => pending[t].gen = 0,
         task[a].tunnel # t \/ task[a].pc \in {"idle", "reconcile", "collect", "restart", "save"}
  PROVE  MindedAt(t)'
BY MindedElsewhere DEF Concludes, Attempts

\* What a step does to the task that takes it, as far as the statuses depend on it.
LEMMA ReturnShape ==
  ASSUME TypeOK, NEW a \in Actors
  PROVE  /\ Return(a) => task'[a].pc = "idle" /\ task'[a].tunnel = task[a].tunnel
         /\ Finish(a) => task'[a].pc = "save" /\ task'[a].tunnel = task[a].tunnel
         /\ \A c : NextDue(a, c) => /\ task'[a].pc = "restart" /\ task'[a].op = "poll"
                                    /\ task'[a].changed = c /\ task'[a].tunnel = task[a].tunnel
         /\ \A b \in Actors \ {a} :
              Return(a) \/ Finish(a) \/ (\E c : NextDue(a, c)) => task'[b] = task[b]
<1>1. task \in [Actors -> Task]
  BY DEF TypeOK
<1>2. ASSUME NEW r, Becomes(a, r)
      PROVE  task'[a] = r /\ \A b \in Actors \ {a} : task'[b] = task[b]
  BY <1>1, <1>2 DEF Becomes
<1>3. Return(a) => /\ task'[a].pc = "idle" /\ task'[a].tunnel = task[a].tunnel
                   /\ \A b \in Actors \ {a} : task'[b] = task[b]
  BY <1>2 DEF Return, Idle
<1>4. Finish(a) => /\ task'[a].pc = "save" /\ task'[a].tunnel = task[a].tunnel
                   /\ \A b \in Actors \ {a} : task'[b] = task[b]
  BY <1>2 DEF Finish, Idle
<1>5. ASSUME NEW c, NextDue(a, c)
      PROVE  /\ task'[a].pc = "restart" /\ task'[a].op = "poll"
             /\ task'[a].changed = c /\ task'[a].tunnel = task[a].tunnel
             /\ \A b \in Actors \ {a} : task'[b] = task[b]
  <2> DEFINE i == Idle(task[a].tunnel)
             r == [i EXCEPT !.op = "poll", !.pc = "restart", !.todo = task[a].todo, !.changed = c]
  <2>1. i \in Task /\ i.tunnel = task[a].tunnel
    BY IdleType DEF TypeOK, Task, Idle
  <2> HIDE DEF i
  <2>2. r.pc = "restart" /\ r.op = "poll" /\ r.changed = c /\ r.tunnel = task[a].tunnel
    BY <2>1 DEF Task
  <2> HIDE DEF r
  <2>3. Becomes(a, r)
    BY <1>5 DEF NextDue, r, i
  <2> QED BY <1>2, <2>2, <2>3
<1> QED BY <1>3, <1>4, <1>5

\* Task a changes its step, and nothing else that matters.
StaysAt(a, steps) ==
  /\ \A b \in Actors \ {a} : task'[b] = task[b]
  /\ task'[a].op = task[a].op /\ task'[a].tunnel = task[a].tunnel
  /\ task'[a].gen = task[a].gen /\ task'[a].pc \in steps

LEMMA MoveShape ==
  ASSUME TypeOK, NEW a \in Actors
  PROVE  /\ \A s : Goto(a, s) => StaysAt(a, {s}) /\ task'[a].changed = task[a].changed
         /\ \A g, s : Becomes(a, [task[a] EXCEPT !.child = g, !.pc = s]) =>
                        StaysAt(a, {s}) /\ task'[a].changed = task[a].changed
         /\ \A c, s : Becomes(a, [task[a] EXCEPT !.changed = c, !.pc = s]) =>
                        StaysAt(a, {s}) /\ task'[a].changed = c
         /\ \A d, s : Becomes(a, [task[a] EXCEPT !.todo = d, !.pc = s]) =>
                        StaysAt(a, {s}) /\ task'[a].changed = task[a].changed
         /\ \A d : Becomes(a, [task[a] EXCEPT !.todo = d]) =>
                        StaysAt(a, {task[a].pc}) /\ task'[a].changed = task[a].changed
<1>1. task \in [Actors -> Task] /\ task[a] \in Task
  BY DEF TypeOK
<1>2. ASSUME NEW r, Becomes(a, r)
      PROVE  task'[a] = r /\ \A b \in Actors \ {a} : task'[b] = task[b]
  BY <1>1, <1>2 DEF Becomes
<1>3. ASSUME NEW r, Becomes(a, r), r.op = task[a].op, r.tunnel = task[a].tunnel,
             r.gen = task[a].gen
      PROVE  StaysAt(a, {r.pc}) /\ task'[a].changed = r.changed
  BY <1>2, <1>3 DEF StaysAt
<1>4. ASSUME NEW s, Goto(a, s)
      PROVE  StaysAt(a, {s}) /\ task'[a].changed = task[a].changed
  BY <1>1, <1>3, <1>4 DEF Goto, Task
<1>5. ASSUME NEW g, NEW s, Becomes(a, [task[a] EXCEPT !.child = g, !.pc = s])
      PROVE  StaysAt(a, {s}) /\ task'[a].changed = task[a].changed
  <2> DEFINE r == [task[a] EXCEPT !.child = g, !.pc = s]
  <2>1. /\ r.op = task[a].op /\ r.tunnel = task[a].tunnel /\ r.gen = task[a].gen
        /\ r.changed = task[a].changed /\ r.pc = s
    BY <1>1 DEF Task
  <2> HIDE DEF r
  <2>2. Becomes(a, r)
    BY <1>5 DEF r
  <2> QED BY <1>3, <2>1, <2>2
<1>6. ASSUME NEW c, NEW s, Becomes(a, [task[a] EXCEPT !.changed = c, !.pc = s])
      PROVE  StaysAt(a, {s}) /\ task'[a].changed = c
  <2> DEFINE r == [task[a] EXCEPT !.changed = c, !.pc = s]
  <2>1. /\ r.op = task[a].op /\ r.tunnel = task[a].tunnel /\ r.gen = task[a].gen
        /\ r.changed = c /\ r.pc = s
    BY <1>1 DEF Task
  <2> HIDE DEF r
  <2>2. Becomes(a, r)
    BY <1>6 DEF r
  <2> QED BY <1>3, <2>1, <2>2
<1>7. ASSUME NEW d, NEW s, Becomes(a, [task[a] EXCEPT !.todo = d, !.pc = s])
      PROVE  StaysAt(a, {s}) /\ task'[a].changed = task[a].changed
  <2> DEFINE r == [task[a] EXCEPT !.todo = d, !.pc = s]
  <2>1. /\ r.op = task[a].op /\ r.tunnel = task[a].tunnel /\ r.gen = task[a].gen
        /\ r.changed = task[a].changed /\ r.pc = s
    BY <1>1 DEF Task
  <2> HIDE DEF r
  <2>2. Becomes(a, r)
    BY <1>7 DEF r
  <2> QED BY <1>3, <2>1, <2>2
<1>8. ASSUME NEW d, Becomes(a, [task[a] EXCEPT !.todo = d])
      PROVE  StaysAt(a, {task[a].pc}) /\ task'[a].changed = task[a].changed
  <2> DEFINE r == [task[a] EXCEPT !.todo = d]
  <2>1. /\ r.op = task[a].op /\ r.tunnel = task[a].tunnel /\ r.gen = task[a].gen
        /\ r.changed = task[a].changed /\ r.pc = task[a].pc
    BY <1>1 DEF Task
  <2> HIDE DEF r
  <2>2. Becomes(a, r)
    BY <1>8 DEF r
  <2> QED BY <1>3, <2>1, <2>2
<1> QED BY <1>4, <1>5, <1>6, <1>7, <1>8
LEMMA MindedNow ==
  ASSUME NEW a \in Actors, NEW t,
         \/ Concludes(a, t)'
         \/ Attempts(a, t)' /\ status'[t] = "Starting"
         \/ status'[t] \notin {"Running", "Starting"}
         \/ status'[t] = "Running" /\ running'[t].gen # 0
         \/ status'[t] = "Starting" /\ pending'[t].gen # 0
  PROVE  MindedAt(t)'
BY DEF MindedAt, IsRunning, IsScheduled

\* A reconcile pass leaves every status in order that it found in order.
LEMMA ExaminedMinded ==
  ASSUME TypeOK, NEW a \in Actors, NEW t \in Tunnels, MindedAt(t), Reconcile(a)
  PROVE  MindedAt(t)'
<1> PICK broken \in SUBSET {u \in Tunnels : IsRunning(u)} : Examine(a, broken)
  BY DEF Reconcile
<1>1. /\ \A b \in Actors \ {a} : task'[b] = task[b]
      /\ inflight' = inflight /\ task[a].pc = "reconcile"
  BY MoveShape DEF Reconcile, At, Examine, StaysAt
<1>2. /\ status'[t] = StatusAfter(t, broken) /\ pending'[t] = PendingAfter(t, broken)
      /\ running'[t] = IF t \in broken \cup Exited(broken) THEN NotRunning ELSE running[t]
  BY DEF Examine
<1>3. CASE t \in broken
  <2>1. StatusAfter(t, broken) = "Error"
    BY <1>3 DEF StatusAfter, Exited
  <2>2. status'[t] = "Error"
    BY <1>2, <2>1
  <2> QED BY <2>2, MindedNow
<1>4. CASE t \notin broken \cup Exited(broken)
  <2>1. /\ status'[t] = IF IsRunning(t) THEN "Running" ELSE status[t]
        /\ running'[t] = running[t] /\ pending'[t] = pending[t]
    <3>1. StatusAfter(t, broken) = IF IsRunning(t) THEN "Running" ELSE status[t]
      BY <1>4 DEF StatusAfter
    <3> QED BY <1>2, <1>4, <3>1 DEF PendingAfter
  <2>2. CASE IsRunning(t)
    BY <2>1, <2>2, MindedNow DEF IsRunning
  <2>3. CASE ~IsRunning(t)
    BY <1>1, <2>1, <2>3, MindedApart
  <2> QED BY <2>2, <2>3
<1>5. CASE t \in Exited(broken) /\ t \notin broken
  <2>1. status'[t] = StatusOfExit(ExitOf(t))
    BY <1>2, <1>5 DEF StatusAfter
  <2>2. ExitOf(t) \in {"NoRestart", "Exhausted", "Restart"}
    BY DEF ExitOf, ExitAction
  <2>3. CASE ExitOf(t) = "Restart"
    <3>1. pending'[t].gen = running[t].gen /\ running[t].gen # 0
      BY <1>2, <1>5, <2>3 DEF PendingAfter, RestartOf, Exited, IsRunning
    <3>2. status'[t] = "Starting"
      BY <2>1, <2>3 DEF StatusOfExit
    <3> QED BY <3>1, <3>2, MindedNow
  <2>4. CASE ExitOf(t) \in {"NoRestart", "Exhausted"}
    <3>1. status'[t] \in {"Stopped", "Error"}
      BY <2>1, <2>4 DEF StatusOfExit
    <3> QED BY <3>1, MindedNow
  <2> QED BY <2>2, <2>3, <2>4
<1> QED BY <1>3, <1>4, <1>5

LEMMA StepMinded ==
  ASSUME Ownership, Roles, ~shutting, Minded,
         NEW a \in Actors, task[a].op # "shutdown", Step(a), NEW u \in Tunnels
  PROVE  MindedAt(u)'
<1> PICK t : t = task[a].tunnel
  OBVIOUS
<1>0. /\ TypeOK /\ Role(task[a]) /\ t \in Tunnels /\ task[a] \in Task /\ t = task[a].tunnel
      /\ nextGen \in Nat /\ MindedAt(u) /\ MindedAt(t) /\ task \in [Actors -> Task]
  BY DEF Ownership, TypeOK, Roles, Task, Minded
<1>m. /\ running \in [Tunnels -> RunningTunnel] /\ pending \in [Tunnels -> PendingRestart]
      /\ inflight \in [Tunnels -> Nat] /\ status \in [Tunnels -> States]
  BY <1>0 DEF TypeOK
<1>s. /\ task[a].op = "start" => AfterStop(task[a].op) = "begin"
      /\ task[a].op \in {"stop", "delete"} => AfterStop(task[a].op) = "release"
  BY DEF AfterStop
<1>1. CASE Detach(a)
  <2>0. PICK s \in {"terminate", AfterStop(task[a].op)} :
          Becomes(a, [task[a] EXCEPT !.child = running[task[a].tunnel].gen, !.pc = s])
    BY <1>1 DEF Detach
  <2>1. StaysAt(a, {"terminate", AfterStop(task[a].op)}) /\ task[a].pc = "detach"
    <3>1. StaysAt(a, {s})
      BY <1>0, <2>0, MoveShape
    <3> QED BY <1>1, <3>1 DEF Detach, At, StaysAt
  <2>2. Concludes(a, t)'
    BY <1>0, <1>s, <2>1 DEF StaysAt, Role, Concludes
  <2>3. u # t => /\ status'[u] = status[u] /\ inflight'[u] = inflight[u]
                 /\ running'[u] = running[u] /\ pending'[u] = pending[u]
    BY <1>0, <1>1, <1>m DEF Detach, Without
  <2>4. CASE u = t
    BY <2>2, <2>4, MindedNow
  <2>5. CASE u # t
    BY <1>0, <2>1, <2>3, <2>5, MindedApart DEF StaysAt
  <2> QED BY <2>4, <2>5
<1>2. CASE Terminate(a)
  <2>0. Becomes(a, [task[a] EXCEPT !.child = 0, !.pc = AfterStop(task[a].op)])
    BY <1>2 DEF Terminate
  <2>1. StaysAt(a, {AfterStop(task[a].op)}) /\ task[a].pc = "terminate"
    BY <1>0, <1>2, <2>0, MoveShape DEF Terminate, At
  <2>2. Concludes(a, t)'
    BY <1>0, <1>s, <2>1 DEF StaysAt, Role, Concludes
  <2>3. UNCHANGED <<status, inflight, running, pending>>
    BY <1>2 DEF Terminate
  <2>4. CASE u = t
    BY <2>2, <2>4, MindedNow
  <2>5. CASE u # t
    BY <1>0, <2>1, <2>3, <2>5, MindedApart DEF StaysAt
  <2> QED BY <2>4, <2>5
<1>3. CASE Begin(a)
  <2> DEFINE r == [task[a] EXCEPT !.gen = nextGen + 1, !.pc = "saveBegin"]
  <2>r. r.pc = "saveBegin" /\ r.tunnel = t /\ r.gen = nextGen + 1
    BY <1>0 DEF Task
  <2>b. Becomes(a, r) /\ task[a].pc = "begin"
    BY <1>3 DEF Begin, At
  <2> HIDE DEF r
  <2>1. /\ task'[a].pc = "saveBegin" /\ task'[a].tunnel = t /\ task'[a].gen = nextGen + 1
        /\ \A b \in Actors \ {a} : task'[b] = task[b]
    BY <1>0, <2>r, <2>b DEF Becomes
  <2>2. inflight'[t] = nextGen + 1 /\ status'[t] = "Starting"
    BY <1>0, <1>3, <1>m DEF Begin
  <2>3. u # t => /\ status'[u] = status[u] /\ inflight'[u] = inflight[u]
                 /\ running'[u] = running[u] /\ pending'[u] = pending[u]
    BY <1>0, <1>3, <1>m DEF Begin
  <2>4. CASE u = t
    <3>1. Attempts(a, t)'
      BY <1>0, <2>1, <2>2 DEF Attempts, IsCurrent
    <3>2. status'[u] = "Starting" /\ Attempts(a, u)'
      BY <2>2, <2>4, <3>1
    <3> QED BY <3>2, MindedNow
  <2>5. CASE u # t
    BY <1>0, <2>1, <2>3, <2>5, MindedApart
  <2> QED BY <2>4, <2>5
<1>4. CASE SaveBegin(a) \/ Spawn(a) \/ SpawnFails(a) \/ NotReady(a)
  <2>1. /\ StaysAt(a, {"spawn", "await", "failed"})
        /\ task[a].pc \in {"saveBegin", "spawn", "await"}
    <3>1. CASE SaveBegin(a)
      <4>1. StaysAt(a, {"spawn"})
        BY <1>0, <3>1, MoveShape DEF SaveBegin
      <4> QED BY <3>1, <4>1 DEF SaveBegin, At, StaysAt
    <3>2. CASE Spawn(a)
      <4>1. Becomes(a, [task[a] EXCEPT !.child = task[a].gen, !.pc = "await"])
        BY <3>2 DEF Spawn
      <4>2. StaysAt(a, {"await"})
        BY <1>0, <4>1, MoveShape
      <4> QED BY <3>2, <4>2 DEF Spawn, At, StaysAt
    <3>3. CASE SpawnFails(a)
      <4>1. StaysAt(a, {"failed"})
        BY <1>0, <3>3, MoveShape DEF SpawnFails
      <4> QED BY <3>3, <4>1 DEF SpawnFails, At, StaysAt
    <3>4. CASE NotReady(a)
      <4>1. Becomes(a, [task[a] EXCEPT !.child = 0, !.pc = "failed"])
        BY <3>4 DEF NotReady
      <4>2. StaysAt(a, {"failed"})
        BY <1>0, <4>1, MoveShape
      <4> QED BY <3>4, <4>2 DEF NotReady, At, StaysAt
    <3> QED BY <1>4, <3>1, <3>2, <3>3, <3>4
  <2>2. UNCHANGED <<status, inflight, running, pending>>
    BY <1>4 DEF SaveBegin, Spawn, SpawnFails, NotReady
  <2>3. ~Concludes(a, u) /\ (Attempts(a, u) => Attempts(a, u)')
    BY <2>1, <2>2 DEF Concludes, Attempts, IsCurrent, StaysAt
  <2> QED BY <1>0, <2>1, <2>2, <2>3, MindedElsewhere DEF StaysAt
<1>5. CASE Commit(a)
  <2>1. running'[t].gen = task[a].child /\ task[a].child # 0 /\ status'[t] = "Running"
    BY <1>0, <1>5, <1>m DEF Commit, At, Role
  <2>2. \A b \in Actors \ {a} : task'[b] = task[b]
    BY <1>0, <1>5, ReturnShape DEF Commit
  <2>3. u # t => /\ status'[u] = status[u] /\ inflight'[u] = inflight[u]
                 /\ running'[u] = running[u] /\ pending'[u] = pending[u]
    BY <1>0, <1>5, <1>m DEF Commit
  <2>4. CASE u = t
    BY <2>1, <2>4, MindedNow
  <2>5. CASE u # t
    BY <1>0, <2>2, <2>3, <2>5, MindedApart
  <2> QED BY <2>4, <2>5
<1>6. CASE Discard(a)
  <2>1. \A b \in Actors \ {a} : task'[b] = task[b]
    BY <1>0, <1>6, ReturnShape DEF Discard
  <2>2. task[a].pc = "await" /\ ~IsCurrent(a)
    BY <1>6 DEF Discard, MayCommit, At
  <2>3. UNCHANGED <<status, inflight, running, pending>>
    BY <1>6 DEF Discard
  <2> QED BY <1>0, <2>1, <2>2, <2>3, MindedElsewhere DEF Concludes, Attempts
<1>7. CASE StartFailed(a)
  <2>1. (\A b \in Actors \ {a} : task'[b] = task[b]) /\ task[a].pc = "failed"
    BY <1>0, <1>7, ReturnShape DEF StartFailed, At
  <2>2. CASE IsCurrent(a)
    <3>1. u # t => status'[u] = status[u] /\ inflight'[u] = inflight[u]
      BY <1>0, <1>7, <1>m, <2>2 DEF StartFailed
    <3>2. status'[t] = "Error" /\ UNCHANGED <<running, pending>>
      BY <1>0, <1>7, <1>m, <2>2 DEF StartFailed
    <3>3. CASE u = t
      BY <3>2, <3>3, MindedNow
    <3>4. CASE u # t
      BY <1>0, <2>1, <3>1, <3>2, <3>4, MindedApart
    <3> QED BY <3>3, <3>4
  <2>3. CASE ~IsCurrent(a)
    <3>1. UNCHANGED <<status, inflight, running, pending>>
      BY <1>7, <2>3 DEF StartFailed
    <3> QED BY <1>0, <2>1, <2>3, <3>1, MindedElsewhere DEF Concludes, Attempts
  <2> QED BY <2>2, <2>3
<1>8. CASE Release(a)
  <2>0. Becomes(a, [task[a] EXCEPT !.changed = (task[a].tunnel \in listening), !.pc = "record"])
    BY <1>8 DEF Release
  <2>1. StaysAt(a, {"record"}) /\ task[a].pc = "release"
    BY <1>0, <1>8, <2>0, MoveShape DEF Release, At
  <2>2. Concludes(a, t)'
    BY <1>0, <2>1 DEF StaysAt, Role, Concludes
  <2>3. UNCHANGED <<status, inflight, running, pending>>
    BY <1>8 DEF Release
  <2>4. CASE u = t
    BY <2>2, <2>4, MindedNow
  <2>5. CASE u # t
    BY <1>0, <2>1, <2>3, <2>5, MindedApart DEF StaysAt
  <2> QED BY <2>4, <2>5
<1>9. CASE RecordStop(a) \/ Erase(a)
  <2>1. \A b \in Actors \ {a} : task'[b] = task[b]
    BY <1>0, <1>9, ReturnShape DEF RecordStop, Erase
  <2>2. status'[t] \in {"Stopped", "Absent"} /\ inflight' = inflight
    BY <1>0, <1>9, <1>m DEF RecordStop, Erase
  <2>3. u # t => /\ status'[u] = status[u] /\ running'[u] = running[u]
                 /\ pending'[u] = pending[u]
    BY <1>0, <1>9, <1>m DEF RecordStop, Erase, Without
  <2>4. CASE u = t
    BY <2>2, <2>4, MindedNow
  <2>5. CASE u # t
    BY <1>0, <2>1, <2>2, <2>3, <2>5, MindedApart
  <2> QED BY <2>4, <2>5
<1>10. CASE Save(a) \/ PollDone(a)
  <2>1. \A b \in Actors \ {a} : task'[b] = task[b]
    BY <1>0, <1>10, ReturnShape DEF Save, PollDone
  <2>2. UNCHANGED <<status, inflight, running, pending>> /\ task[a].pc \in {"save", "restart"}
    BY <1>10 DEF Save, PollDone, At
  <2> QED BY <1>0, <2>1, <2>2, MindedApart
<1>11. CASE Reconcile(a)
  BY <1>0, <1>11, ExaminedMinded
<1>12. CASE CollectDue(a) \/ \E v \in Tunnels : SkipRestart(a, v)
  <2>1. \A b \in Actors \ {a} : task'[b] = task[b]
    BY <1>0, <1>12, MoveShape DEF CollectDue, SkipRestart, StaysAt
  <2>2. UNCHANGED <<status, inflight, running, pending>> /\ task[a].pc \in {"collect", "restart"}
    BY <1>12 DEF CollectDue, SkipRestart, At
  <2> QED BY <1>0, <2>1, <2>2, MindedApart
<1>13. ASSUME NEW v \in Tunnels, BeginRestart(a, v) PROVE MindedAt(u)'
  <2> DEFINE r == [task[a] EXCEPT !.tunnel = v, !.auto = pending[v].auto,
                     !.count = pending[v].count, !.gen = nextGen + 1, !.todo = @ \ {v}, !.pc = "spawn"]
  <2>r. r.pc = "spawn" /\ r.tunnel = v /\ r.gen = nextGen + 1
    BY <1>0 DEF Task
  <2>b. Becomes(a, r) /\ task[a].pc = "restart"
    BY <1>13 DEF BeginRestart, At
  <2> HIDE DEF r
  <2>1. /\ task'[a].pc = "spawn" /\ task'[a].tunnel = v /\ task'[a].gen = nextGen + 1
        /\ (\A b \in Actors \ {a} : task'[b] = task[b]) /\ task[a].pc = "restart"
    BY <1>0, <2>r, <2>b DEF Becomes
  <2>2. inflight'[v] = nextGen + 1 /\ status'[v] = "Starting"
    BY <1>0, <1>13, <1>m DEF BeginRestart
  <2>3. u # v => /\ status'[u] = status[u] /\ inflight'[u] = inflight[u]
                 /\ running'[u] = running[u] /\ pending'[u] = pending[u]
    BY <1>0, <1>13, <1>m DEF BeginRestart
  <2>4. CASE u = v
    <3>1. Attempts(a, v)'
      BY <1>0, <2>1, <2>2 DEF Attempts, IsCurrent
    <3>2. status'[u] = "Starting" /\ Attempts(a, u)'
      BY <2>2, <2>4, <3>1
    <3> QED BY <3>2, MindedNow
  <2>5. CASE u # v
    BY <1>0, <2>1, <2>3, <2>5, MindedApart
  <2> QED BY <2>4, <2>5
<1>14. CASE RestartFailed(a)
  <2>1. task[a].pc = "failed" /\ UNCHANGED <<status, running, pending>>
    BY <1>14 DEF RestartFailed, At
  <2>2. CASE IsCurrent(a)
    <3>1. StaysAt(a, {"requeue"})
      BY <1>0, <1>14, <2>2, MoveShape DEF RestartFailed
    <3>2. u # t => inflight'[u] = inflight[u]
      BY <1>0, <1>14, <1>m, <2>2 DEF RestartFailed
    <3>3. CASE u = t
      <4>1. Attempts(a, t)'
        BY <1>0, <3>1 DEF Attempts, StaysAt
      <4>2. CASE status[t] = "Starting"
        BY <2>1, <3>3, <4>1, <4>2, MindedNow
      <4>3. CASE status[t] = "Running"
        <5>1. IsRunning(t) \/ \E b \in Actors : Concludes(b, t)
          BY <1>0, <4>3 DEF MindedAt
        <5>2. \A b \in Actors : Concludes(b, t) => Concludes(b, t)'
          BY <2>1, <3>1 DEF Concludes, StaysAt
        <5> QED BY <2>1, <3>3, <4>3, <5>1, <5>2, MindedNow DEF IsRunning
      <4>4. CASE status[t] \notin {"Starting", "Running"}
        BY <2>1, <3>3, <4>4, MindedNow
      <4> QED BY <4>2, <4>3, <4>4
    <3>4. CASE u # t
      BY <1>0, <2>1, <3>1, <3>2, <3>4, MindedApart DEF StaysAt
    <3> QED BY <3>3, <3>4
  <2>3. CASE ~IsCurrent(a)
    <3>1. inflight' = inflight /\ \A b \in Actors \ {a} : task'[b] = task[b]
      BY <1>0, <1>14, <2>3, ReturnShape DEF RestartFailed
    <3> QED BY <1>0, <2>1, <2>3, <3>1, MindedElsewhere DEF Concludes, Attempts
  <2> QED BY <2>2, <2>3
<1>15. CASE Requeue(a)
  <2>1. \A b \in Actors \ {a} : task'[b] = task[b]
    BY <1>0, <1>15, ReturnShape DEF Requeue
  <2>2. task[a].gen # 0 /\ task[a].gen \in Nat
    BY <1>0, <1>15 DEF Requeue, At, Role, Task
  <2>3. \/ status'[t] = "Error"
        \/ status'[t] = "Starting" /\ pending'[t].gen # 0
    BY <1>0, <1>15, <1>m, <2>2 DEF Requeue, RestartOf
  <2>4. u # t => status'[u] = status[u] /\ pending'[u] = pending[u]
    BY <1>0, <1>15, <1>m DEF Requeue
  <2>5. UNCHANGED <<running, inflight>>
    BY <1>15 DEF Requeue
  <2>6. CASE u = t
    BY <2>3, <2>6, MindedNow
  <2>7. CASE u # t
    BY <1>0, <2>1, <2>4, <2>5, <2>7, MindedApart
  <2> QED BY <2>6, <2>7
<1> QED
  BY <1>1, <1>2, <1>3, <1>4, <1>5, <1>6, <1>7, <1>8, <1>9, <1>10, <1>11, <1>12, <1>13,
     <1>14, <1>15 DEF Step

\* What is unsaved stays some task's to save when no status and no save comes in
\* between and the moving task still saves if it would have.
LEMMA SavingElsewhere ==
  ASSUME Saving, NEW a \in Actors, \A b \in Actors \ {a} : task'[b] = task[b],
         saved' = saved, status' = status,
         \A b \in Actors \ {a} : status[task[b].tunnel] # "Absent" =>
                                  inflight'[task[b].tunnel] = inflight[task[b].tunnel],
         WillSave(a) => WillSave(a)'
  PROVE  Saving'
<1>1. ASSUME NEW b \in Actors, WillSave(b) PROVE WillSave(b)'
  BY <1>1 DEF WillSave, IsCurrent
<1>2. saved = status => saved' = status'
  OBVIOUS
<1> QED BY <1>1, <1>2 DEF Saving

LEMMA StepSaving ==
  ASSUME TypeOK, Roles, ~shutting, Saving,
         NEW a \in Actors, task[a].op # "shutdown", Step(a)
  PROVE  Saving'
<1>0. /\ Role(task[a]) /\ task[a] \in Task /\ task \in [Actors -> Task]
      /\ task[a].tunnel \in Tunnels /\ status \in [Tunnels -> States]
      /\ inflight \in [Tunnels -> Nat] /\ nextGen \in Nat
  BY DEF TypeOK, Roles, Task
<1>s. /\ task[a].op = "start" => AfterStop(task[a].op) = "begin"
      /\ task[a].op \in {"stop", "delete"} => AfterStop(task[a].op) = "release"
  BY DEF AfterStop
<1>w. WillSave(a)' => Saving'
  BY DEF Saving
<1>1. CASE Detach(a)
  <2>0. PICK s \in {"terminate", AfterStop(task[a].op)} :
          Becomes(a, [task[a] EXCEPT !.child = running[task[a].tunnel].gen, !.pc = s])
    BY <1>1 DEF Detach
  <2>1. StaysAt(a, {s})
    BY <1>0, <2>0, MoveShape
  <2>2. task[a].op \in {"start", "stop", "delete"} /\ task[a].pc = "detach"
    BY <1>0, <1>1 DEF Detach, At, Role
  <2>3. /\ saved' = saved /\ status' = status
        /\ \A t \in Tunnels : t # task[a].tunnel => inflight'[t] = inflight[t]
    BY <1>0, <1>1 DEF Detach
  <2>4. CASE task[a].op # "delete" \/ status[task[a].tunnel] # "Absent"
    <3>1. WillSave(a)'
      BY <1>s, <2>1, <2>2, <2>3, <2>4 DEF WillSave, StaysAt
    <3> QED BY <1>w, <3>1
  <2>5. CASE task[a].op = "delete" /\ status[task[a].tunnel] = "Absent"
    <3>1. ~WillSave(a)
      BY <2>2, <2>5 DEF WillSave
    <3>2. ASSUME NEW b \in Actors, status[task[b].tunnel] # "Absent"
          PROVE  inflight'[task[b].tunnel] = inflight[task[b].tunnel]
      BY <1>0, <2>3, <2>5, <3>2 DEF Task
    <3> QED BY <2>1, <2>3, <3>1, <3>2, SavingElsewhere DEF StaysAt
  <2> QED BY <2>2, <2>4, <2>5
<1>2. CASE Terminate(a)
  <2>0. Becomes(a, [task[a] EXCEPT !.child = 0, !.pc = AfterStop(task[a].op)])
    BY <1>2 DEF Terminate
  <2>1. StaysAt(a, {AfterStop(task[a].op)})
    BY <1>0, <2>0, MoveShape
  <2>2. UNCHANGED <<saved, status, inflight>> /\ task[a].pc = "terminate"
    BY <1>2 DEF Terminate, At
  <2>3. task[a].op \in {"start", "stop", "delete"}
    BY <1>0, <2>2 DEF Role
  <2>4. WillSave(a) => WillSave(a)'
    BY <1>s, <2>1, <2>2, <2>3 DEF WillSave, StaysAt
  <2> QED BY <2>1, <2>2, <2>4, SavingElsewhere DEF StaysAt
<1>3. CASE Begin(a)
  <2>1. task'[a].pc = "saveBegin"
    BY <1>0, <1>3 DEF Begin, Becomes
  <2> QED BY <1>w, <2>1 DEF WillSave
<1>4. CASE SaveBegin(a) \/ Save(a)
  <2>1. saved' = status'
    BY <1>4 DEF SaveBegin, Save
  <2> QED BY <2>1 DEF Saving
<1>5. CASE Spawn(a) \/ SpawnFails(a) \/ NotReady(a)
  <2>1. StaysAt(a, {"await", "failed"}) /\ task'[a].changed = task[a].changed
    <3>1. CASE Spawn(a)
      <4>1. Becomes(a, [task[a] EXCEPT !.child = task[a].gen, !.pc = "await"])
        BY <3>1 DEF Spawn
      <4>2. StaysAt(a, {"await"}) /\ task'[a].changed = task[a].changed
        BY <1>0, <4>1, MoveShape
      <4> QED BY <4>2 DEF StaysAt
    <3>2. CASE SpawnFails(a)
      <4>1. StaysAt(a, {"failed"}) /\ task'[a].changed = task[a].changed
        BY <1>0, <3>2, MoveShape DEF SpawnFails
      <4> QED BY <4>1 DEF StaysAt
    <3>3. CASE NotReady(a)
      <4>1. Becomes(a, [task[a] EXCEPT !.child = 0, !.pc = "failed"])
        BY <3>3 DEF NotReady
      <4>2. StaysAt(a, {"failed"}) /\ task'[a].changed = task[a].changed
        BY <1>0, <4>1, MoveShape
      <4> QED BY <4>2 DEF StaysAt
    <3> QED BY <1>5, <3>1, <3>2, <3>3
  <2>2. UNCHANGED <<saved, status, inflight>> /\ task[a].pc \in {"spawn", "await"}
    BY <1>5 DEF Spawn, SpawnFails, NotReady, At
  <2>3. WillSave(a) => WillSave(a)'
    BY <2>1, <2>2 DEF WillSave, StaysAt, IsCurrent
  <2> QED BY <2>1, <2>2, <2>3, SavingElsewhere DEF StaysAt
<1>6. CASE Finish(a)
  BY <1>0, <1>6, <1>w, ReturnShape DEF WillSave
<1>7. CASE NextDue(a, TRUE)
  <2>1. task'[a].pc = "restart" /\ task'[a].op = "poll" /\ task'[a].changed
    BY <1>7, ReturnShape
  <2> QED BY <1>w, <2>1 DEF WillSave
<1>8. CASE Return(a) /\ UNCHANGED <<saved, status, inflight>> /\ ~WillSave(a)
  BY <1>8, ReturnShape, SavingElsewhere
<1>9. CASE /\ NextDue(a, task[a].changed) /\ UNCHANGED <<saved, status, inflight>>
           /\ task[a].op = "poll" /\ task[a].pc \in {"await", "failed"} /\ ~IsCurrent(a)
  <2>1. /\ task'[a].pc = "restart" /\ task'[a].op = "poll"
        /\ task'[a].changed = task[a].changed
        /\ \A b \in Actors \ {a} : task'[b] = task[b]
    BY <1>9, ReturnShape
  <2>2. WillSave(a) => WillSave(a)'
    BY <1>9, <2>1 DEF WillSave
  <2> QED BY <1>9, <2>1, <2>2, SavingElsewhere
<1>10. CASE Commit(a)
  BY <1>6, <1>7, <1>10 DEF Commit
<1>11. CASE Discard(a)
  <2>1. UNCHANGED <<saved, status, inflight>> /\ task[a].pc = "await" /\ ~IsCurrent(a)
    BY <1>11 DEF Discard, MayCommit, At
  <2>2. task[a].op \in {"start", "poll"}
    BY <1>0, <2>1 DEF Role
  <2>3. CASE task[a].op = "start"
    BY <1>8, <1>11, <2>1, <2>3 DEF Discard, WillSave
  <2>4. CASE task[a].op = "poll"
    BY <1>9, <1>11, <2>1, <2>4 DEF Discard
  <2> QED BY <2>2, <2>3, <2>4
<1>12. CASE StartFailed(a)
  <2>1. CASE IsCurrent(a)
    BY <1>6, <1>12, <2>1 DEF StartFailed
  <2>2. CASE ~IsCurrent(a)
    BY <1>8, <1>12, <2>2 DEF StartFailed, WillSave, At
  <2> QED BY <2>1, <2>2
<1>13. CASE Release(a)
  <2>0. Becomes(a, [task[a] EXCEPT !.changed = (task[a].tunnel \in listening), !.pc = "record"])
    BY <1>13 DEF Release
  <2>1. StaysAt(a, {"record"})
    BY <1>0, <2>0, MoveShape
  <2>2. UNCHANGED <<saved, status, inflight>> /\ task[a].pc = "release"
    BY <1>13 DEF Release, At
  <2>3. task[a].op \in {"stop", "delete"}
    BY <1>0, <2>2 DEF Role
  <2>4. WillSave(a) => WillSave(a)'
    BY <2>1, <2>2, <2>3 DEF WillSave, StaysAt
  <2> QED BY <2>1, <2>2, <2>4, SavingElsewhere DEF StaysAt
<1>14. CASE RecordStop(a)
  BY <1>6, <1>14 DEF RecordStop
<1>15. CASE Erase(a)
  <2>1. CASE Return(a)
    <3>0. CASE Finish(a)
      BY <1>6, <3>0
    <3>1. CASE status[task[a].tunnel] = "Absent"
      <4>1. status' = status /\ saved' = saved /\ inflight' = inflight
        BY <1>0, <1>15, <3>1 DEF Erase
      <4>2. ~WillSave(a)
        BY <1>15, <3>1 DEF Erase, At, WillSave
      <4> QED BY <1>8, <2>1, <4>1, <4>2
    <3> QED BY <1>15, <3>0, <3>1 DEF Erase
  <2> QED BY <1>6, <1>15, <2>1 DEF Erase
<1>16. CASE Reconcile(a)
  <2>1. PICK broken : Examine(a, broken)
    BY <1>16 DEF Reconcile
  <2>2. PICK c : /\ Becomes(a, [task[a] EXCEPT !.changed = c, !.pc = "collect"])
                 /\ status' # status => c = TRUE
    BY <2>1 DEF Examine
  <2>3. StaysAt(a, {"collect"}) /\ task'[a].changed = c
    BY <1>0, <2>2, MoveShape
  <2>4. UNCHANGED <<saved, inflight>> /\ task[a].pc = "reconcile" /\ task[a].op = "poll"
    BY <1>0, <1>16, <2>1 DEF Reconcile, Examine, At, Role
  <2>5. CASE status' # status
    <3>1. WillSave(a)'
      BY <2>2, <2>3, <2>4, <2>5 DEF WillSave, StaysAt
    <3> QED BY <1>w, <3>1
  <2>6. CASE status' = status
    <3>1. ~WillSave(a)
      BY <2>4 DEF WillSave
    <3> QED BY <2>3, <2>4, <2>6, <3>1, SavingElsewhere DEF StaysAt
  <2> QED BY <2>5, <2>6
<1>17. CASE CollectDue(a) \/ \E t \in Tunnels : SkipRestart(a, t)
  <2>1. PICK d : \/ Becomes(a, [task[a] EXCEPT !.todo = d, !.pc = "restart"])
                 \/ Becomes(a, [task[a] EXCEPT !.todo = d]) /\ task[a].pc = "restart"
    BY <1>17 DEF CollectDue, SkipRestart, At
  <2>2. StaysAt(a, {"restart"}) /\ task'[a].changed = task[a].changed
    <3>1. CASE Becomes(a, [task[a] EXCEPT !.todo = d, !.pc = "restart"])
      BY <1>0, <3>1, MoveShape
    <3>2. CASE Becomes(a, [task[a] EXCEPT !.todo = d]) /\ task[a].pc = "restart"
      <4>1. StaysAt(a, {task[a].pc}) /\ task'[a].changed = task[a].changed
        BY <1>0, <3>2, MoveShape
      <4> QED BY <3>2, <4>1
    <3> QED BY <2>1, <3>1, <3>2
  <2>3. /\ UNCHANGED <<saved, status, inflight>>
        /\ task[a].pc \in {"collect", "restart"} /\ task[a].op = "poll"
    BY <1>0, <1>17 DEF CollectDue, SkipRestart, At, Role
  <2>4. WillSave(a) => WillSave(a)'
    BY <2>2, <2>3 DEF WillSave, StaysAt
  <2> QED BY <2>2, <2>3, <2>4, SavingElsewhere DEF StaysAt
<1>18. ASSUME NEW v \in Tunnels, BeginRestart(a, v) PROVE Saving'
  <2> DEFINE r == [task[a] EXCEPT !.tunnel = v, !.auto = pending[v].auto,
                     !.count = pending[v].count, !.gen = nextGen + 1, !.todo = @ \ {v}, !.pc = "spawn"]
  <2>r. r.pc = "spawn" /\ r.tunnel = v /\ r.gen = nextGen + 1 /\ r.op = task[a].op
    BY <1>0 DEF Task
  <2>b. Becomes(a, r) /\ task[a].op = "poll"
    BY <1>0, <1>18 DEF BeginRestart, At, Role
  <2> HIDE DEF r
  <2>1. /\ task'[a].pc = "spawn" /\ task'[a].op = "poll"
        /\ task'[a].tunnel = v /\ task'[a].gen = nextGen + 1
    BY <1>0, <2>r, <2>b DEF Becomes
  <2>2. inflight'[v] = nextGen + 1 /\ status'[v] = "Starting"
    BY <1>0, <1>18 DEF BeginRestart
  <2>3. WillSave(a)'
    BY <2>1, <2>2 DEF WillSave, IsCurrent
  <2> QED BY <1>w, <2>3
<1>19. CASE RestartFailed(a)
  <2>1. CASE IsCurrent(a)
    <3>1. StaysAt(a, {"requeue"})
      BY <1>0, <1>19, <2>1, MoveShape DEF RestartFailed
    <3> QED BY <1>w, <3>1 DEF WillSave, StaysAt
  <2>2. CASE ~IsCurrent(a)
    BY <1>9, <1>19, <2>2 DEF RestartFailed, At
  <2> QED BY <2>1, <2>2
<1>20. CASE Requeue(a)
  BY <1>7, <1>20 DEF Requeue
<1>21. CASE PollDone(a)
  <2>1. CASE task[a].changed
    BY <1>6, <1>21, <2>1 DEF PollDone
  <2>2. CASE ~task[a].changed
    <3>1. ~WillSave(a)
      BY <1>0, <1>21, <2>2 DEF PollDone, At, Role, WillSave
    <3> QED BY <1>8, <1>21, <2>2, <3>1 DEF PollDone
  <2> QED BY <2>1, <2>2
<1> QED
  BY <1>1, <1>2, <1>3, <1>4, <1>5, <1>10, <1>11, <1>12, <1>13, <1>14, <1>15, <1>16, <1>17,
     <1>18, <1>19, <1>20, <1>21 DEF Step

\* A request sets a task to work; it changes nothing that these rules speak of.
LEMMA RequestKept ==
  ASSUME TypeOK, Roles, Minded, Saving, NEW a \in Actors, Request(a)
  PROVE  Roles' /\ Minded' /\ Saving'
<1>1. /\ task[a].pc = "idle" /\ \A b \in Actors \ {a} : task'[b] = task[b]
      /\ UNCHANGED <<running, pending, inflight, status, saved>>
  BY DEF TypeOK, Request, StartRequest, StopRequest, DeleteRequest, PollRequest, Accept, At,
     Becomes
<1>2. Minded'
  BY <1>1, MindedApart DEF Minded
<1>3. ~WillSave(a)
  BY <1>1 DEF WillSave
<1> QED BY <1>1, <1>2, <1>3, RequestRoles, SavingElsewhere

\* Without faults, this is what can happen while no shutdown has begun.
LEMMA WhileUp ==
  ASSUME Orderly, Faults = {}, [Next]_vars, ~shutting'
  PROVE  /\ ~shutting
         /\ \/ \E a \in Actors : Request(a)
            \/ \E a \in Actors : Step(a) /\ task[a].op # "shutdown"
            \/ \E g \in alive : Die(g)
            \/ \E t \in Tunnels : Elapse(t)
            \/ UNCHANGED vars
<1>1. shutting => shutting'
  <2>1. CASE \E a \in Actors : Request(a) \/ Step(a) \/ Fault(a)
    BY <2>1, NothingRegistered DEF Orderly
  <2>2. CASE Shutdown
    BY <2>2 DEF Shutdown, BeginShutdown, CollectTunnels, DrainDone, Close, DrainNext
  <2>3. CASE (\E g \in alive : Die(g)) \/ (\E t \in Tunnels : Elapse(t)) \/ UNCHANGED vars
    BY <2>3 DEF Die, Elapse, vars
  <2> QED BY <2>1, <2>2, <2>3 DEF Next
<1>2. task[Teardown].pc = "idle"
  BY <1>1 DEF Orderly
<1>3. ~Shutdown
  BY <1>2 DEF Shutdown, BeginShutdown, CollectTunnels, DrainDone, Close, DrainNext, At
<1>4. ASSUME NEW a \in Actors, Step(a) PROVE task[a].op # "shutdown"
  <2>1. CASE a = Teardown
    BY <1>2, <1>4, <2>1, TeardownStops DEF Detach, Terminate, TerminateFails, At
  <2>2. CASE a # Teardown
    BY <2>2 DEF Orderly
  <2> QED BY <2>1, <2>2
<1>5. \A a \in Actors : ~Fault(a)
  BY DEF Fault, TerminateFails, SaveBeginFails, SaveFails, Disconnect
<1> QED BY <1>1, <1>3, <1>4, <1>5 DEF Next

LEMMA KeptInit == Init => Kept
<1> SUFFICES ASSUME Init PROVE Roles /\ Minded /\ Saving
  BY DEF Kept
<1>1. PICK t \in Tunnels : task = [a \in Actors |-> Idle(t)]
  BY DEF Init
<1>2. Roles
  BY <1>1, IdleRole DEF Roles
<1>3. Minded
  BY DEF Init, Minded, MindedAt
<1> QED BY <1>2, <1>3 DEF Init, Saving

LEMMA KeptStep ==
  ASSUME Faults = {}
  PROVE  Ownership /\ Orderly /\ Kept /\ [Next]_vars => Kept'
<1> SUFFICES ASSUME Ownership, Orderly, Kept, [Next]_vars PROVE Kept'
  OBVIOUS
<1> SUFFICES ASSUME ~shutting' PROVE Roles' /\ Minded' /\ Saving'
  BY DEF Kept
<1>u. ~shutting
  BY WhileUp
<1>0. TypeOK /\ ~shutting /\ Roles /\ Minded /\ Saving
  BY <1>u DEF Ownership, Kept
<1>1. ASSUME NEW a \in Actors, Request(a)
      PROVE  Roles' /\ Minded' /\ Saving'
  BY <1>0, <1>1, RequestKept
<1>2. ASSUME NEW a \in Actors, Step(a), task[a].op # "shutdown"
      PROVE  Roles' /\ Minded' /\ Saving'
  <2>1. Roles'
    BY <1>0, <1>2, StepRoles
  <2>2. \A t \in Tunnels : MindedAt(t)'
    BY <1>0, <1>2, StepMinded
  <2>3. Saving'
    BY <1>0, <1>2, StepSaving
  <2> QED BY <2>1, <2>2, <2>3 DEF Minded
<1>3. CASE UNCHANGED vars \/ (\E g \in alive : Die(g)) \/ \E t \in Tunnels : Elapse(t)
  <2>1. /\ UNCHANGED <<running, inflight, status, saved, task>>
        /\ \A t \in Tunnels : pending'[t].gen = pending[t].gen
    BY <1>0, <1>3 DEF vars, Die, Elapse, TypeOK, PendingRestart
  <2>2. Roles'
    BY <1>0, <2>1 DEF Roles
  <2>3. PICK a \in Actors : a = Teardown
    BY DEF Actors
  <2>4. \A t \in Tunnels : /\ Concludes(a, t) => Concludes(a, t)'
                           /\ Attempts(a, t) => Attempts(a, t)'
    BY <2>1 DEF Concludes, Attempts, IsCurrent
  <2>5. Minded'
    BY <1>0, <2>1, <2>4, MindedElsewhere DEF Minded
  <2>6. WillSave(a) => WillSave(a)'
    BY <2>1 DEF WillSave, IsCurrent
  <2> QED BY <1>0, <2>1, <2>2, <2>5, <2>6, SavingElsewhere
<1> QED BY <1>1, <1>2, <1>3, WhileUp

LEMMA KeptHolds == ASSUME Faults = {} PROVE Spec => []Kept
<1>1. Ownership /\ Orderly /\ Kept /\ [Next]_vars => Kept'
  BY KeptStep
<1> QED BY <1>1, KeptInit, OwnershipHolds, OrderlyHolds, PTL DEF Spec

\* Nobody answers for anything any more when every task is idle: between requests
\* and passes, what is reported as Running runs and what is reported as Starting
\* has a restart scheduled, however the handlers and the passes that led there
\* interleaved, as long as none of them was cut off or failed on the environment.
THEOREM NoPhantoms == ASSUME Faults = {} PROVE Spec => []NoPhantomStatus
<1>1. Kept => NoPhantomStatus
  BY DEF Kept, Minded, MindedAt, NoPhantomStatus, Quiet, At, Concludes, Attempts
<1> QED BY <1>1, KeptHolds, PTL

\* And the state file holds the statuses in memory: of the saves that overlapping
\* handlers skip, none was the last one needed.
THEOREM SavedWhenQuiet == ASSUME Faults = {} PROVE Spec => []DurableWhenQuiet
<1>1. Kept => DurableWhenQuiet
  BY DEF Kept, Saving, DurableWhenQuiet, Quiet, At, WillSave
<1> QED BY <1>1, KeptHolds, PTL

-----------------------------------------------------------------------------
(* The refinement. A commit is the only step that needs more than its own  *)
(* text: that the child it registers is the one its own start has spawned  *)
(* (ChildHeld of Ownership) is what makes it the admitted attempt.         *)

View == <<Registered, inflight, nextGen, stopMark, shutting>>

LEMMA SupervisorInit == Init => Supervisor!Init
BY DEF Init, Registered, NotRunning, Supervisor!Init

\* A change of one tunnel's entry, seen from outside.
LEMMA RegisteredAt ==
  ASSUME TypeOK, NEW t \in Tunnels, NEW r \in RunningTunnel,
         running' = [running EXCEPT ![t] = r]
  PROVE  Registered' = [Registered EXCEPT ![t] = r.gen]
BY DEF Registered, TypeOK

LEMMA RegisteredWithout ==
  ASSUME TypeOK, NEW t \in Tunnels, running' = Without(t)
  PROVE  Registered' = [Registered EXCEPT ![t] = 0]
BY RegisteredAt, NullTypes DEF Without, NotRunning

LEMMA DetachHalts ==
  ASSUME Ownership, NEW a \in Actors, Detach(a)
  PROVE  Supervisor!Halt(task[a].tunnel)
<1>1. task[a].tunnel \in Tunnels /\ TypeOK
  BY OwnershipFacts DEF Ownership
<1>2. Registered' = [Registered EXCEPT ![task[a].tunnel] = 0]
  BY <1>1, RegisteredWithout DEF Detach
<1> QED BY <1>2 DEF Detach, Supervisor!Halt

LEMMA BeginAdmits ==
  ASSUME NEW t, UNCHANGED <<running, stopMark, shutting>>,
         nextGen' = nextGen + 1, inflight' = [inflight EXCEPT ![t] = nextGen + 1]
  PROVE  Supervisor!Admit(t)
BY DEF Registered, Supervisor!Admit

LEMMA CommitComesUp ==
  ASSUME Ownership, NEW a \in Actors, Commit(a)
  PROVE  Supervisor!ComeUp(task[a].tunnel)
<1> DEFINE t == task[a].tunnel
           r == [gen |-> task[a].child, auto |-> task[a].auto, count |-> task[a].count]
<1>1. t \in Tunnels /\ task[a] \in Task /\ TypeOK
  BY OwnershipFacts DEF Ownership
<1>2. task[a].child = task[a].gen /\ task[a].gen # 0
  BY DEF Ownership, ChildHeld, Commit, At
<1>3. inflight[t] = task[a].gen /\ ~shutting
  BY DEF Commit, MayCommit, IsCurrent
<1>4. r \in RunningTunnel /\ r.gen = inflight[t]
  BY <1>1, <1>2, <1>3 DEF RunningTunnel, Task
<1>5. running' = [running EXCEPT ![t] = r]
  BY DEF Commit
<1> HIDE DEF r
<1>6. Registered' = [Registered EXCEPT ![t] = inflight[t]]
  BY <1>1, <1>4, <1>5, RegisteredAt
<1>7. inflight' = [inflight EXCEPT ![t] = 0] /\ UNCHANGED <<nextGen, stopMark, shutting>>
  BY DEF Commit
<1> QED BY <1>2, <1>3, <1>6, <1>7 DEF Supervisor!ComeUp

\* A start that has failed while it was the admitted one, or that cannot save.
LEMMA FailureCallsOff ==
  ASSUME Ownership, NEW t \in Tunnels, inflight' = [inflight EXCEPT ![t] = 0],
         UNCHANGED <<running, stopMark, shutting>>, nextGen' \in {nextGen, nextGen + 1}
  PROVE  Supervisor!CallOff({t})
<1>1. inflight \in [Tunnels -> Nat] /\ nextGen \in Nat
  BY DEF Ownership, TypeOK
<1>2. inflight' = [u \in Tunnels |-> IF u \in {t} THEN 0 ELSE inflight[u]]
  BY <1>1
<1>3. nextGen' \in Nat /\ nextGen' >= nextGen
  BY <1>1
<1>4. UNCHANGED <<Registered, stopMark, shutting>>
  BY DEF Registered
<1> QED BY <1>2, <1>3, <1>4 DEF Supervisor!CallOff

LEMMA EraseGoesDown ==
  ASSUME Ownership, NEW a \in Actors, Erase(a)
  PROVE  Supervisor!GoDown({task[a].tunnel})
<1>1. task[a].tunnel \in Tunnels /\ TypeOK
  BY OwnershipFacts DEF Ownership
<1>2. Registered' = [Registered EXCEPT ![task[a].tunnel] = 0]
  BY <1>1, RegisteredWithout DEF Erase
<1>3. Registered' = [t \in Tunnels |-> IF t \in {task[a].tunnel} THEN 0 ELSE Registered[t]]
  BY <1>2 DEF Registered
<1>4. UNCHANGED <<inflight, nextGen, stopMark, shutting>>
  BY DEF Erase
<1> QED BY <1>3, <1>4 DEF Supervisor!GoDown

LEMMA ReconcileGoesDown ==
  ASSUME Ownership, NEW a \in Actors, Reconcile(a)
  PROVE  \E some \in SUBSET Tunnels : Supervisor!GoDown(some)
<1>1. PICK broken \in SUBSET {t \in Tunnels : IsRunning(t)} : Examine(a, broken)
  BY DEF Reconcile
<1> DEFINE some == broken \cup Exited(broken)
<1>2. some \in SUBSET Tunnels
  BY <1>1 DEF Exited
<1>3. running' = [t \in Tunnels |-> IF t \in some THEN NotRunning ELSE running[t]]
  BY <1>1 DEF Examine
<1> HIDE DEF some
<1>4. Registered' = [t \in Tunnels |-> IF t \in some THEN 0 ELSE Registered[t]]
  BY <1>3 DEF Registered, NotRunning
<1>5. UNCHANGED <<inflight, nextGen, stopMark, shutting>>
  BY <1>1 DEF Examine
<1> QED BY <1>2, <1>4, <1>5 DEF Supervisor!GoDown

\* The shutdown calls off every start that is under way at once.
LEMMA CollectCallsOff ==
  ASSUME Ownership, CollectTunnels
  PROVE  \E some \in SUBSET Tunnels : Supervisor!CallOff(some)
<1> DEFINE some == {t \in Tunnels : inflight[t] # 0}
<1>1. nextGen \in Nat /\ inflight \in [Tunnels -> Nat] /\ Cardinality(some) \in Nat
  BY CancelledType DEF Ownership, TypeOK
<1>2. nextGen' = nextGen + Cardinality(some)
  BY DEF CollectTunnels
<1>3. nextGen' \in Nat /\ nextGen' >= nextGen
  BY <1>1, <1>2
<1>4. inflight' = [t \in Tunnels |-> IF t \in some THEN 0 ELSE inflight[t]]
  BY <1>1 DEF CollectTunnels
<1>5. UNCHANGED <<Registered, stopMark, shutting>>
  BY DEF CollectTunnels, Registered
<1>6. some \in SUBSET Tunnels
  OBVIOUS
<1> HIDE DEF some
<1> QED BY <1>3, <1>4, <1>5, <1>6 DEF Supervisor!CallOff

LEMMA SupervisorTaskStep ==
  ASSUME Ownership, NEW a \in Actors, Step(a) \/ Fault(a) \/ Request(a)
  PROVE  Supervisor!Next \/ UNCHANGED View
<1>0. task[a].tunnel \in Tunnels /\ nextGen \in Nat
  BY OwnershipFacts
<1>s. ASSUME UNCHANGED <<running, inflight, nextGen, stopMark, shutting>>
      PROVE  UNCHANGED View
  BY <1>s DEF View, Registered
<1>1. CASE Detach(a)
  BY <1>0, <1>1, DetachHalts DEF Supervisor!Next
<1>2. CASE Begin(a)
  <2>1. Supervisor!Admit(task[a].tunnel)
    BY <1>2, BeginAdmits DEF Begin
  <2> QED BY <1>0, <2>1 DEF Supervisor!Next
<1>3. ASSUME NEW t \in Tunnels, BeginRestart(a, t) PROVE Supervisor!Next
  <2>1. Supervisor!Admit(t)
    BY <1>3, BeginAdmits DEF BeginRestart
  <2> QED BY <2>1 DEF Supervisor!Next
<1>4. CASE Commit(a)
  BY <1>0, <1>4, CommitComesUp DEF Supervisor!Next
<1>5. CASE Erase(a)
  <2>1. {task[a].tunnel} \in SUBSET Tunnels
    BY <1>0
  <2> QED BY <1>5, <2>1, EraseGoesDown DEF Supervisor!Next
<1>6. CASE Reconcile(a)
  BY <1>6, ReconcileGoesDown DEF Supervisor!Next
<1>7. CASE StartFailed(a) \/ RestartFailed(a) \/ SaveBeginFails(a)
  <2>1. CASE inflight' = [inflight EXCEPT ![task[a].tunnel] = 0]
    <3>1. UNCHANGED <<running, stopMark, shutting>> /\ nextGen' \in {nextGen, nextGen + 1}
      BY <1>7 DEF StartFailed, RestartFailed, SaveBeginFails
    <3>2. Supervisor!CallOff({task[a].tunnel}) /\ {task[a].tunnel} \in SUBSET Tunnels
      BY <1>0, <2>1, <3>1, FailureCallsOff
    <3> QED BY <3>2 DEF Supervisor!Next
  <2>2. CASE inflight' # [inflight EXCEPT ![task[a].tunnel] = 0]
    BY <1>7, <1>s, <2>2 DEF StartFailed, RestartFailed, SaveBeginFails
  <2> QED BY <2>1, <2>2
<1>8. CASE Terminate(a) \/ SaveBegin(a) \/ Spawn(a) \/ SpawnFails(a) \/ NotReady(a)
  BY <1>8, <1>s DEF Terminate, SaveBegin, Spawn, SpawnFails, NotReady
<1>9. CASE Discard(a) \/ Release(a) \/ RecordStop(a) \/ Save(a)
  BY <1>9, <1>s DEF Discard, Release, RecordStop, Save
<1>10. CASE CollectDue(a) \/ Requeue(a) \/ PollDone(a) \/ \E t \in Tunnels : SkipRestart(a, t)
  BY <1>10, <1>s DEF CollectDue, Requeue, PollDone, SkipRestart
<1>11. CASE TerminateFails(a) \/ SaveFails(a) \/ Disconnect(a)
  BY <1>11, <1>s DEF TerminateFails, SaveFails, Disconnect
<1>12. CASE Request(a)
  BY <1>12, <1>s DEF Request, StartRequest, StopRequest, DeleteRequest, PollRequest, Accept
<1> QED
  BY <1>1, <1>2, <1>3, <1>4, <1>5, <1>6, <1>7, <1>8, <1>9, <1>10, <1>11, <1>12
  DEF Step, Fault

LEMMA SupervisorStep == Ownership /\ [Next]_vars => [Supervisor!Next]_View
<1> SUFFICES ASSUME Ownership, [Next]_vars PROVE Supervisor!Next \/ UNCHANGED View
  OBVIOUS
<1>s. ASSUME UNCHANGED <<running, inflight, nextGen, stopMark, shutting>>
      PROVE  UNCHANGED View
  BY <1>s DEF View, Registered
<1>1. CASE BeginShutdown
  BY <1>1 DEF BeginShutdown, Registered, Supervisor!Close, Supervisor!Next
<1>2. CASE CollectTunnels
  BY <1>2, CollectCallsOff DEF Supervisor!Next
<1>3. CASE DrainDone \/ Close \/ \E t \in Tunnels : DrainNext(t)
  BY <1>3, <1>s DEF DrainDone, Close, DrainNext
<1>4. CASE UNCHANGED vars \/ (\E g \in alive : Die(g)) \/ \E t \in Tunnels : Elapse(t)
  BY <1>4, <1>s DEF vars, Die, Elapse
<1> QED BY <1>1, <1>2, <1>3, <1>4, SupervisorTaskStep DEF Next, Shutdown

\* To its clients the daemon is the supervisor: between the spawn of a provider and
\* its registration any number of stops, starts, restarts, dropped handlers and a
\* shutdown may pass, and still a tunnel comes up only with the start admitted at
\* that moment (start_is_current), and never after the shutdown has begun.
THEOREM SupervisorImplemented == Spec => ImplementsSupervisor
<1>1. Init => Supervisor!Init
  BY SupervisorInit
<1>2. Ownership /\ [Next]_vars => [Supervisor!Next]_<<Registered, inflight, nextGen, stopMark, shutting>>
  BY SupervisorStep DEF View
<1>3. QED
  BY <1>1, <1>2, OwnershipHolds, PTL
  DEF Spec, ImplementsSupervisor, Supervisor!Spec, Supervisor!supervisorVars
=============================================================================
