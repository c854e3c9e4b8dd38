---------------------------- MODULE RouteClients ----------------------------
(***************************************************************************)
(* Commands that take several requests to the daemon: save_route and       *)
(* set_default_route_access of the desktop app (commands.rs of             *)
(* tunnelmux-gui), expose and unexpose of the CLI (commands.rs and main.rs *)
(* of tunnelmux-cli), next to the commands that take one. The daemon is    *)
(* what its handlers make of it; a request may be lost on its way, and one *)
(* that took effect may still answer with an error: its answer is lost, or *)
(* the daemon could not save what it had already changed.                  *)
(***************************************************************************)
EXTENDS Naturals, FiniteSets

CONSTANTS Ids, Bodies, Invalid,   \* routes of the tunnel; a body the daemon refuses
          Codes, Targets,         \* access codes; provider and target of a tunnel
          Users,                  \* processes that run a command each
          Forms,                  \* access gate part of the forms that are saved
          MaxFailures             \* bound on lost requests and answers

Unset == "unset"      \* require_access_code is absent
Blank == "blank"      \* or empty once trimmed: no code
NoRoute == "no route"

ASSUME RouteClientsAssumption ==
  /\ Invalid \in Bodies /\ NoRoute \notin Bodies /\ MaxFailures \in Nat
  /\ Codes \cap {Unset, Blank} = {}
  /\ \A f \in Forms: /\ f.mode \in {"inherit", "public", "custom", "other", "unset"}
                     /\ f.code \in Codes \cup {Unset, Blank}

NoGate == [code |-> Blank, public |-> FALSE, ttl |-> FALSE]

VARIABLES
  daemon,    \* its routes, their gates, the default gate and the tunnel
  task,      \* each user's command
  losses     \* lost so far

clientVars == <<daemon, task, losses>>

Fresh == [op |-> "none", at |-> "new", id |-> "", body |-> NoRoute, calm |-> TRUE,
          unsure |-> FALSE, blind |-> FALSE, form |-> [mode |-> Unset, code |-> Unset],
          edits |-> FALSE, target |-> "", flag |-> FALSE, wait |-> FALSE,
          seen |-> NoRoute, known |-> [mode |-> "open", ttl |-> FALSE],
          plan |-> "none", before |-> {}]

Daemons ==
  {[routes |-> rs, gates |-> gs, default |-> d, tunnel |-> t] :
     rs \in [Ids -> (Bodies \ {Invalid}) \cup {NoRoute}],
     gs \in [Ids -> [code: Codes \cup {Blank}, public: BOOLEAN, ttl: BOOLEAN]],
     d \in [code: Codes \cup {Blank}, ttl: BOOLEAN],
     t \in [state: {"down", "up"}, target: Targets]}

ClientInit ==
  /\ daemon \in {d \in Daemons: \A i \in Ids:
                   /\ d.routes[i] = NoRoute => d.gates[i] = NoGate
                   /\ d.gates[i].public => d.gates[i].code = Blank /\ ~d.gates[i].ttl}
  /\ task = [u \in Users |-> Fresh] /\ losses = 0

-----------------------------------------------------------------------------
(* Requests: what each needs, and the daemon after it.                      *)

Exists(id) == daemon.routes[id] # NoRoute

Put(id, body) == [daemon EXCEPT !.routes[id] = body]
Delete(id) == [daemon EXCEPT !.routes[id] = NoRoute, !.gates[id] = NoGate]
SetGate(id, gate) == [daemon EXCEPT !.gates[id] = gate]
SetState(state) == [daemon EXCEPT !.tunnel.state = state]

(* summarize_route_access: the TTL a listing shows is the effective one.    *)
EffectiveTtl(d, id) == d.gates[id].ttl \/ d.default.ttl

Listed(id) ==
  LET gate == daemon.gates[id] IN
  IF gate.public THEN [mode |-> "public", ttl |-> FALSE]
  ELSE IF gate.code # Blank THEN [mode |-> "route", ttl |-> EffectiveTtl(daemon, id)]
  ELSE IF daemon.default.code # Blank
         THEN [mode |-> "inherited", ttl |-> EffectiveTtl(daemon, id)]
         ELSE [mode |-> "open", ttl |-> FALSE]

(* What one user's step does to the tasks: it moves its own, and a change   *)
(* of the daemon is noticed by every other.                                 *)
Moves(u, t) ==
  task' = [x \in Users |->
    IF x = u THEN t ELSE [task[x] EXCEPT !.calm = @ /\ daemon' = daemon]]

Loss == losses < MaxFailures /\ losses' = losses + 1

(* A read is served, or fails.                                              *)
Read(u, yes, no) ==
  /\ UNCHANGED daemon
  /\ \/ Moves(u, yes) /\ UNCHANGED losses
     \/ Moves(u, no) /\ Loss

(* A write is served or refused, lost on its way, or lost on its way back.  *)
Write(u, accepts, result, yes, no) ==
  \/ accepts /\ daemon' = result /\ Moves(u, yes) /\ UNCHANGED losses
  \/ ~accepts /\ UNCHANGED <<daemon, losses>> /\ Moves(u, no)
  \/ UNCHANGED daemon /\ Loss /\ Moves(u, no)
  \/ accepts /\ daemon' = result /\ Loss /\ Moves(u, [no EXCEPT !.unsure = TRUE])

Goto(u, at) == [task[u] EXCEPT !.at = at]
Runs(u, op, at) == task[u].op = op /\ task[u].at = at

Starts(u, t) ==
  /\ task[u].at = "new" /\ UNCHANGED <<daemon, losses>>
  /\ Moves(u, [t EXCEPT !.before = {daemon}])

-----------------------------------------------------------------------------
(* save_route of the desktop app. A form edits a route, or adds one.        *)

SaveRoute(u) ==
  \E id \in Ids, body \in Bodies, form \in Forms, edits \in BOOLEAN:
    Starts(u, [Fresh EXCEPT !.op = "save", !.at = IF edits THEN "list" ELSE "write",
                            !.id = id, !.body = body, !.form = form, !.edits = edits])

ListPrevious(u) ==
  /\ Runs(u, "save", "list")
  /\ Read(u, [Goto(u, "write") EXCEPT !.seen = daemon.routes[task[u].id]],
             Goto(u, "refused"))

(* An edit upserts; a new route must not exist.                             *)
WriteRoute(u) ==
  LET t == task[u] IN
  /\ Runs(u, "save", "write")
  /\ Write(u, t.body # Invalid /\ (t.edits \/ ~Exists(t.id)), Put(t.id, t.body),
           Goto(u, "gate"), Goto(u, "refused"))

(* The gate is read to keep its TTL, and the read may fail.                 *)
ReadGate(u) ==
  /\ Runs(u, "save", "gate")
  /\ Read(u, [Goto(u, "sync") EXCEPT !.known = Listed(task[u].id)],
             [Goto(u, "sync") EXCEPT !.blind = TRUE])

AskedGate_TtlDropped(form, known) ==
  CASE form.mode = "public" -> {[NoGate EXCEPT !.public = TRUE]}
    [] form.mode = "inherit" -> {NoGate}
    [] form.mode = "custom" /\ form.code \in Codes -> {[NoGate EXCEPT !.code = form.code]}
    [] form.mode = Unset /\ form.code # Unset -> {[NoGate EXCEPT !.code = form.code]}
    [] OTHER -> {}

(* sync_route_access_from_form: the gate it asks for, if any.               *)
AskedGate(form, known) ==
  CASE form.mode = "public" -> {[NoGate EXCEPT !.public = TRUE]}
    [] form.mode = "inherit" -> {NoGate}
    [] form.mode = "custom" /\ form.code \in Codes ->
         {[NoGate EXCEPT !.code = form.code, !.ttl = known.ttl]}
    [] form.mode = Unset /\ form.code # Unset -> {[NoGate EXCEPT !.code = form.code]}
    [] OTHER -> {}

(* Nothing to ask for: a custom gate whose code is not typed again, or a    *)
(* form without a gate.                                                     *)
LeavesGate(form, known) ==
  \/ form.mode = "custom" /\ form.code \notin Codes /\ known.mode = "route"
  \/ form.mode = Unset /\ form.code = Unset

SyncGate(u) ==
  LET t == task[u]
      asked == AskedGate(t.form, t.known)
  IN
  /\ Runs(u, "save", "sync")
  /\ \/ \E gate \in asked:
          Write(u, Exists(t.id), SetGate(t.id, gate), Goto(u, "show"), Goto(u, "undo"))
     \/ /\ asked = {} /\ UNCHANGED <<daemon, losses>>
        /\ Moves(u, Goto(u, IF LeavesGate(t.form, t.known) THEN "show" ELSE "undo"))

(* The rollback writes the previous route again, without upsert, or deletes *)
(* the one it has added.                                                    *)
UndoRoute(u) ==
  LET t == task[u] IN
  /\ Runs(u, "save", "undo")
  /\ Write(u, Exists(t.id),
           IF t.seen # NoRoute THEN Put(t.id, t.seen) ELSE Delete(t.id),
           Goto(u, "undone"), Goto(u, "stuck"))

ShowRoutes(u) ==
  Runs(u, "save", "show") /\ Read(u, Goto(u, "saved"), Goto(u, "stuck"))

(* set_default_route_access reads the default gate for its TTL, and fails   *)
(* when it cannot.                                                          *)
SaveDefault(u) ==
  \E code \in Codes \cup {Blank}:
    Starts(u, [Fresh EXCEPT !.op = "default", !.at = "gate", !.form.code = code])

ReadDefault(u) ==
  /\ Runs(u, "default", "gate")
  /\ Read(u, [Goto(u, "sync") EXCEPT !.known.ttl = daemon.default.ttl], Goto(u, "refused"))

WriteDefault(u) ==
  LET t == task[u] IN
  /\ Runs(u, "default", "sync")
  /\ Write(u, TRUE, [daemon EXCEPT !.default = [code |-> t.form.code, ttl |-> t.known.ttl]],
           Goto(u, "saved"), Goto(u, "stuck"))

-----------------------------------------------------------------------------
(* expose and unexpose of the CLI. Nothing is rolled back.                  *)

Expose(u) ==
  \E id \in Ids, body \in Bodies, target \in Targets, restart, wait \in BOOLEAN:
    Starts(u, [Fresh EXCEPT !.op = "expose", !.at = "list", !.id = id, !.body = body,
                            !.target = target, !.flag = restart, !.wait = wait])

Unexpose(u) ==
  \E id \in Ids, keep, ignoreMissing \in BOOLEAN:
    Starts(u, [Fresh EXCEPT !.op = "unexpose", !.at = "list", !.id = id,
                            !.flag = keep, !.wait = ignoreMissing])

ListForExpose(u) ==
  /\ Runs(u, "expose", "list")
  /\ Read(u, [Goto(u, "status") EXCEPT !.seen = daemon.routes[task[u].id]],
             Goto(u, "refused"))

(* decide_expose_tunnel_action                                              *)
TunnelAction(tunnel, target, restart) ==
  IF tunnel.state = "down" THEN "start"
  ELSE IF tunnel.target = target THEN "noop"
  ELSE IF restart THEN "restart" ELSE "blocked"

StatusForExpose(u) ==
  LET t == task[u]
      action == TunnelAction(daemon.tunnel, t.target, t.flag)
  IN
  /\ Runs(u, "expose", "status")
  /\ Read(u, [t EXCEPT !.plan = action,
                       !.at = IF action = "blocked" THEN "refused" ELSE "write"],
             Goto(u, "refused"))

AfterRoute(plan) ==
  CASE plan = "start" -> "start" [] plan = "restart" -> "stop" [] OTHER -> "ready"

(* A route that is as desired is not written again; else PUT with upsert.   *)
ExposeRoute(u) ==
  LET t == task[u] IN
  /\ Runs(u, "expose", "write")
  /\ \/ /\ t.seen = t.body /\ UNCHANGED <<daemon, losses>>
        /\ Moves(u, Goto(u, AfterRoute(t.plan)))
     \/ /\ t.seen # t.body
        /\ Write(u, t.body # Invalid, Put(t.id, t.body), Goto(u, AfterRoute(t.plan)),
                 Goto(u, "refused"))

(* The daemon stops and starts a tunnel one request at a time.              *)
Between == daemon.tunnel.state # "starting"

ExposeStop(u) ==
  /\ Runs(u, "expose", "stop") /\ Between
  /\ Write(u, TRUE, SetState("down"), Goto(u, "start"), Goto(u, "failed"))

BeginStart(u) ==
  /\ Runs(u, "expose", "start") /\ Between
  /\ Write(u, daemon.tunnel.state = "down",
           [daemon EXCEPT !.tunnel = [state |-> "starting", target |-> task[u].target]],
           Goto(u, "starting"), Goto(u, "failed"))

(* The start goes on when the client is gone; a provider may not come up.   *)
EndStart(u) ==
  /\ Runs(u, "expose", "starting") /\ daemon.tunnel.state = "starting"
  /\ UNCHANGED losses
  /\ \/ daemon' = SetState("up") /\ Moves(u, Goto(u, "ready"))
     \/ daemon' = SetState("down") /\ Moves(u, Goto(u, "failed"))

(* wait_for_tunnel_ready polls until the tunnel is up or the time is over;  *)
(* without --wait-ready there is nothing to wait for.                       *)
AwaitReady(u) ==
  LET t == task[u] IN
  /\ Runs(u, "expose", "ready") /\ UNCHANGED <<daemon, losses>>
  /\ \/ (t.wait => daemon.tunnel.state = "up") /\ Moves(u, Goto(u, "exposed"))
     \/ t.wait /\ daemon.tunnel.state # "up" /\ Moves(u, Goto(u, "failed"))

ListForUnexpose(u) ==
  LET t == task[u] IN
  /\ Runs(u, "unexpose", "list")
  /\ Read(u, [t EXCEPT !.at = IF Exists(t.id) \/ t.wait THEN "status" ELSE "refused",
                       !.seen = {i \in Ids: Exists(i)}],
             Goto(u, "refused"))

StopsTunnel_CountsItself(t, state) ==
  ~t.flag /\ t.seen = {} /\ state \in {"up", "starting"}

(* should_auto_stop_tunnel_after_unexpose, from what was read before.       *)
StopsTunnel(t, state) ==
  ~t.flag /\ t.seen \ {t.id} = {} /\ state \in {"up", "starting"}

StatusForUnexpose(u) ==
  LET t == task[u]
      plan == IF StopsTunnel(t, daemon.tunnel.state) THEN "stop" ELSE "none"
  IN
  /\ Runs(u, "unexpose", "status")
  /\ Read(u, [t EXCEPT !.plan = plan, !.at = "write"], Goto(u, "refused"))

UnexposeRoute(u) ==
  LET t == task[u]
      next == Goto(u, IF t.plan = "stop" THEN "stop" ELSE "unexposed")
  IN
  /\ Runs(u, "unexpose", "write")
  /\ \/ Write(u, Exists(t.id), Delete(t.id), next, Goto(u, "refused")) /\ (Exists(t.id) \/ ~t.wait)
     \/ t.wait /\ ~Exists(t.id) /\ Read(u, next, Goto(u, "refused"))

UnexposeStop(u) ==
  /\ Runs(u, "unexpose", "stop") /\ Between
  /\ Write(u, TRUE, SetState("down"), Goto(u, "unexposed"), Goto(u, "failed"))

-----------------------------------------------------------------------------
(* Commands of one request: routes add, update, remove and apply --replace, *)
(* delete_route of the app, and a reload of the config file, which leaves   *)
(* the gates of the routes it takes away.                                   *)

Replace(id, body) == [daemon EXCEPT !.routes = [i \in Ids |-> IF i = id THEN body ELSE NoRoute]]

OneRequest(u) ==
  /\ task[u].at = "new"
  /\ \E id \in Ids, body \in Bodies \ {Invalid}:
       LET done == [Fresh EXCEPT !.op = "once", !.at = "done"] IN
       \/ Write(u, ~Exists(id), Put(id, body), done, done)
       \/ \E upsert \in BOOLEAN: Write(u, upsert \/ Exists(id), Put(id, body), done, done)
       \/ Write(u, Exists(id), Delete(id), done, done)
       \/ Write(u, TRUE, [Replace(id, body) EXCEPT
                            !.gates = [i \in Ids |-> IF i = id THEN @[i] ELSE NoGate]], done, done)
       \/ Write(u, TRUE, Replace(id, body), done, done)

(* Events of the daemon, which no command has asked for.                    *)
Noticed == task' = [u \in Users |-> [task[u] EXCEPT !.calm = FALSE]]

(* A start whose answer was lost goes on all the same.                      *)
AbandonedStartEnds ==
  /\ daemon.tunnel.state = "starting" /\ ~\E u \in Users: task[u].at = "starting"
  /\ \E state \in {"up", "down"}: daemon' = SetState(state)
  /\ Noticed /\ UNCHANGED losses

ProviderDies ==
  /\ daemon.tunnel.state = "up" /\ daemon' = SetState("down")
  /\ Noticed /\ Loss

(* What a user does: the next request of its command, or its one request.   *)
CommandStep(u) ==
  \/ SaveRoute(u) \/ ListPrevious(u) \/ WriteRoute(u) \/ ReadGate(u) \/ SyncGate(u)
  \/ UndoRoute(u) \/ ShowRoutes(u) \/ SaveDefault(u) \/ ReadDefault(u) \/ WriteDefault(u)
  \/ Expose(u) \/ ListForExpose(u) \/ StatusForExpose(u) \/ ExposeRoute(u)
  \/ ExposeStop(u) \/ BeginStart(u) \/ EndStart(u) \/ AwaitReady(u)
  \/ Unexpose(u) \/ ListForUnexpose(u) \/ StatusForUnexpose(u) \/ UnexposeRoute(u)
  \/ UnexposeStop(u)

DaemonEvent == AbandonedStartEnds \/ ProviderDies

ClientNext == DaemonEvent \/ \E u \in Users: CommandStep(u) \/ OneRequest(u)

ClientSpec == ClientInit /\ [][ClientNext]_clientVars

-----------------------------------------------------------------------------
(* Properties *)

ClientTypeOK ==
  /\ daemon.routes \in [Ids -> (Bodies \ {Invalid}) \cup {NoRoute}]
  /\ daemon.gates \in [Ids -> [code: Codes \cup {Blank}, public: BOOLEAN, ttl: BOOLEAN]]
  /\ daemon.default \in [code: Codes \cup {Blank}, ttl: BOOLEAN]
  /\ daemon.tunnel \in [state: {"down", "starting", "up"}, target: Targets]
  /\ losses <= MaxFailures
  /\ \A u \in Users: task[u].calm \in BOOLEAN /\ task[u].unsure \in BOOLEAN

(* The daemon but for the gates that are left of routes that are gone.      *)
Visible(d) == [d EXCEPT !.gates = [i \in Ids |-> IF d.routes[i] = NoRoute THEN NoGate ELSE @[i]]]

(* What the app's form says of the gate, once it is saved.                  *)
GateAsSaved(t, before) ==
  LET gate == daemon.gates[t.id] IN
  /\ t.form.mode = "inherit" => gate = NoGate
  /\ t.form.mode = "public" => gate.public
  /\ t.form.mode \notin {"inherit", "public"} =>
       /\ t.form.code \in Codes =>
            /\ gate.code = t.form.code /\ ~gate.public
            /\ t.form.mode = "custom" /\ before.gates[t.id].code # Blank /\ ~t.blind =>
                 EffectiveTtl(daemon, t.id) = EffectiveTtl(before, t.id)
       /\ t.form.code = Unset => gate = before.gates[t.id]
       /\ t.form.code = Blank => gate.code = Blank \/ gate = before.gates[t.id]

(* A command whose requests nobody's change has come between, and of whose  *)
(* requests none took effect and failed, has done all of what it says or    *)
(* nothing: a route is saved with its gate, whose unlock cookies live as    *)
(* long as before, or route and gate are what they were; a new default code *)
(* keeps its TTL; an exposed route is there and its tunnel runs with the    *)
(* target it asked for; and unexpose stops the tunnel just when it has      *)
(* removed its last route.                                                  *)
CommandsDeliver ==
  \A u \in Users: LET t == task[u] IN
    t.calm /\ ~t.unsure => \A before \in t.before:
      /\ t.op = "save" /\ t.at = "saved" =>
           daemon.routes[t.id] = t.body /\ GateAsSaved(t, before)
      /\ t.at \in {"refused", "undone"} => Visible(daemon) = Visible(before)
      /\ t.op = "default" /\ t.at = "saved" =>
           daemon.default = [code |-> t.form.code, ttl |-> before.default.ttl]
      /\ t.at = "exposed" =>
           /\ daemon.routes[t.id] = t.body /\ daemon.tunnel.target = t.target
           /\ daemon.tunnel.state \in (IF t.wait THEN {"up"} ELSE {"up", "starting"})
      /\ t.at = "unexposed" =>
           /\ ~Exists(t.id)
           /\ daemon.tunnel.state =
                IF ~t.flag /\ \A i \in Ids: ~Exists(i) THEN "down"
                                                       ELSE before.tunnel.state
=============================================================================
