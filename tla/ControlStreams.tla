--------------------------- MODULE ControlStreams ---------------------------
(***************************************************************************)
(* What the control plane shows (crates/tunnelmuxd/src/api.rs): the views  *)
(* it builds of the runtime state, the SSE streams that send them again    *)
(* and again, the graceful shutdown that waits for those streams, and the  *)
(* CLI that watches or reconnects (client.rs and main.rs of tunnelmux-cli).*)
(*                                                                         *)
(* The runtime state is changed by the handlers of the other modules;      *)
(* here a change is any small step of it.                                  *)
(***************************************************************************)
EXTENDS Integers, Sequences, FiniteSets

CONSTANTS Tunnels, Primary,   \* tunnel ids, and the one used when none is current
          Clients,            \* clients of the streams
          Kinds,              \* the streams they open
          Capacity,           \* of the channel between a stream and its client
          InitialDelay,       \* --stream-retry-initial-ms and -max-ms
          MaxDelay,
          MaxChanges          \* bound on changes of the runtime state

None == "none"
Absent == "absent"

ASSUME StreamConstantsAssumption ==
  /\ Primary \in Tunnels /\ None \notin Tunnels /\ Capacity \in Nat \ {0} /\ MaxChanges \in Nat
  /\ {InitialDelay, MaxDelay} \subseteq Nat \ {0} /\ InitialDelay <= MaxDelay
  /\ Kinds \subseteq {"status", "routes", "upstreams", "metrics", "dashboard"}

(* Routes that differ in what the views count: two of a tunnel share an     *)
(* upstream, one is disabled, one has its health checks off.                *)
RouteSet ==
  {[tunnel |-> t, id |-> i, enabled |-> i # 2, checked |-> i # 3,
    upstream |-> IF i = 2 THEN 1 ELSE i] : t \in Tunnels, i \in 1..3}

VARIABLES
  world,     \* RuntimeState: statuses, routes, current tunnel, children, restarts
  version,   \* of world
  stream,    \* each client's stream: its task, its channel and its client
  server     \* "serving", "shutting" (the flag is up), "draining" or "down"

streamVars == <<world, version, stream, server>>

NoStream == [kind |-> None, tunnel |-> None, at |-> "off", part |-> {}, calm |-> TRUE,
             event |-> 0, sound |-> TRUE, queue |-> <<>>, got |-> 0, client |-> "gone",
             delay |-> InitialDelay, backoff |-> FALSE]

StreamInit ==
  /\ \E routes \in {{}, {r \in RouteSet: r.id < 3}}:
       world = [status |-> [t \in Tunnels |-> IF t = Primary THEN "stopped" ELSE Absent],
                routes |-> routes, current |-> None, running |-> {}, pending |-> {}]
  /\ version = 1
  /\ stream = [c \in Clients |-> NoStream]
  /\ server = "serving"

-----------------------------------------------------------------------------
(* Views. A tunnel that is not named is the current one.                    *)

Resolved(q) == IF q # None THEN q
               ELSE IF world.current = None THEN Primary ELSE world.current

RoutesOf(t) == {r \in world.routes: r.tunnel = t}
Enabled(rs) == {r \in rs: r.enabled}
Upstreams(rs) == {r.upstream: r \in {x \in rs: x.checked}}

(* The persisted status, or that of an idle tunnel.                         *)
StatusView(t) == IF world.status[t] = Absent THEN "idle" ELSE world.status[t]

(* Without a tunnel the list of routes is that of every tunnel.             *)
RoutesView(q) == IF q = None THEN world.routes ELSE RoutesOf(q)

UpstreamsView(q) == Upstreams(RoutesOf(Resolved(q)))

MetricsView(q) ==
  LET t == Resolved(q) IN
  [state |-> StatusView(t), running |-> t \in world.running,
   pending |-> t \in world.pending, routes |-> Cardinality(RoutesOf(t)),
   enabled |-> Cardinality(Enabled(RoutesOf(t))),
   upstreams |-> Cardinality(Upstreams(RoutesOf(t)))]

DiagnosticsView(q) ==
  LET t == Resolved(q) IN
  [state |-> StatusView(t), pending |-> t \in world.pending,
   routes |-> Cardinality(RoutesOf(t)), enabled |-> Cardinality(Enabled(RoutesOf(t)))]

(* known_tunnel_ids: with a configured status, or with routes.              *)
Known == {t \in Tunnels: world.status[t] # Absent \/ RoutesOf(t) # {}}

WorkspaceView ==
  [tunnels |-> {[id |-> t, state |-> StatusView(t),
                 routes |-> Cardinality(RoutesOf(t)),
                 enabled |-> Cardinality(Enabled(RoutesOf(t)))] : t \in Known},
   current |-> IF Known = {} THEN None
               ELSE IF world.current # None THEN world.current
               ELSE IF world.routes # {} THEN (CHOOSE r \in world.routes: TRUE).tunnel
               ELSE Primary]

(* build_dashboard_snapshot resolves the tunnel twice, under two locks:     *)
(* once for the tunnel and its routes, once more inside the metrics.        *)
DashboardPart_Primary(q) ==
  LET t == IF q = None THEN Primary ELSE q IN [state |-> StatusView(t), routes |-> RoutesOf(t)]

DashboardPart(q) == [state |-> StatusView(Resolved(q)), routes |-> RoutesOf(Resolved(q))]

DashboardAgrees(part, m) ==
  /\ m.state = part.state /\ m.routes = Cardinality(part.routes)
  /\ m.enabled = Cardinality(Enabled(part.routes))
  /\ m.upstreams = Cardinality(Upstreams(part.routes))

-----------------------------------------------------------------------------
(* Streams *)

Set(c, r) == stream' = [stream EXCEPT ![c] = r]

Accepting == server \in {"serving", "shutting"}

(* A new task and a new channel; the client keeps what it has seen.         *)
Open(c) ==
  /\ stream[c].at = "off" /\ Accepting
  /\ \E kind \in Kinds, q \in Tunnels \cup {None}:
       Set(c, [stream[c] EXCEPT !.kind = kind, !.at = "turn", !.client = "there",
                                !.tunnel = q])
  /\ UNCHANGED <<world, version, server>>

(* Every turn looks at the shutdown flag before it builds anything.         *)
MayTurn_WhileShutting(c) == stream[c].at = "turn"

MayTurn(c) == stream[c].at = "turn" /\ server = "serving"

LastTurn(c) ==
  /\ stream[c].at = "turn" /\ server # "serving"
  /\ Set(c, [stream[c] EXCEPT !.at = "ended"])
  /\ UNCHANGED <<world, version, server>>

(* The event that holds what a view shows now. A status or a dashboard may  *)
(* fail in its reconcile step, and is then an event of its own.             *)
Emit(c, sound) == Set(c, [stream[c] EXCEPT !.at = "send", !.event = version,
                                           !.part = {}, !.sound = sound])

TurnOf(c, kind) ==
  /\ MayTurn(c) /\ stream[c].kind = kind
  /\ UNCHANGED <<world, version, server>>

StatusTurn(c) == TurnOf(c, "status") /\ Emit(c, TRUE)
RoutesTurn(c) == TurnOf(c, "routes") /\ Emit(c, TRUE)
UpstreamsTurn(c) == TurnOf(c, "upstreams") /\ Emit(c, TRUE)
MetricsTurn(c) == TurnOf(c, "metrics") /\ Emit(c, TRUE)

DashboardTurn(c) ==
  /\ TurnOf(c, "dashboard")
  /\ \/ Emit(c, TRUE)
     \/ Set(c, [stream[c] EXCEPT !.at = "metrics", !.calm = TRUE,
                                 !.part = {DashboardPart(stream[c].tunnel)}])

DashboardMetrics(c) ==
  LET part == CHOOSE p \in stream[c].part: TRUE
      agrees == DashboardAgrees(part, MetricsView(stream[c].tunnel))
  IN
  /\ stream[c].at = "metrics" /\ Emit(c, stream[c].calm => agrees)
  /\ UNCHANGED <<world, version, server>>

(* tx.send waits while the channel is full and fails once the client is     *)
(* gone; then the task sleeps for the interval and turns again.             *)
Send(c) ==
  LET r == stream[c] IN
  /\ r.at = "send"
  /\ \/ r.client # "there" /\ Set(c, [r EXCEPT !.at = "ended", !.queue = <<>>])
     \/ /\ r.client = "there" /\ Len(r.queue) < Capacity
        /\ Set(c, [r EXCEPT !.at = "asleep", !.queue = Append(@, r.event)])
  /\ UNCHANGED <<world, version, server>>

Wake(c) ==
  /\ stream[c].at = "asleep" /\ Set(c, [stream[c] EXCEPT !.at = "turn"])
  /\ UNCHANGED <<world, version, server>>

Receive(c) ==
  LET r == stream[c] IN
  /\ r.client = "there" /\ r.queue # <<>>
  /\ Set(c, [r EXCEPT !.queue = Tail(@), !.got = Head(r.queue)])
  /\ UNCHANGED <<world, version, server>>

Waits(c, backoff) ==
  /\ Set(c, [stream[c] EXCEPT !.client = "waiting", !.queue = <<>>, !.backoff = backoff,
                              !.delay = IF backoff THEN @ ELSE InitialDelay])
  /\ UNCHANGED <<world, version, server>>

(* The stream comes to its end, or it breaks off: the first resets the      *)
(* delay, the second doubles it, but only after it has been waited for.     *)
EndOfStream(c) ==
  /\ stream[c].client = "there" /\ stream[c].at = "ended" /\ stream[c].queue = <<>>
  /\ Waits(c, FALSE)

BreaksOff(c) == stream[c].client = "there" /\ Waits(c, TRUE)

NextDelay(c) ==
  LET r == stream[c]
      doubled == IF 2 * r.delay > MaxDelay THEN MaxDelay ELSE 2 * r.delay
  IN IF r.backoff THEN doubled ELSE r.delay

(* After the delay the same stream is asked for again, from its beginning.  *)
Reconnect(c) ==
  LET r == stream[c] IN
  /\ r.client = "waiting" /\ UNCHANGED <<world, version, server>>
  /\ \/ /\ Accepting /\ r.at = "ended"
        /\ Set(c, [r EXCEPT !.client = "there", !.at = "turn", !.delay = NextDelay(c),
                            !.event = 0, !.sound = TRUE, !.part = {}])
     \/ ~Accepting /\ Set(c, [r EXCEPT !.backoff = TRUE, !.delay = NextDelay(c)])

(* One round of a watch_ loop of the CLI, which has no stream.              *)
Watch(c) ==
  /\ stream[c].at = "off" /\ Accepting
  /\ Set(c, [stream[c] EXCEPT !.got = version])
  /\ UNCHANGED <<world, version, server>>

(* Ctrl+C, or an error that is not tried again: a status other than 2xx.    *)
Disconnect(c) ==
  /\ stream[c].client # "gone"
  /\ Set(c, [stream[c] EXCEPT !.client = "gone", !.queue = <<>>])
  /\ UNCHANGED <<world, version, server>>

-----------------------------------------------------------------------------
(* The runtime state, and the end of the daemon *)

Toggle(set, x) == IF x \in set THEN set \ {x} ELSE set \cup {x}

Change ==
  /\ version <= MaxChanges /\ version' = version + 1
  /\ \/ \E t \in Tunnels, s \in {Absent, "running", "stopped"}:
          s # world.status[t] /\ world' = [world EXCEPT !.status[t] = s]
     \/ \E r \in RouteSet: world' = [world EXCEPT !.routes = Toggle(@, r)]
     \/ \E t \in Tunnels: world' = [world EXCEPT !.running = Toggle(@, t)]
     \/ \E t \in Tunnels: world' = [world EXCEPT !.pending = Toggle(@, t)]
     \/ \E q \in Tunnels \cup {None}:
          q # world.current /\ world' = [world EXCEPT !.current = q]
  /\ stream' = [c \in Clients |-> [stream[c] EXCEPT !.calm = FALSE]]
  /\ UNCHANGED server

BeginShutdown ==
  /\ server = "serving" /\ server' = "shutting"
  /\ UNCHANGED <<world, version, stream>>

(* The tunnels are stopped; the graceful shutdown takes no new connection.  *)
BeginDrain ==
  /\ server = "shutting" /\ server' = "draining"
  /\ UNCHANGED <<world, version, stream>>

(* serve_task ends when every connection has: the stream's task is over and *)
(* what it sent has been delivered, or its client has gone.                 *)
Closed(c) == stream[c].at \in {"off", "ended"} /\ stream[c].queue = <<>>

EndServe ==
  /\ server = "draining" /\ \A c \in Clients: Closed(c) \/ stream[c].client # "there"
  /\ server' = "down" /\ UNCHANGED <<world, version, stream>>

(* A daemon is started again; its tasks are gone with the process.          *)
StartAgain ==
  /\ server = "down" /\ server' = "serving"
  /\ version <= MaxChanges /\ version' = version + 1
  /\ world' = [world EXCEPT !.running = {}, !.pending = {}]
  /\ stream' = [c \in Clients |-> [stream[c] EXCEPT
       !.at = IF @ = "off" THEN "off" ELSE "ended", !.calm = FALSE]]

StreamStep(c) ==
  \/ LastTurn(c) \/ Send(c) \/ Wake(c) \/ DashboardMetrics(c)
  \/ StatusTurn(c) \/ RoutesTurn(c) \/ UpstreamsTurn(c) \/ MetricsTurn(c)
  \/ DashboardTurn(c)

StreamNext ==
  \/ \E c \in Clients: Open(c) \/ StreamStep(c) \/ Receive(c) \/ Disconnect(c)
                        \/ EndOfStream(c) \/ BreaksOff(c) \/ Reconnect(c) \/ Watch(c)
  \/ StartAgain \/ Change \/ BeginShutdown \/ BeginDrain \/ EndServe

(* Tasks run and timers fire; shutdown itself goes on once it has begun.    *)
(* Nothing makes a client read, and no timeout ends the wait for it.        *)
StreamFairness ==
  /\ \A c \in Clients: WF_streamVars(StreamStep(c))
  /\ WF_streamVars(BeginDrain) /\ WF_streamVars(EndServe)

StreamSpec == StreamInit /\ [][StreamNext]_streamVars
FairStreamSpec == StreamSpec /\ StreamFairness

-----------------------------------------------------------------------------
(* Properties *)

StreamTypeOK ==
  /\ world.status \in [Tunnels -> {Absent, "running", "stopped"}]
  /\ world.routes \subseteq RouteSet /\ world.current \in Tunnels \cup {None}
  /\ world.running \subseteq Tunnels /\ world.pending \subseteq Tunnels
  /\ version \in 1..(MaxChanges + 1)
  /\ server \in {"serving", "shutting", "draining", "down"}
  /\ \A c \in Clients:
       /\ stream[c].at \in {"off", "turn", "metrics", "send", "asleep", "ended"}
       /\ stream[c].client \in {"there", "waiting", "gone"}
       /\ Len(stream[c].queue) <= Capacity /\ stream[c].delay \in InitialDelay..MaxDelay

(* All views tell the same of a state: the workspace's row of a tunnel, its *)
(* metrics, its diagnostics, its status and its lists of routes and         *)
(* upstreams. A dashboard put together from two reads agrees with itself    *)
(* unless the state changed between them, and what a client is shown is     *)
(* never older than what it has seen before, however often it reconnects.   *)
ViewsAgree ==
  /\ \A t \in Tunnels:
       LET m == MetricsView(t)
           d == DiagnosticsView(t)
       IN /\ <<m.state, m.pending, m.routes, m.enabled>>
               = <<d.state, d.pending, d.routes, d.enabled>>
          /\ m.state = StatusView(t) /\ m.routes = Cardinality(RoutesView(t))
          /\ m.upstreams = Cardinality(UpstreamsView(t))
          /\ \A w \in WorkspaceView.tunnels: w.id = t =>
               <<w.state, w.routes, w.enabled>> = <<m.state, m.routes, m.enabled>>
  /\ \A c \in Clients:
       LET r == stream[c]
           events == <<r.got>> \o r.queue \o <<IF r.at = "send" THEN r.event ELSE version>>
       IN /\ r.sound
          /\ \A i, j \in DOMAIN events: i < j => events[i] <= events[j]

(* A client that keeps its connection and does not read: the socket is full *)
(* and what the channel holds stays there.                                  *)
Unread(c) == stream[c].client = "there" /\ stream[c].queue # <<>>

(* DaemonHandle::shutdown returns unless a client leaves its stream unread  *)
(* for ever: every stream sees the flag in its next turn and ends, also one *)
(* whose send was waiting, and with it the connection the server waits for. *)
ShutdownReturns ==
  \/ (server = "shutting") ~> (server = "down")
  \/ \E c \in Clients: <>[]Unread(c)

(* "monitor, gateway, SSE, and WebSocket tasks now participate in           *)
(* coordinated teardown" (CHANGELOG.md): the shutdown returns, whatever the *)
(* clients of its streams do.                                               *)
TeardownEnds == (server = "shutting") ~> (server = "down")
=============================================================================
