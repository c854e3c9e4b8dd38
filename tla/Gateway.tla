-------------------------------- MODULE Gateway --------------------------------
(***************************************************************************)
(* The gateway's data plane: what a proxied request goes through in        *)
(* proxy_request_for_tunnel and proxy_websocket_request (gateway.rs), with *)
(* the limiter and the slots it shares with every other request (lib.rs),  *)
(* and the monitor that probes the upstreams (refresh_upstream_health in   *)
(* runtime.rs). The control plane edits routes and gates meanwhile.        *)
(*                                                                         *)
(* One action is what a request or the monitor does between two reads of   *)
(* shared state; a request holds copies of what it has read. Client        *)
(* addresses are values, time is counted in ticks.                         *)
(***************************************************************************)
EXTENDS GatewayRules, FiniteSets, TLC

CONSTANTS
  Requests,     \* requests that may be in flight
  Kinds,        \* what a request may ask for: see Kind
  Tables,       \* the route tables an edit may install
  Gatings,      \* the gates an edit may install: see Gating
  HealthPaths,  \* the default health check paths an edit may install
  Upstreams,
  Slots,        \* DEFAULT_GATEWAY_MAX_IN_FLIGHT
  RateLimit,    \* DEFAULT_GATEWAY_RATE_LIMIT
  Window,       \* GATEWAY_RATE_WINDOW, in ticks
  MaxTime,      \* bound: the clock stops here
  MaxEdits      \* bound: how often something is edited or an upstream changes

ASSUME BoundsAssumption ==
  /\ {Slots, RateLimit, Window} \subseteq Nat \ {0}
  /\ {MaxTime, MaxEdits} \subseteq Nat

\* A route has an upstream, and may have a second one.
ASSUME RoutesAssumption ==
  \A t \in Tables : \A i \in DOMAIN t :
    t[i].upstream \in Upstreams \ {None} /\ t[i].fallback \in Upstreams \cup {None}

\* Paths are sequences of characters, the absent prefix of a route is empty.
ASSUME PathsAssumption ==
  /\ \A k \in Kinds : k.path \in Seq(STRING) /\ {"via", "code"} \subseteq DOMAIN k
  /\ \A t \in Tables : \A i \in DOMAIN t : t[i].prefix \in Seq(STRING)

VARIABLES
  table,      \* RuntimeState::persisted.routes
  gating,     \* persisted.default_route_access and persisted.route_access
  checkPath,  \* health_check_settings.path
  health,     \* upstream_health: the verdict of every key that has one
  monitor,    \* the round of probes
  serving,    \* how every upstream behaves
  req,        \* what every request has read and done
  buckets,    \* gateway_rate_limiter: start and count of every key's window
  now,
  edits,      \* how many edits there have been
  admitted    \* history: how often each key was let through within so many ticks

vars == <<table, gating, checkPath, health, monitor, serving, req, buckets, now, edits, admitted>>
config  == <<table, gating, checkPath>>
limiter == <<buckets, now, admitted>>

-----------------------------------------------------------------------------
(* Types *)

\* "broken" answers with success and a body that breaks off or is over the limit;
\* "down" refuses the connection or lets the request time out.
Behaviours == {"ok", "broken", "error5xx", "down"}
Healthy(behaviour) == behaviour \in {"ok", "broken"}
RouteIds == {r.id : r \in UNION {ToSet(t) : t \in Tables}}
Codes    == {g.default : g \in Gatings}
              \cup UNION {{g.of[i].code : i \in DOMAIN g.of} : g \in Gatings}

Steps == {"idle", "selecting", "matched", "coded", "passed", "trying", "done"}
Answers == {"pending", "unavailable", "limited", "welcome", "not_found", "too_large",
            "page", "admitted", "unauthorized", "ok", "error5xx", "bad_gateway", "failed", "gone"}

Asleep == [pc |-> "asleep", path |-> <<>>, todo |-> {}, found |-> <<>>]

Nobody == [pc |-> "idle", kind |-> None, route |-> None, code |-> None, targets |-> <<>>,
           asked |-> None, seen5xx |-> FALSE, sent |-> <<>>, exposed |-> FALSE,
           stale |-> FALSE, answer |-> "pending"]

\* Names of the limiter's buckets. Gateway listeners do not record whom they
\* talk to, so that all clients are the one that request_peer_key calls unknown.
Keys == {<<"ip", "unknown">>} \cup {<<"route", "unknown", i>> : i \in RouteIds}

TypeOK ==
  /\ table \in Tables /\ gating \in Gatings /\ checkPath \in HealthPaths
  /\ \A k \in DOMAIN health : k[1] \in Upstreams /\ health[k] \in BOOLEAN
  /\ monitor.pc \in {"asleep", "settled", "probing"}
  /\ serving \in [Upstreams -> Behaviours]
  /\ \A r \in Requests :
       /\ req[r].pc \in Steps
       /\ req[r].answer \in IF req[r].pc = "done" THEN Answers \ {"pending"} ELSE {"pending"}
  /\ DOMAIN buckets \subseteq Keys
  /\ now \in 0..MaxTime /\ edits \in 0..MaxEdits
  /\ Cardinality({r \in Requests : req[r].pc \notin {"idle", "done"}}) <= Slots

-----------------------------------------------------------------------------
(* The limiter *)

Expired_Early(bucket) == now - bucket.started >= Window - 1

Expired(bucket) == now - bucket.started >= Window

Bucket(key) ==
  IF key \notin DOMAIN buckets \/ Expired(buckets[key])
  THEN [started |-> now, count |-> 0] ELSE buckets[key]

Allow(key) == Bucket(key).count < RateLimit

\* What allow leaves behind, whether it says yes or no.
Count(key) ==
  LET b == Bucket(key)
      n == IF Allow(key) THEN b.count + 1 ELSE b.count
  IN  /\ buckets' = [k \in DOMAIN buckets \cup {key} |->
                       IF k = key THEN [b EXCEPT !.count = n] ELSE buckets[k]]
      /\ admitted' = IF Allow(key)
                     THEN [admitted EXCEPT ![key] = [span \in 1..Window |-> @[span] + 1]]
                     ELSE admitted
      /\ now' = now

Tick ==
  /\ now < MaxTime
  /\ now' = now + 1
  /\ admitted' = [k \in Keys |->
                    [span \in 1..Window |-> IF span = 1 THEN 0 ELSE admitted[k][span - 1]]]
  /\ UNCHANGED <<config, health, monitor, serving, req, buckets, edits>>

-----------------------------------------------------------------------------
(* A request *)

InFlight == {r \in Requests : req[r].pc \notin {"idle", "done"}}

Full_OneLate == Cardinality(InFlight) > Slots

Full == Cardinality(InFlight) >= Slots

\* The permit is given back when the handler returns, whatever it returns.
Finish(r, answer) == req' = [req EXCEPT ![r].pc = "done", ![r].answer = answer]

Asks(gates, route) == EffectiveCode(gates.of[route.id], gates.default)

OpenTo(gates, kind, route) ==
  Asks(gates, route) = None \/ Credentialed(kind, Asks(gates, route))

\* A client sends a request: a slot, then the rate of all of them.
Arrive(r, kind) ==
  /\ req[r].pc \in {"idle", "done"}
  /\ IF Full
     THEN /\ req' = [req EXCEPT ![r] = [Nobody EXCEPT !.pc = "done", !.kind = kind,
                                                      !.answer = "unavailable"]]
          /\ UNCHANGED limiter
     ELSE /\ Count(<<"ip", "unknown">>)
          /\ req' = [req EXCEPT ![r] = [Nobody EXCEPT
                       !.pc     = IF Allow(<<"ip", "unknown">>) THEN "selecting" ELSE "done",
                       !.answer = IF Allow(<<"ip", "unknown">>) THEN "pending" ELSE "limited",
                       !.kind   = kind]]
  /\ UNCHANGED <<config, health, monitor, serving, edits>>

\* The route, out of the tunnel's own ones.
Select(r) ==
  LET kind == req[r].kind
      own  == OfTunnel(table, kind.tunnel)
      route == SelectRoute(table, own, kind.host, kind.path)
      welcome == (\A i \in own : ~table[i].enabled) /\ kind.method = "GET" /\ ~kind.upgrade
  IN  /\ req[r].pc = "selecting"
      /\ IF route = None
         THEN Finish(r, IF welcome THEN "welcome" ELSE "not_found")
         ELSE req' = [req EXCEPT ![r].pc = "matched", ![r].route = route,
                                 ![r].exposed = OpenTo(gating, kind, route)]
      /\ UNCHANGED <<config, limiter, health, monitor, serving, edits>>

\* The route's rate, then the code that must not be passed on.
ReadCode(r) ==
  LET route == req[r].route
      key   == <<"route", "unknown", route.id>>
  IN  /\ req[r].pc = "matched"
      /\ Count(key)
      /\ IF Allow(key)
         THEN req' = [req EXCEPT ![r].pc = "coded", ![r].code = Asks(gating, route)]
         ELSE Finish(r, "limited")
      /\ UNCHANGED <<config, health, monitor, serving, edits>>

PassGate_NotForUpgrade(r) ==
  /\ req[r].pc = "coded"
  /\ req[r].kind.upgrade \/ Credentialed(req[r].kind, Asks(gating, req[r].route))
  /\ req' = [req EXCEPT ![r].pc = "passed"]
  /\ UNCHANGED <<config, limiter, health, monitor, serving, edits>>

\* The body is read, or is too large; then the gate is asked, as it is now.
PassGate(r) ==
  LET kind == req[r].kind
      verdict == GateVerdict(kind, Asks(gating, req[r].route))
  IN  /\ req[r].pc = "coded"
      /\ \/ ~kind.upgrade /\ kind.big /\ Finish(r, "too_large")
         \/ /\ kind.upgrade \/ ~kind.big
            /\ IF verdict = "pass"
               THEN req' = [req EXCEPT ![r].pc = "passed",
                                       ![r].asked = Asks(gating, req[r].route)]
               ELSE Finish(r, verdict)
      /\ UNCHANGED <<config, limiter, health, monitor, serving, edits>>

Order(r) ==
  /\ req[r].pc = "passed"
  /\ req' = [req EXCEPT ![r].pc = "trying",
                        ![r].targets = OrderedTargets(req[r].route, checkPath, health)]
  /\ UNCHANGED <<config, limiter, health, monitor, serving, edits>>

\* What the upstream is sent.
Message(r, upstream) ==
  [to |-> upstream, headers |-> CopyHeaders(req[r].kind, req[r].route, req[r].code),
   path |-> JoinUpstreamPath(Slash, RewritePath(req[r].kind.path, req[r].route.strip))]

\* An error moves on to the next target, as a 5xx does. After the last one the
\* client gets its response, else the 5xx seen before it. A body that must be
\* rewritten is read whole first.
HttpOutcome(r, behaviour) ==
  CASE behaviour = "broken" -> IF MountOf(req[r].route) # <<>> THEN "bad_gateway" ELSE "ok"
    [] behaviour = "down"   -> IF req[r].seen5xx THEN "error5xx" ELSE "failed"
    [] OTHER                -> behaviour

\* A WebSocket handshake has kept nothing of the targets before the last.
UpgradeOutcome(behaviour) ==
  CASE behaviour = "broken" -> "bad_gateway"
    [] behaviour = "down"   -> "failed"
    [] OTHER                -> behaviour

Outcome(r, behaviour) ==
  IF req[r].kind.upgrade THEN UpgradeOutcome(behaviour) ELSE HttpOutcome(r, behaviour)

Exhausted_AtOnce(r) == req[r].targets # <<>>

Exhausted(r) == Len(req[r].targets) = 1

Try(r) ==
  LET upstream  == Head(req[r].targets)
      behaviour == serving[upstream]
      sent      == Append(req[r].sent, Message(r, upstream))
  IN  /\ req[r].pc = "trying"
      /\ IF Healthy(behaviour) \/ Exhausted(r)
         THEN req' = [req EXCEPT ![r].pc = "done", ![r].sent = sent,
                                 ![r].answer = Outcome(r, behaviour)]
         ELSE req' = [req EXCEPT ![r].targets = Tail(@), ![r].sent = sent,
                                 ![r].seen5xx = @ \/ behaviour = "error5xx"]
      /\ UNCHANGED <<config, limiter, health, monitor, serving, edits>>

\* The client goes away: the server drops the handler, and the permit with it.
Disconnect(r) ==
  /\ r \in InFlight
  /\ Finish(r, "gone")
  /\ UNCHANGED <<config, limiter, health, monitor, serving, edits>>

-----------------------------------------------------------------------------
(* The monitor: the settings, the routes, one probe per key, a new map *)

RoundStart ==
  /\ monitor.pc = "asleep"
  /\ monitor' = [monitor EXCEPT !.pc = "settled", !.path = checkPath]
  /\ UNCHANGED <<config, limiter, health, serving, req, edits>>

ReadRoutes ==
  /\ monitor.pc = "settled"
  /\ monitor' = [monitor EXCEPT !.pc = "probing", !.todo = HealthKeys(table, monitor.path)]
  /\ UNCHANGED <<config, limiter, health, serving, req, edits>>

With(verdicts, key, verdict) ==
  [k \in DOMAIN verdicts \cup {key} |-> IF k = key THEN verdict ELSE verdicts[k]]

\* The tasks of a round answer in any order; a timeout is a bad verdict.
Probe(key) ==
  /\ key \in monitor.todo
  /\ monitor' = [monitor EXCEPT !.todo = @ \ {key},
                                !.found = With(@, key, Healthy(serving[key[1]]))]
  /\ UNCHANGED <<config, limiter, health, serving, req, edits>>

RoundEnd_Merged ==
  /\ monitor.pc = "probing" /\ monitor.todo = {}
  /\ health' = monitor.found @@ health
  /\ monitor' = Asleep
  /\ UNCHANGED <<config, limiter, serving, req, edits>>

RoundEnd ==
  /\ monitor.pc = "probing" /\ monitor.todo = {}
  /\ health' = monitor.found
  /\ monitor' = Asleep
  /\ UNCHANGED <<config, limiter, serving, req, edits>>

-----------------------------------------------------------------------------
(* What changes around them *)

Edit == edits < MaxEdits /\ edits' = edits + 1

\* Requests in flight remember whether a gate was open to them since they have
\* their route, and whether the gates changed since they read their code.
EditGates(g) ==
  /\ Edit /\ g # gating
  /\ gating' = g
  /\ req' = [r \in Requests |->
               IF r \in InFlight /\ req[r].route # None
               THEN [req[r] EXCEPT !.exposed = @ \/ OpenTo(g, req[r].kind, req[r].route),
                                   !.stale = @ \/ req[r].pc = "coded"]
               ELSE req[r]]
  /\ UNCHANGED <<table, checkPath, limiter, health, monitor, serving>>

EditRoutes(t) ==
  /\ Edit /\ t # table
  /\ table' = t
  /\ UNCHANGED <<gating, checkPath, limiter, health, monitor, serving, req>>

EditHealthPath(p) ==
  /\ Edit /\ p # checkPath
  /\ checkPath' = p
  /\ UNCHANGED <<table, gating, limiter, health, monitor, serving, req>>

\* An upstream is another process: it comes and goes.
Turn(upstream, behaviour) ==
  /\ Edit /\ behaviour # serving[upstream]
  /\ serving' = [serving EXCEPT ![upstream] = behaviour]
  /\ UNCHANGED <<config, limiter, health, monitor, req>>

-----------------------------------------------------------------------------
Init ==
  /\ table \in Tables /\ gating \in Gatings /\ checkPath \in HealthPaths
  /\ health = <<>> /\ monitor = Asleep
  /\ serving \in [Upstreams -> Behaviours]
  /\ req = [r \in Requests |-> Nobody]
  /\ buckets = <<>> /\ now = 0 /\ edits = 0
  /\ admitted = [k \in Keys |-> [span \in 1..Window |-> 0]]

Step(r) == Select(r) \/ ReadCode(r) \/ PassGate(r) \/ Order(r) \/ Try(r)

Monitor == RoundStart \/ ReadRoutes \/ RoundEnd \/ \E k \in monitor.todo : Probe(k)

Next ==
  \/ \E r \in Requests : Step(r) \/ Disconnect(r) \/ \E k \in Kinds : Arrive(r, k)
  \/ Monitor \/ Tick
  \/ \E g \in Gatings : EditGates(g)
  \/ \E t \in Tables : EditRoutes(t)
  \/ \E p \in HealthPaths : EditHealthPath(p)
  \/ \E u \in Upstreams, b \in Behaviours : Turn(u, b)

\* The runtime polls a task that is ready, and every probe has a timeout.
Spec == Init /\ [][Next]_vars /\ WF_vars(Monitor)

-----------------------------------------------------------------------------
(* Properties *)

\* Nothing reaches an upstream for a request that the route's gate never let
\* through: between the choice of the route and the forwarding there was a
\* moment at which the gate was open to it (proxy_request_for_tunnel reads the
\* gate twice, and the control plane edits it in between).
NeverPastGate == \A r \in Requests : req[r].sent # <<>> => req[r].exposed

\* The code that a gate asked for is not handed to the upstream as a bearer
\* token, unless the gates were edited between the two reads of the code
\* (copy_headers_to_upstream gets the one that was read first).
CodeStaysHere ==
  \A r \in Requests : \A i \in DOMAIN req[r].sent :
    /\ "authorization" \in req[r].sent[i].headers
    /\ req[r].kind.code = req[r].asked
    => req[r].stale

\* A request is sent to an upstream at most once; it fails only when every
\* upstream of its route was tried, and an HTTP request then got no response from
\* any; a 5xx is what a client sees only if no upstream did better.
FailoverFaithful ==
  \A r \in Requests :
    LET tried == {req[r].sent[i].to : i \in DOMAIN req[r].sent}
    IN  /\ Cardinality(tried) = Len(req[r].sent)
        /\ req[r].answer \in {"failed", "error5xx"} => tried = UpstreamsOf(req[r].route)
        /\ req[r].answer = "failed" /\ ~req[r].kind.upgrade => ~req[r].seen5xx

\* In any span as long as the window, a key is let through at most twice the
\* limit less one: a window that starts with its first request may be full at
\* its end, and so may the next one at its start (GatewayRateLimiter::allow).
BurstBound == \A k \in Keys : admitted[k][Window] <= 2 * RateLimit - 1

\* What a reference in a page, or a Location, may name within its own site.
RootRelative(path) == IsPrefix(Slash, path) /\ ~IsPrefix(Slash \o Slash, path)

\* References under the mount of the route are moved once, and moved back.
Moves(route) ==
  LET mount == MountOf(route)
  IN  /\ mount # <<>> /\ route.strip = mount /\ ~IsSuffix(Slash, mount)
      /\ ~\E n \in Namespaces : PathHasPrefix(mount, n)

MovedBack(route) ==
  LET mount == MountOf(route)
      moved(path) == RewriteLocation(path, mount)
      back(reference) == JoinUpstreamPath(Slash, RewritePath(reference, route.strip))
      named == {p \in {k.path : k \in Kinds} : RootRelative(p) /\ ~IsPrefix(mount, p)}
  IN  \A p \in named :
        /\ back(RewriteReference("attr", p, mount)) = p
        /\ back(moved(p)) = p
        /\ \A q \in named : PathHasPrefix(p, q) <=>
                            PathHasPrefix(moved(p), RewriteCookiePath(q, mount))

LetBackIn(route, code) ==
  \A kind \in {k \in Kinds : IsPrefix(Slash, k.path) /\ Matches(route, k.host, k.path)} :
    GateVerdict(WithCookie(kind, GateCookie(route, code), route), code) = "pass"

\* What the gateway hands to a browser comes back as it was meant. A root-relative
\* reference in a response that was moved under a mount comes back to the path it
\* named, when the route strips what it matches: the rewriting of responses is
\* undone by the rewriting of requests; and a cookie's path covers the moved
\* references that it covered before. Mounts with a last slash, mounts at or
\* below a root namespace, and paths that start with the mount's characters are
\* out: those references are moved twice, or not at all; and so are "//host",
\* which is no path, and the "*" of OPTIONS, which no browser asks for. And
\* whoever was admitted at a form gets through that gate with its cookie on
\* every path of the route.
FollowedBack ==
  \A r \in Requests :
    /\ req[r].answer = "ok" /\ Moves(req[r].route) => MovedBack(req[r].route)
    /\ req[r].answer = "admitted" => LetBackIn(req[r].route, req[r].kind.code)

\* Once the routes, the settings and the upstreams are left alone, the verdicts
\* come to be those of exactly the upstreams that the routes have checked, and
\* true (refresh_upstream_health replaces the map by what it has probed, from
\* routes and settings it read before).
HealthConverges ==
  <>[](health = [k \in HealthKeys(table, checkPath) |-> Healthy(serving[k[1]])])

=============================================================================
