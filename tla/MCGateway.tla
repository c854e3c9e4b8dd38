------------------------------- MODULE MCGateway -------------------------------
(***************************************************************************)
(* Instances of Gateway: a mounted route with a fallback, one for a host   *)
(* of its own, and a route of another tunnel; a gate with a code of its    *)
(* own, the default gate, and none.                                        *)
(***************************************************************************)
EXTENDS Gateway

CONSTANTS r1, r2, u1, u2, h1, t1, t2, m1, m2, c1, c2

MCNamespaces == {<<"/", "n">>}

MCRoute(id, tunnel, host, prefix, fallback) ==
  [id |-> id, tunnel |-> tunnel, host |-> host, prefix |-> prefix, strip |-> prefix,
   upstream |-> u1, fallback |-> fallback, enabled |-> TRUE, checked |-> TRUE,
   checkPath |-> <<>>, rewrite |-> TRUE, forwardHost |-> FALSE]

Mounted == MCRoute(m1, t1, None, <<"/", "a">>, u2)
OfHost  == [MCRoute(m2, t1, h1, <<>>, None) EXCEPT !.checkPath = <<"/", "b">>]
Other   == MCRoute(m2, t2, None, <<"/", "a", "/", "b">>, None)

MCTables == {<<OfHost, Mounted, Other>>, <<Mounted, [OfHost EXCEPT !.enabled = FALSE]>>, <<Other>>}

MCGate(code, public) == [code |-> code, public |-> public]
MCGatings ==
  {[default |-> c1, of |-> [i \in {m1, m2} |-> MCGate(IF i = m1 THEN c2 ELSE None, FALSE)]],
   [default |-> c1, of |-> [i \in {m1, m2} |-> MCGate(None, i = m2)]]}

MCKind(host, path, via, code) ==
  [tunnel |-> t1, host |-> host, path |-> path, via |-> via, code |-> code,
   method |-> "GET", html |-> TRUE, upgrade |-> FALSE, big |-> FALSE]

MCKinds ==
  {MCKind(None, <<"/", "a", "/", "b">>, "bearer", c1),
   MCKind(None, <<"/", "a">>, "bearer", c2),
   [MCKind(None, <<"/", "a">>, "cookie", c2) EXCEPT !.upgrade = TRUE],
   [MCKind(h1, <<"/", "n", "/", "a">>, "form", c1) EXCEPT !.method = "POST"],
   [MCKind(h1, <<"/", "a", "/", "b">>, "cookie", c1) EXCEPT !.big = TRUE],
   [MCKind(None, <<"/", "a">>, "form", c2) EXCEPT !.method = "POST"],
   [MCKind(h1, <<"/", "b">>, "none", None) EXCEPT !.html = FALSE]}

MCHealthPaths == {<<"/">>, <<"/", "b">>}

\* Three slices of the gateway, for what goes on around the requests.
VARIABLE slice

MCInit ==
  /\ Init
  /\ slice \in {"rates", "gates", "health"}
  /\ gating.of[m1].code = c2 /\ checkPath = <<"/">>
  /\ slice = "health" \/ \A u \in Upstreams : serving[u] = "ok"

Serve(r) == Step(r) \/ Disconnect(r)

\* The limiter and the slots.
MCRates ==
  /\ slice = "rates"
  /\ \/ \E r \in Requests, k \in Kinds : k.path = <<"/", "a">> /\ k.via = "bearer" /\ Arrive(r, k)
     \/ \E r \in Requests : Serve(r)
     \/ Tick

\* Gates and routes change under a request; upstreams fail it.
MCGates ==
  /\ slice = "gates"
  /\ \/ \E k \in Kinds : Arrive(r1, k)
     \/ Serve(r1)
     \/ \E g \in Gatings : EditGates(g)
     \/ \E t \in Tables : EditRoutes(t)
     \/ \E u \in Upstreams, b \in Behaviours : Turn(u, b)

\* Routes, settings and upstreams change under a round, and a request meets it.
MCHealth ==
  /\ slice = "health"
  /\ \/ \E k \in Kinds : k.upgrade /\ Arrive(r1, k)
     \/ Step(r1)
     \/ Monitor
     \/ \E t \in Tables : EditRoutes(t)
     \/ \E p \in HealthPaths : EditHealthPath(p)
     \/ \E u \in Upstreams, b \in Behaviours : Turn(u, b)

MCNext == slice' = slice /\ (MCRates \/ MCGates \/ MCHealth)

MCSpec == MCInit /\ [][MCNext]_<<vars, slice>> /\ WF_vars(Monitor)
=============================================================================
