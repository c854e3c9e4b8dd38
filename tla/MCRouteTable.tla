----------------------------- MODULE MCRouteTable -----------------------------
(***************************************************************************)
(* Instances of RouteTable: two tunnels that both may have a route with    *)
(* the one id there is, so that a gate of an old version is ambiguous. And *)
(* an instance of StatePersistence, which has the steps of its Save.       *)
(***************************************************************************)
EXTENDS RouteTable, StatePersistence

CONSTANTS t1, t2, i1, b1, b2, code, s1, s2

MCRoute(tunnel, body) == [tunnel |-> tunnel, id |-> i1, body |-> body]

MCGates == {NoGate, [NoGate EXCEPT !.code = code], [NoGate EXCEPT !.public = TRUE]}

MCPayloads == {{}, {MCRoute(t1, b2)}, {MCRoute(t1, b1), MCRoute(t1, b2)}}

MCConfigs == {[routes |-> {MCRoute(t1, b1), MCRoute(t2, b1)}, health |-> s2],
              [routes |-> {MCRoute(t2, b2)}, health |-> None]}

\* Three slices: requests of one client, one after the other, and a config file; two
\* clients and the poller around the settings and the config file; and the state file.
VARIABLE slice

MCInit ==
  /\ Init /\ StoreInit
  /\ slice \in {"requests", "config", "save"}
  /\ slice # "requests" => disk.gates = <<>> /\ disk.routes \subseteq {MCRoute(t1, b2)}
  /\ slice = "save" => disk.routes = {} /\ disk.default = NoGate

MCRequests ==
  /\ slice = "requests"
  /\ \/ \E c \in {CHOOSE c \in Clients : TRUE} : Request(c) \/ Apply(c) \/ KeepSettings(c) \/ Disconnect(c)
     \/ Restart \/ Poll \/ Apply(Monitor)
     \/ \E f \in Configs : EditFile(f)

MCConfig ==
  /\ slice = "config"
  /\ \/ \E c \in Clients : \/ Reload(c) \/ KeepSettings(c) \/ Disconnect(c)
                          \/ (\E s \in Settings : UpdateSettings(c, s)) \/ AddRoute(c, MCRoute(t1, b1))
     \/ \E p \in Processes : Apply(p)
     \/ Poll \/ Restart
     \/ \E f \in Configs \cup {None, Broken} : EditFile(f)

MCNext ==
  /\ slice' = slice
  /\ \/ (MCRequests \/ MCConfig) /\ UNCHANGED storeVars
     \/ slice = "save" /\ StoreNext /\ UNCHANGED vars

MCSpec ==
  /\ MCInit /\ [][MCNext]_<<vars, storeVars, slice>> /\ StoreFairness
  /\ WF_vars(Poll) /\ \A p \in Processes : WF_vars(Apply(p)) /\ WF_vars(KeepSettings(p))
=============================================================================
