------------------------------ MODULE RouteTable ------------------------------
(***************************************************************************)
(* Routes, access gates and health check settings of the daemon, and their *)
(* four sources: requests (api.rs), the config file and its poller         *)
(* (runtime.rs), the state file (persistence.rs), and a restart (lib.rs).  *)
(*                                                                         *)
(* One action is what a handler does under one lock. Saving is one step:   *)
(* StatePersistence has the protocol below it. Routes are a set, since only*)
(* ties of the selection see their order; what a route says beyond its     *)
(* tunnel and id is its body. A gate is keyed by tunnel and id, or by      *)
(* Legacy and id when an older version wrote it.                           *)
(***************************************************************************)
EXTENDS Naturals, FiniteSets

CONSTANTS
  Clients, Monitor,    \* who changes the table: requests, and the config poller
  Tunnels, Ids, Bodies,
  Legacy,              \* the tunnel of an unscoped gate key
  Codes, Gates,        \* access codes, and the gates a request may set
  Payloads,            \* the route sets an apply request may bring
  Settings, Startup,   \* health check settings, and those of the command line
  None,                \* no code, no settings, no file, no digest
  Broken,              \* a config file that does not parse or validate
  Configs,             \* config files: routes, and settings or None
  MaxOps, MaxFaults    \* bounds: changes by clients or operator; failures and restarts

Route == [tunnel : Tunnels, id : Ids, body : Bodies]
Gate  == [code : Codes \cup {None}, public : BOOLEAN, ttl : BOOLEAN]

ASSUME ConstantsAssumption ==
  /\ Monitor \notin Clients /\ Legacy \notin Tunnels
  /\ None \notin Settings \cup Codes \cup Configs \cup Tunnels /\ Broken \notin Configs \cup {None}
  /\ Startup \in Settings
  /\ Gates \subseteq Gate /\ Payloads \subseteq SUBSET Route
  /\ \A f \in Configs : f.routes \subseteq Route /\ f.health \in Settings \cup {None}
  /\ \A f \in Configs : \A r, s \in f.routes :
       r.tunnel = s.tunnel /\ r.id = s.id => r = s
  /\ MaxOps \in Nat /\ MaxFaults \in Nat

VARIABLES
  routes,    \* persisted.routes
  gates,     \* persisted.route_access, from keys to gates
  default,   \* persisted.default_route_access
  kept,      \* persisted.health_check
  settings,  \* health_check_settings
  disk,      \* the state file: the four persisted fields
  file,      \* the config file
  digest,    \* last_digest: the config that was applied last
  op,        \* where every handler and the poller are
  ops, faults,
  edited,    \* history: a request has changed the routes since a config was applied
  reloaded,  \* history: routes were replaced without their gates
  raced      \* history: two appliers overlapped, or one was cut off before its record

memory  == <<routes, gates, default, kept>>
history == <<edited, reloaded, raced>>
vars == <<memory, settings, disk, file, digest, op, ops, faults, history>>

Processes == Clients \cup {Monitor}

-----------------------------------------------------------------------------
(* Keys *)

KeyOf(route) == <<route.tunnel, route.id>>
KeysOf(rs) == {KeyOf(r) : r \in rs}
Unique(rs) == \A r, s \in rs : KeyOf(r) = KeyOf(s) => r = s

NoGate == [code |-> None, public |-> FALSE, ttl |-> FALSE]

\* The gate of a route: its scoped key's, else its legacy key's.
GateFor(gs, key) ==
  CASE key \in DOMAIN gs                  -> gs[key]
    [] <<Legacy, key[2]>> \in DOMAIN gs   -> gs[<<Legacy, key[2]>>]
    [] OTHER                              -> NoGate

\* The code a route asks for.
CodeFor(gs, d, key) ==
  LET gate == GateFor(gs, key)
  IN  IF gate.public THEN None ELSE IF gate.code # None THEN gate.code ELSE d.code

Without(gs, keys) == [k \in DOMAIN gs \ keys |-> gs[k]]

GatesAfterRemoval_ScopedOnly(gs, removed, remaining) == Without(gs, removed)
GatesAfterRemoval_LegacyToo(gs, removed, remaining) ==
  Without(gs, removed \cup {<<Legacy, k[2]>> : k \in removed})

\* What the gates are once the routes with these keys are gone.
GatesAfterRemoval(gs, removed, remaining) ==
  Without(gs, removed \cup
              {<<Legacy, i>> : i \in {k[2] : k \in removed} \ {k[2] : k \in KeysOf(remaining)}})

\* Legacy keys of routes that are alone with their id become scoped. A key that
\* two old ones map to gets either gate: they are collected in no order.
Target(key, rs) ==
  LET owners == {r \in rs : r.id = key[2]}
  IN  IF key[1] = Legacy /\ (\E r \in rs : owners = {r})
      THEN KeyOf(CHOOSE r \in owners : TRUE) ELSE key

Migrated(gs, rs) ==
  LET targets == {Target(k, rs) : k \in DOMAIN gs}
  IN  {m \in [targets -> {gs[k] : k \in DOMAIN gs}] :
         \A t \in targets : \E k \in DOMAIN gs : Target(k, rs) = t /\ m[t] = gs[k]}

-----------------------------------------------------------------------------
(* Handlers *)

Idle == [pc |-> "idle"]
At(p, pc) == op[p].pc = pc
Goto(p, state) == op' = [op EXCEPT ![p] = state]
Saving == [pc |-> "saving"]

Begin(c) == c \in Clients /\ At(c, "idle") /\ ops < MaxOps /\ ops' = ops + 1

\* A request that is refused changes nothing, so only the others are steps.
AddRoute(c, r) ==
  /\ Begin(c)
  /\ KeyOf(r) \notin KeysOf(routes)
  /\ routes' = routes \cup {r}
  /\ edited' = TRUE
  /\ Goto(c, Saving)
  /\ UNCHANGED <<gates, default, kept, settings, disk, file, digest, faults, reloaded, raced>>

Replaced_Appended(rs, r) == rs \cup {r}

Replaced(rs, r) == {s \in rs : KeyOf(s) # KeyOf(r)} \cup {r}

UpdateRoute(c, r, upsert) ==
  /\ Begin(c)
  /\ upsert \/ KeyOf(r) \in KeysOf(routes)
  /\ routes' = Replaced(routes, r)
  /\ edited' = TRUE
  /\ Goto(c, Saving)
  /\ UNCHANGED <<gates, default, kept, settings, disk, file, digest, faults, reloaded, raced>>

DeleteRoute(c, key) ==
  /\ Begin(c)
  /\ key \in KeysOf(routes)
  /\ routes' = {r \in routes : KeyOf(r) # key}
  /\ gates' = GatesAfterRemoval(gates, {key}, routes')
  /\ edited' = TRUE
  /\ Goto(c, Saving)
  /\ UNCHANGED <<default, kept, settings, disk, file, digest, faults, reloaded, raced>>

\* The table's part of delete_tunnel: the rest is in TunnelLifecycle.
DeleteTunnel(c, t) ==
  /\ Begin(c)
  /\ routes' = {r \in routes : r.tunnel # t}
  /\ gates' = GatesAfterRemoval(gates, KeysOf(routes \ routes'), routes')
  /\ edited' = TRUE
  /\ \/ Goto(c, Saving)
     \/ routes' = routes /\ Goto(c, Idle)
  /\ UNCHANGED <<default, kept, settings, disk, file, digest, faults, reloaded, raced>>

Applied(rs, incoming, replace) ==
  IF replace THEN incoming
  ELSE {s \in rs : KeyOf(s) \notin KeysOf(incoming)} \cup incoming

PayloadSafe(incoming, replace, allowEmpty) == replace /\ incoming = {} => allowEmpty

ApplyRoutes(c, incoming, replace, dry, allowEmpty) ==
  /\ Begin(c)
  /\ Unique(incoming) /\ PayloadSafe(incoming, replace, allowEmpty)
  /\ IF dry
     THEN Goto(c, Idle) /\ UNCHANGED <<routes, gates, edited>>
     ELSE /\ routes' = Applied(routes, incoming, replace)
          /\ gates' = IF replace
                      THEN GatesAfterRemoval(gates, KeysOf(routes) \ KeysOf(routes'), routes')
                      ELSE gates
          /\ edited' = TRUE
          /\ Goto(c, Saving)
  /\ UNCHANGED <<default, kept, settings, disk, file, digest, faults, reloaded, raced>>

\* The tunnel may be left out when only one has a route with this id.
Named(id, tunnel) == {r \in routes : r.id = id /\ tunnel \in {None, r.tunnel}}

Installed(gs, key, gate) ==
  IF gate = NoGate THEN Without(gs, {key})
  ELSE [k \in DOMAIN gs \cup {key} |->
          IF k # key THEN gs[k] ELSE [gate EXCEPT !.code = IF gate.public THEN None ELSE @]]

SetRouteAccess(c, id, tunnel, gate) ==
  /\ Begin(c)
  /\ Cardinality(Named(id, tunnel)) = 1
  /\ \E r \in Named(id, tunnel) : gates' = Installed(gates, KeyOf(r), gate)
  /\ Goto(c, Saving)
  /\ UNCHANGED <<routes, default, kept, settings, disk, file, digest, faults, history>>

SetDefaultAccess(c, gate) ==
  /\ Begin(c)
  /\ default' = [gate EXCEPT !.public = FALSE]
  /\ Goto(c, Saving)
  /\ UNCHANGED <<routes, gates, kept, settings, disk, file, digest, faults, history>>

-----------------------------------------------------------------------------
(* Health check settings: written under one lock, kept under another *)

UpdateSettings(c, s) ==
  /\ Begin(c)
  /\ settings' = s
  /\ Goto(c, [pc |-> "settled", health |-> s, from |-> "request"])
  /\ UNCHANGED <<memory, disk, file, digest, faults, history>>

KeepSettings(c) ==
  /\ At(c, "settled") /\ op[c].from = "request"
  /\ kept' = op[c].health
  /\ Goto(c, Saving)
  /\ UNCHANGED <<routes, gates, default, settings, disk, file, digest, ops, faults, history>>

-----------------------------------------------------------------------------
(* Reloading *)

\* from: the request itself, the config file, or the state file.
Loaded(from, content, rs, health) ==
  [pc |-> "loaded", from |-> from, content |-> content, rs |-> rs, health |-> health]

Appliers == {p \in Processes : op[p].pc \in {"loaded", "resolved", "settled", "installed"}
                                /\ op[p].from # "request"}

Meets(p) == raced' = (raced \/ Appliers \ {p} # {})

\* A request reloads the config file when there is one, else the state file.
Reload(c) ==
  /\ Begin(c)
  /\ file # Broken
  /\ Goto(c, IF file # None THEN Loaded("config", file, file.routes, file.health)
                            ELSE Loaded("state", None, disk.routes, disk.kept))
  /\ Meets(c)
  /\ UNCHANGED <<memory, settings, disk, file, digest, faults, edited, reloaded>>

\* The poller does when the file's digest is new; an error leaves all as it is.
Poll ==
  /\ At(Monitor, "idle")
  /\ file \notin {None, Broken, digest}
  /\ Goto(Monitor, Loaded("config", file, file.routes, file.health))
  /\ Meets(Monitor)
  /\ UNCHANGED <<memory, settings, disk, file, digest, ops, faults, edited, reloaded>>

Resolve_Unresolved(p) ==
  /\ At(p, "loaded")
  /\ Goto(p, [op[p] EXCEPT !.pc = "resolved"])
  /\ UNCHANGED <<memory, settings, disk, file, digest, ops, faults, history>>

\* What a source does not say stays as it is now.
Resolve(p) ==
  /\ At(p, "loaded")
  /\ Goto(p, [op[p] EXCEPT !.pc = "resolved", !.health = IF @ = None THEN settings ELSE @])
  /\ UNCHANGED <<memory, settings, disk, file, digest, ops, faults, history>>

Settle(p) ==
  /\ At(p, "resolved")
  /\ settings' = op[p].health
  /\ Goto(p, [op[p] EXCEPT !.pc = "settled"])
  /\ UNCHANGED <<memory, disk, file, digest, ops, faults, history>>

Install(p) ==
  /\ At(p, "settled") /\ op[p].from # "request"
  /\ routes' = op[p].rs
  /\ kept' = op[p].health
  /\ reloaded' = TRUE
  /\ IF op[p].from = "state"
     THEN edited' = TRUE /\ Goto(p, Idle)
     ELSE edited' = FALSE /\ Goto(p, [op[p] EXCEPT !.pc = "installed"])
  /\ UNCHANGED <<gates, default, settings, disk, file, digest, ops, faults, raced>>

Record_ReadAgain(p) ==
  /\ At(p, "installed")
  /\ digest' = IF file = Broken THEN op[p].content ELSE file
  /\ Goto(p, Saving)
  /\ UNCHANGED <<memory, settings, disk, file, ops, faults, history>>

\* The digest is recorded before the save, which may fail.
Record(p) ==
  /\ At(p, "installed")
  /\ digest' = op[p].content
  /\ Goto(p, Saving)
  /\ UNCHANGED <<memory, settings, disk, file, ops, faults, history>>

-----------------------------------------------------------------------------
(* The state file *)

Image == [routes |-> routes, gates |-> gates, default |-> default, kept |-> kept]

Fault == faults < MaxFaults /\ faults' = faults + 1

Save(p) ==
  /\ At(p, "saving")
  /\ Goto(p, Idle)
  /\ \/ disk' = Image /\ faults' = faults
     \/ disk' = disk /\ Fault
  /\ UNCHANGED <<memory, settings, file, digest, ops, history>>

\* The server drops the handler of a client that has gone, at any of its awaits:
\* between the two writes of the settings, after the routes, before the save.
Disconnect(c) ==
  /\ ~At(c, "idle") /\ Fault
  /\ Goto(c, Idle)
  /\ raced' = (raced \/ (At(c, "installed") /\ op[c].content # digest))
  /\ UNCHANGED <<memory, settings, disk, file, digest, ops, edited, reloaded>>

\* The daemon is killed and started again. It saves before it serves only when
\* it has cleared a leftover; a broken config file keeps it from starting.
Restart ==
  /\ Fault
  /\ file # Broken
  /\ \E gs \in Migrated(disk.gates, disk.routes) :
       /\ routes' = IF file = None THEN disk.routes ELSE file.routes
       /\ gates' = gs /\ default' = disk.default
  /\ settings' = CASE file # None /\ file.health # None -> file.health
                   [] disk.kept # None                  -> disk.kept
                   [] OTHER                             -> Startup
  /\ kept' = settings'
  /\ digest' = file
  /\ disk' \in {disk, [routes |-> routes', gates |-> gates', default |-> default', kept |-> kept']}
  /\ op' = [p \in Processes |-> Idle]
  /\ edited' = FALSE
  /\ reloaded' = (reloaded \/ file # None)
  /\ raced' = FALSE
  /\ UNCHANGED <<file, ops>>

EditFile(f) ==
  /\ ops < MaxOps /\ ops' = ops + 1
  /\ f # file
  /\ file' = f
  /\ UNCHANGED <<memory, settings, disk, digest, op, faults, history>>

-----------------------------------------------------------------------------
(* The daemon starts on a state file of any age, without a config file. *)
Init ==
  /\ disk \in [routes : {rs \in SUBSET Route : Unique(rs) /\ Cardinality(rs) <= 2},
               gates : UNION {[ks -> Gates \ {NoGate}] : ks \in SUBSET ({Legacy} \X Ids)},
               default : {NoGate}, kept : {None}]
  /\ \A k \in DOMAIN disk.gates : \E r \in disk.routes : r.id = k[2]
  /\ routes = disk.routes /\ default = disk.default
  /\ gates \in Migrated(disk.gates, disk.routes)
  /\ settings = Startup /\ kept = Startup
  /\ file = None /\ digest = None
  /\ op = [p \in Processes |-> Idle]
  /\ ops = 0 /\ faults = 0
  /\ edited = FALSE /\ reloaded = FALSE /\ raced = FALSE

Request(c) ==
  \/ \E r \in Route : AddRoute(c, r) \/ \E upsert \in BOOLEAN : UpdateRoute(c, r, upsert)
  \/ \E t \in Tunnels : DeleteTunnel(c, t) \/ \E i \in Ids : DeleteRoute(c, <<t, i>>)
  \/ \E i \in Ids, t \in Tunnels \cup {None}, g \in Gates : SetRouteAccess(c, i, t, g)
  \/ \E rs \in Payloads, replace, dry, allow \in BOOLEAN : ApplyRoutes(c, rs, replace, dry, allow)
  \/ \E g \in Gates : SetDefaultAccess(c, g)
  \/ \E s \in Settings : UpdateSettings(c, s)
  \/ Reload(c)

Apply(p) == Resolve(p) \/ Settle(p) \/ Install(p) \/ Record(p) \/ Save(p)

Next ==
  \/ \E c \in Clients : Request(c) \/ KeepSettings(c) \/ Disconnect(c)
  \/ \E p \in Processes : Apply(p)
  \/ Poll \/ Restart
  \/ \E f \in Configs \cup {None, Broken} : EditFile(f)

\* The poller ticks for ever and the runtime polls a handler that is ready.
Spec ==
  /\ Init /\ [][Next]_vars
  /\ WF_vars(Poll) /\ \A p \in Processes : WF_vars(Apply(p)) /\ WF_vars(KeepSettings(p))

-----------------------------------------------------------------------------
(* Properties *)

States == {"idle", "loaded", "resolved", "settled", "installed", "saving"}

GateMap(gs) == DOMAIN gs \subseteq (Tunnels \cup {Legacy}) \X Ids /\ \A k \in DOMAIN gs : gs[k] \in Gate

TypeOK ==
  /\ routes \subseteq Route /\ GateMap(gates) /\ default \in Gate
  /\ kept \in Settings /\ settings \in Settings
  /\ disk.routes \subseteq Route /\ GateMap(disk.gates) /\ disk.kept \in Settings \cup {None}
  /\ file \in Configs \cup {None, Broken} /\ digest \in Configs \cup {None}
  /\ \A p \in Processes : op[p].pc \in States
  /\ ops \in 0..MaxOps /\ faults \in 0..MaxFaults
  /\ edited \in BOOLEAN /\ reloaded \in BOOLEAN /\ raced \in BOOLEAN

\* No tunnel has two routes with one id, in memory or in the state file, whatever
\* mixes the table: requests, bulk applies, reloads and restarts. select_route,
\* replace_route and the gates all take an id for the route.
UniqueRoutes == Unique(routes) /\ Unique(disk.routes)

\* A gate belongs to a route, so that a new route with an old id does not come
\* with its code; unless routes were replaced by a reload, which has no regard
\* for their gates (apply_declarative_config).
GatesHaveRoutes ==
  \A k \in DOMAIN gates :
    \/ reloaded
    \/ \E r \in routes : r.id = k[2] /\ k[1] \in {Legacy, r.tunnel}

\* The code that a route asks for changes by a request to change it, never by
\* what happens to other routes; and a restart asks for the one that was saved,
\* unless the route had a gate of both kinds (migrate_route_access_keys).
CodesKept ==
  [][\A k \in KeysOf(routes) \cap KeysOf(routes') :
       \/ CodeFor(gates', default', k) = CodeFor(gates, default, k)
       \/ \E c \in Clients, g \in Gates :
            \/ SetDefaultAccess(c, g)
            \/ \E t \in {None, k[1]} : SetRouteAccess(c, k[2], t, g)
       \/ /\ Restart
          /\ \/ CodeFor(gates', default', k) = CodeFor(disk.gates, disk.default, k)
             \/ {k, <<Legacy, k[2]>>} \subseteq DOMAIN disk.gates
             \/ k \notin KeysOf(disk.routes)]_vars

\* Without failures every change of the health check settings is answered with
\* success, so that when nobody is at work the settings in force are the ones kept
\* and saved: "when memory and disk disagree, keep the last successful snapshot and
\* report an explicit error" (docs/plans/2026-09-25-core-hardening-design.md).
SettingsAgree ==
  faults = 0 /\ (\A p \in Processes : At(p, "idle")) =>
    kept = settings /\ disk.kept \in {None, kept}

\* A config file that stays as it is comes to be the route table, until a request
\* changes the routes: "the daemon polls it and hot-reloads" (docs/API.md). Two
\* appliers that overlap may leave the older file's routes for good, and so may one
\* that is dropped between the routes and the digest when the file is put back.
ConfigTakesEffect ==
  <>[](file \in Configs /\ ~edited /\ ~raced => routes = file.routes)
=============================================================================
