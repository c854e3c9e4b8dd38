--------------------------- MODULE RouteTableProofs ---------------------------
(***************************************************************************)
(* Proofs about the route table, for any clients, tunnels, routes, gates   *)
(* and config files, and any number of changes, failures and restarts.     *)
(***************************************************************************)
EXTENDS RouteTable, TLAPS

-----------------------------------------------------------------------------
(* Types *)

Loads   == [pc : {"loaded"}, from : {"config", "state"}, content : Configs \cup {None},
            rs : SUBSET Route, health : Settings \cup {None}]
Applies == [pc : {"resolved", "settled", "installed"}, from : {"config", "state"},
            content : Configs \cup {None}, rs : SUBSET Route, health : Settings]
Updates == [pc : {"settled"}, health : Settings, from : {"request"}]
OpTypes == [pc : {"idle", "saving"}] \cup Loads \cup Applies \cup Updates

Typed == TypeOK /\ op \in [Processes -> OpTypes] /\ disk.default \in Gate

LEMMA WithoutMap ==
  ASSUME NEW gs, GateMap(gs), NEW keys
  PROVE  GateMap(Without(gs, keys)) /\ DOMAIN Without(gs, keys) = DOMAIN gs \ keys
BY DEF GateMap, Without

LEMMA RemovalMap ==
  ASSUME NEW gs, GateMap(gs), NEW removed, NEW remaining
  PROVE  GateMap(GatesAfterRemoval(gs, removed, remaining))
BY WithoutMap DEF GatesAfterRemoval

LEMMA InstalledMap ==
  ASSUME NEW gs, GateMap(gs), NEW key \in Tunnels \X Ids, NEW gate \in Gates
  PROVE  GateMap(Installed(gs, key, gate))
<1>1. gate \in Gate
  BY ConstantsAssumption
<1>2. CASE gate = NoGate
  BY <1>2, WithoutMap DEF Installed
<1>3. CASE gate # NoGate
  <2> DEFINE new == [gate EXCEPT !.code = IF gate.public THEN None ELSE @]
             map == [k \in DOMAIN gs \cup {key} |-> IF k # key THEN gs[k] ELSE new]
  <2>1. new \in Gate
    BY <1>1 DEF Gate
  <2> HIDE DEF new
  <2>2. GateMap(map)
    BY <2>1 DEF GateMap
  <2>3. Installed(gs, key, gate) = map
    BY <1>3 DEF Installed, new
  <2>4. QED BY <2>2, <2>3
<1>4. QED BY <1>2, <1>3

\* A key keeps its place or moves to the route that has its id.
LEMMA TargetOf ==
  ASSUME NEW key, NEW rs
  PROVE  Target(key, rs) = key \/ \E r \in rs : r.id = key[2] /\ Target(key, rs) = KeyOf(r)
<1> DEFINE owners == {r \in rs : r.id = key[2]}
           owner  == CHOOSE r \in owners : TRUE
<1>1. CASE owners = {}
  BY <1>1 DEF Target
<1>2. CASE owners # {}
  <2>1. owner \in owners
    BY <1>2
  <2>2. QED BY <2>1 DEF Target
<1>3. QED BY <1>1, <1>2

LEMMA MigratedMap ==
  ASSUME NEW gs, GateMap(gs), NEW rs \in SUBSET Route, NEW m \in Migrated(gs, rs)
  PROVE  GateMap(m)
<1> DEFINE targets == {Target(k, rs) : k \in DOMAIN gs}
<1>1. /\ DOMAIN m = targets
      /\ \A t \in targets : \E k \in DOMAIN gs : m[t] = gs[k]
  BY DEF Migrated
<1>2. ASSUME NEW k \in DOMAIN gs PROVE Target(k, rs) \in (Tunnels \cup {Legacy}) \X Ids
  <2>1. k \in (Tunnels \cup {Legacy}) \X Ids
    BY <1>2 DEF GateMap
  <2>2. \A r \in rs : KeyOf(r) \in (Tunnels \cup {Legacy}) \X Ids
    BY DEF KeyOf, Route
  <2>3. QED BY <2>1, <2>2, TargetOf
<1>3. QED BY <1>1, <1>2 DEF GateMap

\* What a handler holds at each point.
LEMMA Shape ==
  ASSUME Typed, NEW p \in Processes
  PROVE  /\ At(p, "loaded") => op[p] \in Loads
         /\ op[p].pc \in {"resolved", "installed"} => op[p] \in Applies
         /\ At(p, "settled") => op[p] \in Applies \cup Updates
         /\ At(p, "settled") /\ op[p].from # "request" => op[p] \in Applies
<1>1. op[p] \in OpTypes
  BY DEF Typed
<1>2. QED BY <1>1 DEF At, OpTypes, Loads, Applies, Updates

LEMMA InitTyped == Init => Typed
<1> SUFFICES ASSUME Init PROVE Typed
  OBVIOUS
<1>1. Gates \ {NoGate} \subseteq Gate /\ NoGate \in Gate /\ Startup \in Settings
  BY ConstantsAssumption DEF NoGate, Gate
<1>2. GateMap(disk.gates) /\ disk.routes \in SUBSET Route
  BY <1>1 DEF Init, GateMap
<1>3. GateMap(gates)
  BY <1>2, MigratedMap DEF Init
<1>4. op \in [Processes -> OpTypes] /\ \A p \in Processes : op[p].pc \in States
  BY DEF Init, Idle, OpTypes, States
<1>5. disk.default = NoGate /\ default = disk.default /\ disk.kept = None
  BY DEF Init
<1>6. ops \in 0..MaxOps /\ faults \in 0..MaxFaults
  BY ConstantsAssumption DEF Init
<1>7. routes = disk.routes /\ kept = Startup /\ settings = Startup /\ file = None /\ digest = None
  BY DEF Init
<1>8. edited \in BOOLEAN /\ reloaded \in BOOLEAN /\ raced \in BOOLEAN
  BY DEF Init
<1>9. QED BY <1>1, <1>2, <1>3, <1>4, <1>5, <1>6, <1>7, <1>8 DEF Typed, TypeOK

\* A handler that goes on leaves every handler in a state of its own.
LEMMA GotoTyped ==
  ASSUME Typed, NEW p \in Processes, NEW state \in OpTypes, Goto(p, state)
  PROVE  op' \in [Processes -> OpTypes] /\ \A q \in Processes : op'[q].pc \in States
<1>1. op' \in [Processes -> OpTypes]
  BY DEF Typed, Goto
<1>2. \A o \in OpTypes : o.pc \in States
  BY DEF OpTypes, Loads, Applies, Updates, States
<1>3. QED BY <1>1, <1>2

LEMMA ReplacedRoutes ==
  ASSUME NEW rs \in SUBSET Route, NEW r \in Route
  PROVE  Replaced(rs, r) \in SUBSET Route
BY DEF Replaced

LEMMA AppliedRoutes ==
  ASSUME NEW rs \in SUBSET Route, NEW incoming \in SUBSET Route, NEW replace
  PROVE  Applied(rs, incoming, replace) \in SUBSET Route
BY DEF Applied

LEMMA RequestTyped ==
  ASSUME Typed, NEW c \in Clients, Request(c)
  PROVE  Typed'
<1> USE ConstantsAssumption DEF Typed, TypeOK
<1>1. c \in Processes /\ Saving \in OpTypes /\ Idle \in OpTypes
  BY DEF Processes, Saving, Idle, OpTypes
<1>2. ASSUME NEW r \in Route, AddRoute(c, r) PROVE Typed'
  BY <1>1, <1>2, GotoTyped DEF AddRoute, Begin
<1>3. ASSUME NEW r \in Route, NEW upsert \in BOOLEAN, UpdateRoute(c, r, upsert) PROVE Typed'
  BY <1>1, <1>3, GotoTyped, ReplacedRoutes DEF UpdateRoute, Begin
<1>4. ASSUME NEW t \in Tunnels, DeleteTunnel(c, t) PROVE Typed'
  <2>1. GateMap(gates')
    BY <1>4, RemovalMap DEF DeleteTunnel
  <2>2. routes' \subseteq Route /\ edited' = TRUE
    BY <1>4 DEF DeleteTunnel
  <2>3. op' \in [Processes -> OpTypes] /\ \A q \in Processes : op'[q].pc \in States
    BY <1>1, <1>4, GotoTyped DEF DeleteTunnel
  <2>4. QED BY <1>4, <2>1, <2>2, <2>3 DEF DeleteTunnel, Begin
<1>5. ASSUME NEW t \in Tunnels, NEW i \in Ids, DeleteRoute(c, <<t, i>>) PROVE Typed'
  <2>1. GateMap(gates')
    BY <1>5, RemovalMap DEF DeleteRoute
  <2>2. QED BY <1>1, <1>5, <2>1, GotoTyped DEF DeleteRoute, Begin
<1>6. ASSUME NEW i \in Ids, NEW t \in Tunnels \cup {None}, NEW g \in Gates, SetRouteAccess(c, i, t, g)
      PROVE Typed'
  <2>1. PICK r \in Named(i, t) : gates' = Installed(gates, KeyOf(r), g)
    BY <1>6 DEF SetRouteAccess
  <2>2. KeyOf(r) \in Tunnels \X Ids
    BY <2>1 DEF Named, KeyOf, Route
  <2>3. GateMap(gates')
    BY <2>1, <2>2, InstalledMap
  <2>4. QED BY <1>1, <1>6, <2>3, GotoTyped DEF SetRouteAccess, Begin, history
<1>7. ASSUME NEW rs \in Payloads, NEW replace \in BOOLEAN, NEW dry \in BOOLEAN, NEW allow \in BOOLEAN,
             ApplyRoutes(c, rs, replace, dry, allow)
      PROVE Typed'
  <2>1. rs \in SUBSET Route
    BY ConstantsAssumption
  <2>2. GateMap(gates') /\ routes' \subseteq Route /\ edited' \in BOOLEAN
    <3>1. CASE dry
      BY <1>7, <3>1 DEF ApplyRoutes
    <3>2. CASE ~dry
      <4>1. routes' = Applied(routes, rs, replace) /\ edited' = TRUE
        BY <1>7, <3>2 DEF ApplyRoutes
      <4>2. \/ gates' = GatesAfterRemoval(gates, KeysOf(routes) \ KeysOf(routes'), routes')
            \/ gates' = gates
        BY <1>7, <3>2 DEF ApplyRoutes
      <4>3. QED BY <2>1, <4>1, <4>2, RemovalMap, AppliedRoutes
    <3>3. QED BY <3>1, <3>2
  <2>3. op' \in [Processes -> OpTypes] /\ \A q \in Processes : op'[q].pc \in States
    BY <1>1, <1>7, GotoTyped DEF ApplyRoutes
  <2>4. QED BY <1>7, <2>2, <2>3 DEF ApplyRoutes, Begin
<1>8. ASSUME NEW g \in Gates, SetDefaultAccess(c, g) PROVE Typed'
  <2>1. g \in Gate
    BY ConstantsAssumption
  <2>2. default' \in Gate
    BY <1>8, <2>1 DEF SetDefaultAccess, Gate
  <2>3. QED BY <1>1, <1>8, <2>2, GotoTyped DEF SetDefaultAccess, Begin, history
<1>9. ASSUME NEW s \in Settings, UpdateSettings(c, s) PROVE Typed'
  <2>1. [pc |-> "settled", health |-> s, from |-> "request"] \in OpTypes
    BY DEF OpTypes, Updates
  <2>2. QED BY <1>1, <1>9, <2>1, GotoTyped DEF UpdateSettings, Begin, memory, history
<1>10. CASE Reload(c)
  <2> DEFINE state == IF file # None THEN Loaded("config", file, file.routes, file.health)
                      ELSE Loaded("state", None, disk.routes, disk.kept)
  <2>1. state \in OpTypes
    BY <1>10, ConstantsAssumption DEF Reload, Loaded, OpTypes, Loads
  <2>2. op' \in [Processes -> OpTypes] /\ \A q \in Processes : op'[q].pc \in States
    BY <1>1, <1>10, <2>1, GotoTyped DEF Reload
  <2>3. QED BY <1>10, <2>2 DEF Reload, Begin, Meets, memory
<1>11. QED BY <1>2, <1>3, <1>4, <1>5, <1>6, <1>7, <1>8, <1>9, <1>10 DEF Request

LEMMA ImageTyped ==
  ASSUME Typed, disk' = Image
  PROVE  /\ disk'.routes \subseteq Route /\ GateMap(disk'.gates)
         /\ disk'.kept \in Settings \cup {None} /\ disk'.default \in Gate
BY DEF Typed, TypeOK, Image

LEMMA ApplyTyped ==
  ASSUME Typed, NEW p \in Processes, Apply(p) \/ KeepSettings(p)
  PROVE  Typed'
<1> USE ConstantsAssumption DEF Typed, TypeOK
<1>1. Saving \in OpTypes /\ Idle \in OpTypes
  BY DEF Saving, Idle, OpTypes
<1>2. CASE Resolve(p)
  <2> DEFINE state == [op[p] EXCEPT !.pc = "resolved", !.health = IF @ = None THEN settings ELSE @]
  <2>1. op[p] \in Loads
    BY <1>2, Shape DEF Resolve
  <2>2. state \in OpTypes
    BY <2>1 DEF Loads, OpTypes, Applies
  <2>3. op' \in [Processes -> OpTypes] /\ \A q \in Processes : op'[q].pc \in States
    BY <1>2, <2>2, GotoTyped DEF Resolve
  <2>4. QED BY <1>2, <2>3 DEF Resolve, memory, history
<1>3. CASE Settle(p)
  <2> DEFINE state == [op[p] EXCEPT !.pc = "settled"]
  <2>1. op[p] \in Applies
    BY <1>3, Shape DEF Settle, At
  <2>2. state \in OpTypes /\ op[p].health \in Settings
    BY <2>1 DEF OpTypes, Applies
  <2>3. op' \in [Processes -> OpTypes] /\ \A q \in Processes : op'[q].pc \in States
    BY <1>3, <2>2, GotoTyped DEF Settle
  <2>4. QED BY <1>3, <2>2, <2>3 DEF Settle, memory, history
<1>4. CASE Install(p)
  <2> DEFINE state == [op[p] EXCEPT !.pc = "installed"]
  <2>1. op[p] \in Applies
    BY <1>4, Shape DEF Install
  <2>2. state \in OpTypes /\ op[p].health \in Settings /\ op[p].rs \subseteq Route
    BY <2>1 DEF OpTypes, Applies
  <2>3. op' \in [Processes -> OpTypes] /\ \A q \in Processes : op'[q].pc \in States
    BY <1>1, <1>4, <2>2, GotoTyped DEF Install
  <2>4. QED BY <1>4, <2>2, <2>3 DEF Install
<1>5. CASE Record(p)
  <2>1. op[p] \in Applies
    BY <1>5, Shape DEF Record, At
  <2>2. op[p].content \in Configs \cup {None}
    BY <2>1 DEF Applies
  <2>3. QED BY <1>1, <1>5, <2>2, GotoTyped DEF Record, memory, history
<1>6. CASE Save(p)
  <2>1. op' \in [Processes -> OpTypes] /\ \A q \in Processes : op'[q].pc \in States
    BY <1>1, <1>6, GotoTyped DEF Save
  <2>2. /\ disk'.routes \subseteq Route /\ GateMap(disk'.gates)
        /\ disk'.kept \in Settings \cup {None} /\ disk'.default \in Gate
    BY <1>6, ImageTyped DEF Save
  <2>3. faults' \in 0..MaxFaults
    BY <1>6 DEF Save, Fault
  <2>4. QED BY <1>6, <2>1, <2>2, <2>3 DEF Save, memory, history
<1>7. CASE KeepSettings(p)
  <2>1. op[p] \in Applies \cup Updates
    BY <1>7, Shape DEF KeepSettings
  <2>2. op[p].health \in Settings
    BY <2>1 DEF Applies, Updates
  <2>3. QED BY <1>1, <1>7, <2>2, GotoTyped DEF KeepSettings, history
<1>8. QED BY <1>2, <1>3, <1>4, <1>5, <1>6, <1>7 DEF Apply

LEMMA PollTyped == Typed /\ Poll => Typed'
<1> SUFFICES ASSUME Typed, Poll PROVE Typed'
  OBVIOUS
<1> DEFINE state == Loaded("config", file, file.routes, file.health)
<1>1. file \in Configs
  BY DEF Poll, Typed, TypeOK
<1>2. state \in OpTypes
  BY <1>1, ConstantsAssumption DEF Loaded, OpTypes, Loads
<1>3. op' \in [Processes -> OpTypes] /\ \A q \in Processes : op'[q].pc \in States
  BY <1>2, GotoTyped DEF Poll, Processes
<1>4. QED BY <1>3 DEF Poll, Meets, memory, Typed, TypeOK

LEMMA RestartTyped == Typed /\ Restart => Typed'
<1> SUFFICES ASSUME Typed, Restart PROVE Typed'
  OBVIOUS
<1>1. GateMap(gates') /\ default' \in Gate
  BY MigratedMap DEF Restart, Typed, TypeOK
<1>2. routes' \subseteq Route /\ digest' \in Configs \cup {None}
  BY ConstantsAssumption DEF Restart, Typed, TypeOK
<1>3. settings' \in Settings /\ kept' \in Settings
  BY ConstantsAssumption DEF Restart, Typed, TypeOK
<1>4. op' \in [Processes -> OpTypes] /\ \A p \in Processes : op'[p].pc \in States
  BY DEF Restart, Idle, OpTypes, States
<1>5. /\ disk'.routes \subseteq Route /\ GateMap(disk'.gates)
      /\ disk'.kept \in Settings \cup {None} /\ disk'.default \in Gate
  BY <1>1, <1>2, <1>3 DEF Restart, Typed, TypeOK
<1>6. faults' \in 0..MaxFaults
  BY ConstantsAssumption DEF Restart, Fault, Typed, TypeOK
<1>7. edited' = FALSE /\ (reloaded' = (reloaded \/ file # None)) /\ raced' = FALSE /\ file' = file /\ ops' = ops
  BY DEF Restart
<1>8. QED BY <1>1, <1>2, <1>3, <1>4, <1>5, <1>6, <1>7 DEF Typed, TypeOK

LEMMA NextTyped == Typed /\ [Next]_vars => Typed'
<1> SUFFICES ASSUME Typed, [Next]_vars PROVE Typed'
  OBVIOUS
<1>1. ASSUME NEW c \in Clients, Request(c) \/ KeepSettings(c) PROVE Typed'
  BY <1>1, RequestTyped, ApplyTyped DEF Processes
<1>2. ASSUME NEW p \in Processes, Apply(p) PROVE Typed'
  BY <1>2, ApplyTyped
<1>3. ASSUME NEW f \in Configs \cup {None, Broken}, EditFile(f) PROVE Typed'
  BY <1>3, ConstantsAssumption DEF EditFile, Typed, TypeOK, memory, history
<1>4. ASSUME NEW c \in Clients, Disconnect(c) PROVE Typed'
  <2>1. op' \in [Processes -> OpTypes] /\ \A q \in Processes : op'[q].pc \in States
    BY <1>4, GotoTyped DEF Disconnect, Processes, Idle, OpTypes
  <2>2. faults' \in 0..MaxFaults /\ raced' \in BOOLEAN
    BY <1>4, ConstantsAssumption DEF Disconnect, Fault, Typed, TypeOK
  <2>3. QED BY <1>4, <2>1, <2>2 DEF Disconnect, memory, Typed, TypeOK
<1>5. CASE UNCHANGED vars
  BY <1>5 DEF vars, memory, history, Typed, TypeOK
<1>6. QED BY <1>1, <1>2, <1>3, <1>4, <1>5, PollTyped, RestartTyped DEF Next

LEMMA AlwaysTyped == Spec => []Typed
BY InitTyped, NextTyped, PTL DEF Spec

\* Every variable keeps its type through requests, reloads, failed saves and restarts.
THEOREM TypeCorrect == Spec => []TypeOK
<1>1. Typed => TypeOK
  BY DEF Typed
<1>2. QED BY <1>1, AlwaysTyped, PTL

-----------------------------------------------------------------------------
(* One route per tunnel and id: also in what a handler is about to install. *)

Bringing(p) == op[p].pc = "loaded" \/ op[p].pc = "resolved" \/ (At(p, "settled") /\ op[p].from # "request")

OneEach ==
  /\ Unique(routes) /\ Unique(disk.routes)
  /\ \A p \in Processes : Bringing(p) => Unique(op[p].rs)

LEMMA ReplacedUnique ==
  ASSUME NEW rs, Unique(rs), NEW r
  PROVE  Unique(Replaced(rs, r))
BY DEF Unique, Replaced

LEMMA AppliedUnique ==
  ASSUME NEW rs, Unique(rs), NEW incoming, Unique(incoming), NEW replace
  PROVE  Unique(Applied(rs, incoming, replace))
BY DEF Unique, Applied, KeysOf

LEMMA FewerUnique ==
  ASSUME NEW rs, Unique(rs), NEW fewer, fewer \subseteq rs
  PROVE  Unique(fewer)
BY DEF Unique

LEMMA ConfigUnique == \A f \in Configs : Unique(f.routes)
BY ConstantsAssumption DEF Unique, KeyOf

\* A handler that is not about to install routes leaves the others as they are.
LEMMA OthersBring ==
  ASSUME Typed, OneEach, NEW p \in Processes, NEW state, Goto(p, state),
         state.pc \notin {"loaded", "resolved"}, state.pc = "settled" => state.from = "request"
  PROVE  \A q \in Processes : Bringing(q)' => Unique(op'[q].rs)
BY DEF Typed, OneEach, Goto, Bringing, At

\* Nor does one whose routes are unique.
LEMMA BringsUnique ==
  ASSUME Typed, OneEach, NEW p \in Processes, NEW state, Goto(p, state), Unique(state.rs)
  PROVE  \A q \in Processes : Bringing(q)' => Unique(op'[q].rs)
BY DEF Typed, OneEach, Goto, Bringing, At

LEMMA RequestOneEach ==
  ASSUME Typed, OneEach, NEW c \in Clients, Request(c)
  PROVE  OneEach'
<1> DEFINE Others == \A q \in Processes : Bringing(q)' => Unique(op'[q].rs)
<1>1. c \in Processes /\ Saving.pc = "saving" /\ Idle.pc = "idle"
  BY DEF Processes, Saving, Idle
<1>2. (Goto(c, Saving) \/ Goto(c, Idle)) => Others
  BY <1>1, OthersBring
<1> HIDE DEF Others
<1>3. ASSUME Unique(routes'), disk' = disk, Others PROVE OneEach'
  BY <1>3 DEF OneEach, Others
<1>4. ASSUME NEW r \in Route, AddRoute(c, r) PROVE OneEach'
  <2>1. Unique(routes')
    BY <1>4 DEF AddRoute, OneEach, Unique, KeysOf
  <2>2. QED BY <1>2, <1>3, <1>4, <2>1 DEF AddRoute
<1>5. ASSUME NEW r \in Route, NEW upsert \in BOOLEAN, UpdateRoute(c, r, upsert) PROVE OneEach'
  BY <1>2, <1>3, <1>5, ReplacedUnique DEF UpdateRoute, OneEach
<1>6. ASSUME NEW t \in Tunnels, DeleteTunnel(c, t) PROVE OneEach'
  <2>1. Unique(routes')
    BY <1>6, FewerUnique DEF DeleteTunnel, OneEach
  <2>2. QED BY <1>2, <1>3, <1>6, <2>1 DEF DeleteTunnel
<1>7. ASSUME NEW t \in Tunnels, NEW i \in Ids, DeleteRoute(c, <<t, i>>) PROVE OneEach'
  <2>1. Unique(routes')
    BY <1>7, FewerUnique DEF DeleteRoute, OneEach
  <2>2. QED BY <1>2, <1>3, <1>7, <2>1 DEF DeleteRoute
<1>8. ASSUME NEW i \in Ids, NEW t \in Tunnels \cup {None}, NEW g \in Gates, SetRouteAccess(c, i, t, g)
      PROVE OneEach'
  BY <1>2, <1>3, <1>8 DEF SetRouteAccess, OneEach
<1>9. ASSUME NEW rs \in Payloads, NEW replace \in BOOLEAN, NEW dry \in BOOLEAN, NEW allow \in BOOLEAN,
             ApplyRoutes(c, rs, replace, dry, allow)
      PROVE OneEach'
  <2>1. routes' = routes \/ routes' = Applied(routes, rs, replace)
    BY <1>9 DEF ApplyRoutes
  <2>2. Unique(routes')
    BY <1>9, <2>1, AppliedUnique DEF ApplyRoutes, OneEach
  <2>3. Goto(c, Saving) \/ Goto(c, Idle)
    BY <1>9 DEF ApplyRoutes
  <2>4. QED BY <1>2, <1>3, <1>9, <2>2, <2>3 DEF ApplyRoutes
<1>10. ASSUME NEW g \in Gates, SetDefaultAccess(c, g) PROVE OneEach'
  BY <1>2, <1>3, <1>10 DEF SetDefaultAccess, OneEach
<1>11. ASSUME NEW s \in Settings, UpdateSettings(c, s) PROVE OneEach'
  <2>1. Others
    BY <1>1, <1>11, OthersBring DEF UpdateSettings, Others
  <2>2. QED BY <1>3, <1>11, <2>1 DEF UpdateSettings, OneEach, memory
<1>12. CASE Reload(c)
  <2>1. Unique(file.routes) \/ file \notin Configs
    BY ConfigUnique
  <2>2. \E state : Goto(c, state) /\ Unique(state.rs)
    <3>1. CASE file # None
      BY <1>12, <2>1, <3>1 DEF Reload, Loaded, Typed, TypeOK
    <3>2. CASE file = None
      BY <1>12, <3>2 DEF Reload, Loaded, OneEach
    <3>3. QED BY <3>1, <3>2
  <2>3. Others
    BY <1>1, <2>2, BringsUnique DEF Others
  <2>4. QED BY <1>3, <1>12, <2>3 DEF Reload, OneEach, memory
<1>13. QED BY <1>4, <1>5, <1>6, <1>7, <1>8, <1>9, <1>10, <1>11, <1>12 DEF Request

LEMMA ApplyOneEach ==
  ASSUME Typed, OneEach, NEW p \in Processes, Apply(p) \/ KeepSettings(p)
  PROVE  OneEach'
<1> DEFINE Others == \A q \in Processes : Bringing(q)' => Unique(op'[q].rs)
<1>1. Saving.pc = "saving" /\ Idle.pc = "idle"
  BY DEF Saving, Idle
<1>2. (Goto(p, Saving) \/ Goto(p, Idle)) => Others
  BY <1>1, OthersBring
<1> HIDE DEF Others
<1>3. ASSUME Unique(routes'), Unique(disk'.routes), Others PROVE OneEach'
  BY <1>3 DEF OneEach, Others
<1>4. CASE Resolve(p)
  <2> DEFINE state == [op[p] EXCEPT !.pc = "resolved", !.health = IF @ = None THEN settings ELSE @]
  <2>1. op[p] \in Loads /\ Unique(op[p].rs)
    BY <1>4, Shape DEF Resolve, OneEach, Bringing, At
  <2>2. Unique(state.rs) /\ Goto(p, state)
    BY <1>4, <2>1 DEF Loads, Resolve
  <2>3. Others
    BY <2>2, BringsUnique DEF Others
  <2>4. QED BY <1>3, <1>4, <2>3 DEF Resolve, OneEach, memory
<1>5. CASE Settle(p)
  <2> DEFINE state == [op[p] EXCEPT !.pc = "settled"]
  <2>1. op[p] \in Applies /\ Unique(op[p].rs)
    BY <1>5, Shape DEF Settle, OneEach, Bringing, At
  <2>2. Unique(state.rs) /\ Goto(p, state)
    BY <1>5, <2>1 DEF Applies, Settle
  <2>3. Others
    BY <2>2, BringsUnique DEF Others
  <2>4. QED BY <1>3, <1>5, <2>3 DEF Settle, OneEach, memory
<1>6. CASE Install(p)
  <2> DEFINE state == [op[p] EXCEPT !.pc = "installed"]
  <2>1. op[p] \in Applies /\ Unique(op[p].rs)
    BY <1>6, Shape DEF Install, OneEach, Bringing, At
  <2>2. state.pc = "installed"
    BY <2>1 DEF Applies
  <2>3. Goto(p, state) \/ Goto(p, Idle)
    BY <1>6 DEF Install
  <2>4. Others
    BY <1>2, <2>2, <2>3, OthersBring DEF Others
  <2>5. QED BY <1>3, <1>6, <2>1, <2>4 DEF Install, OneEach
<1>7. CASE Record(p)
  BY <1>2, <1>3, <1>7 DEF Record, OneEach, memory
<1>8. CASE Save(p)
  BY <1>2, <1>3, <1>8 DEF Save, Image, OneEach, memory
<1>9. CASE KeepSettings(p)
  BY <1>2, <1>3, <1>9 DEF KeepSettings, OneEach
<1>10. QED BY <1>4, <1>5, <1>6, <1>7, <1>8, <1>9 DEF Apply

LEMMA StepOneEach == Typed /\ OneEach /\ [Next]_vars => OneEach'
<1> SUFFICES ASSUME Typed, OneEach, [Next]_vars PROVE OneEach'
  OBVIOUS
<1>1. ASSUME NEW c \in Clients, Request(c) \/ KeepSettings(c) PROVE OneEach'
  BY <1>1, RequestOneEach, ApplyOneEach DEF Processes
<1>2. ASSUME NEW p \in Processes, Apply(p) PROVE OneEach'
  BY <1>2, ApplyOneEach
<1>3. CASE Poll
  <2> DEFINE state == Loaded("config", file, file.routes, file.health)
  <2>1. file \in Configs
    BY <1>3 DEF Poll, Typed, TypeOK
  <2>2. Unique(state.rs) /\ Goto(Monitor, state)
    BY <1>3, <2>1, ConfigUnique DEF Poll, Loaded
  <2>3. \A q \in Processes : Bringing(q)' => Unique(op'[q].rs)
    BY <2>2, BringsUnique DEF Processes
  <2>4. QED BY <1>3, <2>3 DEF Poll, OneEach, memory
<1>4. CASE Restart
  <2>1. Unique(routes')
    BY <1>4, ConfigUnique DEF Restart, OneEach, Typed, TypeOK
  <2>2. Unique(disk'.routes)
    BY <1>4, <2>1 DEF Restart, OneEach
  <2>3. \A p \in Processes : op'[p].pc = "idle"
    BY <1>4 DEF Restart, Idle
  <2>4. QED BY <2>1, <2>2, <2>3 DEF OneEach, Bringing, At
<1>5. ASSUME NEW f \in Configs \cup {None, Broken}, EditFile(f) PROVE OneEach'
  BY <1>5 DEF EditFile, OneEach, Bringing, At, memory
<1>6. ASSUME NEW c \in Clients, Disconnect(c) PROVE OneEach'
  <2>1. \A q \in Processes : Bringing(q)' => Unique(op'[q].rs)
    BY <1>6, OthersBring DEF Disconnect, Processes, Idle
  <2>2. QED BY <1>6, <2>1 DEF Disconnect, OneEach, memory
<1>7. CASE UNCHANGED vars
  BY <1>7 DEF vars, memory, OneEach, Bringing, At
<1>8. QED BY <1>1, <1>2, <1>3, <1>4, <1>5, <1>6, <1>7 DEF Next

LEMMA InitOneEach == Init => OneEach
<1> SUFFICES ASSUME Init PROVE OneEach
  OBVIOUS
<1>1. Unique(disk.routes) /\ routes = disk.routes
  BY DEF Init
<1>2. \A p \in Processes : op[p].pc = "idle"
  BY DEF Init, Idle
<1>3. QED BY <1>1, <1>2 DEF OneEach, Bringing, At

\* No tunnel has two routes with one id, however requests, bulk applies, config
\* files, saves that fail and restarts are mixed.
THEOREM RoutesUnique == Spec => []UniqueRoutes
<1>1. OneEach => UniqueRoutes
  BY DEF OneEach, UniqueRoutes
<1>2. QED BY <1>1, InitOneEach, StepOneEach, AlwaysTyped, PTL DEF Spec

-----------------------------------------------------------------------------
(* Gates: every key has a route it stands for, in memory and in the state   *)
(* file, as long as no routes were replaced without their gates.            *)

Owned(gs, rs) == \A k \in DOMAIN gs : \E r \in rs : r.id = k[2] /\ k[1] \in {Legacy, r.tunnel}

AllOwned == reloaded \/ (Owned(gates, routes) /\ Owned(disk.gates, disk.routes))

\* Routes of the same keys own the same gates.
LEMMA KeptOwned ==
  ASSUME NEW gs, NEW rs, NEW more, Owned(gs, rs), KeysOf(rs) \subseteq KeysOf(more)
  PROVE  Owned(gs, more)
<1> SUFFICES ASSUME NEW k \in DOMAIN gs PROVE \E r \in more : r.id = k[2] /\ k[1] \in {Legacy, r.tunnel}
  BY DEF Owned
<1>1. PICK r \in rs : r.id = k[2] /\ k[1] \in {Legacy, r.tunnel}
  BY DEF Owned
<1>2. KeyOf(r) \in KeysOf(more)
  BY DEF KeysOf
<1>3. PICK s \in more : KeyOf(s) = KeyOf(r)
  BY <1>2 DEF KeysOf
<1>4. QED BY <1>1, <1>3 DEF KeyOf

\* Gates that lose the keys of the routes that go are owned by those that stay.
LEMMA RemovalOwned ==
  ASSUME NEW gs, GateMap(gs), NEW rs, NEW rest, Owned(gs, rs),
         NEW removed, KeysOf(rs) \ KeysOf(rest) \subseteq removed
  PROVE  Owned(GatesAfterRemoval(gs, removed, rest), rest)
<1> DEFINE gone  == {<<Legacy, i>> : i \in {k[2] : k \in removed} \ {k[2] : k \in KeysOf(rest)}}
           after == GatesAfterRemoval(gs, removed, rest)
<1>1. DOMAIN after = DOMAIN gs \ (removed \cup gone)
  BY DEF GatesAfterRemoval, Without
<1> HIDE DEF after
<1>2. SUFFICES ASSUME NEW k \in DOMAIN after
               PROVE  \E s \in rest : s.id = k[2] /\ k[1] \in {Legacy, s.tunnel}
  BY DEF Owned, after
<1>3. k \in DOMAIN gs /\ k \notin removed /\ k \notin gone /\ k = <<k[1], k[2]>>
  BY <1>1 DEF GateMap
<1>4. PICK r \in rs : r.id = k[2] /\ k[1] \in {Legacy, r.tunnel}
  BY <1>3 DEF Owned
<1>5. CASE KeyOf(r) \in KeysOf(rest)
  <2>1. PICK s \in rest : KeyOf(s) = KeyOf(r)
    BY <1>5 DEF KeysOf
  <2>2. QED BY <1>4, <2>1 DEF KeyOf
<1>6. CASE KeyOf(r) \notin KeysOf(rest)
  <2>1. KeyOf(r) \in removed
    BY <1>6 DEF KeysOf
  <2>2. k[1] = Legacy
    BY <1>3, <1>4, <2>1 DEF KeyOf
  <2>3. k[2] \in {key[2] : key \in removed}
    BY <1>4, <2>1 DEF KeyOf
  <2>4. k[2] \in {key[2] : key \in KeysOf(rest)}
    BY <1>3, <2>2, <2>3
  <2>5. PICK s \in rest : KeyOf(s)[2] = k[2]
    BY <2>4 DEF KeysOf
  <2>6. QED BY <2>2, <2>5 DEF KeyOf
<1>7. QED BY <1>5, <1>6

\* Migration scopes a key to the route it stands for.
LEMMA MigratedOwned ==
  ASSUME NEW gs, NEW rs, Owned(gs, rs), NEW m \in Migrated(gs, rs)
  PROVE  Owned(m, rs)
<1>1. DOMAIN m = {Target(k, rs) : k \in DOMAIN gs}
  BY DEF Migrated
<1>2. ASSUME NEW k \in DOMAIN gs
      PROVE  \E r \in rs : r.id = Target(k, rs)[2] /\ Target(k, rs)[1] \in {Legacy, r.tunnel}
  <2>1. CASE Target(k, rs) = k
    BY <2>1 DEF Owned
  <2>2. CASE Target(k, rs) # k
    <3>1. PICK r \in rs : Target(k, rs) = KeyOf(r)
      BY <2>2, TargetOf
    <3>2. QED BY <3>1 DEF KeyOf
  <2>3. QED BY <2>1, <2>2
<1>3. QED BY <1>1, <1>2 DEF Owned

LEMMA RequestOwned ==
  ASSUME Typed, AllOwned, NEW c \in Clients, Request(c)
  PROVE  AllOwned'
<1>1. GateMap(gates)
  BY DEF Typed, TypeOK
<1>2. reloaded' = reloaded /\ disk' = disk
  BY DEF Request, AddRoute, UpdateRoute, DeleteTunnel, DeleteRoute, SetRouteAccess, ApplyRoutes,
         SetDefaultAccess, UpdateSettings, Reload, history
<1>3. SUFFICES ASSUME ~reloaded PROVE Owned(gates', routes')
  BY <1>2 DEF AllOwned
<1>4. Owned(gates, routes)
  BY <1>3 DEF AllOwned
<1>5. ASSUME NEW r \in Route, AddRoute(c, r) PROVE Owned(gates', routes')
  <2>1. KeysOf(routes) \subseteq KeysOf(routes')
    BY <1>5 DEF AddRoute, KeysOf
  <2>2. QED BY <1>4, <1>5, <2>1, KeptOwned DEF AddRoute
<1>6. ASSUME NEW r \in Route, NEW upsert \in BOOLEAN, UpdateRoute(c, r, upsert)
      PROVE  Owned(gates', routes')
  <2>1. KeysOf(routes) \subseteq KeysOf(routes')
    BY <1>6 DEF UpdateRoute, KeysOf, Replaced
  <2>2. QED BY <1>4, <1>6, <2>1, KeptOwned DEF UpdateRoute
<1>7. ASSUME NEW t \in Tunnels, DeleteTunnel(c, t) PROVE Owned(gates', routes')
  <2>1. KeysOf(routes) \ KeysOf(routes') \subseteq KeysOf(routes \ routes')
    BY DEF KeysOf
  <2>2. QED BY <1>1, <1>4, <1>7, <2>1, RemovalOwned DEF DeleteTunnel
<1>8. ASSUME NEW t \in Tunnels, NEW i \in Ids, DeleteRoute(c, <<t, i>>) PROVE Owned(gates', routes')
  <2>1. KeysOf(routes) \ KeysOf(routes') \subseteq {<<t, i>>}
    BY <1>8 DEF DeleteRoute, KeysOf
  <2>2. QED BY <1>1, <1>4, <1>8, <2>1, RemovalOwned DEF DeleteRoute
<1>9. ASSUME NEW i \in Ids, NEW t \in Tunnels \cup {None}, NEW g \in Gates, SetRouteAccess(c, i, t, g)
      PROVE  Owned(gates', routes')
  <2>1. PICK r \in Named(i, t) : gates' = Installed(gates, KeyOf(r), g)
    BY <1>9 DEF SetRouteAccess
  <2>2. r \in routes /\ routes' = routes
    BY <1>9, <2>1 DEF Named, SetRouteAccess
  <2>3. DOMAIN gates' \subseteq DOMAIN gates \cup {KeyOf(r)}
    BY <2>1 DEF Installed, Without
  <2>4. QED BY <1>4, <2>2, <2>3 DEF Owned, KeyOf
<1>10. ASSUME NEW rs \in Payloads, NEW replace \in BOOLEAN, NEW dry \in BOOLEAN, NEW allow \in BOOLEAN,
              ApplyRoutes(c, rs, replace, dry, allow)
       PROVE  Owned(gates', routes')
  <2>1. CASE dry
    BY <1>4, <1>10, <2>1 DEF ApplyRoutes
  <2>2. CASE ~dry /\ replace
    <3>1. gates' = GatesAfterRemoval(gates, KeysOf(routes) \ KeysOf(routes'), routes')
      BY <1>10, <2>2 DEF ApplyRoutes
    <3>2. QED BY <1>1, <1>4, <3>1, RemovalOwned
  <2>3. CASE ~dry /\ ~replace
    <3>1. gates' = gates /\ routes' = Applied(routes, rs, replace)
      BY <1>10, <2>3 DEF ApplyRoutes
    <3>2. KeysOf(routes) \subseteq KeysOf(routes')
      BY <2>3, <3>1 DEF Applied, KeysOf
    <3>3. QED BY <1>4, <3>1, <3>2, KeptOwned
  <2>4. QED BY <2>1, <2>2, <2>3
<1>11. ASSUME NEW g \in Gates, SetDefaultAccess(c, g) PROVE Owned(gates', routes')
  BY <1>4, <1>11 DEF SetDefaultAccess
<1>12. ASSUME NEW s \in Settings, UpdateSettings(c, s) PROVE Owned(gates', routes')
  BY <1>4, <1>12 DEF UpdateSettings, memory
<1>13. CASE Reload(c)
  BY <1>4, <1>13 DEF Reload, memory
<1>14. QED BY <1>5, <1>6, <1>7, <1>8, <1>9, <1>10, <1>11, <1>12, <1>13 DEF Request

LEMMA StepOwned == Typed /\ AllOwned /\ [Next]_vars => AllOwned'
<1> SUFFICES ASSUME Typed, AllOwned, [Next]_vars PROVE AllOwned'
  OBVIOUS
<1>1. ASSUME NEW c \in Clients, Request(c) PROVE AllOwned'
  BY <1>1, RequestOwned
<1>2. ASSUME NEW p \in Processes, Resolve(p) \/ Settle(p) \/ Record(p) \/ KeepSettings(p)
      PROVE  AllOwned'
  BY <1>2 DEF Resolve, Settle, Record, KeepSettings, AllOwned, memory, history
<1>3. ASSUME NEW p \in Processes, Install(p) PROVE AllOwned'
  BY <1>3 DEF Install, AllOwned
<1>4. ASSUME NEW p \in Processes, Save(p) PROVE AllOwned'
  BY <1>4 DEF Save, Image, AllOwned, memory, history
<1>5. CASE Poll
  BY <1>5 DEF Poll, AllOwned, memory
<1>6. CASE Restart
  <2>1. CASE reloaded \/ file # None
    BY <1>6, <2>1 DEF Restart, AllOwned
  <2>2. CASE ~reloaded /\ file = None
    <3>1. gates' \in Migrated(disk.gates, disk.routes) /\ routes' = disk.routes
      BY <1>6, <2>2 DEF Restart
    <3>2. Owned(disk.gates, disk.routes)
      BY <2>2 DEF AllOwned
    <3>3. Owned(gates', routes')
      BY <3>1, <3>2, MigratedOwned
    <3>4. Owned(disk'.gates, disk'.routes)
      BY <1>6, <3>2, <3>3 DEF Restart
    <3>5. QED BY <3>3, <3>4 DEF AllOwned
  <2>3. QED BY <2>1, <2>2
<1>7. ASSUME NEW f \in Configs \cup {None, Broken}, EditFile(f) PROVE AllOwned'
  BY <1>7 DEF EditFile, AllOwned, memory, history
<1>8. CASE UNCHANGED vars
  BY <1>8 DEF vars, AllOwned, memory, history
<1>9. ASSUME NEW c \in Clients, KeepSettings(c) \/ Disconnect(c) PROVE AllOwned'
  BY <1>2, <1>9 DEF Processes, Disconnect, AllOwned, memory
<1>10. QED BY <1>1, <1>2, <1>3, <1>4, <1>5, <1>6, <1>7, <1>8, <1>9 DEF Next, Apply

LEMMA InitOwned == Init => AllOwned
<1> SUFFICES ASSUME Init PROVE AllOwned
  OBVIOUS
<1>1. gates \in Migrated(disk.gates, disk.routes) /\ routes = disk.routes
  BY DEF Init
<1>2. DOMAIN disk.gates \subseteq {Legacy} \X Ids
  BY DEF Init
<1>3. \A k \in DOMAIN disk.gates : \E r \in disk.routes : r.id = k[2]
  BY DEF Init
<1>4. Owned(disk.gates, disk.routes)
  BY <1>2, <1>3 DEF Owned
<1>5. QED BY <1>1, <1>4, MigratedOwned DEF AllOwned

\* A gate has a route, whatever adds, replaces and removes routes, migrates old
\* keys, fails to save or restarts, unless a reload has replaced the routes.
THEOREM GatesOwned == Spec => []GatesHaveRoutes
<1>1. AllOwned => GatesHaveRoutes
  BY DEF AllOwned, Owned, GatesHaveRoutes
<1>2. QED BY <1>1, InitOwned, StepOwned, AlwaysTyped, PTL DEF Spec

-----------------------------------------------------------------------------
(* Codes: no step but a request for it, or a restart, changes what a route  *)
(* that stays asks for.                                                     *)

Kept(k) == CodeFor(gates', default', k) = CodeFor(gates, default, k)

LegacyOf(k) == <<Legacy, k[2]>>

\* A code is that of the two keys of the route.
LEMMA SameGate ==
  ASSUME NEW k, NEW gs, NEW after, NEW d,
         k \in DOMAIN after <=> k \in DOMAIN gs,
         LegacyOf(k) \in DOMAIN after <=> LegacyOf(k) \in DOMAIN gs,
         k \in DOMAIN gs => after[k] = gs[k],
         LegacyOf(k) \in DOMAIN gs => after[LegacyOf(k)] = gs[LegacyOf(k)]
  PROVE  CodeFor(after, d, k) = CodeFor(gs, d, k)
<1>1. GateFor(after, k) = GateFor(gs, k)
  BY DEF GateFor, LegacyOf
<1>2. QED BY <1>1 DEF CodeFor

\* The keys of routes that stay outlive those of routes that go.
LEMMA RemovalKeeps ==
  ASSUME NEW rest, NEW k \in KeysOf(rest), NEW removed, k \notin removed,
         \A key \in removed : key[1] # Legacy, NEW gs, NEW d
  PROVE  CodeFor(GatesAfterRemoval(gs, removed, rest), d, k) = CodeFor(gs, d, k)
<1> DEFINE gone  == {<<Legacy, i>> : i \in {key[2] : key \in removed} \ {key[2] : key \in KeysOf(rest)}}
           after == GatesAfterRemoval(gs, removed, rest)
<1>1. /\ DOMAIN after = DOMAIN gs \ (removed \cup gone)
      /\ \A key \in DOMAIN after : after[key] = gs[key]
  BY DEF GatesAfterRemoval, Without
<1>2. LegacyOf(k) \notin removed
  BY DEF LegacyOf
<1>3. LegacyOf(k) \notin gone
  BY DEF LegacyOf
<1>4. k \notin gone
  <2>1. SUFFICES ASSUME NEW i \in {key[2] : key \in removed} \ {key[2] : key \in KeysOf(rest)},
                        k = <<Legacy, i>>
                 PROVE  FALSE
    OBVIOUS
  <2>2. k[2] = i
    BY <2>1
  <2>3. QED BY <2>1, <2>2
<1> HIDE DEF gone, after
<1>5. QED BY <1>1, <1>2, <1>3, <1>4, SameGate DEF after

\* Where a key goes in a migration: a scoped key stays, and an old one goes to the
\* only route that has its id.
LEMMA TargetIs ==
  ASSUME NEW rs \in SUBSET Route, NEW key
  PROVE  /\ key[1] # Legacy => Target(key, rs) = key
         /\ \A r \in rs : key[1] = Legacy /\ {s \in rs : s.id = key[2]} = {r} => Target(key, rs) = KeyOf(r)
         /\ (~\E r \in rs : {s \in rs : s.id = key[2]} = {r}) => Target(key, rs) = key
         /\ Target(key, rs)[1] = Legacy => Target(key, rs) = key
<1>1. \A r \in rs : KeyOf(r)[1] # Legacy
  BY ConstantsAssumption DEF KeyOf, Route
<1>2. Target(key, rs)[1] = Legacy => Target(key, rs) = key
  BY <1>1, TargetOf
<1>3. ASSUME NEW r \in rs, key[1] = Legacy, {s \in rs : s.id = key[2]} = {r}
      PROVE  Target(key, rs) = KeyOf(r)
  <2>1. (CHOOSE s \in {r} : TRUE) = r
    OBVIOUS
  <2>2. QED BY <1>3, <2>1 DEF Target
<1>4. QED BY <1>2, <1>3 DEF Target

\* A migration keeps what every route asks for that has not a gate of both kinds.
LEMMA MigrationKeeps ==
  ASSUME NEW gs, GateMap(gs), NEW rs \in SUBSET Route, NEW m \in Migrated(gs, rs), NEW d,
         NEW k \in KeysOf(rs), ~ {k, LegacyOf(k)} \subseteq DOMAIN gs
  PROVE  CodeFor(m, d, k) = CodeFor(gs, d, k)
<1> DEFINE old == LegacyOf(k)
           owners == {s \in rs : s.id = k[2]}
<1>1. PICK r \in rs : k = KeyOf(r)
  BY DEF KeysOf
<1>2. k = <<r.tunnel, r.id>> /\ k[1] # Legacy /\ r \in owners /\ old[1] = Legacy /\ old[2] = k[2]
  BY <1>1, ConstantsAssumption DEF KeyOf, Route, LegacyOf
<1>3. /\ DOMAIN m = {Target(key, rs) : key \in DOMAIN gs}
      /\ \A t \in DOMAIN m : \E key \in DOMAIN gs : Target(key, rs) = t /\ m[t] = gs[key]
  BY DEF Migrated
<1>4. Target(k, rs) = k
  BY <1>2, TargetIs
<1>5. ASSUME NEW key \in DOMAIN gs, Target(key, rs) = k
      PROVE  key = k \/ (key = old /\ \A s \in rs : owners = {s} => s = r)
  <2>1. CASE key[1] # Legacy
    BY <1>5, <2>1, TargetIs
  <2>2. CASE key[1] = Legacy
    <3>1. PICK s \in rs : s.id = key[2] /\ KeyOf(s) = k
      BY <1>2, <1>5, <2>2, TargetOf
    <3>2. key = <<key[1], key[2]>> /\ key[2] = k[2]
      BY <1>2, <3>1 DEF GateMap, KeyOf
    <3>3. QED BY <1>2, <2>2, <3>2 DEF LegacyOf
  <2>3. QED BY <2>1, <2>2
<1>6. ASSUME NEW key \in DOMAIN gs, Target(key, rs) = old PROVE key = old
  BY <1>2, <1>6, TargetIs
<1>7. CASE \E s \in rs : owners = {s}
  <2>1. Target(old, rs) = k
    <3>1. PICK s \in rs : owners = {s}
      BY <1>7
    <3>2. s = r
      BY <1>2, <3>1
    <3>3. {x \in rs : x.id = old[2]} = {r}
      BY <1>2, <3>1, <3>2
    <3>4. old[1] = Legacy /\ {x \in rs : x.id = old[2]} = {r} => Target(old, rs) = KeyOf(r)
      BY TargetIs
    <3>5. QED BY <1>1, <1>2, <3>3, <3>4
  <2>2. old \notin DOMAIN m
    BY <1>2, <1>3, <1>6, <2>1
  <2>3. k \in DOMAIN m <=> k \in DOMAIN gs \/ old \in DOMAIN gs
    BY <1>3, <1>4, <1>5, <2>1
  <2>4. k \in DOMAIN gs => m[k] = gs[k]
    BY <1>3, <1>5, <2>3
  <2>5. old \in DOMAIN gs => m[k] = gs[old]
    BY <1>3, <1>5, <2>3
  <2>6. GateFor(m, k) = GateFor(gs, k)
    BY <2>2, <2>3, <2>4, <2>5 DEF GateFor, LegacyOf
  <2>7. QED BY <2>6 DEF CodeFor
<1>8. CASE ~\E s \in rs : owners = {s}
  <2>1. Target(old, rs) = old
    BY <1>2, <1>8, TargetIs
  <2>2. \A key \in DOMAIN gs : Target(key, rs) = k => key = k
    BY <1>2, <1>5, <2>1
  <2>3. (k \in DOMAIN m <=> k \in DOMAIN gs) /\ (old \in DOMAIN m <=> old \in DOMAIN gs)
    BY <1>3, <1>4, <1>6, <2>1, <2>2
  <2>4. (k \in DOMAIN gs => m[k] = gs[k]) /\ (old \in DOMAIN gs => m[old] = gs[old])
    BY <1>3, <1>6, <2>2, <2>3
  <2>5. QED BY <2>3, <2>4, SameGate
<1>9. QED BY <1>7, <1>8

\* What one step may do to the code of the route with key k.
MayChange(k) ==
  \/ Kept(k)
  \/ \E c \in Clients, g \in Gates :
       \/ SetDefaultAccess(c, g)
       \/ \E t \in {None, k[1]} : SetRouteAccess(c, k[2], t, g)
  \/ /\ Restart
     /\ \/ CodeFor(gates', default', k) = CodeFor(disk.gates, disk.default, k)
        \/ {k, <<Legacy, k[2]>>} \subseteq DOMAIN disk.gates
        \/ k \notin KeysOf(disk.routes)

LEMMA RequestKeeps ==
  ASSUME Typed, NEW c \in Clients, Request(c), NEW k \in KeysOf(routes) \cap KeysOf(routes')
  PROVE  MayChange(k)
<1>1. PICK r0 \in routes : k = <<r0.tunnel, r0.id>>
  BY DEF KeysOf, KeyOf
<1>2. k[1] = r0.tunnel /\ k[2] = r0.id /\ k[1] # Legacy
  BY <1>1, ConstantsAssumption DEF Typed, TypeOK, Route
<1>3. \A r \in routes : KeyOf(r)[1] # Legacy
  BY ConstantsAssumption DEF KeyOf, Route, Typed, TypeOK
<1>4. gates' = gates /\ default' = default => MayChange(k)
  BY DEF MayChange, Kept
<1>5. ASSUME NEW removed \in SUBSET KeysOf(routes), k \notin removed, default' = default,
             gates' = GatesAfterRemoval(gates, removed, routes')
      PROVE  MayChange(k)
  <2>1. \A key \in removed : key[1] # Legacy
    BY <1>3 DEF KeysOf
  <2>2. Kept(k)
    BY <1>5, <2>1, RemovalKeeps DEF Kept
  <2>3. QED BY <2>2 DEF MayChange
<1>6. ASSUME NEW t \in Tunnels, DeleteTunnel(c, t) PROVE MayChange(k)
  <2>1. KeysOf(routes \ routes') \subseteq KeysOf(routes)
    BY DEF KeysOf
  <2>2. k \notin KeysOf(routes \ routes')
    BY <1>6 DEF DeleteTunnel, KeysOf, KeyOf
  <2>3. QED BY <1>5, <1>6, <2>1, <2>2 DEF DeleteTunnel
<1>7. ASSUME NEW t \in Tunnels, NEW i \in Ids, DeleteRoute(c, <<t, i>>) PROVE MayChange(k)
  <2>1. <<t, i>> \in KeysOf(routes) /\ k # <<t, i>>
    BY <1>7 DEF DeleteRoute, KeysOf
  <2>2. {<<t, i>>} \in SUBSET KeysOf(routes)
    BY <2>1
  <2>3. QED BY <1>5, <1>7, <2>1, <2>2 DEF DeleteRoute
<1>8. ASSUME NEW i \in Ids, NEW t \in Tunnels \cup {None}, NEW g \in Gates, SetRouteAccess(c, i, t, g)
      PROVE  MayChange(k)
  <2>1. PICK r \in Named(i, t) : gates' = Installed(gates, KeyOf(r), g)
    BY <1>8 DEF SetRouteAccess
  <2>2. r \in routes /\ r.id = i /\ t \in {None, r.tunnel} /\ KeyOf(r)[1] # Legacy
    BY <1>3, <2>1 DEF Named
  <2>3. CASE k = KeyOf(r)
    <3>1. k[1] = r.tunnel /\ k[2] = i
      BY <2>2, <2>3 DEF KeyOf
    <3>2. QED BY <1>8, <2>2, <3>1 DEF MayChange
  <2>4. CASE k # KeyOf(r)
    <3>1. LegacyOf(k) # KeyOf(r)
      BY <2>2 DEF LegacyOf
    <3>2. ASSUME NEW key, key # KeyOf(r)
          PROVE  (key \in DOMAIN gates' <=> key \in DOMAIN gates)
                 /\ (key \in DOMAIN gates => gates'[key] = gates[key])
      BY <2>1, <3>2 DEF Installed, Without
    <3>3. (k \in DOMAIN gates' <=> k \in DOMAIN gates) /\ (k \in DOMAIN gates => gates'[k] = gates[k])
      BY <2>4, <3>2
    <3>4. (LegacyOf(k) \in DOMAIN gates' <=> LegacyOf(k) \in DOMAIN gates)
          /\ (LegacyOf(k) \in DOMAIN gates => gates'[LegacyOf(k)] = gates[LegacyOf(k)])
      BY <3>1, <3>2
    <3>5. Kept(k)
      <4>1. default' = default
        BY <1>8 DEF SetRouteAccess
      <4>2. CodeFor(gates', default, k) = CodeFor(gates, default, k)
        BY <3>3, <3>4, SameGate
      <4>3. QED BY <4>1, <4>2 DEF Kept
    <3>6. QED BY <3>5 DEF MayChange
  <2>5. QED BY <2>3, <2>4
<1>9. ASSUME NEW rs \in Payloads, NEW replace \in BOOLEAN, NEW dry \in BOOLEAN, NEW allow \in BOOLEAN,
             ApplyRoutes(c, rs, replace, dry, allow)
      PROVE  MayChange(k)
  <2>1. default' = default
    BY <1>9 DEF ApplyRoutes
  <2>2. CASE dry \/ ~replace
    BY <1>4, <1>9, <2>1, <2>2 DEF ApplyRoutes
  <2>3. CASE ~dry /\ replace
    <3>1. gates' = GatesAfterRemoval(gates, KeysOf(routes) \ KeysOf(routes'), routes')
      BY <1>9, <2>3 DEF ApplyRoutes
    <3>2. QED BY <1>5, <2>1, <3>1
  <2>4. QED BY <2>2, <2>3
<1>10. ASSUME NEW g \in Gates, SetDefaultAccess(c, g) PROVE MayChange(k)
  BY <1>10 DEF MayChange
<1>11. ASSUME NEW r \in Route, NEW upsert \in BOOLEAN, AddRoute(c, r) \/ UpdateRoute(c, r, upsert)
       PROVE  MayChange(k)
  BY <1>4, <1>11 DEF AddRoute, UpdateRoute
<1>12. ASSUME NEW s \in Settings, UpdateSettings(c, s) \/ Reload(c) PROVE MayChange(k)
  BY <1>4, <1>12 DEF UpdateSettings, Reload, memory
<1>13. CASE Reload(c)
  BY <1>4, <1>13 DEF Reload, memory
<1>14. QED
  <2>1. ASSUME NEW r \in Route, AddRoute(c, r) PROVE MayChange(k)
    BY <1>4, <2>1 DEF AddRoute
  <2>2. QED BY <1>6, <1>7, <1>8, <1>9, <1>10, <1>11, <1>12, <1>13, <2>1 DEF Request

LEMMA StepKeeps ==
  ASSUME Typed, Next, NEW k \in KeysOf(routes) \cap KeysOf(routes')
  PROVE  MayChange(k)
<1>1. ASSUME NEW c \in Clients, Request(c) PROVE MayChange(k)
  BY <1>1, RequestKeeps
<1>2. gates' = gates /\ default' = default => MayChange(k)
  BY DEF MayChange, Kept
<1>3. ASSUME NEW p \in Processes, Apply(p) PROVE MayChange(k)
  <2>1. gates' = gates /\ default' = default
    BY <1>3 DEF Apply, Resolve, Settle, Install, Record, Save, memory
  <2>2. QED BY <1>2, <2>1
<1>4. ASSUME NEW c \in Clients, KeepSettings(c) \/ Disconnect(c) PROVE MayChange(k)
  BY <1>2, <1>4 DEF KeepSettings, Disconnect, memory
<1>5. CASE Poll
  BY <1>2, <1>5 DEF Poll, memory
<1>6. CASE Restart
  <2>1. PICK m \in Migrated(disk.gates, disk.routes) : gates' = m
    BY <1>6 DEF Restart
  <2>2. GateMap(disk.gates) /\ disk.routes \in SUBSET Route /\ default' = disk.default
    BY <1>6 DEF Restart, Typed, TypeOK
  <2>3. CASE k \in KeysOf(disk.routes) /\ ~ {k, LegacyOf(k)} \subseteq DOMAIN disk.gates
    <3>1. CodeFor(gates', default', k) = CodeFor(disk.gates, disk.default, k)
      BY <2>1, <2>2, <2>3, MigrationKeeps
    <3>2. QED BY <1>6, <3>1 DEF MayChange
  <2>4. QED BY <1>6, <2>3 DEF MayChange, LegacyOf
<1>7. ASSUME NEW f \in Configs \cup {None, Broken}, EditFile(f) PROVE MayChange(k)
  BY <1>2, <1>7 DEF EditFile, memory
<1>8. QED BY <1>1, <1>3, <1>4, <1>5, <1>6, <1>7 DEF Next

\* The code a route asks for is only ever changed by a request to change it;
\* after a restart it is the saved one, if the saved gates were not ambiguous.
THEOREM CodesAreKept == Spec => CodesKept
<1>1. Typed /\ [Next]_vars => [\A k \in KeysOf(routes) \cap KeysOf(routes') : MayChange(k)]_vars
  BY StepKeeps
<1>2. QED BY <1>1, AlwaysTyped, PTL DEF Spec, CodesKept, MayChange, Kept
=============================================================================
