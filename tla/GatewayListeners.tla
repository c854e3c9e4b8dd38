--------------------------- MODULE GatewayListeners ---------------------------
(***************************************************************************)
(* The listeners on which the gateway serves each tunnel                   *)
(* (ensure_tunnel_gateway_listener, release_tunnel_gateway_listener and    *)
(* DaemonHandle::shutdown in crates/tunnelmuxd/src/lib.rs). A start brings *)
(* the listener of its tunnel up, a stop or a delete takes it down; the    *)
(* table of bindings is locked for each look and each change, but not over *)
(* a bind, nor while a listener that was told to stop closes its socket.   *)
(*                                                                         *)
(* TunnelLifecycle has the tunnels themselves; here a worker is the part   *)
(* of a handler, or of a restart, that is concerned with the listener.     *)
(***************************************************************************)
EXTENDS Naturals, FiniteSets

CONSTANTS
  Gated,          \* tunnels
  Addresses,      \* their gateway addresses: targets may change and collide
  Workers,
  Free,           \* no listener
  MaxListeners,   \* bound: listeners that are ever opened
  MaxWork         \* bound: starts and stops

ASSUME ListenersAssumption ==
  /\ MaxListeners \in Nat /\ MaxWork \in Nat /\ Free \notin 1 .. MaxListeners

VARIABLES
  bindings,   \* state.gateway_bindings
  listener,   \* the tasks that accept connections: state and address
  worker,     \* where every start and stop is
  teardown,   \* DaemonHandle::shutdown, and the bindings it has taken
  work,
  dropped     \* history: listeners that a dropped worker left open, and whether any was dropped

listenerVars == <<bindings, listener, worker, teardown, work, dropped>>

Listeners == 1 .. MaxListeners
Bound(t) == bindings[t] # Free
AddressOf(t) == listener[bindings[t]].addr

\* A listener that is told to stop has its socket until it has closed.
Taken(addr) == \E l \in Listeners : listener[l].at \in {"open", "closing"} /\ listener[l].addr = addr
Aborts(l) == listener' = [listener EXCEPT ![l].at = "closing"]

Unused == [at |-> "idle", tunnel |-> Free, addr |-> Free, holds |-> Free, alone |-> FALSE]
Becomes(w, state) == worker' = [worker EXCEPT ![w] = state]
Moves(w, at) == Becomes(w, [worker[w] EXCEPT !.at = at])
Returns(w) == Becomes(w, Unused)
Busy(w) == worker[w].at \notin {"idle", "blocked"}

-----------------------------------------------------------------------------
(* Starts and stops *)

\* One that begins is alone when no other is under way and none was dropped, and
\* it ends the solitude of the others.
Enter(w, state) ==
  /\ teardown.at = "no" /\ worker[w].at \in {"idle", "blocked"}
  /\ work < MaxWork /\ work' = work + 1
  /\ LET alone == ~dropped.any /\ \A v \in Workers \ {w} : ~Busy(v)
     IN  worker' = [v \in Workers |-> IF v = w THEN [state EXCEPT !.alone = alone]
                                      ELSE [worker[v] EXCEPT !.alone = FALSE]]

StartListening(w, t, addr) ==
  /\ Enter(w, [Unused EXCEPT !.at = "check", !.tunnel = t, !.addr = addr])
  /\ UNCHANGED <<bindings, listener, teardown, dropped>>

StopListening(w, t) ==
  /\ Enter(w, [Unused EXCEPT !.at = "release", !.tunnel = t])
  /\ UNCHANGED <<bindings, listener, teardown, dropped>>

\* The tunnel has its listener already, or another tunnel has the address.
Check(w) ==
  LET addr == worker[w].addr IN
  /\ worker[w].at = "check"
  /\ IF \E t \in Gated : Bound(t) /\ AddressOf(t) = addr
     THEN Returns(w) ELSE Moves(w, "bind")
  /\ UNCHANGED <<bindings, listener, teardown, work, dropped>>

\* The system gives an address to one socket only.
BindListener(w) ==
  /\ worker[w].at = "bind"
  /\ \/ Taken(worker[w].addr) /\ Moves(w, "blocked") /\ UNCHANGED listener
     \/ /\ ~Taken(worker[w].addr)
        /\ \E l \in Listeners :
             /\ listener[l].at = "unborn" /\ \A m \in 1 .. l - 1 : listener[m].at # "unborn"
             /\ listener' = [listener EXCEPT ![l] = [at |-> "open", addr |-> worker[w].addr]]
             /\ Becomes(w, [worker[w] EXCEPT !.at = "insert", !.holds = l])
  /\ UNCHANGED <<bindings, teardown, work, dropped>>

\* The listener it replaces is told to stop, and waited for.
Insert(w) ==
  LET t == worker[w].tunnel
      previous == bindings[t]
  IN
  /\ worker[w].at = "insert"
  /\ bindings' = [bindings EXCEPT ![t] = worker[w].holds]
  /\ IF previous = Free
     THEN Returns(w) /\ UNCHANGED listener
     ELSE Aborts(previous) /\ Becomes(w, [worker[w] EXCEPT !.at = "wait", !.holds = previous])
  /\ UNCHANGED <<teardown, work, dropped>>

Unbind_NotAwaited(w) ==
  LET t == worker[w].tunnel IN
  /\ worker[w].at = "release"
  /\ bindings' = [bindings EXCEPT ![t] = Free]
  /\ IF Bound(t) THEN Aborts(bindings[t]) ELSE UNCHANGED listener
  /\ Returns(w)
  /\ UNCHANGED <<teardown, work, dropped>>

Unbind(w) ==
  LET t == worker[w].tunnel IN
  /\ worker[w].at = "release"
  /\ bindings' = [bindings EXCEPT ![t] = Free]
  /\ IF Bound(t)
     THEN Aborts(bindings[t]) /\ Becomes(w, [worker[w] EXCEPT !.at = "wait", !.holds = bindings[t]])
     ELSE UNCHANGED listener /\ Returns(w)
  /\ UNCHANGED <<teardown, work, dropped>>

Close(l) ==
  /\ listener[l].at = "closing"
  /\ listener' = [listener EXCEPT ![l].at = "closed"]
  /\ UNCHANGED <<bindings, worker, teardown, work, dropped>>

Waited(w) ==
  /\ worker[w].at = "wait" /\ listener[worker[w].holds].at = "closed"
  /\ Returns(w)
  /\ UNCHANGED <<bindings, listener, teardown, work, dropped>>

\* The client of a handler goes away: what it waits for goes on without it, and
\* a listener it has not put into the table is nobody's.
DropWorker(w) ==
  /\ worker[w].at \in {"check", "bind", "insert", "release", "wait"}
  /\ dropped' = [any |-> TRUE,
                 open |-> dropped.open \cup (IF worker[w].at = "insert" THEN {worker[w].holds} ELSE {})]
  /\ Returns(w)
  /\ UNCHANGED <<bindings, listener, teardown, work>>

-----------------------------------------------------------------------------
(* Shutdown: no start begins any more; those under way go on. *)

BeginTeardown ==
  /\ teardown.at = "no" /\ teardown' = [teardown EXCEPT !.at = "tunnels"]
  /\ worker' = [w \in Workers |-> [worker[w] EXCEPT !.alone = FALSE]]
  /\ UNCHANGED <<bindings, listener, work, dropped>>

TakeBindings ==
  /\ teardown.at = "tunnels"
  /\ teardown' = [at |-> "listeners", holds |-> {bindings[t] : t \in Gated} \ {Free}]
  /\ bindings' = [t \in Gated |-> Free]
  /\ UNCHANGED <<listener, worker, work, dropped>>

\* They are stopped one after the other, in no order.
StopTaken ==
  /\ teardown.at = "listeners"
  /\ ~\E l \in teardown.holds : listener[l].at = "closing"
  /\ \E l \in teardown.holds : listener[l].at = "open" /\ Aborts(l)
  /\ UNCHANGED <<bindings, worker, teardown, work, dropped>>

EndTeardown ==
  /\ teardown.at = "listeners"
  /\ \A l \in teardown.holds : listener[l].at = "closed"
  /\ teardown' = [at |-> "down", holds |-> {}]
  /\ UNCHANGED <<bindings, listener, worker, work, dropped>>

ListenersInit ==
  /\ bindings = [t \in Gated |-> Free]
  /\ listener = [l \in Listeners |-> [at |-> "unborn", addr |-> Free]]
  /\ worker = [w \in Workers |-> Unused]
  /\ teardown = [at |-> "no", holds |-> {}]
  /\ work = 0 /\ dropped = [any |-> FALSE, open |-> {}]

ListenersNext ==
  \/ \E w \in Workers :
       \/ \E t \in Gated : StopListening(w, t) \/ \E a \in Addresses : StartListening(w, t, a)
       \/ Check(w) \/ BindListener(w) \/ Insert(w) \/ Unbind(w) \/ Waited(w) \/ DropWorker(w)
  \/ \E l \in Listeners : Close(l)
  \/ BeginTeardown \/ TakeBindings \/ StopTaken \/ EndTeardown

ListenersSpec == ListenersInit /\ [][ListenersNext]_listenerVars

-----------------------------------------------------------------------------
(* Properties *)

ListenersTypeOK ==
  /\ bindings \in [Gated -> Listeners \cup {Free}]
  /\ listener \in [Listeners -> [at : {"unborn", "open", "closing", "closed"},
                                 addr : Addresses \cup {Free}]]
  /\ worker \in [Workers -> [at : {"idle", "blocked", "check", "bind", "insert", "release", "wait"},
                             tunnel : Gated \cup {Free}, addr : Addresses \cup {Free},
                             holds : Listeners \cup {Free}, alone : BOOLEAN]]
  /\ teardown \in [at : {"no", "tunnels", "listeners", "down"}, holds : SUBSET Listeners]
  /\ work \in 0 .. MaxWork /\ dropped \in [any : BOOLEAN, open : SUBSET Listeners]

\* A listener that accepts connections is the one in the table for its tunnel, in
\* the hands of a start or of the shutdown, or left over by a dropped handler; the
\* ones in the table are open, each on an address of its own. And a start that
\* has had the daemon to itself never finds its address taken: a stop before it
\* has waited "until its socket is genuinely closed" (stop_gateway_binding).
ListenersOwned ==
  /\ \A t \in Gated : Bound(t) =>
       /\ listener[bindings[t]].at = "open"
       /\ \A u \in Gated \ {t} : Bound(u) => AddressOf(u) # AddressOf(t)
  /\ \A l \in Listeners : listener[l].at = "open" =>
       \/ \E t \in Gated : bindings[t] = l
       \/ \E w \in Workers : worker[w].at = "insert" /\ worker[w].holds = l
       \/ l \in teardown.holds \cup dropped.open
  /\ \A w \in Workers : worker[w].at = "blocked" => ~worker[w].alone
=============================================================================
