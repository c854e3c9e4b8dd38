# TunnelMux: TLA+ models, model checking and proofs

TunnelMux supervises tunnel providers (`cloudflared`, `ngrok`): a daemon starts,
watches, restarts and stops one provider process per tunnel, and proxies what
arrives through it to local services; a CLI and a desktop app control it. This
directory models their logic, checks it with TLC on small instances and proves
the central facts with TLAPS for every instance. All paths below are relative to
`src/crates/`.

## 1. The system

### Components, their state and operations

| component | source | state | operations |
|---|---|---|---|
| Tunnel runtime | `tunnelmuxd/src/{api,runtime,lib}.rs` | `RuntimeState` under one tokio mutex: `running_tunnels`, `pending_restarts`, `in_flight_starts`, `next_start_generation`, `persisted` | `start_tunnel`, `stop_tunnel`, `delete_tunnel` |
| Reconcile and auto restart | `runtime.rs` | the same | a pass per monitor tick and per status, dashboard or workspace request |
| Shutdown | `lib.rs` | `shutting_down` flag, `gateway_bindings`, the serve task | `DaemonHandle::shutdown` |
| Gateway listeners | `lib.rs` | `gateway_bindings` (tunnel, address, task) | ensure at every spawn, release at stop and delete |
| Persistence | `persistence.rs`, `runtime.rs` | state file, temp files, `persist_lock` | `persist_from_runtime`, load, reload |
| Startup, reclaim, API token | `lib.rs`, `runtime.rs`, `api.rs` | control port, token file, pids recorded in the state file | `start`, once, before serving |
| Routes and declarative config | `api.rs`, `runtime.rs` | `routes`, `route_access`, `config_reload_status`, health settings | route CRUD, apply, access gates, config reload (monitor and request) |
| Gateway data plane | `gateway.rs` | slots (semaphore), rate buckets | one task per proxied request: select, gate, try primary and fallback |
| Upstream health | `runtime.rs`, `gateway.rs` | `upstream_health` map | one probing round per interval |
| Unlock window | `api.rs` | `control_lock` (code, expiry, fixed) | unlock, relock, status; every protected request |
| Provider log, startup wait | `runtime.rs`, `api.rs` | live file, backups, `written`, the pipe readers | write with rotation, tail, follow; wait for the public URL |
| Streams | `api.rs`, CLI `client.rs` | one task and one channel per stream | status, routes, upstreams, metrics, dashboard; watch and reconnect |
| Commands of several requests | GUI `commands.rs`, CLI `commands.rs` | none of their own | save a route with its gate, expose, unexpose |
| GUI daemon ownership | `tunnelmux-gui/src/{daemon_manager,embedded_daemon}.rs` | `DaemonRuntimeState` | ensure (adopt or start), shutdown on exit |
| GUI profiles and secrets | `tunnelmux-gui/src/{settings,secret_store,commands}.rs`, `ui/app.js` | `settings.json`, the keyring, the window's copy of the settings | load, save a profile, select, delete, save the settings, bootstrap |
| Installer and updater | `tunnelmux-gui/src/{provider_installer,commands}.rs`, `bin/tunnelmux-updater.rs` | tool files, install statuses, the app's binaries | install a provider, update the app |

`PROJECT.json` lists them all with what is modelled of each, and every hazard of
the code at its line with the properties that cover it.

### How they interact

All handlers and background tasks of the daemon share `AppState`. The runtime
mutex is held only between two awaits: never while a process is spawned, waited
for or killed, nor while the disk is written. So a handler is a sequence of
atomic sections with every other task between them, and what one section has
read may be stale in the next. Provider processes are `Child` values spawned with
`kill_on_drop(true)`: a process lives as long as the map or the handler that owns
it, and a handler that the HTTP server drops (the client went away) kills the
child it holds and skips all its remaining sections. The CLI and the desktop app
reach the daemon by HTTP only, also the daemon that the app runs inside itself.

### What is hard, and what makes each component correct

- Runtime, restart, shutdown. Overlapping starts, stops and restarts of one
  tunnel, reconcile passes in request handlers, handlers dropped half way, a
  shutdown that races admitted starts. No provider without an owner or with two;
  the latest request decides; the restart budget; statuses that describe reality
  when nothing is going on; starts come to an end; nothing survives a shutdown.
- Listeners. The table is unlocked during a bind and while a socket closes. No
  listener is nobody's, one address one tunnel, and a start after a stop gets its
  address.
- Persistence. Saves that fail or land out of order, kills at any step. An
  acknowledged change is in the file, which is always one complete snapshot.
- Startup. Crashes between a spawn and the save of its pid and between the steps
  of a reclaim, reused pids, two daemons. No provider is forgotten silently; the
  token on disk stays good.
- Routes. Reloads under requests, two locks for one setting, saves that fail,
  handlers dropped between two sections. Ids stay unique, gates follow their
  routes, codes stay, the config file comes into effect.
- Data plane and health. Routes and gates edited under a request, results of a
  health round older than the routes. Nobody passes a closed gate, every upstream
  is tried once, bursts are bounded, verdicts converge.
- Unlock window. Two callers and a clock. Open within the window of the last
  unlock and never else.
- Log. Rotation that fails half way, a follower that reads by offset. The newest
  lines are there, in order, and a follower never gets one twice.
- Clients. Requests and answers that are lost, clients that stall. Views agree,
  shutdown returns, commands do all or nothing.
- Desktop app. Concurrent callers, a foreign daemon; ids that are used again,
  commands that read and write settings and keyring on several threads without a
  lock, a window that saves a stale copy; installs and updates that are cut
  short. One owned daemon, no inherited secret, no half executable.

## 2. Modules

| module | content |
|---|---|
| `TunnelLifecycle` | runtime, reconcile and restart, shutdown; fairness, properties |
| `TunnelSupervisor` | the abstract supervisor that `TunnelLifecycle` implements |
| `StatePersistence` | the state file: saves under `persist_lock`, failures, reload, kill and start |
| `DurableStore` | the abstract store that `StatePersistence` implements |
| `RouteTable` | routes, gates, settings and their four sources: requests, config file, state file, restart |
| `GatewayRules` | the pure decisions of the gateway: matching, rewriting, order of targets, gates |
| `Gateway` | proxied requests, limiter, slots, the health monitor; uses `GatewayRules` |
| `ProviderLog` | startup wait, pipe readers, rotation, followers |
| `UnlockWindow` | control-plane authorization and the loopback window |
| `DaemonBoot` | `start()` step by step, reclaim of leftovers, the token file, crashes |
| `GatewayListeners` | the listeners of tunnels, starts and stops around them, shutdown |
| `ControlStreams` | views, SSE streams, graceful shutdown, watch and reconnect |
| `RouteClients` | commands of several requests, of the desktop app and the CLI |
| `DesktopDaemon` | who owns the daemon of the desktop app |
| `DesktopProfiles` | profiles, settings file, keyring, the window's copy |
| `Installers` | installs of providers, updates of the app |
| `MC...` | instances for TLC; `MCRouteTable`, `MCServing` and `MCClients` have several modules in slices |
| `...Proofs` | theorems about `TunnelLifecycle`, `StatePersistence`, `RouteTable`, `Gateway` and `ProviderLog`; `DaemonProofs` about `DaemonBoot` and `GatewayListeners`; `ControlProofs` about `UnlockWindow`, `ControlStreams`, `RouteClients`; `DesktopProofs` about `DesktopDaemon`, `DesktopProfiles`, `Installers` |

`TunnelLifecycle` and the others meet at named steps. Its `Save` (memory to file)
is what `StatePersistence` opens up into lock, snapshot, temp file, sync and
rename. The listener part of its spawns and stops, one step there, is opened up
in `GatewayListeners`; the wait between spawn and commit in `ProviderLog`; what
the next process finds of a killed one in `DaemonBoot`; the routes that a delete
removes in `RouteTable`; the end of the control plane in `ControlStreams`.

### `TunnelLifecycle` and the code

One action is what a task does between two awaits. `task[a]` holds an actor's
program counter and the locals that outlive an await (`gen` the generation that
`begin_start` returned, `child` the process it owns, `auto`/`count` of the
request or the `PendingRestart`, `todo` the due restarts of its pass, or the
tunnels that shutdown has still to stop). A process has the generation of its
start as its name.

| variable | code |
|---|---|
| `running`, `pending`, `inflight`, `nextGen` | `RuntimeState::{running_tunnels, pending_restarts, in_flight_starts, next_start_generation}` |
| `status`, `saved` | `persisted.tunnels[..].status.state` in memory and in the state file |
| `alive` | the provider processes the OS runs |
| `listening` | keys of `gateway_bindings` |
| `shutting` | `AppState::shutting_down` |
| `stopMark` | history: the newest generation a stop has cancelled |

| code | actions |
|---|---|
| `stop_running_process` | `Detach`, `Terminate`, `TerminateFails` |
| `start_tunnel` | `StartRequest`, stop as above, `Begin`, `SaveBegin`/`SaveBeginFails`, `Spawn`/`SpawnFails`, `NotReady`, `Commit`/`Discard`/`StartFailed`, `Save` |
| `stop_tunnel`, `delete_tunnel` | `StopRequest`/`DeleteRequest`, stop, `Release`, `RecordStop`/`Erase`, `Save` |
| `reconcile_runtime_and_maybe_restart` | `PollRequest`, `Reconcile`, `CollectDue`, `BeginRestart`/`SkipRestart`, spawn as above, `Commit`/`Discard`, `RestartFailed`, `Requeue`, `PollDone`, `Save` |
| `DaemonHandle::shutdown` | `BeginShutdown`, `CollectTunnels`, `DrainNext`, stop, `DrainDone`, `Close` |
| environment | `Die` (a provider exits), `Elapse` (a backoff is over), `Disconnect` (a handler is dropped) |

Abstractions: provider, URL, pid, timestamps and messages are left out of the
status; a backoff has elapsed or not; the listener's address is fixed per
tunnel; a process that is sent KILL is gone when its wait ends (the code waits at
most five seconds); `Discard` finds out that a start was cancelled and terminates
its child in one step, which no other task can tell from two because a cancelled
generation never becomes current again; the save of a snapshot is one step. The
generation counter is a natural number (a `u64` in the code).

`TunnelSupervisor` is what all this is for, without tasks, processes or critical
sections: attempts are admitted with numbers of their own, a tunnel comes up with
the one admitted at that moment (`ComeUp`), a halt (`Halt`) leaves nothing that
serves or may come up later, and after `Close` nothing comes up. The mapping:
`serving` is the generation of the provider in `running_tunnels`, `admitted` is
`in_flight_starts`, `issued` the generation counter, `halted` the generation that
the last stop took, `closed` the flag of the shutdown.

### `StatePersistence` and the code

A state is the set of changes that it reflects, a change is a number; so "the
file has lost something" and "the file is older" are statements about sets.
`task[h]` holds the handler's step, the change it will answer for, the snapshot
it took and the temporary file it writes.

| variable | code |
|---|---|
| `inMemory` | `RuntimeState::persisted` |
| `lock` | `AppState::persist_lock`, as the set of its holders |
| `stateFile` | the state file: what it has, and whether it is whole |
| `landing` | renames whose handler was dropped while the blocking pool had them in hand |
| `acked` | history: changes answered with success |
| `disturbed` | history: such a rename was abandoned, or a reload has undone a change |

| code | actions |
|---|---|
| a handler's change (`add_route`) | `Change` |
| `persist_from_runtime` | `Acquire`, `Snapshot`, then the save; `SaveFails` |
| `save_state_file` | `Create`, `Sync`, `Rename` |
| `reload_settings` without a config file | `ReloadRead`, `ReloadAssign` |
| environment | `DropHandler`, `Land`, `Kill` (with the start that follows it) |

Temporary files have unique names, so one that is left behind is never looked at
again; it is part of its handler's record here. Only changes that add something
are modelled (that a removal is not undone is the same fact). A killed process
leaves what it has handed to the kernel; a loss of power, after which the rename
itself may be gone because the directory is not synced, is not modelled.

### `RouteTable` and the code

One action is what a handler does under one acquisition of the runtime mutex or
of the settings lock. `op[p]` is a process (a request, or the config poller)
between two of them.

| code | actions |
|---|---|
| `add_route`, `update_route`, `delete_route`, `apply_routes` | `AddRoute`, `UpdateRoute`, `DeleteRoute`, `ApplyRoutes`, then `Save` |
| `delete_tunnel` (its routes and gates) | `DeleteTunnel` |
| `set_route_access` | `SetRouteAccess`, `SetDefaultAccess` |
| `update_health_check_settings` | `UpdateSettings`, `KeepSettings`, `Save` |
| `reload_settings`, the config poller | `Reload`, `Poll`, then `Resolve`, `Settle`, `Install`, `Record`, `Save` |
| `load_persisted_state`, `migrate_route_access_keys` at a start | `Restart` |
| operator | `EditFile` |
| a handler that is dropped | `Disconnect` |

`GatesAfterRemoval` drops a gate of a removed route also when an older version
wrote it without the tunnel. `reloaded`, `raced` and `edited` are histories that
name the exceptions: an apply of the config file replaces the routes and leaves
the gates; two appliers that overlap, or one whose handler is dropped between the
routes and the digest, leave the older file's routes; a request overrides the
config file until the file changes. `Disconnect` takes a request from any of its
awaits: between the two writes of the settings, after the routes, before the save.

### `GatewayRules`, `Gateway` and the code

`GatewayRules` has the pure functions of `gateway.rs`: which route takes a path
(of those that match, the last of the most specific), the order of targets by
health, what a gate asks for, which headers go on, how paths and references in an
answer are rewritten, which cookie a browser gets that was admitted. A path is a
sequence of characters, so that a prefix is compared as the code compares it.

| code | actions |
|---|---|
| `proxy_request_for_tunnel` | `Arrive` (slot, limiter, paths served by the gateway itself), `Select`, `ReadCode`, `PassGate`, `Order`, `Try` once per target |
| `proxy_websocket_request` | the same, without the failover of answers |
| `GatewayRateLimiter::allow` | `Count`, `Expired`, with `Tick` as the clock |
| `refresh_upstream_health` | `RoundStart`, `ReadRoutes`, `Probe` per key (`With` adds its verdict), `RoundEnd` |
| control plane, environment | `EditRoutes`, `EditGates`, `EditHealthPath`, `Turn`, `Disconnect` |

A request is a record of what it has read so far, so a decision on a stale copy
is possible wherever it is in the code. `admitted` is a history: for each key and
each span of up to a window, how many requests the limiter has let through within
the last so many ticks. The limiter is meant to count by client, but the listeners
are served without the address of the peer (`lib.rs` 1212), so `request_peer_key`
(`gateway.rs` 1473) gives "unknown" for every client and all of them share one
bucket per gateway and one per route (`Keys`).

### `ProviderLog`, `UnlockWindow` and the code

| code | actions |
|---|---|
| spawn, wait for the URL, timeout | `SpawnProvider`, `AwaitStartup`, `StartupLate`, `DropStartup`, `ProviderExits` |
| pipe readers | `ReadLine`, `StopReading`, `LockLog` |
| the shared sink: open, rotate, write | `OpenLog`, `Discard`, `Shift`, `SealLive`, `Reopen`, `GiveUpRotation`, `AppendLine` |
| tail and follow | `Follow`, `PollLog` (reads), `SendLine` (one line of what was read, while the file goes on), `Unfollow` |
| the end of the process at any of these | `KillDaemon` |

A line is its number, its tunnel and its size; an offset counts sizes. Every
file operation may fail. `sink.overdue` is set by a rotation that gave up and by
an open that could not read the length of the log (which then counts from 0), and
cleared by the next rotation that ends. `gapped` is a history: a backup that could
not be looked at (`try_exists` failed, which the code takes for "not there") was
renamed over, and its lines are missing between older ones and newer ones.

| code | actions |
|---|---|
| `unlock_auth`, `relock_auth`, `auth_status`, `auth_endpoint_middleware` | `CallAuth`, `TakeWrite` or `TakeRead`, `Unlock`, `Relock`, `AnswerStatus` |
| `control_auth_middleware` | `Request` |
| clock | `Tick` |

A protected request uses `try_read`, which fails while a writer holds the lock or
waits for it, so what a request sees depends on the auth handlers next to it
(`free` in the record of a request says that none was in its way).

### `DaemonBoot`, `GatewayListeners` and the code

| code | actions |
|---|---|
| `start` | `Boot`, `BindControl`, `ResolveToken`, `LoadState`, reclaim, `BindGateway`, `AdvertiseToken` |
| `reclaim_leftover_providers` | `NothingToReclaim`, `LookAtPid`, `SignalLeftover`, `KillLeftover`, `SaveReclaimed` |
| while it serves | `SpawnChild`, `RecordChild`, `StopChild`, `Shutdown` |
| environment | `Crash`, `ProviderEnds`, `PidReused` |

Two daemons may be started on one data directory, with the same ports or others.
`excused` names providers that no file can know of: spawned and not yet saved
when their daemon was killed, or whose save failed.

| code | actions |
|---|---|
| `ensure_tunnel_gateway_listener` in a start | `StartListening`, `Check`, `BindListener`, `Insert` |
| `release_tunnel_gateway_listener` and `stop_gateway_binding` in a stop | `StopListening`, `Unbind`, `Waited` |
| the task of a listener | `Close` (the socket is really closed) |
| `DaemonHandle::shutdown` | `BeginTeardown`, `TakeBindings`, `StopTaken`, `EndTeardown` |
| a handler that is dropped | `DropWorker` |

`alone` is the history of one start: nobody else has been on the table since it
came, none was dropped before and no shutdown has begun.

### The clients and the code

`ControlStreams`: the views of `api.rs` as operators on one state, one task per
stream (`StatusTurn`, ..., `Send`, `Wake`), its client (`Receive`, `EndOfStream`,
`BreaksOff`, `Reconnect`, `Watch`, `Disconnect`), the end of the serve task
(`BeginShutdown`, `BeginDrain`, `EndServe`) and a daemon that starts again.

`RouteClients`: one action per request of a command, with the three outcomes a
caller can meet: done, not done and an error, done and an error. `save_route` is
`SaveRoute`, `ListPrevious`, `WriteRoute`, `ReadGate`, `SyncGate`, `UndoRoute`,
`ShowRoutes`; `expose` is `Expose`, `ListForExpose`, `StatusForExpose`,
`ExposeRoute`, `ExposeStop`, `BeginStart`, `EndStart`, `AwaitReady`; `unexpose`
likewise. `OneRequest` stands for the commands of one request.

`DesktopDaemon`: `ensure_local_daemon` is `Probe`, `Adopt` or `ProbeFails`,
`Claim`, then `Look` (a caller that waits) or `TakePrevious`, `StopPrevious`,
`Bind`, `OpenGateway`, `Finish`; the exit of the app is `Exit`, `ExitDone`;
`TheyStart` and `TheyStop` are a daemon of somebody else on the same port. A probe may
also fail while a daemon holds the port, and a start that fails after it has bound
its gateway (`OpenGateway`) leaves the listener (stage `listening`).

`DesktopProfiles`: `command[c]` is what a thread is at. A load reads the file
(`Load`), then the keyring an entry at a time (`LookUp`, `KeepSecret`), writes the
file back when it had secrets (`Tidy`); a save writes the keyring an entry at a time
(`StoreSecret`) and then the file (`WriteFile`); any of these accesses may fail
(`AccessFails`) and leave the rest undone. The synchronous commands are one thread,
each asynchronous one another, and all of them interleave at every access.

| code | actions, with a load or a save in between |
|---|---|
| `load_settings`, and what the window shows of it | `LoadSettings`, `Show` |
| `save_tunnel_profile`, `select_tunnel_profile` | `CreateProfile`, `EditProfile` or `SelectProfile`, `ChangeProfiles`, `LoadAgain` |
| `delete_tunnel_profile` | `DeleteProfile`, `AskDaemon`, `DaemonAnswers`, `ChangeProfiles`, `LoadAgain` |
| `save_settings` (the window's own copy, whole) | `SaveSettings`, `LoadAgain`, `AskDaemon`, `DaemonAnswers` |
| `bootstrap_local_daemon`, `persist_daemon_alignment` | `Bootstrap`, `AskDaemon`, `DaemonAnswers` |
| the operator | `EditFile` |

The window's copy is `window`: forms are filled from it, a new profile gets the first
id that is free in it, and an edit is sent with the id it has there, whether or not
the file still has that id (then it makes a profile again) or has another profile
under it. What a form says of a secret and the copy does not counts as entered by the
user. `mixed` is a history that names the two ways in which an id stands for two
profiles: two commands are at the secrets of both at once (`Clash`), or a command
that has written the secret of one into the keyring fails before it has put that
profile into the file in place of the other (`Displaces`).

`Installers`: `install_provider` with its statuses, its temporary file and the
task it spawns; the update of the app, which on Windows a helper process ends.
Any step on the disk may fail and the app may be gone between two of them.

## 3. Runs

| run | instance | shows |
|---|---|---|
| `lifecycle_safety` | 1 tunnel, 2 clients (symmetric), monitor, shutdown, all faults, budget 1, 3 generations before requests end | `TypeOK`, `NoOrphanProvider`, `NoSharedProvider`, `LatestWins`, `RestartBudget`, `NothingAfterShutdown`, `ImplementsSupervisor` (the refinement of `TunnelSupervisor`); 1.7 million states |
| `lifecycle_no_faults` | 1 tunnel, 1 client that also polls, monitor, shutdown, no faults, budget 1, 4 generations, `FairSpec` | `NoPhantomStatus`, `DurableWhenQuiet`, `StartingEnds`, `ShutdownTerminatesAll`; 101 thousand states |
| `restart_after_stop` | 1 client, monitor, shutdown, no faults, budget 2 | violation of `NoResurrection`: finding 1 |
| `restart_lost_on_disconnect` | one client that polls and disconnects, `FairSpec` | violation of `RestartServed`: finding 2 |
| `reload_undoes_change` | 2 handlers, reloads only | violation of `AckedAlwaysSaved`: finding 3 |
| `routes` | see the slices below | `TypeOK`, `UniqueRoutes`, `GatesHaveRoutes`, `CodesKept`, `ConfigTakesEffect`; of the state file `AckedIsSaved`, `ImplementsStore` (the refinement of `DurableStore`), `Answered`; 693 thousand states |
| `settings_disagree` | 2 clients and the poller, no faults | violation of `SettingsAgree`: finding 5 |
| `gateway` | 2 requests of 7 kinds, 3 route tables, 2 settings of the gates, 2 upstreams, 1 slot, limit 2 in a window of 2 ticks, 2 edits | `TypeOK`, `NeverPastGate`, `CodeStaysHere`, `FailoverFaithful`, `BurstBound`, `FollowedBack`, `HealthConverges`; 717 thousand states |
| `serving` | see the slices below | `TypeOK`, `NewestKept`, `FollowerInOrder`, `WindowHonoured`, `NoSilentOrphan`, `TokenHonoured`, `ListenersOwned`; 2.2 million states |
| `clients` | see the slices below | `ViewsAgree`, `ShutdownReturns`, `CommandsDeliver`, `NoStrayDaemon`, `ExecutablesWhole`, `NoInheritedSecret`; 1.0 million states |
| `shutdown_waits_for_reader` | 1 client, a channel of one, 1 change | violation of `TeardownEnds`: finding 6 |
| `bootstrap_twice` | 2 callers, 3 starts, 1 daemon of somebody else | violation of `SingleFlight`: finding 4 |

**Bounds of the lifecycle and the state file.** `MaxGeneration` limits when a
request is accepted, not what it then does: with 3, one start (two generations:
its own stop and its own begin), a second request that overlaps it, and the
restarts that follow occur; each interleaving of two handlers with a reconcile
pass and a shutdown is reached. `MaxAutoRestarts = 1` puts the limit one failed
attempt away; 2, in `restart_after_stop`, allows a requeue. Two clients suffice
for every race of two requests; the monitor is the third party. One tunnel is
enough in every run: tunnels share the generation counter, the save and the mutex,
and what the theorems say holds for any number of them. A fourth generation, without
faults, lets a restart follow a second request. Faults are on in
the safety run and off where the property is only promised without them (a failed
save cannot be durable; a dropped handler leaves its status behind). For the
state file, two handlers and three changes give a save that overlaps a later one,
a third one that follows both, and an abandoned rename that lands after a newer
save.

**Slices.** Where a run has several parts that do not meet, or parts that meet in
only some of their steps, a variable `slice`, chosen at the start and never
changed, says which part moves. The modules themselves have no slices.

| run | slice | what moves |
|---|---|---|
| `routes` | requests | 2 tunnels, 1 route id, one client with every request, 3 changes, a state file of an older version at the start, a failed save, dropped handler or restart |
| | config | two clients that reload, change the settings and add a route, the poller, the operator |
| | save | the steps of a save: two handlers, three changes, disk errors, dropped handlers, kills, reloads |
| `gateway` | rates | two requests against the limiter and the slot, the clock |
| | gates | one request of any kind; gates, routes and upstreams change under it |
| | health | the monitor; routes, settings and upstreams change under it, a request uses the verdicts |
| `serving` | startup | one provider of each kind, two lines from either pipe |
| | log | two providers that are up, lines of two sizes, cap 3, two backups, a follower, one failure, a kill |
| | unlock | two callers, four configurations of the control plane, a window of 2 ticks, 3 ticks, 2 codes |
| | boot | two daemons, three command lines, 3 starts, 2 pids, 2 crashes, failures or reused pids |
| | listeners | two tunnels, two addresses, two workers, 3 listeners, 4 requests, a shutdown |
| `clients` | streams | one client, every kind of stream, a channel of one, one change, a shutdown |
| | one command | `save_route`, `set_default_route_access`, `expose`, `unexpose` with two failures |
| | two commands | one of them next to any single request of another user |
| | desk | two callers, three starts, a foreign daemon, the exit |
| | installs | two jobs, two tools, one mishap |
| | updates | two updates, two binaries, both systems, two mishaps |
| | new | no settings yet: one profile is made and edited, every command, a hand edit, a failed access |
| | hand | two profiles, one with a secret; every command but select and delete, hand edits of the other profile, no failure |
| | again | two profiles, one with a secret; a third one is made under an id that is free again, a failed access |

Two of what competes and one fault more than it takes to break a protocol are
what the properties are about: a second daemon or caller is enough for every race
of two, two backups for a shift in the middle of which a rotation fails, a window
of two ticks for a request at its last instant and one after. A third handler
would meet one of the two in a state that a second one also meets. The two
mounted routes and the one for a host in `gateway` make every order that
`select_route` can produce, with a fallback and without; the paths of its
requests are below, at and beside the mount and in a root namespace. In
`GatewayListeners` three listeners let an address be bound again twice. In
`DesktopProfiles` the third profile is the one that takes over an id, a second thread
is enough for a stale copy and for a load in the middle of a save, and one failed
access for a keyring that is ahead of the file. These slices take entries of the keyring
in the order of their ids, lets commands that only load run on the main thread, and
stop at a state in which `mixed` is true; the proof does none of this.

**No deadlock check.** After a shutdown the daemon stops; elsewhere the bounds on
requests, edits, lines and starts leave a state in which nothing more need happen.

**Fairness.** Weak fairness, and only of what the program itself goes on doing:

- lifecycle: each task's own steps (tokio polls every task that is ready; the
  startup wait and the wait for a killed child have timeouts), the monitor's next
  tick (a loop with a sleep), the teardown's steps, and the passing of a backoff.
  Requests, exits, faults and the beginning of a shutdown are not fair. The
  monitor is not waited for by the teardown, which is how the code stands;
  `ShutdownTerminatesAll` therefore assumes that the process goes on running after
  `shutdown` returns, which is so for the embedded daemon. The standalone daemon
  exits then, and its runtime drops the children it still owns.
- state file: every handler's steps; tokio's mutex hands itself on in the order of
  the waiters, and with finitely many changes weak fairness of taking it is as good.
- routes: the poller and whoever is applying or keeping settings; not requests.
- gateway: the steps of the monitor (a probe has a timeout); not requests.
- streams: the steps of a stream's task, and those of the serve task. That a client
  reads, leaves or comes again is not assumed: `ShutdownReturns` says that the shutdown returns or some client leaves
  its stream unread for ever, and `TeardownEnds`, without the alternative, fails.

**Findings.** (1) `restart_after_stop`: the two critical sections after a failed
restart attempt (`runtime.rs` 950 and 966) are not one; a stop between them is
undone. (2) `restart_lost_on_disconnect`: a pending restart is taken by whatever
pass comes first, and when that is a request handler that is dropped, no retry
remains and the status stays `Starting`. (3) `reload_undoes_change`:
`reload_settings` assigns routes that it read before; a route added in between is
gone from memory before its own handler takes the snapshot to save, and that
handler answers with success. The same window lets a later save drop a route from
the file. (4) `bootstrap_twice`: a caller that adopts a daemon which answers
(`daemon_manager.rs` 168) clears `bootstrapping` although another caller is still
starting one; the next caller starts a second. `NoStrayDaemon` names it as its
exception. (5) `settings_disagree`: every writer of the health check settings writes
the ones in force and the ones kept for the state file under two locks (`api.rs`
438-447 and 484-492, `runtime.rs` 468-477); a second writer between the two leaves
them different, without any failure, and both answer with success. A handler that is
dropped between the two does the same.
(6) `shutdown_waits_for_reader`: a stream sees the flag of the shutdown only between
its turns; one whose client has stopped reading waits in `tx.send` for ever, and
`DaemonHandle::shutdown` waits for its connection without a timeout (`lib.rs` 315).

**Observed, and stated as it is.** Behaviour that no document excludes, or that a
property names as its exception:

- A rename whose handler was dropped (`Land`) can put an older snapshot in the
  place of a newer one.
- A protected request gets a 401 within the window while an unlock or relock has
  the lock.
- A start that passed the shutdown check inserts its listener after the shutdown
  has taken the table; nobody closes it before the process ends. A stop may close
  the listener of a start that overlaps it.
- Reclaim sends KILL three seconds after it has looked at the command line, and
  reports a provider as terminated also when the KILL had no effect. The comment
  in `lib.rs` 849-851 that nothing is written before the ports are bound does not
  hold of it.
- An apply of the config file assigns the routes and leaves the gates of those that
  it takes away (`runtime.rs` 474-478, `api.rs` 489-492), although `CHANGELOG.md` 12
  says that replacing cleans up stale gates; a later route with that tunnel and id
  comes up with the old code. `GatesHaveRoutes` names it as its exception
  (`reloaded`).
- `relock_auth` asks `is_fixed_unlock_code` while it holds the lock that this tries to
  read, gets "not fixed", and replaces a configured code by a generated one, although
  `docs/API.md` 67 says that a fixed one stays. `Relock` has it as it is.
- A config file whose save failed is not saved again by the poller: its digest is
  recorded first (`runtime.rs` 480). The file is read again at every start.
- The rate limiter has one bucket for all clients, although its answer speaks of
  requests "from this client" (`gateway.rs`).
- An embedded daemon whose start fails after its gateway was bound (`lib.rs` 1094)
  leaves the listener open until the app ends, and the next start finds the port
  taken. An embedded daemon that comes up after the exit handler has looked for one
  is not shut down; the process ends right after.
- Nothing locks `settings.json` and the keyring together, secrets are saved first and
  the file second, and `save_settings` saves a copy that may be stale. When two
  commands are at the secrets of two profiles of one id at once, or a save fails
  between the keyring and the file, a profile may come up with the secret of another
  one. `NoInheritedSecret` names both as its exceptions (`mixed`); no document speaks
  of either.
- A log whose length cannot be read when it is opened is counted from 0 and may grow
  past its cap once; a backup that cannot be looked at is renamed over.
- An update that has replaced some binaries and then fails does not put them
  back; the Windows helper gives up after 120 seconds of waiting for the app.

## 4. Proofs

The proofs are for every value of the constants that the named assumptions of the
modules allow; each cites only those. Each safety proof has the same form: an
inductive invariant, one lemma per action (or group of actions that change the
same part of the state), and the theorem from it.

`TunnelLifecycleProofs`, for any finite set of tunnels, any clients and any
bounds:

| theorem | property |
|---|---|
| `TypeCorrect` | `TypeOK` |
| `ProvidersOwned` | `NoOrphanProvider` |
| `ProvidersNotShared` | `NoSharedProvider` |
| `LatestStartWins` | `LatestWins` |
| `RestartsBudgeted` | `RestartBudget` |
| `NothingRegisteredAfterShutdown` | `NothingAfterShutdown` |
| `NoPhantoms`, if `Faults = {}` | `NoPhantomStatus` |
| `SavedWhenQuiet`, if `Faults = {}` | `DurableWhenQuiet` |
| `SupervisorImplemented` | `ImplementsSupervisor`: every step is a step of `TunnelSupervisor` or stutters |

`Ownership` is the inductive invariant of the first four. None of them is
inductive alone: that a commit does not make two owners needs that a task at
`await` holds exactly the process of its own generation (`ChildHeld`); that a
spawn does not revive a name needs that no generation beyond `nextGen` is alive
or held and that none was handed out twice (`HandedOut`, `FreshUnused`); that the
later start wins needs that what is in flight is above both the last stop and
what runs. `Orderly` extends it for the teardown: while it drains, whatever is
registered is still on its list (`ToBeStopped`), because nothing commits once the
flag is set. `Budgeted` bounds the counts that tasks carry. `StepShape` and
`PassiveStep` state once what most steps leave alone.

For the refinement, each step is a step of the supervisor or leaves its five
variables alone. Most follow from the action itself; that a commit is a `ComeUp`
does not: the child that a task registers must be the one of the generation
admitted at that moment, after an await in which everything else may have moved.
`start_is_current` compares generations only, and that the child is of the
generation compared is `ChildHeld`.

`NoPhantoms` and `SavedWhenQuiet` are promised only without faults: a save that failed is not made up
for, and a handler that was dropped leaves the status that it was going to
replace. They say what holds when nobody is at work, so their invariant `Kept`
says who will see to it while somebody is. `Minded`: for each tunnel whose status
does not agree with the maps, some task answers for it, because it holds the
start in flight, the restart or the stop that will write the status. `Saving`:
if memory and file differ, some task has its save still to come. `Roles` ties a
task's step to what it has detached or begun, so that a task which finds itself
overtaken can only have been so by one that now answers instead. Each step either
leaves the one who answers where it is, or puts things right, or hands over; and
where no task is under way nobody answers, so all is in order. From the beginning
of a shutdown nothing is promised.

`StatePersistenceProofs`, for any handlers, any number of changes and any set of
events:

| theorem | property |
|---|---|
| `TypeCorrect` | `StoreTypeOK`; at most one handler is in the section under the lock |
| `FileAlwaysWhole` | `WholeFile` |
| `AckedAlwaysKept` | `AckedIsSaved` |
| `StoreImplemented` | `ImplementsStore`: every step is a step of `DurableStore` or stutters |

Its inductive invariant `Durable` adds that exactly the saving handlers hold the
lock (`Locked`), that only synced files are renamed (`Renamed`), and what a save
in progress is about to put into the file (`Kept`, `Progress`): its snapshot has
its own change and all that the file has, and memory has the snapshot. That is
what makes a snapshot taken under the lock at least as new as the file. For the
refinement, the rename is the abstract save, an answer is the part of it that
acknowledges, the drop of a handler in its rename and a reload that undoes a
change void the promise, and everything else stutters.

`RouteTableProofs`, for any routes, gates, payloads, settings and config files:

| theorem | property | invariant |
|---|---|---|
| `TypeCorrect` | `TypeOK` | `Typed`, which also types what a handler holds at each of its steps |
| `RoutesUnique` | `UniqueRoutes` | `OneEach`: also what is being brought in by a reload has each id once |
| `GatesOwned` | `GatesHaveRoutes` | `AllOwned`: in memory and in the file, as a restart brings the file back |
| `CodesAreKept` | `CodesKept` | none beyond `Typed`; a case analysis of `Next`, with lemmas on what removal and migration do to the two keys of a route |

`ControlProofs`, for any window, callers, codes and ticks; for any clients, tunnels,
routes, delays and capacity of a channel (the name for "no current tunnel" is not a
tunnel's); and for any users, routes, bodies, forms, targets and losses (the names
for a missing or empty code are not codes):

| theorem | property | invariant |
|---|---|---|
| `TypeCorrect` | `UnlockTypeOK` | itself |
| `WindowAlwaysHonoured` | `WindowHonoured` | `SameWindow`, `Told` |
| `StreamsTyped` | `StreamTypeOK` | `Streaming` |
| `ViewsAlwaysAgree` | `ViewsAgree` | `Streaming` |
| `CommandsTyped` | `ClientTypeOK` | `Delivering` |
| `CommandsAlwaysDeliver` | `CommandsDeliver` | `Delivering` |

`SameWindow` says that the lock is open exactly in the window of the unlock in
force, `Told` that the last request was judged by it. `Streaming` says of each
stream that what its client has seen, what waits in the channel, what it is about
to send and the state of the daemon are in this order (`InOrder`), and that a
dashboard half built is of the state as it is, unless that has changed since
(`HalfBuilt`). A client that comes back has left the old channel, so nothing older
can follow; that the views of one state agree needs no invariant. `Delivering`
says at each step of a command what the daemon is, seen from what it was at the
first (`Saving`, `Defaulting`, `Exposing`, `Unexposing`): untouched until the first
write, then different in the route alone, and so on; that the TTL which `save_route`
writes back is the old one needs besides that no public route has a code or a TTL of
its own (`Sound`). A change by somebody else ends what is promised, so one lemma
(`MoveKeeps`) does for all the other users, and each step has one of its own.

`DesktopProofs`, for any finite set of callers, any ids, secrets and profiles, any
tools, jobs, binaries and updates:

| theorem | property | invariant |
|---|---|---|
| `NoDaemonStrays` | `NoStrayDaemon` | `Owned` |
| `SecretsStayOwn` | `NoInheritedSecret` | `Profiling` |
| `ExecutablesStayWhole` | `ExecutablesWhole` | `Executables` |
| `InstallersTyped` | `InstallersTypeOK` | `Executables` |
| `DesktopTyped` | `DeskTypeOK` | `Owned`, and `Aside` for what the daemons of the app do not depend on |
| `ProfilesTyped` | `ProfilesTypeOK` | `Kinds` |

`Owners` says, while starts have not overlapped and the app runs, who has each
daemon that holds a port, that at most one caller starts one, that what it holds is
at the stage of its step, and that meanwhile the runtime state has none; that a
second starter is an overlap is a fact about cardinalities (`FS_` facts of the
library). `Profiling` is
`Kinds`, the types, and, while no id stands for two profiles, `Separate`: every secret
in the file, in the window and in the copy of a command was entered for the profile it
stands at (`OwnIn`); an entry of the keyring that a command has come past (`Past`)
holds a secret of the profile in its copy (`OwnTask`); and what the keyring has for a
profile of the file was entered for it, or written by a command that is about to put
another one in its place (`OwnKeyring`, `Displacing`). That is why a load which runs
in the middle of such a save would meet the wrong secret, and why `Clash` names
exactly that meeting: commands that are at an id at once then have the same profile
there (`SameProfile`), so what one writes suits the other. There is one lemma for what
a step does that leaves the keyring alone, one for the write of an entry and one for
the write of the file, and each action is one of them. `Executables`
follows a download from its claim to the rename: a job at work has its tool to
itself (`Claimed`), what it moves it has verified (`Verified`), and it keeps that
the stable path is good or absent (`ToolsGood`); for updates that do not overlap,
which of the three files of a binary is whole at each step (`Swapping`, `OwnWhole`).

`DaemonProofs`, for any daemons, pids, command lines and bounds (the name for "no
daemon" is not one of theirs), and for any tunnels, addresses and workers:

| theorem | property | invariant |
|---|---|---|
| `BootTypeCorrect` | `BootTypeOK` | `Typed`: also what a daemon holds at each step of its start |
| `NeverSilent` | `NoSilentOrphan` | `NeverLost` |
| `TokensHonoured` | `TokenHonoured` | `OneToken` |
| `ListenersTypeCorrect` | `ListenersTypeOK` | `Owned` |
| `ListenersAlwaysOwned` | `ListenersOwned` | `Owned` |

As long as no data directory is shared, `NeverLost` is `Lone`: only one daemon is
up; the file names every provider that has lost its parent (`OrphansNamed`); what
a daemon has read is what the file says until it has signalled, and what it keeps
in memory from then on names every orphan too, so a save may put it into the file
(`RememberedOf`); a child is about to be recorded, excused or in the file
(`RecordedOf`). `Stages` says at which steps of a start a daemon has children and
claims a provider. `OneToken`: whoever holds a token that it advertises holds the
one on disk; while there is none, one daemon at most has minted one, and it does
not serve yet.

In `Owned`, `TableOpen` and `HandsOpen` say that the table and the starts about to
insert have open listeners, one each; `OneSocket` that no two sockets have one
address; `OpenOwned` who has an open one; `ClosingAwaited` that whoever closed one
still waits for it, but for a shutdown and a dropped handler; `Solitude` what a
start that is alone can rely on. The last two together give that its address is
free: a socket on it would be open, and then somebody's, or closing, and then
somebody would be waiting.

`ProviderLogProofs`, for any tunnels, sizes, cap, number of backups, lines,
followers and failures:

| theorem | property | part of the invariant |
|---|---|---|
| `LogTypeCorrect` | `LogTypeOK`: also what a start leaves behind | `StartupInv`, and what the others say of types |
| `NewestLinesKept` | `NewestKept` | `DiskInv`, `SinkInv`, with `HandInv` |
| `FollowersInOrder` | `FollowerInOrder` | `FollowInv`, with `DiskInv` |

Its inductive invariant `LogInv` is about the lines on disk by their numbers, file by
file: a line in hand was emitted and not appended (`HandInv`), the files and their
lines are in order and without a gap below the last one appended (`DiskInv`). What a
rotation does between two of its file operations is safe because a shift moves into
an empty slot or over the oldest backup, whatever failed before, and because the
count `written` of the sink is the length of the live file except between the
sealing of the old one and the opening of the new, and unless that length could not
be read (`SinkInv`, `Counted`). A gap takes a backup that was renamed over unseen
(`NoOtherGap`). What a follower was
sent, what it has read and not sent yet, and the lines it will still read follow each
other, where it will read what ends past its offset, or the whole log if that is
shorter than the offset (`FollowInv`).

`GatewayProofs`, for any requests, tunnels, codes, headers, upstreams and limits,
any tables of routes that have an upstream (`RoutesAssumption`) and any settings of
the gates:

| theorem | property | part of the invariant |
|---|---|---|
| `TypeCorrect` | `TypeOK` | `ConfigTyped`, `MonitorTyped`, `SlotsHeld`, `Requesting` |
| `NeverPast` | `NeverPastGate` | `Gated` |
| `CodeStays` | `CodeStaysHere` | `Coded` |
| `Failover` | `FailoverFaithful` | `Targeted` |
| `Bursts` | `BurstBound` | `Limited` |
| `Followed` | `FollowedBack` | `Requesting`: a request that was answered has a route |

What is said of a request is `Good(q, gates)`, about its own record and the gates
as they are: there is one lemma for each thing that can happen to a request, the
edit of a gate included, and the steps of the others leave its record alone. The
history marks of the properties (`exposed`, `stale`) are what an edit between two
reads must set. `Targeted` splits the upstreams of the route into those sent to
and those still to try. `Limited` relates the bucket of a key to the counts for
every shorter span (`Filling`): less than the bucket's count since the tick after
it started, and at most a full bucket before, which is why the bound is twice the
limit less one and not the limit.

`Followed` needs little of the state and much of paths, which are sequences of
characters of any length: that one is a prefix of another, what is left behind it,
what joining two gives are lemmas that tell a path place by place (`PrefixIs`, `Cut`,
`Joined` and what follows from them), with no induction. The argument: a namespace
has one segment (`NamespacesAssumption`), a mount out of scope of the exceptions is
under none, so a path that was moved under a mount is neither moved again nor taken
for a namespace (`MovedOnce`); what is cut off on the way back is the mount and
nothing more (`ComesBack`, `AllMovedBack`); and a cookie's path was moved as the
references were (`StillCovered`).

**Only model-checked.** Liveness (`StartingEnds`, `ShutdownTerminatesAll`,
`Answered`, `ConfigTakesEffect`, `HealthConverges`, `ShutdownReturns`), which the
installed backends do not prove. The `TypeOK` of `serving` is the conjunction of the
types of the modules that take turns there; that conjunction is only checked, each
of its parts is proved in its own module (`LogTypeOK`, `UnlockTypeOK`,
`BootTypeOK`, `ListenersTypeOK`). The types of the modules in `clients`
(`StreamTypeOK`, `ClientTypeOK`, `DeskTypeOK`, `ProfilesTypeOK`,
`InstallersTypeOK`) and `StoreTypeOK` are theorems, and the runs check only what goes
beyond them.

## 5. Not modelled

- A loss of power: the directory of the state file is not synced, so the last
  rename may be gone; and the quarantine of a state file that does not parse.
- In the gateway: HTML and form parsing, signatures and attributes of cookies,
  error pages, the traffic of a WebSocket after its upgrade, streaming of bodies.
- The contents of requests and answers of the control plane, and their encoding;
  the CLI's parsing and output, and its commands of one request beyond that request.
- The window, the tray, diagnostics and labels of the desktop app, the web front
  end, and the transport of downloads.
- Build, release and documentation scripts.

## 6. Next

- `GatewayListeners` composed with `TunnelLifecycle`, to state what becomes of a
  listener that a stop closes under a start.
