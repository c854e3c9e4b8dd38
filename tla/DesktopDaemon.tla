--------------------------- MODULE DesktopDaemon ---------------------------
(***************************************************************************)
(* Who owns the daemon the desktop app talks to                            *)
(* (src/crates/tunnelmux-gui/src/daemon_manager.rs, embedded_daemon.rs).   *)
(* The callers of ensure_local_daemon are the bootstrap of setup(), the    *)
(* command of the window and every save of the settings; they share one    *)
(* DaemonRuntimeState behind a mutex that none of them holds over an       *)
(* await. A caller first asks whether a daemon answers on the control      *)
(* address, and adopts it when one does; otherwise one of them starts the  *)
(* daemon inside this process, and the others wait for it.                 *)
(*                                                                         *)
(* Only the default address is modelled: another base_url is probed and    *)
(* nothing is started for it. Somebody else's daemon, or a program that    *)
(* holds its ports and does not answer, may come and go, Outside times.    *)
(***************************************************************************)
EXTENDS Naturals, FiniteSets

CONSTANTS
  Windows,     \* the callers of ensure_local_daemon
  MaxStarts,   \* how many embedded daemons the app may try to start
  Polls,       \* wait_for_bootstrap_completion: looks before it gives up (40)
  Outside,     \* how often somebody else's daemon may be started
  NoDaemon     \* runtime.embedded and task.holds: none

ASSUME DesktopAssumption ==
  /\ IsFiniteSet(Windows)
  /\ MaxStarts \in Nat \ {0} /\ Polls \in Nat \ {0} /\ Outside \in Nat
  /\ NoDaemon \notin 1 .. MaxStarts

VARIABLES
  desk,      \* DaemonRuntimeState: connection, embedded, bootstrapping
  hosted,    \* the embedded daemons of this process, by the order of their starts
  theirs,    \* somebody else's program: whether it is up, and how often it may yet start
  ensure,    \* one record per caller: where it stands in ensure_local_daemon
  app,       \* the process: "running", "exiting" (RunEvent::Exit) or "gone",
             \* and the daemon its exit has taken to shut it down
  overlapped \* history: two attempts to start have been under way at once

deskVars == <<desk, hosted, theirs, ensure, app, overlapped>>

Embeddeds == 1 .. MaxStarts

(* An embedded daemon is not started, holds the control port, serves on it  *)
(* and on the gateway port, or has been shut down. A handle that is dropped *)
(* instead closes its sender: the control plane stops, and the monitors,    *)
(* the gateway listener and the providers stay, with nobody to stop them.   *)
(* A start that fails after the gateway port was bound leaves that listener,*)
(* a task of its own, behind: "listening".                                  *)
Stages == {"unborn", "bound", "serving", "stopped", "abandoned", "listening"}

(***************************************************************************)
(* The two ports.                                                          *)
(***************************************************************************)
ControlPortTaken ==
  theirs.up \/ \E n \in Embeddeds : hosted[n] \in {"bound", "serving"}

GatewayPortTaken ==
  theirs.up \/ \E n \in Embeddeds : hosted[n] \in {"serving", "abandoned", "listening"}

(* /v1/health: a daemon that has only bound its port answers once it serves.*)
(* A probe fails when nobody holds the port, when the one that does is no   *)
(* daemon, and when its request is cut off or times out: also a probe of    *)
(* the app's own daemon.                                                    *)
SomebodyAnswers == theirs.up \/ \E n \in Embeddeds : hosted[n] = "serving"

(***************************************************************************)
(* A caller. It idles, probes, has an unanswered probe behind it ("claim"),*)
(* and then either waits or is the one that starts: it takes the previous  *)
(* daemon and shuts it down ("replacing"), binds, serves and finishes.     *)
(***************************************************************************)
Starter == {"taking", "replacing", "binding", "opening", "started", "failed"}
Where == {"idle", "probing", "claim", "waiting"} \union Starter

Idle == [at |-> "idle", holds |-> NoDaemon, looks |-> 0]

Goes(c, place) == ensure' = [ensure EXCEPT ![c].at = place]

(* A handle that nobody keeps is dropped. *)
Dropped(n, stages) ==
  IF n = NoDaemon THEN stages ELSE [stages EXCEPT ![n] = "abandoned"]

DeskInit ==
  /\ desk = [connection |-> "unavailable", embedded |-> NoDaemon,
             bootstrapping |-> FALSE]
  /\ hosted = [n \in Embeddeds |-> "unborn"]
  /\ theirs \in [up : BOOLEAN, starts : {Outside}]
  /\ ensure = [c \in Windows |-> Idle]
  /\ app = [is |-> "running", holds |-> NoDaemon]
  /\ overlapped = FALSE

Probe(c) ==
  /\ app.is = "running" /\ ensure[c].at = "idle"
  /\ Goes(c, "probing")
  /\ UNCHANGED <<desk, hosted, theirs, app, overlapped>>

(* An answering daemon always wins: it is adopted, and the flag is cleared  *)
(* whoever had set it. The app's own daemon answers like any other.         *)
Adopt(c) ==
  /\ ensure[c].at = "probing" /\ SomebodyAnswers
  /\ desk' = [desk EXCEPT !.connection = "external", !.bootstrapping = FALSE]
  /\ ensure' = [ensure EXCEPT ![c] = Idle]
  /\ UNCHANGED <<hosted, theirs, app, overlapped>>

ProbeFails(c) ==
  /\ ensure[c].at = "probing"
  /\ Goes(c, "claim")
  /\ UNCHANGED <<desk, hosted, theirs, app, overlapped>>

(* The one critical section that makes the start single-flight. *)
Claim(c) ==
  /\ ensure[c].at = "claim"
  /\ IF desk.bootstrapping
       THEN Goes(c, "waiting") /\ UNCHANGED desk
       ELSE /\ desk' = [desk EXCEPT !.bootstrapping = TRUE,
                                    !.connection = "unavailable"]
            /\ Goes(c, "taking")
  /\ overlapped' = (overlapped \/ Cardinality({w \in Windows : ensure'[w].at \in Starter}) > 1)
  /\ UNCHANGED <<hosted, theirs, app>>

(* wait_for_bootstrap_completion *)
Look(c) ==
  /\ ensure[c].at = "waiting"
  /\ IF desk.bootstrapping /\ ensure[c].looks + 1 < Polls
       THEN ensure' = [ensure EXCEPT ![c].looks = @ + 1]
       ELSE ensure' = [ensure EXCEPT ![c] = Idle]
  /\ UNCHANGED <<desk, hosted, theirs, app, overlapped>>

TakePrevious_NotShutDown(c) ==
  /\ ensure[c].at = "taking"
  /\ Goes(c, "binding")
  /\ UNCHANGED <<desk, hosted, theirs, app, overlapped>>

TakePrevious(c) ==
  /\ ensure[c].at = "taking"
  /\ desk' = [desk EXCEPT !.embedded = NoDaemon]
  /\ ensure' = [ensure EXCEPT ![c].holds = desk.embedded,
                  ![c].at = IF desk.embedded = NoDaemon THEN "binding" ELSE "replacing"]
  /\ UNCHANGED <<hosted, theirs, app, overlapped>>

(* DaemonHandle::shutdown: the tunnels, the gateway, the control plane. *)
StopPrevious(c) ==
  /\ ensure[c].at = "replacing"
  /\ hosted' = [hosted EXCEPT ![ensure[c].holds] = "stopped"]
  /\ ensure' = [ensure EXCEPT ![c].holds = NoDaemon, ![c].at = "binding"]
  /\ UNCHANGED <<desk, theirs, app, overlapped>>

(* tunnelmuxd::start: the control port first, the gateway port once the     *)
(* leftovers are reclaimed, then the token is written. A start that fails   *)
(* drops the control port; a gateway listener that is up stays up.          *)
Bind(c) ==
  /\ ensure[c].at = "binding"
  /\ IF ControlPortTaken
       THEN Goes(c, "failed") /\ UNCHANGED hosted
       ELSE \E n \in Embeddeds :
              /\ hosted[n] = "unborn" /\ \A m \in 1 .. n - 1 : hosted[m] # "unborn"
              /\ hosted' = [hosted EXCEPT ![n] = "bound"]
              /\ ensure' = [ensure EXCEPT ![c].holds = n, ![c].at = "opening"]
  /\ UNCHANGED <<desk, theirs, app, overlapped>>

OpenGateway(c) ==
  /\ ensure[c].at = "opening"
  /\ IF GatewayPortTaken
       THEN /\ hosted' = [hosted EXCEPT ![ensure[c].holds] = "stopped"]
            /\ ensure' = [ensure EXCEPT ![c].holds = NoDaemon, ![c].at = "failed"]
       ELSE \/ /\ hosted' = [hosted EXCEPT ![ensure[c].holds] = "serving"]
               /\ Goes(c, "started")
            \/ /\ hosted' = [hosted EXCEPT ![ensure[c].holds] = "listening"]
               /\ ensure' = [ensure EXCEPT ![c].holds = NoDaemon, ![c].at = "failed"]
  /\ UNCHANGED <<desk, theirs, app, overlapped>>

(* The result is stored whatever else has been stored in the meantime; the  *)
(* assignment drops the handle it replaces.                                 *)
Finish(c) ==
  /\ ensure[c].at \in {"started", "failed"}
  /\ desk' = [connection |-> IF ensure[c].at = "started" THEN "embedded" ELSE "unavailable",
              embedded |-> ensure[c].holds, bootstrapping |-> FALSE]
  /\ hosted' = Dropped(desk.embedded, hosted)
  /\ ensure' = [ensure EXCEPT ![c] = Idle]
  /\ UNCHANGED <<theirs, app, overlapped>>

(***************************************************************************)
(* Quitting: ExitRequested only keeps the window from hiding; Exit takes   *)
(* the embedded daemon, clears the flag whoever had set it, shuts the      *)
(* daemon down and ends the process with every task in it.                 *)
(***************************************************************************)
Exit ==
  /\ app.is = "running"
  /\ app' = [is |-> "exiting", holds |-> desk.embedded]
  /\ desk' = [connection |-> "unavailable", embedded |-> NoDaemon,
              bootstrapping |-> FALSE]
  /\ UNCHANGED <<hosted, theirs, ensure, overlapped>>

ExitDone ==
  /\ app.is = "exiting"
  /\ app' = [is |-> "gone", holds |-> NoDaemon]
  /\ hosted' = [n \in Embeddeds |->
                  IF hosted[n] = "unborn" THEN "unborn" ELSE "stopped"]
  /\ ensure' = [c \in Windows |-> Idle]
  /\ UNCHANGED <<desk, theirs, overlapped>>

(* Somebody else's daemon. *)
TheyStart ==
  /\ theirs.starts > 0 /\ ~ControlPortTaken /\ ~GatewayPortTaken
  /\ theirs' = [up |-> TRUE, starts |-> theirs.starts - 1]
  /\ UNCHANGED <<desk, hosted, ensure, app, overlapped>>

TheyStop ==
  /\ theirs.up
  /\ theirs' = [theirs EXCEPT !.up = FALSE]
  /\ UNCHANGED <<desk, hosted, ensure, app, overlapped>>

EnsureStep(c) ==
  \/ Adopt(c) \/ ProbeFails(c) \/ Claim(c) \/ Look(c) \/ TakePrevious(c)
  \/ StopPrevious(c) \/ Bind(c) \/ OpenGateway(c) \/ Finish(c)

DeskNext ==
  \/ \E c \in Windows : Probe(c) \/ (app.is # "gone" /\ EnsureStep(c))
  \/ Exit \/ ExitDone \/ TheyStart \/ TheyStop

DeskSpec == DeskInit /\ [][DeskNext]_deskVars

(***************************************************************************)
(* Properties.                                                             *)
(***************************************************************************)
DeskTypeOK ==
  /\ desk \in [connection : {"unavailable", "external", "embedded"},
               embedded : Embeddeds \union {NoDaemon}, bootstrapping : BOOLEAN]
  /\ hosted \in [Embeddeds -> Stages]
  /\ theirs \in [up : BOOLEAN, starts : 0 .. Outside]
  /\ ensure \in [Windows -> [at : Where, holds : Embeddeds \union {NoDaemon},
                             looks : 0 .. Polls]]
  /\ overlapped \in BOOLEAN
  /\ app \in [is : {"running", "exiting", "gone"}, holds : Embeddeds \union {NoDaemon}]

(* The flag of ensure_local_daemon makes the start single-flight: a         *)
(* concurrent second caller waits for the first attempt instead of racing   *)
(* it for the same port.                                                    *)
SingleFlight ==
  app.is = "running" =>
    Cardinality({c \in Windows : ensure[c].at \in Starter}) <= 1

(* The app is the single owner of what it starts, as long as its attempts   *)
(* do not overlap: a daemon that holds a port of this process is the one of *)
(* the runtime state, or in the hands of the caller that is starting or     *)
(* replacing it. One that is in nobody's hands keeps the gateway port, and  *)
(* its tunnels public, until the app is quit. Not meant is the bare gateway *)
(* listener of a start that could not write its token: nobody can stop it.  *)
NoStrayDaemon ==
  app.is = "running" /\ ~overlapped =>
    \A n \in Embeddeds :
      hosted[n] \in {"bound", "serving", "abandoned"} =>
        \/ desk.embedded = n /\ hosted[n] = "serving"
        \/ \E c \in Windows : ensure[c].holds = n
=============================================================================
