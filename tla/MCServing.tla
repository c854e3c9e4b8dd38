------------------------------ MODULE MCServing ------------------------------
(***************************************************************************)
(* Instances of ProviderLog, UnlockWindow, DaemonBoot and GatewayListeners. *)
(* They share no variable; each slice runs one of them, the others stay     *)
(* where they began.                                                        *)
(***************************************************************************)
EXTENDS ProviderLog, UnlockWindow, DaemonBoot, GatewayListeners

CONSTANTS t1, t2, d1, d2, p1, p2

MCCommand(port, gateway, auth, keep) ==
  [port |-> port, gateway |-> gateway, auth |-> auth, keep |-> keep]

\* The same command twice is a second instance; another one has ports of its
\* own and keeps leftovers, the third an explicit token and a taken gateway port.
MCArguments ==
  {MCCommand("c1", "g1", "require", FALSE), MCCommand("c2", "g2", "require", TRUE),
   MCCommand("c2", "g1", "explicit", FALSE)}

VARIABLE slice

servingVars == <<logVars, unlockVars, bootVars, listenerVars, slice>>

MCConfig(mode, token, fixed) == [mode |-> mode, token |-> token, fixed |-> fixed]
AuthOff == MCConfig("off", FALSE, FALSE)
MCConfigs ==
  {AuthOff, MCConfig("optional", FALSE, FALSE), MCConfig("optional", TRUE, FALSE),
   MCConfig("require", TRUE, TRUE)}

\* Both providers are up, named, and their stdout is read.
LogRunning ==
  /\ files = [i \in 0..MaxFiles |-> <<>>] /\ present = {}
  /\ sink = [open |-> FALSE, written |-> 0, overdue |-> FALSE] /\ gapped = FALSE
  /\ holder = [pipe |-> Nobody, at |-> "idle", index |-> 0]
  /\ inHand = [q \in Pipes |-> <<>>]
  /\ pipe = [q \in Pipes |-> IF q[2] = "stdout" THEN "open" ELSE "off"]
  /\ channel = [t \in Tunnels |-> <<>>]
  /\ startup = [t \in Tunnels |-> [NotStarted EXCEPT !.at = "up", !.request.token = TRUE]]
  /\ provider = [t \in Tunnels |-> "alive"]
  /\ follower = [f \in Followers |-> NoFollower]
  /\ serial = 0 /\ emitted = 0 /\ failures = 0

MCInit ==
  /\ slice \in {"startup", "log", "unlock", "boot", "listeners"}
  /\ UnlockInit /\ BootInit /\ ListenersInit
  /\ IF slice = "log" THEN LogRunning ELSE LogInit
  /\ cfg \in IF slice = "unlock" THEN MCConfigs ELSE {AuthOff}

\* Two lines, of any kind and from any of a tunnel's pipes, around its start.
MCStartup ==
  /\ slice = "startup" /\ LogNext
  /\ emitted' <= 2 /\ follower' = follower /\ startup'[t2].at = "off"

\* Lines of two tunnels and two sizes, one in hand at a time, a cap, two
\* backups, a follower, and a daemon that is killed and starts t1 again.
MCLog ==
  /\ slice = "log" /\ LogNext
  /\ \A t \in Tunnels:
       /\ \/ startup'[t] = startup[t] \/ startup'[t].at = "off"
          \/ startup[t].at = "off" /\ startup'[t].request.token
          /\ startup'[t].request.provider = "cloudflared"
       /\ provider'[t] # "dead" /\ pipe'[<<t, "stdout">>] # "closed"
       /\ pipe'[<<t, "stderr">>] = "open" => pipe[<<t, "stderr">>] # "closed"
  /\ \A q \in Pipes: inHand'[q] # <<>> =>
       /\ inHand'[q][1].text = "plain" /\ q[2] = "stdout"
       /\ q[1] = t2 => inHand'[q][1].size = 1
  /\ Cardinality({q \in Pipes: inHand'[q] # <<>>}) <= 1
  /\ \A f \in Followers: follower'[f].tunnel # t2

MCUnlock == slice = "unlock" /\ UnlockNext

\* Daemons and pids are alike: d2 starts next to d1, and p1 is used first.
MCBoot ==
  /\ slice = "boot" /\ BootNext
  /\ host'[d2].at = "bind" => host[d1].at # "off"
  /\ process'[p2] # "free" => process[p1] # "free" \/ process[p2] # "free"

MCListeners == slice = "listeners" /\ ListenersNext

MCNext ==
  /\ slice' = slice
  /\ \/ (MCStartup \/ MCLog) /\ UNCHANGED <<unlockVars, bootVars, listenerVars>>
     \/ MCUnlock /\ UNCHANGED <<logVars, bootVars, listenerVars>>
     \/ MCBoot /\ UNCHANGED <<logVars, unlockVars, listenerVars>>
     \/ MCListeners /\ UNCHANGED <<logVars, unlockVars, bootVars>>

MCSpec == MCInit /\ [][MCNext]_servingVars

TypeOK == LogTypeOK /\ UnlockTypeOK /\ BootTypeOK /\ ListenersTypeOK
=============================================================================
