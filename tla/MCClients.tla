------------------------------ MODULE MCClients ------------------------------
(***************************************************************************)
(* Instances of ControlStreams, RouteClients, DesktopDaemon, Installers and *)
(* DesktopProfiles. They share no variable; each slice runs one of them,    *)
(* the others stay where they began.                                        *)
(***************************************************************************)
EXTENDS ControlStreams, RouteClients, DesktopDaemon, Installers, DesktopProfiles

CONSTANTS t1, t2, i1, i2, x, y, bad, k, tgt, u1, u2, cf, ng, j1, j2, s1

MCForm(mode, code) == [mode |-> mode, code |-> code]
MCForms ==
  {MCForm("inherit", Unset), MCForm("public", Unset), MCForm("custom", k),
   MCForm("custom", Blank), MCForm("other", Unset), MCForm(Unset, Unset),
   MCForm(Unset, k), MCForm(Unset, Blank)}

VARIABLE slice

mcVars == <<streamVars, clientVars, deskVars, installersVars, profileVars, slice>>

\* The tunnel asks for one provider; the second route has no gate of its own.
MCDaemon(routes) ==
  [routes |-> routes, gates |-> [i \in Ids |-> NoGate],
   default |-> [code |-> Blank, ttl |-> FALSE], tunnel |-> [state |-> "down", target |-> tgt]]

\* Two profiles, one with a secret.
MCTwo == [id \in Slots |-> [made |-> id, secret |-> NoSecret]]
MCShown == [MCTwo EXCEPT ![1].secret = s1]

MCInit ==
  /\ slice \in {"streams", "one command", "two commands", "desk", "installs", "updates",
                "new", "hand", "again"}
  /\ StreamInit /\ (slice # "streams" => world.routes = {})
  /\ IF slice \in {"one command", "two commands"}
       THEN /\ ClientInit
            /\ daemon.tunnel.target = tgt /\ daemon.gates[i2] = NoGate
            /\ daemon.routes[i2] # y /\ daemon.routes[i1] # y
            /\ daemon.routes[i2] = x => daemon.gates[i1] = NoGate
            /\ slice = "two commands" => daemon.default.code = Blank /\ ~daemon.default.ttl
       ELSE /\ daemon = MCDaemon([i \in Ids |-> NoRoute])
            /\ task = [u \in Users |-> Fresh] /\ losses = 0
  /\ DeskInit /\ (slice # "desk" => ~theirs.up)
  /\ InstallersInit /\ tools[ng].stable = "good"
  /\ (slice # "installs" => tools[cf].stable = "good")
  /\ (slice # "updates" => system = "unix")
  /\ IF slice \in {"hand", "again"}
       THEN /\ stored = MCTwo /\ window = MCShown /\ made = 2
            /\ keyring = [id \in Slots |-> MCShown[id].secret]
            /\ command = [c \in Threads |-> AtRest] /\ troubles = 0 /\ mixed = FALSE
            /\ entered = [m \in 1 .. MaxMade |-> IF m > 2 THEN {} ELSE {MCShown[m].secret}]
       ELSE ProfilesInit

\* Streams of the current tunnel, and dashboards of one that is named.
MCStreams ==
  /\ slice = "streams" /\ StreamNext
  /\ world'.running \union world'.pending \subseteq {t1}
  /\ \A c \in Clients: stream'[c].tunnel \in {None} \union
       (IF stream'[c].kind = "dashboard" THEN {t2} ELSE {})

\* One command on the first route, with two losses; or one without, next to a
\* request of another user.
MCOneCommand ==
  /\ slice = "one command" /\ (CommandStep(u1) \/ OneRequest(u1) \/ DaemonEvent)
  /\ task'[u1].id \in {i1, ""}

MCTwoCommands ==
  /\ slice = "two commands" /\ (CommandStep(u1) \/ OneRequest(u2) \/ DaemonEvent)
  /\ losses' = 0 /\ task'[u1].id \in {i1, ""}

\* Two installs of the same tool and one mishap, the window looking on; or one
\* next to an install of another tool.
MCInstalls ==
  /\ slice = "installs" /\ InstallersNext /\ mishaps' <= 1 /\ update' = update
  /\ jobs'[j1].at # "shown" /\ jobs'[j1].tool \in {"", cf}
  /\ jobs'[j2].tool = ng => mishaps' = 0

MCUpdates ==
  /\ slice = "updates" /\ InstallersNext
  /\ \A j \in Jobs : jobs'[j].at = "idle"

\* Entries of the keyring in the order of their ids, the window's commands that
\* only load on the main thread. Once an id stood for two profiles there is
\* nothing left to check.
MCProfiles ==
  /\ slice \in {"new", "hand", "again"} /\ ~mixed /\ ProfilesNext
  /\ \A c \in Threads :
       LET r == command[c]
           next == command'[c]
       IN  /\ r.at = next.at => \A id \in r.todo \ next.todo, n \in next.todo : id < n
           /\ c \in Workers /\ r.at = "idle" /\ next.at = "load" => next.does # "look"
  /\ slice = "new" => made' <= 1
  /\ slice # "new" => \A c \in Threads : command'[c].form.id # 2
  /\ slice = "again" => stored' = Sanitized(stored')
  /\ slice = "hand" =>
       /\ troubles' = 0 /\ made' = 2 /\ stored'[1].secret = NoSecret
       /\ \A c \in Threads : command'[c].does \notin {"select", "ask"}

MCNext ==
  /\ slice' = slice
  /\ \/ /\ MCStreams
        /\ UNCHANGED <<clientVars, deskVars, installersVars, profileVars>>
     \/ /\ MCOneCommand \/ MCTwoCommands
        /\ UNCHANGED <<streamVars, deskVars, installersVars, profileVars>>
     \/ /\ slice = "desk" /\ DeskNext
        /\ UNCHANGED <<streamVars, clientVars, installersVars, profileVars>>
     \/ /\ MCInstalls \/ MCUpdates
        /\ UNCHANGED <<streamVars, clientVars, deskVars, profileVars>>
     \/ /\ MCProfiles
        /\ UNCHANGED <<streamVars, clientVars, deskVars, installersVars>>

MCSpec == MCInit /\ [][MCNext]_mcVars /\ StreamFairness
=============================================================================
