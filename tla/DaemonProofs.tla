----------------------------- MODULE DaemonProofs -----------------------------
(***************************************************************************)
(* Proofs about what daemons hold of the machine they run on: DaemonBoot,  *)
(* for any daemons, command lines, pids and numbers of boots and troubles, *)
(* and GatewayListeners, for any tunnels, addresses, workers and bounds.   *)
(*                                                                         *)
(* No provider is lost, because the daemon that is alone with a data       *)
(* directory carries in its memory what the file will say next; the token  *)
(* on disk is honoured, because whoever mints is the only one that has a   *)
(* token, and is so until it has written it; every listener has its owner, *)
(* and a start that is alone gets its address.                             *)
(***************************************************************************)
EXTENDS DaemonBoot, GatewayListeners, TLAPS

-----------------------------------------------------------------------------
(* DaemonBoot *)


Places == {"off", "bind", "token", "load", "reclaim", "signal", "kill",
           "save", "gateway", "advertise", "serve"}

Hosts == [at: Places, args: Arguments \cup {NoArguments}, token: Int, new: Pids \cup {NoPid}]

\* The types of all variables; BootTypeOK has those that say something to TLC.
Typed ==
  /\ host \in [Daemons -> Hosts]
  /\ stateFile \in Record /\ status \in [Daemons -> Record]
  /\ process \in [Pids -> {"free", "provider", "other"}]
  /\ parent \in [Pids -> Daemons \cup {Nil}]
  /\ tokenFile \in Int /\ minted \in Nat
  /\ boots \in 0..MaxBoots /\ troubles \in 0..MaxTroubles
  /\ shared \in BOOLEAN /\ raced \in BOOLEAN

\* A record that claims a provider has forgotten what it told the operator.
Consistent(s) == Claims(s) => s.told = NoPid

\* Who may have children, a child that is not recorded yet, and a claim.
Stages ==
  /\ Consistent(stateFile)
  /\ \A p \in Pids: parent[p] # Nil => Serving(parent[p]) /\ process[p] = "provider"
  /\ \A d \in Daemons:
       /\ Consistent(status[d])
       /\ host[d].new # NoPid => Serving(d) /\ status[d].claims
       /\ host[d].at \in {"signal", "kill"} => status[d].pid # NoPid
       /\ host[d].at \in {"save", "gateway", "advertise"} => ~Claims(status[d])

Orphan(p) == process[p] = "provider" /\ p \notin excused /\ parent[p] = Nil
NamedIn(p, s) == p \in {s.pid, s.told}

\* What the daemon that reclaims has read is what the file says; what it has in
\* memory later names every orphan too, so it may become the file.
RememberedOf(d) ==
  /\ host[d].at \in {"reclaim", "signal", "kill"} => status[d] = stateFile
  /\ host[d].at \in {"save", "gateway", "advertise", "serve"} =>
       \A p \in Pids: Orphan(p) => NamedIn(p, status[d])

\* A child is about to be recorded, excused or in the file; and a pid that its
\* daemon remembers of a running provider is that of its child.
RecordedOf(d) ==
  /\ \A p \in Pids: parent[p] = d =>
       p \in excused \cup {host[d].new, stateFile.pid} /\ host[d].new \in {p, NoPid}
  /\ Serving(d) => \A p \in Pids: p \in {status[d].pid, host[d].new} /\ process[p] = "provider" =>
                                 parent[p] = d

OrphansNamed == \A p \in Pids: Orphan(p) => NamedIn(p, stateFile)

\* A daemon that has never shared its data directory.
Lone ==
  /\ \A d, e \in Daemons: Up(d) /\ Up(e) => d = e
  /\ OrphansNamed
  /\ \A d \in Daemons: RememberedOf(d) /\ RecordedOf(d)

NeverLost == Stages /\ (shared \/ Lone)

\* The daemons that have the token they will advertise, or have done so.
Holds(d) == Up(d) /\ Advertises(d) /\ host[d].at # "token"

HeldTokens == \A d \in Daemons: Holds(d) => host[d].token # NoToken

\* What is on disk is what they hold; while nothing is, one at most has minted.
OnDisk ==
  IF tokenFile # NoToken
    THEN \A d \in Daemons: Holds(d) => host[d].token = tokenFile
    ELSE /\ \A d, e \in Daemons: Holds(d) /\ Holds(e) => d = e
         /\ \A d \in Daemons: Holds(d) => ~Serving(d)

OneToken == HeldTokens /\ (raced \/ OnDisk)

LEMMA StepsTo ==
  ASSUME Typed, NEW d \in Daemons, NEW h \in Hosts, host' = [host EXCEPT ![d] = h]
  PROVE  /\ host' \in [Daemons -> Hosts]
         /\ host'[d] = h
         /\ \A e \in Daemons \ {d}: host'[e] = host[e]
BY DEF Typed

LEMMA MovesTo ==
  ASSUME Typed, NEW d \in Daemons, NEW at \in Places, Proceeds(d, at)
  PROVE  /\ host' \in [Daemons -> Hosts]
         /\ host'[d].at = at /\ host'[d].args = host[d].args
         /\ host'[d].token = host[d].token /\ host'[d].new = host[d].new
         /\ \A e \in Daemons \ {d}: host'[e] = host[e]
BY DEF Typed, Hosts, Proceeds

LEMMA GoesAway ==
  ASSUME Typed, NEW d \in Daemons, Fails(d)
  PROVE  /\ host' \in [Daemons -> Hosts]
         /\ host'[d].at = "off" /\ host'[d].new = NoPid /\ host'[d].token = NoToken
         /\ \A e \in Daemons \ {d}: host'[e] = host[e]
BY DEF Typed, Hosts, Fails, Off, Places, NoToken

LEMMA BootsUp ==
  ASSUME Typed, NEW d \in Daemons, Boot(d)
  PROVE  /\ host' \in [Daemons -> Hosts]
         /\ host'[d].at = "bind" /\ host'[d].new = NoPid /\ host'[d].token = NoToken
         /\ \A e \in Daemons \ {d}: host'[e] = host[e]
<1>1. PICK a \in Arguments:
        host' = [host EXCEPT ![d] = [Off EXCEPT !.at = "bind", !.args = a]]
  BY DEF Boot
<1> DEFINE booted == [Off EXCEPT !.at = "bind", !.args = a]
<1>2. Off \in Hosts /\ Off.new = NoPid /\ Off.token = NoToken
  BY DEF Off, Hosts, Places, NoToken
<1>3. booted \in Hosts /\ booted.at = "bind" /\ booted.new = NoPid /\ booted.token = NoToken
  BY <1>2 DEF Hosts, Places
<1> HIDE DEF booted
<1>4. /\ host' \in [Daemons -> Hosts] /\ host'[d] = booted
      /\ \A e \in Daemons \ {d}: host'[e] = host[e]
  BY <1>1, <1>3, StepsTo DEF booted
<1>5. QED BY <1>3, <1>4

LEMMA ResolvesTo ==
  ASSUME Typed, NEW d \in Daemons, ResolveToken(d)
  PROVE  /\ host' \in [Daemons -> Hosts]
         /\ host'[d].at = "load" /\ host'[d].new = host[d].new
         /\ host'[d].args = host[d].args /\ host'[d].token = TokenFor(d)
         /\ \A e \in Daemons \ {d}: host'[e] = host[e]
<1> DEFINE resolved == [host[d] EXCEPT !.at = "load", !.token = TokenFor(d)]
<1>1. TokenFor(d) \in Int
  BY DEF TokenFor, Secret, NoToken, Typed
<1>2. host' = [host EXCEPT ![d] = resolved]
  BY DEF ResolveToken, Typed
<1>3. /\ resolved \in Hosts /\ resolved.at = "load" /\ resolved.new = host[d].new
      /\ resolved.args = host[d].args /\ resolved.token = TokenFor(d)
  BY <1>1 DEF Typed, Hosts, Places
<1> HIDE DEF resolved
<1>4. host' \in [Daemons -> Hosts] /\ host'[d] = resolved
      /\ \A e \in Daemons \ {d}: host'[e] = host[e]
  BY <1>2, <1>3, StepsTo
<1>5. QED BY <1>3, <1>4

LEMMA Holding ==
  ASSUME Typed, NEW d \in Daemons, NEW p \in Pids \cup {NoPid},
         host' = [host EXCEPT ![d].new = p]
  PROVE  /\ host' \in [Daemons -> Hosts]
         /\ host'[d].new = p /\ host'[d].at = host[d].at /\ host'[d].args = host[d].args
         /\ host'[d].token = host[d].token
         /\ \A e \in Daemons \ {d}: host'[e] = host[e]
BY DEF Typed, Hosts

LEMMA RecordTyped ==
  ASSUME NEW s \in Record
  PROVE  s.claims \in BOOLEAN /\ s.pid \in Pids \cup {NoPid} /\ s.told \in Pids \cup {NoPid}
BY DEF Record

LEMMA ClearedTyped ==
  ASSUME Typed, NEW d \in Daemons, NEW told \in Pids \cup {NoPid}, Cleared(d, told)
  PROVE  /\ status' \in [Daemons -> Record]
         /\ status'[d] = [claims |-> FALSE, pid |-> NoPid, told |-> told]
         /\ \A e \in Daemons \ {d}: status'[e] = status[e]
BY DEF Typed, Record, Cleared, Stopped

LEMMA EndsTyped ==
  ASSUME Typed, NEW p, Ends(p)
  PROVE  /\ process' \in [Pids -> {"free", "provider", "other"}]
         /\ parent' \in [Pids -> Daemons \cup {Nil}]
         /\ \A q \in Pids: IF q = p THEN process'[q] = "free" /\ parent'[q] = Nil
                            ELSE process'[q] = process[q] /\ parent'[q] = parent[q]
BY DEF Typed, Ends

LEMMA ToldTyped ==
  ASSUME NEW p \in Pids, NEW answer, NEW keep
  PROVE  Told(p, answer, keep) \in Pids \cup {NoPid}
BY DEF Told

LEMMA TroubleTyped == Typed /\ (Trouble \/ Smooth) => troubles' \in 0..MaxTroubles
BY BootConstantsAssumption DEF Typed, Trouble, Smooth

LEMMA InitTyped == BootInit => Typed
<1> SUFFICES ASSUME BootInit PROVE Typed
  OBVIOUS
<1>1. Stopped \in Record /\ Off \in Hosts
  BY DEF Stopped, Record, Off, Hosts, Places, NoToken
<1>2. boots \in 0..MaxBoots /\ troubles \in 0..MaxTroubles
  BY BootConstantsAssumption DEF BootInit
<1>3. tokenFile \in Int /\ minted \in Nat
  BY DEF BootInit, NoToken
<1>4. QED BY <1>1, <1>2, <1>3 DEF BootInit, Typed

LEMMA StepTyped == Typed /\ [BootNext]_bootVars => Typed'
<1> SUFFICES ASSUME Typed, [BootNext]_bootVars PROVE Typed'
  OBVIOUS
<1> USE DEF histories, providers
<1>1. ASSUME NEW d \in Daemons, Boot(d) PROVE Typed'
  <2>2. host' \in [Daemons -> Hosts]
    BY <1>1, BootsUp
  <2>3. boots' \in 0..MaxBoots
    BY <1>1, BootConstantsAssumption DEF Boot, Typed
  <2>4. QED BY <1>1, <2>2, <2>3 DEF Boot, Typed
<1>2. ASSUME NEW d \in Daemons, BindControl(d) PROVE Typed'
  <2>1. host' \in [Daemons -> Hosts] /\ shared' \in BOOLEAN
    BY <1>2, MovesTo, GoesAway DEF BindControl, Places, Typed
  <2>2. QED BY <1>2, <2>1 DEF BindControl, Smooth, Typed
<1>3. ASSUME NEW d \in Daemons, ResolveToken(d) PROVE Typed'
  <2> DEFINE token == TokenFor(d)
  <2>1. token \in Int
    BY DEF TokenFor, Secret, NoToken, Typed
  <2>2. host' \in [Daemons -> Hosts]
    BY <1>3, ResolvesTo
  <2>3. minted' \in Nat /\ raced' \in BOOLEAN
    BY <1>3, <2>1 DEF ResolveToken, Typed
  <2>4. QED BY <1>3, <2>2, <2>3 DEF ResolveToken, Smooth, Typed
<1>4. ASSUME NEW d \in Daemons, LoadState(d) PROVE Typed'
  <2>1. host' \in [Daemons -> Hosts]
    BY <1>4, MovesTo, GoesAway DEF LoadState, Places
  <2>2. status' \in [Daemons -> Record] /\ troubles' \in 0..MaxTroubles
    BY <1>4, TroubleTyped DEF LoadState, Typed
  <2>3. QED BY <1>4, <2>1, <2>2 DEF LoadState, Typed
<1>5. ASSUME NEW d \in Daemons, NothingToReclaim(d) PROVE Typed'
  <2>1. host' \in [Daemons -> Hosts]
    BY <1>5, MovesTo DEF NothingToReclaim, Places
  <2>2. status' \in [Daemons -> Record]
    BY <1>5, ClearedTyped DEF NothingToReclaim, Typed
  <2>3. QED BY <1>5, <2>1, <2>2 DEF NothingToReclaim, Smooth, Typed
<1>6. ASSUME NEW d \in Daemons, LookAtPid(d) PROVE Typed'
  <2> DEFINE p == status[d].pid
  <2>1. p \in Pids
    BY <1>6 DEF LookAtPid, Typed, Record
  <2>2. PICK answer \in Answers(p):
          /\ IF answer = "unknown" THEN Trouble ELSE Smooth
          /\ IF answer = "running" /\ IsOurs(p) /\ ~host[d].args.keep
               THEN Proceeds(d, "signal") /\ UNCHANGED status
               ELSE Proceeds(d, "save") /\ Cleared(d, Told(p, answer, host[d].args.keep))
    BY <1>6 DEF LookAtPid
  <2>3. host' \in [Daemons -> Hosts]
    BY <2>2, MovesTo DEF Places
  <2>4. status' \in [Daemons -> Record]
    BY <2>1, <2>2, ClearedTyped, ToldTyped DEF Typed
  <2>5. troubles' \in 0..MaxTroubles
    BY <2>2, TroubleTyped
  <2>6. QED BY <1>6, <2>3, <2>4, <2>5 DEF LookAtPid, Typed
<1>7. ASSUME NEW d \in Daemons, SignalLeftover(d) PROVE Typed'
  <2>1. host' \in [Daemons -> Hosts]
    BY <1>7, MovesTo DEF SignalLeftover, Places
  <2>2. status' \in [Daemons -> Record]
    BY <1>7, ClearedTyped DEF SignalLeftover, Typed
  <2>3. /\ process' \in [Pids -> {"free", "provider", "other"}]
        /\ parent' \in [Pids -> Daemons \cup {Nil}]
    BY <1>7, EndsTyped DEF SignalLeftover, Typed
  <2>4. troubles' \in 0..MaxTroubles
    BY <1>7, TroubleTyped DEF SignalLeftover
  <2>5. QED BY <1>7, <2>1, <2>2, <2>3, <2>4 DEF SignalLeftover, Typed
<1>8. ASSUME NEW d \in Daemons, KillLeftover(d) PROVE Typed'
  <2>1. host' \in [Daemons -> Hosts]
    BY <1>8, MovesTo DEF KillLeftover, Places
  <2>2. status' \in [Daemons -> Record]
    BY <1>8, ClearedTyped DEF KillLeftover
  <2>3. /\ process' \in [Pids -> {"free", "provider", "other"}]
        /\ parent' \in [Pids -> Daemons \cup {Nil}]
    BY <1>8, EndsTyped DEF KillLeftover, Typed
  <2>4. troubles' \in 0..MaxTroubles
    BY <1>8, TroubleTyped DEF KillLeftover
  <2>5. QED BY <1>8, <2>1, <2>2, <2>3, <2>4 DEF KillLeftover, Typed
<1>9. ASSUME NEW d \in Daemons, SaveReclaimed(d) \/ BindGateway(d) PROVE Typed'
  <2>1. host' \in [Daemons -> Hosts]
    BY <1>9, MovesTo, GoesAway DEF SaveReclaimed, BindGateway, Places
  <2>2. stateFile' \in Record /\ troubles' \in 0..MaxTroubles
    BY <1>9, TroubleTyped DEF SaveReclaimed, BindGateway, Typed
  <2>3. QED BY <1>9, <2>1, <2>2 DEF SaveReclaimed, BindGateway, Typed
<1>10. ASSUME NEW d \in Daemons, AdvertiseToken(d) PROVE Typed'
  <2>1. host' \in [Daemons -> Hosts]
    BY <1>10, MovesTo, GoesAway DEF AdvertiseToken, Places
  <2>2. tokenFile' \in Int /\ troubles' \in 0..MaxTroubles
    BY <1>10, TroubleTyped DEF AdvertiseToken, Typed, Hosts
  <2>3. QED BY <1>10, <2>1, <2>2 DEF AdvertiseToken, Typed
<1>11. ASSUME NEW d \in Daemons, NEW p \in Pids, SpawnChild(d, p) PROVE Typed'
  <2>1. host' \in [Daemons -> Hosts]
    BY <1>11 DEF SpawnChild, Typed, Hosts
  <2>2. [claims |-> TRUE, pid |-> NoPid, told |-> NoPid] \in Record
    BY DEF Record
  <2>3. status' \in [Daemons -> Record] /\ stateFile' \in Record
    BY <1>11, <2>2 DEF SpawnChild, Typed
  <2>4. /\ process' \in [Pids -> {"free", "provider", "other"}]
        /\ parent' \in [Pids -> Daemons \cup {Nil}]
    BY <1>11 DEF SpawnChild, Typed
  <2>5. QED BY <1>11, <2>1, <2>3, <2>4 DEF SpawnChild, Typed
<1>12. ASSUME NEW d \in Daemons, RecordChild(d) PROVE Typed'
  <2>1. host' \in [Daemons -> Hosts]
    BY <1>12 DEF RecordChild, Typed, Hosts
  <2>2. host[d].new \in Pids
    BY <1>12 DEF RecordChild, Typed, Hosts
  <2>3. [status[d] EXCEPT !.pid = host[d].new] \in Record
    BY <2>2 DEF Record, Typed
  <2>4. status' \in [Daemons -> Record]
    BY <1>12, <2>3 DEF RecordChild, Typed
  <2>5. stateFile' \in Record /\ troubles' \in 0..MaxTroubles
    BY <1>12, <2>4, TroubleTyped DEF RecordChild, Typed
  <2>6. QED BY <1>12, <2>1, <2>4, <2>5 DEF RecordChild, Typed
<1>13. ASSUME NEW d \in Daemons, StopChild(d) PROVE Typed'
  <2>1. Stopped \in Record
    BY DEF Stopped, Record
  <2>2. status' \in [Daemons -> Record] /\ stateFile' \in Record /\ troubles' \in 0..MaxTroubles
    BY <1>13, <2>1, TroubleTyped DEF StopChild, Typed
  <2>3. /\ process' \in [Pids -> {"free", "provider", "other"}]
        /\ parent' \in [Pids -> Daemons \cup {Nil}]
    BY <1>13 DEF StopChild, Typed
  <2>4. QED BY <1>13, <2>2, <2>3 DEF StopChild, Typed
<1>14. ASSUME NEW d \in Daemons, Shutdown(d) PROVE Typed'
  <2>1. host' \in [Daemons -> Hosts]
    BY <1>14, GoesAway DEF Shutdown
  <2>2. /\ process' \in [Pids -> {"free", "provider", "other"}]
        /\ parent' \in [Pids -> Daemons \cup {Nil}]
    BY <1>14 DEF Shutdown, Typed
  <2>3. QED BY <1>14, <2>1, <2>2 DEF Shutdown, Smooth, Typed
<1>15. ASSUME NEW d \in Daemons, Crash(d) PROVE Typed'
  <2>1. host' \in [Daemons -> Hosts] /\ troubles' \in 0..MaxTroubles
    BY <1>15, GoesAway, TroubleTyped DEF Crash
  <2>2. parent' \in [Pids -> Daemons \cup {Nil}]
    BY <1>15 DEF Crash, Typed
  <2>3. QED BY <1>15, <2>1, <2>2 DEF Crash, Typed
<1>16. ASSUME NEW p \in Pids, ProviderEnds(p) \/ PidReused(p) PROVE Typed'
  <2>1. /\ process' \in [Pids -> {"free", "provider", "other"}]
        /\ parent' \in [Pids -> Daemons \cup {Nil}]
    BY <1>16, EndsTyped DEF ProviderEnds, PidReused, Typed
  <2>2. troubles' \in 0..MaxTroubles
    BY <1>16, TroubleTyped DEF ProviderEnds, PidReused
  <2>3. QED BY <1>16, <2>1, <2>2 DEF ProviderEnds, PidReused, Typed
<1>17. CASE UNCHANGED bootVars
  BY <1>17 DEF bootVars, Typed
<1>18. QED
  BY <1>1, <1>2, <1>3, <1>4, <1>5, <1>6, <1>7, <1>8, <1>9, <1>10, <1>11, <1>12, <1>13,
     <1>14, <1>15, <1>16, <1>17 DEF BootNext

LEMMA TypedThroughout == BootSpec => []Typed
BY InitTyped, StepTyped, PTL DEF BootSpec

\* Every variable of the daemons and their host keeps its type, and the bounds hold.
THEOREM BootTypeCorrect == BootSpec => []BootTypeOK
<1>1. Typed => BootTypeOK
  <2> SUFFICES ASSUME Typed PROVE BootTypeOK
    OBVIOUS
  <2>1. boots <= MaxBoots /\ troubles <= MaxTroubles
    BY BootConstantsAssumption DEF Typed
  <2>2. QED BY <2>1 DEF Typed, Hosts, Places, BootTypeOK
<1>2. QED BY <1>1, TypedThroughout, PTL

-----------------------------------------------------------------------------
(* Stages *)

LEMMA InitStages == BootInit => Stages
<1> SUFFICES ASSUME BootInit PROVE Stages
  OBVIOUS
<1>1. \A d \in Daemons: host[d] = Off /\ status[d] = Stopped
  BY DEF BootInit
<1>2. \A p \in Pids: parent[p] = Nil
  BY DEF BootInit
<1>3. stateFile = Stopped
  BY DEF BootInit
<1>4. Consistent(Stopped) /\ Off.at = "off" /\ Off.new = NoPid
  BY DEF Consistent, Stopped, Off
<1>5. ~Claims(Stopped)
  BY DEF Claims, Stopped
<1>6. QED BY <1>1, <1>2, <1>3, <1>4, <1>5 DEF Stages

\* The conditions on one daemon are its own business: they stay when it does.
StagesOf(d) ==
  /\ Consistent(status[d])
  /\ host[d].new # NoPid => Serving(d) /\ status[d].claims
  /\ host[d].at \in {"signal", "kill"} => status[d].pid # NoPid
  /\ host[d].at \in {"save", "gateway", "advertise"} => ~Claims(status[d])

Others(d) == \A e \in Daemons \ {d}: host'[e] = host[e] /\ status'[e] = status[e]

LEMMA StagesOneByOne ==
  ASSUME Stages, NEW d \in Daemons, Others(d), Consistent(stateFile)', StagesOf(d)',
         \A p \in Pids: parent'[p] # Nil => Serving(parent[p])' /\ process'[p] = "provider"
  PROVE  Stages'
<1>1. \A e \in Daemons \ {d}: StagesOf(e)'
  BY DEF Stages, StagesOf, Others, Serving, Stands
<1>2. \A e \in Daemons: StagesOf(e)'
  BY <1>1
<1>3. QED BY <1>2 DEF Stages, StagesOf

\* A daemon without children moves on; the provider it has signalled may end.
LEMMA ChildrenStay ==
  ASSUME Typed, Stages, NEW d \in Daemons, Others(d), host[d].at # "serve",
         \/ parent' = parent /\ process' = process
         \/ \E p \in Pids: Ends(p)
  PROVE  \A p \in Pids: parent'[p] # Nil => Serving(parent[p])' /\ process'[p] = "provider"
<1> SUFFICES ASSUME NEW p \in Pids, parent'[p] # Nil
             PROVE  Serving(parent[p])' /\ process'[p] = "provider"
  OBVIOUS
<1>1. parent'[p] = parent[p] /\ process'[p] = process[p]
  BY EndsTyped
<1>2. parent[p] \in Daemons /\ parent[p] # d /\ Serving(parent[p])
  BY <1>1 DEF Stages, Typed, Serving, Stands
<1>3. QED BY <1>1, <1>2 DEF Stages, Others, Serving, Stands

LEMMA ClearedStages ==
  ASSUME Typed, NEW d \in Daemons, NEW told \in Pids \cup {NoPid}, Cleared(d, told)
  PROVE  Consistent(status[d])' /\ ~Claims(status[d])'
<1>1. status'[d] = [claims |-> FALSE, pid |-> NoPid, told |-> told]
  BY ClearedTyped
<1>2. status'[d].claims = FALSE /\ status'[d].pid = NoPid
  BY <1>1
<1>3. ~Claims(status'[d])
  BY <1>2 DEF Claims
<1>4. QED BY <1>3 DEF Consistent

LEMMA ReclaimedStages ==
  ASSUME Typed, NEW d \in Daemons, StagesOf(d), host[d].at # "serve",
         NEW told \in Pids \cup {NoPid}, Proceeds(d, "save"), Cleared(d, told)
  PROVE  Others(d) /\ StagesOf(d)'
<1>1. host'[d].at = "save" /\ host'[d].new = NoPid
  BY MovesTo DEF StagesOf, Serving, Stands, Places
<1>2. Others(d)
  BY MovesTo, ClearedTyped DEF Others, Places
<1>3. QED BY <1>1, <1>2, ClearedStages DEF StagesOf

LEMMA StepStages == Typed /\ Stages /\ [BootNext]_bootVars => Stages'
<1> SUFFICES ASSUME Typed, Stages, [BootNext]_bootVars PROVE Stages'
  OBVIOUS
<1> USE DEF histories, providers
<1>0. /\ Consistent(stateFile)
      /\ \A d \in Daemons: StagesOf(d)
      /\ \A p \in Pids: parent[p] # Nil =>
           parent[p] \in Daemons /\ Serving(parent[p]) /\ process[p] = "provider"
  BY DEF Stages, StagesOf, Typed
<1>1. ASSUME NEW d \in Daemons, Boot(d) PROVE Stages'
  <2>1. Others(d) /\ StagesOf(d)'
    BY <1>0, <1>1, BootsUp DEF Boot, Others, StagesOf
  <2>2. QED BY <1>0, <1>1, <2>1, ChildrenStay, StagesOneByOne DEF Boot, Stands
<1>2. ASSUME NEW d \in Daemons, BindControl(d) PROVE Stages'
  <2>1. Others(d) /\ StagesOf(d)'
    BY <1>0, <1>2, MovesTo, GoesAway DEF BindControl, Others, StagesOf, Places, Stands, Serving
  <2>2. QED BY <1>0, <1>2, <2>1, ChildrenStay, StagesOneByOne DEF BindControl, Stands
<1>3. ASSUME NEW d \in Daemons, ResolveToken(d) PROVE Stages'
  <2>1. Others(d) /\ StagesOf(d)'
    BY <1>0, <1>3, ResolvesTo DEF ResolveToken, Others, StagesOf, Stands, Serving
  <2>2. QED BY <1>0, <1>3, <2>1, ChildrenStay, StagesOneByOne DEF ResolveToken, Stands
<1>4. ASSUME NEW d \in Daemons, LoadState(d) PROVE Stages'
  <2>1. CASE Proceeds(d, "reclaim") /\ status' = [status EXCEPT ![d] = stateFile]
    <3>1. Others(d) /\ StagesOf(d)'
      BY <1>0, <1>4, <2>1, MovesTo DEF LoadState, Others, StagesOf, Stands, Serving, Places, Typed
    <3>2. QED BY <1>0, <1>4, <3>1, ChildrenStay, StagesOneByOne DEF LoadState, Stands
  <2>2. CASE Fails(d) /\ UNCHANGED status
    <3>1. Others(d) /\ StagesOf(d)'
      BY <1>0, <2>2, GoesAway DEF Others, StagesOf
    <3>2. QED BY <1>0, <1>4, <3>1, ChildrenStay, StagesOneByOne DEF LoadState, Stands
  <2>3. QED BY <1>4, <2>1, <2>2 DEF LoadState
<1>5. ASSUME NEW d \in Daemons, NothingToReclaim(d) PROVE Stages'
  <2>1. Others(d) /\ StagesOf(d)'
    <3>1. CASE ~Claims(status[d]) /\ Proceeds(d, "gateway") /\ UNCHANGED status
      BY <1>0, <1>5, <3>1, MovesTo DEF NothingToReclaim, Others, StagesOf, Stands, Serving, Places
    <3>2. CASE Proceeds(d, "save") /\ Cleared(d, NoPid)
      BY <1>0, <1>5, <3>2, ReclaimedStages DEF NothingToReclaim, Stands
    <3>3. QED BY <1>5, <3>1, <3>2 DEF NothingToReclaim
  <2>2. QED BY <1>0, <1>5, <2>1, ChildrenStay, StagesOneByOne DEF NothingToReclaim, Stands
<1>6. ASSUME NEW d \in Daemons, LookAtPid(d) PROVE Stages'
  <2> DEFINE p == status[d].pid
  <2>1. p \in Pids
    BY <1>6 DEF LookAtPid, Typed, Record
  <2>2. PICK answer \in Answers(p):
          IF answer = "running" /\ IsOurs(p) /\ ~host[d].args.keep
            THEN Proceeds(d, "signal") /\ UNCHANGED status
            ELSE Proceeds(d, "save") /\ Cleared(d, Told(p, answer, host[d].args.keep))
    BY <1>6 DEF LookAtPid
  <2>3. Others(d) /\ StagesOf(d)'
    <3>1. CASE Proceeds(d, "signal") /\ UNCHANGED status
      BY <1>0, <1>6, <2>1, <3>1, MovesTo, BootConstantsAssumption
         DEF LookAtPid, Others, StagesOf, Stands, Serving, Places
    <3>2. CASE Proceeds(d, "save") /\ Cleared(d, Told(p, answer, host[d].args.keep))
      <4>1. Told(p, answer, host[d].args.keep) \in Pids \cup {NoPid}
        BY <2>1, ToldTyped
      <4>2. QED BY <1>0, <1>6, <3>2, <4>1, ReclaimedStages DEF LookAtPid, Stands
    <3>3. QED BY <2>2, <3>1, <3>2
  <2>4. QED BY <1>0, <1>6, <2>3, ChildrenStay, StagesOneByOne DEF LookAtPid, Stands
<1>7. ASSUME NEW d \in Daemons, SignalLeftover(d) \/ KillLeftover(d) PROVE Stages'
  <2>1. Stands(d, "signal") \/ Stands(d, "kill")
    BY <1>7 DEF SignalLeftover, KillLeftover
  <2>2. status[d].pid \in Pids
    BY <1>0, <2>1 DEF StagesOf, Stands, Typed, Record
  <2>3. (parent' = parent /\ process' = process) \/ \E p \in Pids: Ends(p)
    BY <1>7, <2>2 DEF SignalLeftover, KillLeftover
  <2>4. stateFile' = stateFile
    BY <1>7 DEF SignalLeftover, KillLeftover
  <2>5. Others(d) /\ StagesOf(d)'
    <3>1. CASE Proceeds(d, "kill") /\ UNCHANGED status
      BY <1>0, <2>1, <3>1, MovesTo DEF Others, StagesOf, Stands, Serving, Places
    <3>2. CASE Proceeds(d, "save") /\ Cleared(d, NoPid)
      BY <1>0, <2>1, <3>2, ReclaimedStages DEF Stands
    <3>3. QED BY <1>7, <3>1, <3>2 DEF SignalLeftover, KillLeftover
  <2>6. QED BY <1>0, <2>1, <2>3, <2>4, <2>5, ChildrenStay, StagesOneByOne DEF Stands
<1>8. ASSUME NEW d \in Daemons, SaveReclaimed(d) \/ BindGateway(d) \/ AdvertiseToken(d)
      PROVE  Stages'
  <2>1. Others(d) /\ StagesOf(d)'
    BY <1>0, <1>8, MovesTo, GoesAway
       DEF SaveReclaimed, BindGateway, AdvertiseToken, Others, StagesOf, Stands, Serving, Places
  <2>2. Consistent(stateFile)'
    BY <1>0, <1>8 DEF SaveReclaimed, BindGateway, AdvertiseToken, StagesOf
  <2>3. QED BY <1>8, <2>1, <2>2, ChildrenStay, StagesOneByOne
               DEF SaveReclaimed, BindGateway, AdvertiseToken, Stands
<1>9. ASSUME NEW d \in Daemons, NEW p \in Pids, SpawnChild(d, p) PROVE Stages'
  <2> DEFINE spawned == [claims |-> TRUE, pid |-> NoPid, told |-> NoPid]
  <2>1. host' = [host EXCEPT ![d].new = p] /\ status' = [status EXCEPT ![d] = spawned]
    BY <1>9 DEF SpawnChild
  <2>2. status'[d] = spawned /\ stateFile' = spawned
    BY <1>9, <2>1 DEF SpawnChild, Typed
  <2>3. Others(d)
    BY <2>1, Holding DEF Others, Typed
  <2>4. Serving(d)'
    BY <1>9, <2>1, Holding DEF SpawnChild, Serving, Stands
  <2>5. StagesOf(d)' /\ Consistent(stateFile)'
    BY <2>1, <2>2, <2>4, Holding DEF StagesOf, Consistent, Serving, Stands
  <2>6. \A q \in Pids: parent'[q] # Nil => Serving(parent[q])' /\ process'[q] = "provider"
    <3> SUFFICES ASSUME NEW q \in Pids, parent'[q] # Nil
                 PROVE  Serving(parent[q])' /\ process'[q] = "provider"
      OBVIOUS
    <3>1. CASE q = p
      BY <1>9, <2>4, <3>1 DEF SpawnChild, Typed
    <3>2. CASE q # p
      <4>1. parent'[q] = parent[q] /\ process'[q] = process[q]
        BY <1>9, <3>2 DEF SpawnChild, Typed
      <4>2. CASE parent[q] = d
        BY <1>0, <2>4, <4>1, <4>2
      <4>3. CASE parent[q] # d
        BY <1>0, <2>3, <4>1, <4>3 DEF Others, Serving, Stands
      <4>4. QED BY <4>2, <4>3
    <3>3. QED BY <3>1, <3>2
  <2>7. QED BY <2>3, <2>5, <2>6, StagesOneByOne
<1>10. ASSUME NEW d \in Daemons, RecordChild(d) PROVE Stages'
  <2>1. host' = [host EXCEPT ![d].new = NoPid] /\ status' = [status EXCEPT ![d].pid = host[d].new]
    BY <1>10 DEF RecordChild
  <2>2. /\ Others(d) /\ host'[d].at = host[d].at /\ host'[d].new = NoPid
        /\ status'[d].claims = status[d].claims /\ status'[d].told = status[d].told
    BY <2>1, Holding DEF Others, Typed, Record
  <2>3. Serving(d) /\ Serving(d)' /\ host[d].new # NoPid
    BY <1>10, <2>2 DEF RecordChild, Serving, Stands
  <2>4. StagesOf(d)' /\ Consistent(stateFile)'
    <3>1. Consistent(status[d])'
      BY <1>0, <2>2, <2>3 DEF StagesOf, Consistent, Claims
    <3>2. QED BY <1>0, <1>10, <2>2, <2>3, <3>1 DEF RecordChild, StagesOf, Serving, Stands
  <2>5. \A q \in Pids: parent'[q] # Nil => Serving(parent[q])' /\ process'[q] = "provider"
    BY <1>0, <1>10, <2>2, <2>3 DEF RecordChild, Others, Serving, Stands
  <2>6. QED BY <2>2, <2>4, <2>5, StagesOneByOne
<1>11. ASSUME NEW d \in Daemons, StopChild(d) PROVE Stages'
  <2>1. ~Claims(Stopped)
    BY DEF Claims, Stopped
  <2>2. Others(d) /\ status'[d] = Stopped
    BY <1>11 DEF StopChild, Others, Typed
  <2>3. StagesOf(d)' /\ Consistent(stateFile)'
    BY <1>0, <1>11, <2>1, <2>2 DEF StopChild, StagesOf, Consistent, Serving, Stands
  <2>4. \A q \in Pids: parent'[q] # Nil => Serving(parent[q])' /\ process'[q] = "provider"
    BY <1>0, <1>11 DEF StopChild, Children, Serving, Stands
  <2>5. QED BY <2>2, <2>3, <2>4, StagesOneByOne
<1>12. ASSUME NEW d \in Daemons, Shutdown(d) \/ Crash(d) PROVE Stages'
  <2>1. Fails(d) /\ status' = status /\ stateFile' = stateFile
    BY <1>12 DEF Shutdown, Crash
  <2>2. Others(d) /\ StagesOf(d)'
    BY <1>0, <2>1, GoesAway DEF Others, StagesOf
  <2>3. ASSUME NEW q \in Pids, parent'[q] # Nil
        PROVE  Serving(parent[q])' /\ process'[q] = "provider"
    <3>1. parent'[q] = parent[q] /\ process'[q] = process[q] /\ parent[q] # d
      BY <1>12, <2>3 DEF Shutdown, Crash, Children
    <3>2. QED BY <1>0, <2>2, <2>3, <3>1 DEF Others, Serving, Stands
  <2>4. QED BY <1>0, <2>1, <2>2, <2>3, StagesOneByOne
<1>13. ASSUME NEW p \in Pids, ProviderEnds(p) \/ PidReused(p) PROVE Stages'
  <2>1. host' = host /\ status' = status /\ stateFile' = stateFile
    BY <1>13 DEF ProviderEnds, PidReused
  <2>2. ASSUME NEW q \in Pids, parent'[q] # Nil
        PROVE  parent'[q] = parent[q] /\ process'[q] = process[q]
    <3>1. CASE ProviderEnds(p)
      BY <2>2, <3>1, EndsTyped DEF ProviderEnds
    <3>2. CASE PidReused(p)
      BY <1>0, <2>2, <3>2 DEF PidReused, Typed
    <3>3. QED BY <1>13, <3>1, <3>2
  <2>3. QED BY <1>0, <2>1, <2>2 DEF Stages, StagesOf, Serving, Stands
<1>14. CASE UNCHANGED bootVars
  BY <1>14 DEF bootVars, Stages, Serving, Stands
<1>15. QED
  BY <1>1, <1>2, <1>3, <1>4, <1>5, <1>6, <1>7, <1>8, <1>9, <1>10, <1>11, <1>12, <1>13,
     <1>14 DEF BootNext

-----------------------------------------------------------------------------
(* No provider is lost *)

\* The only daemon that is up does something: it is its own conditions that count.
LEMMA LoneOneByOne ==
  ASSUME Lone, Stages', NEW d \in Daemons, Up(d), Others(d),
         OrphansNamed', RememberedOf(d)', RecordedOf(d)'
  PROVE  Lone'
<1>1. ASSUME NEW e \in Daemons \ {d}
      PROVE  ~Up(e)' /\ RememberedOf(e)' /\ RecordedOf(e)'
  <2>1. ~Up(e)'
    BY DEF Lone, Others, Up
  <2>2. RememberedOf(e)'
    BY <2>1 DEF RememberedOf, Up
  <2>3. RecordedOf(e)'
    <3>1. e # Nil
      BY BootConstantsAssumption
    <3>2. \A p \in Pids: parent'[p] # e
      BY <2>1, <3>1 DEF Stages, Up, Serving, Stands
    <3>3. QED BY <2>1, <3>2 DEF RecordedOf, Up, Serving, Stands
  <2>4. QED BY <2>1, <2>2, <2>3
<1>2. \A e, f \in Daemons: (Up(e) /\ Up(f) => e = f)'
  BY <1>1
<1>3. \A e \in Daemons: (RememberedOf(e) /\ RecordedOf(e))'
  BY <1>1
<1>4. QED BY <1>2, <1>3 DEF Lone

\* A daemon that does not serve has no children, and nothing to record.
LEMMA NothingRecorded ==
  ASSUME Stages', NEW d \in Daemons, ~Serving(d)'
  PROVE  RecordedOf(d)'
<1>1. d # Nil
  BY BootConstantsAssumption
<1>2. \A p \in Pids: parent'[p] # d
  BY <1>1 DEF Stages, Serving, Stands
<1>3. QED BY <1>2 DEF RecordedOf

NoNewOrphans == \A p \in Pids: Orphan(p)' => Orphan(p)

LEMMA SameOrphans ==
  ASSUME process' = process, parent' = parent, excused \subseteq excused'
  PROVE  NoNewOrphans
BY DEF NoNewOrphans, Orphan

LEMMA StillNamed ==
  ASSUME OrphansNamed, NoNewOrphans, stateFile' = stateFile
  PROVE  OrphansNamed'
BY DEF OrphansNamed, NoNewOrphans, NamedIn

\* What a record names if it claims a process, and if it names none.
LEMMA ClaimNames ==
  ASSUME NEW s, Consistent(s), Claims(s), NEW p \in Pids, NamedIn(p, s)
  PROVE  p = s.pid
BY BootConstantsAssumption DEF Consistent, NamedIn

\* A start up to the reading of the state file touches nothing but its daemon.
LEMMA LoneUntouched ==
  ASSUME Typed, Lone, Stages', NEW d \in Daemons, Others(d), Up(d)' => Up(d),
         host'[d].at \in {"off", "bind", "token", "load"},
         stateFile' = stateFile, process' = process, parent' = parent,
         excused' = excused, ~Serving(d)
  PROVE  Lone'
<1>1. \A e, f \in Daemons: (Up(e) /\ Up(f) => e = f)'
  BY DEF Lone, Others, Up
<1>2. OrphansNamed'
  BY SameOrphans, StillNamed DEF Lone
<1>3. ASSUME NEW e \in Daemons PROVE RememberedOf(e)' /\ RecordedOf(e)'
  <2>1. CASE e = d
    <3>1. RecordedOf(d)'
      BY NothingRecorded DEF Serving, Stands
    <3>2. RememberedOf(d)'
      BY DEF RememberedOf
    <3>3. QED BY <2>1, <3>1, <3>2
  <2>2. CASE e # d
    BY <2>2 DEF Lone, RememberedOf, RecordedOf, Orphan, NamedIn, Others, Serving, Stands
  <2>3. QED BY <2>1, <2>2
<1>4. QED BY <1>1, <1>2, <1>3 DEF Lone

\* What the reclaiming daemon makes of a record, if it still names every orphan.
LEMMA LoneReclaims ==
  ASSUME Typed, Stages, Lone, Stages', NEW d \in Daemons, Up(d), ~Serving(d),
         NoNewOrphans, stateFile' = stateFile,
         NEW told \in Pids \cup {NoPid}, Proceeds(d, "save"), Cleared(d, told),
         \A p \in Pids: Orphan(p)' => p = told
  PROVE  Lone'
<1>1. host'[d].at = "save" /\ status'[d] = [claims |-> FALSE, pid |-> NoPid, told |-> told]
  BY MovesTo, ClearedTyped DEF Places
<1>2. Others(d)
  BY MovesTo, ClearedTyped DEF Others, Places
<1>3. OrphansNamed'
  BY StillNamed DEF Lone
<1>4. RememberedOf(d)'
  BY <1>1 DEF RememberedOf, NamedIn
<1>5. RecordedOf(d)'
  BY <1>1, NothingRecorded DEF Serving, Stands
<1>6. QED BY <1>2, <1>3, <1>4, <1>5, LoneOneByOne

LEMMA EndsOrphans ==
  ASSUME Typed, NEW p \in Pids, Ends(p), excused \subseteq excused'
  PROVE  NoNewOrphans /\ ~Orphan(p)'
<1>1. \A q \in Pids: IF q = p THEN process'[q] = "free" /\ parent'[q] = Nil
                     ELSE process'[q] = process[q] /\ parent'[q] = parent[q]
  BY EndsTyped
<1>2. QED BY <1>1 DEF NoNewOrphans, Orphan

LEMMA StepLone ==
  ASSUME Typed, Stages, Lone, [BootNext]_bootVars, Typed', Stages', ~shared'
  PROVE  Lone'
<1> USE DEF histories, providers
<1>0. /\ \A d, e \in Daemons: Up(d) /\ Up(e) => d = e
      /\ OrphansNamed
      /\ \A d \in Daemons: RememberedOf(d) /\ RecordedOf(d)
  BY DEF Lone
<1>1. ASSUME NEW d \in Daemons, Boot(d) PROVE Lone'
  <2>1. Others(d) /\ host'[d].at = "bind"
    BY <1>1, BootsUp DEF Boot, Others
  <2>2. QED BY <1>1, <2>1, LoneUntouched DEF Boot, Stands, Serving, Up
<1>2. ASSUME NEW d \in Daemons, BindControl(d) PROVE Lone'
  <2>1. CASE Fails(d)
    <3>1. Others(d) /\ host'[d].at = "off"
      BY <1>2, <2>1, GoesAway DEF BindControl, Others
    <3>2. QED BY <1>2, <3>1, LoneUntouched DEF BindControl, Stands, Serving, Up
  <2>2. CASE Proceeds(d, "token") /\ \A e \in Daemons: ~Up(e)
    <3>1. Others(d) /\ host'[d].at = "token"
      BY <1>2, <2>2, MovesTo DEF BindControl, Others, Places
    <3>2. \A e, f \in Daemons: (Up(e) /\ Up(f) => e = f)'
      BY <2>2, <3>1 DEF Others, Up
    <3>3. OrphansNamed'
      BY <1>0, <1>2, SameOrphans, StillNamed DEF BindControl
    <3>4. ASSUME NEW e \in Daemons PROVE RememberedOf(e)' /\ RecordedOf(e)'
      <4>1. host'[e].at \in {"off", "bind", "token"}
        BY <2>2, <3>1 DEF Others, Up
      <4>2. RememberedOf(e)'
        BY <4>1 DEF RememberedOf
      <4>3. QED BY <4>1, <4>2, NothingRecorded DEF Serving, Stands
    <3>5. QED BY <3>2, <3>3, <3>4 DEF Lone
  <2>3. QED BY <1>2, <2>1, <2>2 DEF BindControl
<1>3. ASSUME NEW d \in Daemons, ResolveToken(d) PROVE Lone'
  <2>1. Others(d) /\ host'[d].at = "load"
    BY <1>3, ResolvesTo DEF ResolveToken, Others
  <2>2. QED BY <1>3, <2>1, LoneUntouched DEF ResolveToken, Stands, Serving, Up
<1>4. ASSUME NEW d \in Daemons, LoadState(d) PROVE Lone'
  <2>1. CASE Fails(d) /\ UNCHANGED status
    <3>1. Others(d) /\ host'[d].at = "off"
      BY <2>1, GoesAway DEF Others
    <3>2. QED BY <1>4, <3>1, LoneUntouched DEF LoadState, Stands, Serving, Up
  <2>2. CASE Proceeds(d, "reclaim") /\ status' = [status EXCEPT ![d] = stateFile]
    <3>1. host'[d].at = "reclaim" /\ status'[d] = stateFile'
      BY <1>4, <2>2, MovesTo DEF LoadState, Places, Typed
    <3>2. Others(d)
      BY <2>2, MovesTo DEF Others, Places, Typed
    <3>3. OrphansNamed'
      BY <1>0, <1>4, SameOrphans, StillNamed DEF LoadState
    <3>4. RememberedOf(d)'
      BY <3>1 DEF RememberedOf
    <3>5. RecordedOf(d)'
      BY <3>1, NothingRecorded DEF Serving, Stands
    <3>6. QED BY <1>4, <3>2, <3>3, <3>4, <3>5, LoneOneByOne DEF LoadState, Stands, Up
  <2>3. QED BY <1>4, <2>1, <2>2 DEF LoadState
<1>5. ASSUME NEW d \in Daemons, NothingToReclaim(d) PROVE Lone'
  <2>1. status[d] = stateFile /\ Up(d) /\ ~Serving(d) /\ stateFile' = stateFile
    BY <1>0, <1>5 DEF NothingToReclaim, RememberedOf, Stands, Up, Serving
  <2>2. NoNewOrphans
    BY <1>5, SameOrphans DEF NothingToReclaim
  <2>3. CASE ~Claims(status[d]) /\ Proceeds(d, "gateway") /\ UNCHANGED status
    <3>1. Others(d) /\ host'[d].at = "gateway"
      BY <2>3, MovesTo DEF Others, Places
    <3>2. OrphansNamed'
      BY <1>0, <2>1, <2>2, StillNamed
    <3>3. RememberedOf(d)'
      BY <2>1, <2>3, <3>1, <3>2 DEF RememberedOf, OrphansNamed
    <3>4. RecordedOf(d)'
      BY <3>1, NothingRecorded DEF Serving, Stands
    <3>5. QED BY <2>1, <3>1, <3>2, <3>3, <3>4, LoneOneByOne
  <2>4. CASE Claims(status[d]) /\ status[d].pid = NoPid /\ Proceeds(d, "save") /\ Cleared(d, NoPid)
    <3>1. ASSUME NEW p \in Pids, Orphan(p)' PROVE FALSE
      <4>1. NamedIn(p, status[d])
        BY <1>0, <2>1, <2>2, <3>1 DEF NoNewOrphans, OrphansNamed
      <4>2. Consistent(status[d])
        BY DEF Stages
      <4>3. p = NoPid
        BY <2>4, <4>1, <4>2, ClaimNames
      <4>4. QED BY <4>3, BootConstantsAssumption
    <3>2. QED BY <2>1, <2>2, <2>4, <3>1, LoneReclaims
  <2>5. QED BY <1>5, <2>3, <2>4 DEF NothingToReclaim
<1>6. ASSUME NEW d \in Daemons, LookAtPid(d) PROVE Lone'
  <2> DEFINE p == status[d].pid
             keep == host[d].args.keep
  <2>1. p \in Pids
    BY <1>6 DEF LookAtPid, Typed, Record
  <2>2. PICK answer \in Answers(p):
          IF answer = "running" /\ IsOurs(p) /\ ~keep
            THEN Proceeds(d, "signal") /\ UNCHANGED status
            ELSE Proceeds(d, "save") /\ Cleared(d, Told(p, answer, keep))
    BY <1>6 DEF LookAtPid
  <2>3. status[d] = stateFile /\ Up(d) /\ ~Serving(d) /\ stateFile' = stateFile
    BY <1>0, <1>6 DEF LookAtPid, RememberedOf, Stands, Up, Serving
  <2>4. NoNewOrphans
    BY <1>6, SameOrphans DEF LookAtPid
  <2>5. CASE answer = "running" /\ IsOurs(p) /\ ~keep
    <3>1. Proceeds(d, "signal") /\ status' = status
      BY <2>2, <2>5
    <3>2. Others(d) /\ host'[d].at = "signal"
      BY <3>1, MovesTo DEF Others, Places
    <3>3. OrphansNamed'
      BY <1>0, <2>3, <2>4, StillNamed
    <3>4. RememberedOf(d)'
      BY <2>3, <3>1, <3>2 DEF RememberedOf
    <3>5. RecordedOf(d)'
      BY <3>2, NothingRecorded DEF Serving, Stands
    <3>6. QED BY <2>3, <3>2, <3>3, <3>4, <3>5, LoneOneByOne
  <2>6. CASE ~(answer = "running" /\ IsOurs(p) /\ ~keep)
    <3>1. Proceeds(d, "save") /\ Cleared(d, Told(p, answer, keep))
      BY <2>2, <2>6
    <3>2. ASSUME NEW q \in Pids, Orphan(q)' PROVE q = Told(p, answer, keep)
      <4>1. Orphan(q) /\ NamedIn(q, status[d])
        BY <1>0, <2>3, <2>4, <3>2 DEF NoNewOrphans, OrphansNamed
      <4>2. Consistent(status[d]) /\ Claims(status[d])
        BY <2>1, BootConstantsAssumption DEF Stages, Claims
      <4>3. q = p
        BY <4>1, <4>2, ClaimNames
      <4>4. answer # "gone"
        BY <4>1, <4>3 DEF Orphan, Answers
      <4>5. answer \in {"unknown", "gone", "running"}
        BY DEF Answers
      <4>6. QED BY <2>6, <4>3, <4>4, <4>5 DEF Told
    <3>3. QED BY <2>1, <2>3, <2>4, <3>1, <3>2, ToldTyped, LoneReclaims
  <2>7. QED BY <2>5, <2>6
<1>7. ASSUME NEW d \in Daemons, SignalLeftover(d) \/ KillLeftover(d) PROVE Lone'
  <2>1. Stands(d, "signal") \/ Stands(d, "kill")
    BY <1>7 DEF SignalLeftover, KillLeftover
  <2>2. /\ status[d] = stateFile /\ Up(d) /\ ~Serving(d) /\ stateFile' = stateFile
        /\ excused \subseteq excused'
    BY <1>0, <1>7, <2>1 DEF SignalLeftover, KillLeftover, RememberedOf, Stands, Up, Serving
  <2>3. PICK p \in Pids: p = status[d].pid /\ Consistent(status[d]) /\ Claims(status[d])
    BY <2>1 DEF Stages, Stands, Typed, Record, Claims
  <2>4. NoNewOrphans
    BY <1>7, <2>2, EndsOrphans, SameOrphans, <2>3 DEF SignalLeftover, KillLeftover
  <2>5. CASE Proceeds(d, "kill") /\ UNCHANGED status
    <3>1. Others(d) /\ host'[d].at = "kill"
      BY <2>5, MovesTo DEF Others, Places
    <3>2. OrphansNamed'
      BY <1>0, <2>2, <2>4, StillNamed
    <3>3. RememberedOf(d)'
      BY <2>2, <2>5, <3>1 DEF RememberedOf
    <3>4. RecordedOf(d)'
      BY <3>1, NothingRecorded DEF Serving, Stands
    <3>5. QED BY <2>2, <3>1, <3>2, <3>3, <3>4, LoneOneByOne
  <2>6. CASE Proceeds(d, "save") /\ Cleared(d, NoPid)
    <3>1. ~Orphan(p)'
      <4>1. ~Proceeds(d, "kill")
        <5>1. host'[d].at = "save"
          BY <2>6, MovesTo DEF Places
        <5>2. QED BY <5>1, MovesTo DEF Places
      <4>2. \/ Ends(p) \/ p \in excused'
            \/ process[p] # "provider" /\ process' = process
        BY <1>7, <2>3, <4>1 DEF SignalLeftover, KillLeftover
      <4>3. CASE Ends(p)
        BY <2>2, <2>3, <4>3, EndsOrphans
      <4>4. QED BY <4>2, <4>3 DEF Orphan
    <3>2. ASSUME NEW q \in Pids, Orphan(q)' PROVE FALSE
      <4>1. NamedIn(q, status[d])
        BY <1>0, <2>2, <2>4, <3>2 DEF NoNewOrphans, OrphansNamed
      <4>2. q = p
        BY <2>3, <4>1, ClaimNames
      <4>3. QED BY <3>1, <3>2, <4>2 DEF Orphan
    <3>3. QED BY <2>2, <2>4, <2>6, <3>2, LoneReclaims
  <2>7. QED BY <1>7, <2>5, <2>6 DEF SignalLeftover, KillLeftover
<1>8. ASSUME NEW d \in Daemons, SaveReclaimed(d) \/ BindGateway(d) \/ AdvertiseToken(d)
      PROVE  Lone'
  <2>1. /\ Up(d) /\ ~Serving(d) /\ Others(d)
        /\ process' = process /\ parent' = parent /\ excused' = excused /\ status' = status
        /\ host[d].at \in {"save", "gateway", "advertise"}
    BY <1>8, MovesTo, GoesAway
       DEF SaveReclaimed, BindGateway, AdvertiseToken, Stands, Up, Serving, Others, Places
  <2>2. \A p \in Pids: Orphan(p)' = Orphan(p)
    BY <2>1 DEF Orphan
  <2>3. host'[d].at \in {"off", "gateway", "advertise", "serve"} /\ host'[d].new = NoPid
    BY <1>8, <2>1, MovesTo, GoesAway
       DEF SaveReclaimed, BindGateway, AdvertiseToken, Places, Stages, Serving, Stands
  <2>4. OrphansNamed'
    <3>1. CASE stateFile' = status[d]
      BY <1>0, <2>1, <2>2, <3>1 DEF OrphansNamed, RememberedOf
    <3>2. CASE stateFile' = stateFile
      BY <1>0, <2>2, <3>2 DEF OrphansNamed
    <3>3. QED BY <1>8, <3>1, <3>2 DEF SaveReclaimed, BindGateway, AdvertiseToken
  <2>5. RememberedOf(d)'
    BY <1>0, <2>1, <2>2, <2>3 DEF RememberedOf
  <2>6. RecordedOf(d)'
    <3>1. CASE Serving(d)'
      <4>1. ~Claims(status[d]) /\ status'[d] = status[d]
        BY <2>1 DEF Stages
      <4>2. \A p \in Pids: p \notin {status'[d].pid, host'[d].new}
        BY <2>3, <4>1, BootConstantsAssumption DEF Claims
      <4>3. d # Nil
        BY BootConstantsAssumption
      <4>4. \A p \in Pids: parent'[p] # d
        BY <2>1, <4>3 DEF Stages, Serving, Stands
      <4>5. QED BY <4>2, <4>4 DEF RecordedOf
    <3>2. CASE ~Serving(d)'
      BY <3>2, NothingRecorded
    <3>3. QED BY <3>1, <3>2
  <2>7. QED BY <2>1, <2>4, <2>5, <2>6, LoneOneByOne
<1>9. ASSUME NEW d \in Daemons, NEW p \in Pids, SpawnChild(d, p) PROVE Lone'
  <2> DEFINE spawned == [claims |-> TRUE, pid |-> NoPid, told |-> NoPid]
  <2>1. host' = [host EXCEPT ![d].new = p] /\ status' = [status EXCEPT ![d] = spawned]
    BY <1>9 DEF SpawnChild
  <2>2. status'[d] = spawned /\ stateFile' = spawned /\ Others(d)
    BY <1>9, <2>1, Holding DEF SpawnChild, Typed, Others
  <2>3. /\ Serving(d) /\ Up(d) /\ Serving(d)' /\ host'[d].at = "serve"
        /\ host[d].new = NoPid /\ host'[d].new = p
    BY <1>9, <2>1, Holding DEF SpawnChild, Serving, Stands, Up
  <2>4. /\ process'[p] = "provider" /\ parent'[p] = d
        /\ \A q \in Pids \ {p}: process'[q] = process[q] /\ parent'[q] = parent[q]
    BY <1>9 DEF SpawnChild, Typed
  <2>5. d # Nil
    BY BootConstantsAssumption
  <2>6. ASSUME NEW q \in Pids PROVE ~Orphan(q)'
    <3>1. CASE q = p
      BY <2>4, <2>5, <3>1 DEF Orphan
    <3>2. CASE q # p /\ ~Orphan(q)
      BY <1>9, <2>4, <3>2 DEF SpawnChild, Orphan
    <3>3. CASE q # p /\ Orphan(q)
      <4>1. NamedIn(q, status[d])
        BY <1>0, <2>3, <3>3 DEF RememberedOf, Serving, Stands
      <4>2. q # status[d].pid
        BY <1>0, <2>3, <2>5, <3>3 DEF RecordedOf, Orphan
      <4>3. q \in Forgotten(d)
        BY <4>1, <4>2, BootConstantsAssumption DEF NamedIn, Forgotten
      <4>4. q \in excused'
        BY <1>9, <3>3, <4>3 DEF SpawnChild
      <4>5. QED BY <4>4 DEF Orphan
    <3>4. QED BY <3>1, <3>2, <3>3
  <2>7. OrphansNamed' /\ RememberedOf(d)'
    BY <2>3, <2>6 DEF OrphansNamed, RememberedOf
  <2>8. RecordedOf(d)'
    <3>1. \A q \in Pids: parent'[q] = d => q = p
      BY <1>9, <2>4 DEF SpawnChild, Children
    <3>2. \A q \in Pids: q \in {status'[d].pid, host'[d].new} => q = p
      BY <2>2, <2>3, BootConstantsAssumption
    <3>3. QED BY <2>3, <2>4, <3>1, <3>2 DEF RecordedOf
  <2>9. QED BY <2>2, <2>3, <2>7, <2>8, LoneOneByOne
<1>10. ASSUME NEW d \in Daemons, RecordChild(d) PROVE Lone'
  <2> DEFINE p == host[d].new
  <2>1. /\ host' = [host EXCEPT ![d].new = NoPid] /\ status' = [status EXCEPT ![d].pid = p]
        /\ Serving(d) /\ Up(d) /\ p # NoPid /\ process' = process /\ parent' = parent
        /\ \/ stateFile' = status'[d] /\ excused' = excused
           \/ stateFile' = stateFile /\ excused' = excused \cup {p}
    BY <1>10 DEF RecordChild, Serving, Stands, Up
  <2>2. /\ Others(d) /\ host'[d].at = host[d].at /\ host'[d].new = NoPid
        /\ status'[d].pid = p /\ status'[d].told = status[d].told
    BY <2>1, Holding DEF Others, Typed, Record
  <2>3. p \in Pids
    BY <2>1 DEF Typed, Hosts
  <2>4. status[d].claims /\ status[d].told = NoPid
    BY <2>1 DEF Stages, Consistent, Claims
  <2>5. ASSUME NEW q \in Pids PROVE ~Orphan(q)'
    <3>1. SUFFICES ASSUME Orphan(q) PROVE FALSE
      BY <2>1 DEF Orphan
    <3>2. q = status[d].pid
      BY <1>0, <2>1, <2>4, <3>1, ClaimNames DEF RememberedOf, Serving, Stands, Stages, Claims
    <3>3. parent[q] = d
      BY <1>0, <2>1, <3>1, <3>2 DEF RecordedOf, Orphan
    <3>4. QED BY <3>1, <3>3, BootConstantsAssumption DEF Orphan
  <2>6. OrphansNamed' /\ RememberedOf(d)'
    BY <2>1, <2>2, <2>5 DEF OrphansNamed, RememberedOf, Serving, Stands
  <2>7. RecordedOf(d)'
    <3>1. \A q \in Pids: parent'[q] = d => q = p
      BY <1>0, <2>1 DEF RecordedOf
    <3>2. p \in excused' \cup {stateFile'.pid}
      BY <2>1, <2>2
    <3>3. Serving(d)' => \A q \in Pids: q \in {status'[d].pid, host'[d].new} /\ process'[q] = "provider" =>
                                       parent'[q] = d
      BY <1>0, <2>1, <2>2, BootConstantsAssumption DEF RecordedOf
    <3>4. QED BY <2>2, <3>1, <3>2, <3>3 DEF RecordedOf
  <2>8. QED BY <2>1, <2>2, <2>6, <2>7, LoneOneByOne
<1>11. ASSUME NEW d \in Daemons, StopChild(d) PROVE Lone'
  <2>1. /\ Serving(d) /\ Up(d) /\ host' = host /\ excused' = excused /\ Claims(status[d])
        /\ stateFile' \in {Stopped, stateFile} /\ host[d].new = NoPid
    BY <1>11 DEF StopChild, Serving, Stands, Up
  <2>2. Others(d) /\ status'[d] = Stopped
    BY <1>11 DEF StopChild, Others, Typed
  <2>3. \A q \in Pids: \/ process'[q] = "free" /\ parent'[q] = Nil /\ parent[q] = d
                       \/ process'[q] = process[q] /\ parent'[q] = parent[q] /\ parent[q] # d
    BY <1>11 DEF StopChild, Children
  <2>4. d # Nil
    BY BootConstantsAssumption
  <2>5. ASSUME NEW q \in Pids PROVE ~Orphan(q)'
    <3>1. SUFFICES ASSUME Orphan(q), parent[q] # d PROVE FALSE
      BY <2>1, <2>3 DEF Orphan
    <3>2. Consistent(status[d]) /\ NamedIn(q, status[d])
      BY <1>0, <2>1, <3>1 DEF RememberedOf, Serving, Stands, Stages
    <3>3. q = status[d].pid
      BY <2>1, <3>2, ClaimNames
    <3>4. QED BY <1>0, <2>1, <3>1, <3>3 DEF RecordedOf, Orphan
  <2>6. OrphansNamed' /\ RememberedOf(d)'
    BY <2>1, <2>5 DEF OrphansNamed, RememberedOf, Serving, Stands
  <2>7. RecordedOf(d)'
    <3>1. \A q \in Pids: parent'[q] # d
      BY <2>3, <2>4
    <3>2. \A q \in Pids: q \notin {status'[d].pid, host'[d].new}
      BY <2>1, <2>2, BootConstantsAssumption DEF Stopped
    <3>3. QED BY <3>1, <3>2 DEF RecordedOf
  <2>8. QED BY <2>1, <2>2, <2>6, <2>7, LoneOneByOne
<1>12. ASSUME NEW d \in Daemons, Shutdown(d) \/ Crash(d) PROVE Lone'
  <2>1. /\ Fails(d) /\ status' = status /\ stateFile' = stateFile
        /\ Others(d) /\ host'[d].at = "off"
    BY <1>12, GoesAway DEF Shutdown, Crash, Others
  <2>2. \A q \in Pids: \/ process'[q] = process[q] /\ parent'[q] = parent[q] /\ parent[q] # d
                       \/ parent[q] = d /\ parent'[q] = Nil
    BY <1>12 DEF Shutdown, Crash, Children
  <2>3. ASSUME NEW q \in Pids, Orphan(q)' PROVE NamedIn(q, stateFile)
    <3>1. CASE parent[q] # d
      BY <1>0, <1>12, <2>2, <2>3, <3>1 DEF Shutdown, Crash, Orphan, OrphansNamed
    <3>2. CASE parent[q] = d
      <4>1. Crash(d)
        BY <1>12, <2>3, <3>2 DEF Shutdown, Children, Orphan
      <4>2. q \in excused \cup {host[d].new, stateFile.pid}
        BY <1>0, <3>2 DEF RecordedOf
      <4>3. q \notin excused' /\ excused' = excused \cup ({host[d].new} \ {NoPid})
        BY <2>3, <4>1 DEF Crash, Orphan
      <4>4. q = stateFile.pid
        BY <4>2, <4>3, BootConstantsAssumption
      <4>5. QED BY <4>4 DEF NamedIn
    <3>3. QED BY <3>1, <3>2
  <2>4. OrphansNamed'
    BY <2>1, <2>3 DEF OrphansNamed
  <2>5. CASE Up(d)
    <3>1. RememberedOf(d)'
      BY <2>1 DEF RememberedOf
    <3>2. RecordedOf(d)'
      BY <2>1, NothingRecorded DEF Serving, Stands
    <3>3. QED BY <2>1, <2>4, <2>5, <3>1, <3>2, LoneOneByOne
  <2>6. CASE ~Up(d)
    <3>1. ~Serving(d) /\ host[d].new = NoPid
      BY <2>6 DEF Up, Serving, Stands, Stages
    <3>2. \A q \in Pids: parent[q] # d
      BY <3>1, BootConstantsAssumption DEF Stages, Serving, Stands
    <3>3. Crash(d) /\ parent' = parent /\ process' = process /\ excused' = excused
      <4>1. Crash(d)
        BY <1>12, <3>1 DEF Shutdown
      <4>2. parent' = parent
        BY <3>2, <4>1 DEF Crash, Children, Typed
      <4>3. QED BY <3>1, <4>1, <4>2 DEF Crash
    <3>4. QED BY <2>1, <2>6, <3>1, <3>3, LoneUntouched DEF Up
  <2>7. QED BY <2>5, <2>6
<1>13. ASSUME NEW p \in Pids, ProviderEnds(p) \/ PidReused(p) PROVE Lone'
  <2>1. host' = host /\ status' = status /\ stateFile' = stateFile /\ excused' = excused
    BY <1>13 DEF ProviderEnds, PidReused
  <2>2. /\ process'[p] # "provider" /\ parent'[p] = Nil
        /\ \A q \in Pids \ {p}: process'[q] = process[q] /\ parent'[q] = parent[q]
    <3>1. CASE ProviderEnds(p)
      BY <3>1, EndsTyped DEF ProviderEnds
    <3>2. CASE PidReused(p)
      BY <3>2 DEF PidReused, Typed, Stages
    <3>3. QED BY <1>13, <3>1, <3>2
  <2>3. \A q \in Pids: Orphan(q)' => Orphan(q)
    BY <2>1, <2>2 DEF Orphan
  <2>4. OrphansNamed'
    BY <1>0, <2>1, <2>3 DEF OrphansNamed
  <2>5. ASSUME NEW d \in Daemons PROVE RememberedOf(d)' /\ RecordedOf(d)'
    <3>1. RememberedOf(d)'
      BY <1>0, <2>1, <2>3 DEF RememberedOf
    <3>2. d # Nil
      BY BootConstantsAssumption
    <3>3. RecordedOf(d)'
      BY <1>0, <2>1, <2>2, <3>2 DEF RecordedOf, Serving, Stands
    <3>4. QED BY <3>1, <3>3
  <2>6. \A d, e \in Daemons: (Up(d) /\ Up(e) => d = e)'
    BY <1>0, <2>1 DEF Up
  <2>7. QED BY <2>4, <2>5, <2>6 DEF Lone
<1>14. CASE UNCHANGED bootVars
  BY <1>14 DEF bootVars, Lone, Up, OrphansNamed, Orphan, RememberedOf, RecordedOf, Serving, Stands
<1>15. QED
  BY <1>1, <1>2, <1>3, <1>4, <1>5, <1>6, <1>7, <1>8, <1>9, <1>10, <1>11, <1>12, <1>13,
     <1>14 DEF BootNext

LEMMA SharedStays == Typed /\ [BootNext]_bootVars /\ shared => shared'
BY DEF BootNext, bootVars, histories, Boot, BindControl, ResolveToken, LoadState,
       NothingToReclaim, LookAtPid, SignalLeftover, KillLeftover, SaveReclaimed, BindGateway,
       AdvertiseToken, SpawnChild, RecordChild, StopChild, Shutdown, Crash, ProviderEnds, PidReused

LEMMA InitLone == BootInit => Lone
<1> SUFFICES ASSUME BootInit PROVE Lone
  OBVIOUS
<1>1. \A d \in Daemons: host[d].at = "off"
  BY DEF BootInit, Off
<1>2. \A p \in Pids: process[p] = "free" /\ parent[p] = Nil
  BY DEF BootInit
<1>3. ASSUME NEW d \in Daemons PROVE RememberedOf(d) /\ RecordedOf(d)
  BY <1>1, <1>2, BootConstantsAssumption DEF RememberedOf, RecordedOf, Serving, Stands
<1>4. QED BY <1>1, <1>2, <1>3 DEF Lone, Up, OrphansNamed, Orphan

LEMMA StepNeverLost == Typed /\ NeverLost /\ [BootNext]_bootVars => NeverLost'
<1> SUFFICES ASSUME Typed, NeverLost, [BootNext]_bootVars PROVE NeverLost'
  OBVIOUS
<1>1. Typed' /\ Stages'
  BY StepTyped, StepStages DEF NeverLost
<1>2. CASE shared
  BY <1>1, <1>2, SharedStays DEF NeverLost
<1>3. CASE ~shared /\ ~shared'
  BY <1>1, <1>3, StepLone DEF NeverLost
<1>4. QED BY <1>1, <1>2, <1>3 DEF NeverLost

\* Whatever is killed and started again, a provider that runs is the child of a
\* daemon, or the state file names it, but for those that no record can be asked
\* for (start, SpawnChild and reclaim_leftover_providers write the file in turn).
THEOREM NeverSilent == BootSpec => []NoSilentOrphan
<1>1. BootInit => NeverLost
  BY InitStages, InitLone DEF NeverLost
<1>2. NeverLost => NoSilentOrphan
  BY DEF NeverLost, Lone, OrphansNamed, Orphan, NamedIn, NoSilentOrphan
<1>3. QED BY <1>1, <1>2, StepNeverLost, TypedThroughout, PTL DEF BootSpec

-----------------------------------------------------------------------------
(* The token on disk *)

LEMMA InitOneToken == BootInit => OneToken
<1> SUFFICES ASSUME BootInit PROVE OneToken
  OBVIOUS
<1>1. \A d \in Daemons: ~Holds(d)
  BY DEF BootInit, Off, Holds, Up
<1>2. QED BY <1>1 DEF BootInit, OneToken, HeldTokens, OnDisk

\* A step after which nobody holds a token that it did not hold before.
LEMMA SameTokens ==
  ASSUME OneToken, tokenFile' = tokenFile, raced => raced',
         \A d \in Daemons: Holds(d)' => /\ Holds(d) /\ host'[d].token = host[d].token
                                        /\ Serving(d)' => Serving(d)
  PROVE  OneToken'
<1>1. HeldTokens'
  BY DEF OneToken, HeldTokens
<1>2. OnDisk => OnDisk'
  BY DEF OnDisk
<1>3. QED BY <1>1, <1>2 DEF OneToken

LEMMA TokenCases ==
  ASSUME Typed, NEW d \in Daemons
  PROVE  IF ~Advertises(d) THEN TokenFor(d) \in {Secret, NoToken}
         ELSE TokenFor(d) = IF tokenFile # NoToken THEN tokenFile ELSE minted + 1
<1>1. host[d].args.auth \in {"require", "explicit", "off"}
  BY BootConstantsAssumption DEF Typed, Hosts, NoArguments
<1>2. CASE host[d].args.auth = "require"
  BY <1>2 DEF TokenFor, Advertises
<1>3. CASE host[d].args.auth = "explicit"
  BY <1>3 DEF TokenFor, Advertises
<1>4. CASE host[d].args.auth = "off"
  BY <1>4 DEF TokenFor, Advertises
<1>5. QED BY <1>1, <1>2, <1>3, <1>4

LEMMA StepOneToken == Typed /\ OneToken /\ [BootNext]_bootVars => OneToken'
<1> SUFFICES ASSUME Typed, OneToken, [BootNext]_bootVars PROVE OneToken'
  OBVIOUS
<1> USE DEF histories
<1>1. ASSUME NEW d \in Daemons, tokenFile' = tokenFile, raced => raced',
             \A e \in Daemons \ {d}: host'[e] = host[e],
             Holds(d)' => /\ Holds(d) /\ host'[d].token = host[d].token
                          /\ Serving(d)' => Serving(d)
      PROVE  OneToken'
  <2>1. \A e \in Daemons \ {d}: (Holds(e)' <=> Holds(e)) /\ (Serving(e)' <=> Serving(e))
    BY <1>1 DEF Holds, Up, Advertises, Serving, Stands
  <2>2. QED BY <1>1, <2>1, SameTokens
<1>2. ASSUME NEW d \in Daemons, Fails(d), tokenFile' = tokenFile, raced' = raced
      PROVE  OneToken'
  <2>1. ~Holds(d)' /\ \A e \in Daemons \ {d}: host'[e] = host[e]
    BY <1>2, GoesAway DEF Holds, Up
  <2>2. QED BY <1>1, <1>2, <2>1
<1>3. ASSUME NEW d \in Daemons, NEW at \in Places, Proceeds(d, at), at # "serve",
             host[d].at \notin {"off", "bind", "token"} \/ at = "token", tokenFile' = tokenFile, raced' = raced
      PROVE  OneToken'
  <2>1. /\ host'[d].at = at /\ host'[d].args = host[d].args /\ host'[d].token = host[d].token
        /\ \A e \in Daemons \ {d}: host'[e] = host[e]
    BY <1>3, MovesTo
  <2>2. Holds(d)' => Holds(d) /\ ~Serving(d)'
    BY <1>3, <2>1 DEF Holds, Up, Advertises, Serving, Stands
  <2>3. QED BY <1>1, <1>3, <2>1, <2>2
<1>4. ASSUME NEW d \in Daemons, Boot(d) PROVE OneToken'
  <2>1. ~Holds(d)' /\ \A e \in Daemons \ {d}: host'[e] = host[e]
    BY <1>4, BootsUp DEF Holds, Up
  <2>2. QED BY <1>1, <1>4, <2>1 DEF Boot
<1>5. ASSUME NEW d \in Daemons, BindControl(d) PROVE OneToken'
  BY <1>2, <1>3, <1>5 DEF BindControl, Places
<1>6. ASSUME NEW d \in Daemons, ResolveToken(d) PROVE OneToken'
  <2> DEFINE token == TokenFor(d)
  <2>1. /\ host'[d].at = "load" /\ host'[d].args = host[d].args /\ host'[d].token = token
        /\ \A e \in Daemons \ {d}: host'[e] = host[e]
    BY <1>6, ResolvesTo
  <2>2. ~Holds(d) /\ ~Serving(d)' /\ tokenFile' = tokenFile
    BY <1>6, <2>1 DEF ResolveToken, Holds, Serving, Stands
  <2>3. raced => raced'
    BY <1>6 DEF ResolveToken
  <2>4. \A e \in Daemons \ {d}: Holds(e)' => Holds(e) /\ host'[e].token = host[e].token
    BY <2>1 DEF Holds, Up, Advertises
  <2> HIDE DEF token
  <2>5. CASE ~Advertises(d)
    <3>1. ~Holds(d)'
      BY <2>1, <2>5 DEF Holds, Advertises
    <3>2. QED BY <1>1, <2>1, <2>2, <2>3, <3>1
  <2>6. CASE Advertises(d) /\ tokenFile # NoToken
    <3>1. token = tokenFile
      BY <2>6, TokenCases DEF token
    <3>2. HeldTokens'
      BY <2>1, <2>4, <2>6, <3>1 DEF OneToken, HeldTokens
    <3>3. OnDisk => OnDisk'
      BY <2>1, <2>2, <2>4, <2>6, <3>1 DEF OnDisk
    <3>4. QED BY <2>3, <3>2, <3>3 DEF OneToken
  <2>7. CASE Advertises(d) /\ tokenFile = NoToken
    <3>1. token = minted + 1
      BY <2>7, TokenCases DEF token
    <3>2. token # NoToken /\ token > minted
      BY <3>1 DEF NoToken, Typed
    <3>3. HeldTokens'
      BY <2>1, <2>4, <3>2 DEF OneToken, HeldTokens
    <3>4. raced' \/ OnDisk'
      <4>1. ASSUME ~raced' PROVE OnDisk'
        <5>1. \A e \in Daemons \ {d}: ~(Up(e) /\ Advertises(e) /\ host[e].token \notin {NoToken, tokenFile})
          BY <1>6, <3>2, <4>1 DEF ResolveToken, token
        <5>2. \A e \in Daemons \ {d}: ~Holds(e)
          BY <2>7, <5>1 DEF OneToken, HeldTokens, Holds
        <5>3. \A e \in Daemons: Holds(e)' => e = d
          BY <2>4, <5>2
        <5>4. QED BY <2>2, <2>7, <5>3 DEF OnDisk
      <4>2. QED BY <4>1
    <3>5. QED BY <3>3, <3>4 DEF OneToken
  <2>8. QED BY <2>5, <2>6, <2>7
<1>7. ASSUME NEW d \in Daemons,
             \/ LoadState(d) \/ NothingToReclaim(d) \/ LookAtPid(d) \/ SignalLeftover(d)
             \/ KillLeftover(d) \/ SaveReclaimed(d) \/ BindGateway(d)
      PROVE  OneToken'
  <2>1. /\ host[d].at \notin {"off", "bind", "token"} /\ tokenFile' = tokenFile /\ raced' = raced
        /\ \/ Fails(d)
           \/ \E at \in {"reclaim", "signal", "kill", "save", "gateway", "advertise"}: Proceeds(d, at)
    BY <1>7 DEF LoadState, NothingToReclaim, LookAtPid, SignalLeftover, KillLeftover, SaveReclaimed,
                BindGateway, Stands
  <2>2. QED BY <1>2, <1>3, <2>1 DEF Places
<1>8. ASSUME NEW d \in Daemons, AdvertiseToken(d) PROVE OneToken'
  <2>1. CASE Fails(d)
    BY <1>2, <1>8, <2>1, GoesAway, MovesTo DEF AdvertiseToken, Places
  <2>2. CASE Proceeds(d, "serve")
    <3>1. /\ host'[d].at = "serve" /\ host'[d].args = host[d].args /\ host'[d].token = host[d].token
          /\ \A e \in Daemons \ {d}: host'[e] = host[e]
      BY <2>2, MovesTo DEF Places
    <3>2. \A e \in Daemons: /\ Holds(e)' <=> Holds(e)
                            /\ host'[e].token = host[e].token
                            /\ e # d => (Serving(e)' <=> Serving(e))
      BY <1>8, <3>1 DEF AdvertiseToken, Holds, Up, Advertises, Serving, Stands
    <3>3. ~Fails(d)
      BY <3>1, GoesAway
    <3>4. /\ tokenFile' = (IF Advertises(d) THEN host[d].token ELSE tokenFile)
          /\ raced' = raced
      BY <1>8, <3>3 DEF AdvertiseToken
    <3>5. CASE Advertises(d)
      <4>1. Holds(d)
        BY <1>8, <3>5 DEF AdvertiseToken, Holds, Up, Stands
      <4>2. host[d].token # NoToken /\ tokenFile' = host[d].token
        BY <3>4, <3>5, <4>1 DEF OneToken, HeldTokens
      <4>3. HeldTokens'
        BY <3>2 DEF OneToken, HeldTokens
      <4>4. OnDisk => OnDisk'
        BY <3>2, <4>1, <4>2 DEF OnDisk
      <4>5. QED BY <3>4, <4>3, <4>4 DEF OneToken
    <3>6. CASE ~Advertises(d)
      <4>1. ~Holds(d)
        BY <3>6 DEF Holds
      <4>2. ~Holds(d)' /\ tokenFile' = tokenFile
        BY <3>2, <3>4, <3>6, <4>1
      <4>3. QED BY <1>1, <3>1, <3>4, <4>2
    <3>7. QED BY <3>5, <3>6
  <2>3. QED BY <1>8, <2>1, <2>2 DEF AdvertiseToken
<1>9. ASSUME NEW d \in Daemons, RecordChild(d) \/ \E p \in Pids: SpawnChild(d, p) PROVE OneToken'
  <2>1. /\ \E p \in Pids \cup {NoPid}: host' = [host EXCEPT ![d].new = p]
        /\ tokenFile' = tokenFile /\ raced' = raced
    BY <1>9 DEF RecordChild, SpawnChild
  <2>2. /\ host'[d].at = host[d].at /\ host'[d].args = host[d].args /\ host'[d].token = host[d].token
        /\ \A e \in Daemons \ {d}: host'[e] = host[e]
    BY <2>1, Holding
  <2>3. Holds(d)' => /\ Holds(d) /\ host'[d].token = host[d].token
                     /\ Serving(d)' => Serving(d)
    BY <2>2 DEF Holds, Up, Advertises, Serving, Stands
  <2>4. QED BY <1>1, <2>1, <2>2, <2>3
<1>10. ASSUME NEW d \in Daemons, Shutdown(d) \/ Crash(d) PROVE OneToken'
  BY <1>2, <1>10 DEF Shutdown, Crash
<1>11. ASSUME host' = host, tokenFile' = tokenFile, raced' = raced PROVE OneToken'
  <2>1. \A e \in Daemons: (Holds(e)' <=> Holds(e)) /\ (Serving(e)' <=> Serving(e))
    BY <1>11 DEF Holds, Up, Advertises, Serving, Stands
  <2>2. QED BY <1>11, <2>1, SameTokens
<1>12. ASSUME NEW d \in Daemons, StopChild(d) PROVE OneToken'
  BY <1>11, <1>12 DEF StopChild
<1>13. ASSUME NEW p \in Pids, ProviderEnds(p) \/ PidReused(p) PROVE OneToken'
  BY <1>11, <1>13 DEF ProviderEnds, PidReused
<1>14. CASE UNCHANGED bootVars
  BY <1>11, <1>14 DEF bootVars
<1>15. QED
  BY <1>4, <1>5, <1>6, <1>7, <1>8, <1>9, <1>10, <1>12, <1>13, <1>14 DEF BootNext

\* The token file is that of every daemon that serves and advertises its token:
\* resolve_api_token reuses the one on disk, and only a lone minter writes a new one.
THEOREM TokensHonoured == BootSpec => []TokenHonoured
<1>1. OneToken => TokenHonoured
  <2>1. ASSUME OnDisk, NEW d \in Daemons, Serving(d), Advertises(d) PROVE tokenFile = host[d].token
    BY <2>1 DEF OnDisk, Holds, Up, Serving, Stands
  <2>2. QED BY <2>1 DEF OneToken, TokenHonoured
<1>2. QED BY <1>1, InitOneToken, StepOneToken, TypedThroughout, PTL DEF BootSpec

-----------------------------------------------------------------------------
(* GatewayListeners *)


Live == {"open", "closing"}

\* The bindings are open listeners, one each, and none the shutdown has taken.
TableOpen ==
  \A t \in Gated : Bound(t) =>
    /\ listener[bindings[t]].at = "open" /\ bindings[t] \notin teardown.holds
    /\ \A u \in Gated \ {t} : bindings[u] # bindings[t]

\* What a start is about to put into the table is open and nobody else's.
HandsOpen ==
  \A w \in Workers : worker[w].at = "insert" =>
    /\ worker[w].holds \in Listeners /\ worker[w].holds \notin teardown.holds
    /\ listener[worker[w].holds].at = "open"
    /\ \A t \in Gated : bindings[t] # worker[w].holds
    /\ \A v \in Workers \ {w} : worker[v].at = "insert" => worker[v].holds # worker[w].holds

OneSocket ==
  \A l, m \in Listeners :
    l # m /\ listener[l].at \in Live /\ listener[m].at \in Live => listener[l].addr # listener[m].addr

OpenOwned ==
  \A l \in Listeners : listener[l].at = "open" =>
    \/ \E t \in Gated : bindings[t] = l
    \/ \E w \in Workers : worker[w].at = "insert" /\ worker[w].holds = l
    \/ l \in teardown.holds \cup dropped.open

\* Whoever tells a listener to stop waits for it, but for a shutdown or a dropped handler.
ClosingAwaited ==
  \A l \in Listeners : listener[l].at = "closing" =>
    \/ dropped.any \/ teardown.at # "no"
    \/ \E w \in Workers : worker[w].at = "wait" /\ worker[w].holds = l

Leftovers ==
  /\ ~dropped.any => dropped.open = {}
  /\ teardown.at \in {"no", "tunnels"} => teardown.holds = {}
  /\ \A l \in teardown.holds : listener[l].at # "unborn"

\* One that is alone is under way, with no other, no dropped one and no shutdown;
\* and nobody takes an address that it has found free.
Solitude ==
  \A w \in Workers : worker[w].alone =>
    /\ Busy(w) /\ \A v \in Workers \ {w} : ~Busy(v)
    /\ ~dropped.any /\ teardown.at = "no"
    /\ worker[w].at = "bind" => \A t \in Gated : Bound(t) => AddressOf(t) # worker[w].addr

HasTunnel == \A w \in Workers : worker[w].at # "idle" => worker[w].tunnel \in Gated

Owned ==
  /\ ListenersTypeOK /\ HasTunnel /\ TableOpen /\ HandsOpen /\ OneSocket
  /\ OpenOwned /\ ClosingAwaited /\ Leftovers /\ Solitude

-----------------------------------------------------------------------------
LEMMA BoundListener ==
  ASSUME ListenersTypeOK, NEW t \in Gated
  PROVE  Bound(t) <=> bindings[t] \in Listeners
  BY ListenersAssumption DEF ListenersTypeOK, Bound, Listeners

LEMMA InitOwned == ListenersInit => Owned
<1> SUFFICES ASSUME ListenersInit PROVE Owned
  OBVIOUS
<1>1. ListenersTypeOK
  BY ListenersAssumption DEF ListenersInit, ListenersTypeOK, Unused, Listeners
<1>2. HasTunnel /\ TableOpen /\ HandsOpen /\ OneSocket /\ OpenOwned /\ ClosingAwaited
      /\ Leftovers /\ Solitude
  BY DEF ListenersInit, HasTunnel, TableOpen, HandsOpen, OneSocket, OpenOwned, ClosingAwaited, Leftovers,
         Solitude, Unused, Bound, Live
<1>3. QED
  BY <1>1, <1>2 DEF Owned

\* What an action that changes one worker leaves alone.
LEMMA OneWorker ==
  ASSUME ListenersTypeOK, NEW w \in Workers, NEW state, Becomes(w, state)
  PROVE  /\ worker'[w] = state
         /\ \A v \in Workers \ {w} : worker'[v] = worker[v]
  BY DEF Becomes, ListenersTypeOK

WorkerType ==
  [at : {"idle", "blocked", "check", "bind", "insert", "release", "wait"},
   tunnel : Gated \cup {Free}, addr : Addresses \cup {Free},
   holds : Listeners \cup {Free}, alone : BOOLEAN]

LEMMA WorkerTyped ==
  ASSUME ListenersTypeOK, NEW w \in Workers, NEW state \in WorkerType, Becomes(w, state)
  PROVE  worker' \in [Workers -> WorkerType]
  BY DEF Becomes, ListenersTypeOK, WorkerType

LEMMA UnusedTyped == Unused \in WorkerType
  BY DEF Unused, WorkerType

-----------------------------------------------------------------------------
(* A start or a stop that begins *)

LEMMA EnterOwned ==
  ASSUME Owned, NEW w \in Workers, NEW state \in WorkerType, state.at \in {"check", "release"},
         state.tunnel \in Gated, Enter(w, state), UNCHANGED <<bindings, listener, teardown, dropped>>
  PROVE  Owned'
<1> DEFINE alone == ~dropped.any /\ \A v \in Workers \ {w} : ~Busy(v)
<1> USE DEF Owned
<1>1. worker' = [v \in Workers |-> IF v = w THEN [state EXCEPT !.alone = alone]
                                   ELSE [worker[v] EXCEPT !.alone = FALSE]]
  BY DEF Enter
<1>2. /\ worker'[w].at = state.at /\ worker'[w].alone = alone /\ worker'[w].tunnel = state.tunnel
      /\ \A v \in Workers \ {w} : /\ worker'[v].at = worker[v].at /\ worker'[v].holds = worker[v].holds
                                  /\ worker'[v].alone = FALSE
                                  /\ worker'[v].tunnel = worker[v].tunnel
  <2>1. worker \in [Workers -> WorkerType]
    BY DEF ListenersTypeOK, WorkerType
  <2>2. QED
    BY <1>1, <2>1 DEF WorkerType
<1>3. worker[w].at \in {"idle", "blocked"} /\ teardown.at = "no"
  BY DEF Enter
<1>4. ListenersTypeOK'
  <2>1. worker \in [Workers -> WorkerType]
    BY DEF ListenersTypeOK, WorkerType
  <2>2. alone \in BOOLEAN
    OBVIOUS
  <2>3. worker' \in [Workers -> WorkerType]
    BY <1>1, <2>1, <2>2 DEF WorkerType
  <2>4. work' \in 0 .. MaxWork
    BY ListenersAssumption DEF Enter, ListenersTypeOK
  <2>5. QED
    BY <2>3, <2>4 DEF ListenersTypeOK, WorkerType
<1>5. TableOpen' /\ OneSocket' /\ Leftovers'
  BY DEF TableOpen, OneSocket, Leftovers, Bound
<1>6. HandsOpen' /\ HasTunnel'
  BY <1>2 DEF HandsOpen, HasTunnel
<1>7. OpenOwned'
  BY <1>2, <1>3 DEF OpenOwned
<1>8. ClosingAwaited'
  BY <1>2, <1>3 DEF ClosingAwaited
<1>9. Solitude'
  <2>1. \A v \in Workers \ {w} : Busy(v)' = Busy(v)
    BY <1>2 DEF Busy
  <2>2. SUFFICES ASSUME worker'[w].alone
                 PROVE  /\ Busy(w)' /\ \A v \in Workers \ {w} : ~Busy(v)'
                        /\ ~dropped.any /\ teardown.at = "no" /\ worker'[w].at # "bind"
    BY <1>2 DEF Solitude
  <2>3. QED
    BY <1>2, <1>3, <2>1, <2>2 DEF Busy
<1>10. QED
  BY <1>4, <1>5, <1>6, <1>7, <1>8, <1>9

-----------------------------------------------------------------------------
(* Steps of a worker *)

\* One that leaves the table, the listeners and everybody else alone, and holds nothing.
LEMMA QuietOwned ==
  ASSUME Owned, NEW w \in Workers, NEW state \in WorkerType, Busy(w), Becomes(w, state),
         UNCHANGED <<bindings, listener, teardown, work>>,
         dropped' \in [any : BOOLEAN, open : SUBSET Listeners],
         dropped.any => dropped'.any, dropped.open \subseteq dropped'.open,
         ~dropped'.any => dropped'.open = {},
         state.at # "insert" /\ state.at # "wait", state.at # "idle" => state.tunnel \in Gated,
         worker[w].at = "insert" => worker[w].holds \in dropped'.open,
         worker[w].at = "wait" => dropped'.any \/ listener[worker[w].holds].at = "closed",
         state.alone => /\ worker[w].alone /\ state.at \notin {"idle", "blocked"} /\ ~dropped'.any
                        /\ state.at = "bind" =>
                             \A t \in Gated : Bound(t) => AddressOf(t) # state.addr
  PROVE  Owned'
<1> USE DEF Owned
<1>1. /\ worker'[w] = state
      /\ \A v \in Workers \ {w} : worker'[v] = worker[v]
  BY OneWorker
<1>2. ListenersTypeOK'
  <2>1. worker' \in [Workers -> WorkerType]
    BY WorkerTyped
  <2>2. QED
    BY <2>1 DEF ListenersTypeOK, WorkerType
<1>3. TableOpen' /\ OneSocket' /\ Leftovers'
  BY DEF TableOpen, OneSocket, Leftovers, Bound
<1>4. HandsOpen' /\ HasTunnel'
  BY <1>1 DEF HandsOpen, HasTunnel
<1>5. OpenOwned'
  BY <1>1 DEF OpenOwned
<1>6. ClosingAwaited'
  <2> SUFFICES ASSUME NEW l \in Listeners, listener[l].at = "closing", ~dropped'.any, teardown.at = "no"
               PROVE  \E v \in Workers : worker'[v].at = "wait" /\ worker'[v].holds = l
    BY DEF ClosingAwaited
  <2>1. PICK v \in Workers : worker[v].at = "wait" /\ worker[v].holds = l
    BY DEF ClosingAwaited
  <2>2. v # w
    BY <2>1
  <2>3. QED
    BY <1>1, <2>1, <2>2
<1>7. Solitude'
  <2> SUFFICES ASSUME NEW v \in Workers, worker'[v].alone
               PROVE  /\ Busy(v)' /\ \A u \in Workers \ {v} : ~Busy(u)'
                      /\ ~dropped'.any /\ teardown'.at = "no"
                      /\ worker'[v].at = "bind" =>
                           \A t \in Gated : Bound(t)' => AddressOf(t)' # worker'[v].addr
    BY DEF Solitude
  <2>1. worker[v].alone
    BY <1>1
  <2>2. /\ Busy(v) /\ \A u \in Workers \ {v} : ~Busy(u)
        /\ ~dropped.any /\ teardown.at = "no"
        /\ worker[v].at = "bind" => \A t \in Gated : Bound(t) => AddressOf(t) # worker[v].addr
    BY <2>1 DEF Solitude
  <2>3. v = w
    BY <2>2
  <2>4. QED
    BY <1>1, <2>2, <2>3 DEF Busy, Bound, AddressOf
<1>8. QED
  BY <1>2, <1>3, <1>4, <1>5, <1>6, <1>7

LEMMA CheckOwned ==
  ASSUME Owned, NEW w \in Workers, Check(w)
  PROVE  Owned'
<1> USE DEF Owned
<1>1. worker[w].at = "check" /\ worker[w] \in WorkerType
  BY DEF Check, ListenersTypeOK, WorkerType
<1>2. UNCHANGED <<bindings, listener, teardown, work, dropped>>
  BY DEF Check
<1>3. /\ dropped' \in [any : BOOLEAN, open : SUBSET Listeners]
      /\ ~dropped'.any => dropped'.open = {}
      /\ dropped' = dropped
  BY <1>2 DEF ListenersTypeOK, Leftovers
<1>4. Busy(w)
  BY <1>1 DEF Busy
<1>5. CASE Returns(w)
  BY <1>1, <1>2, <1>3, <1>4, <1>5, UnusedTyped, QuietOwned DEF Returns, Unused
<1>6. CASE /\ Moves(w, "bind")
           /\ ~\E t \in Gated : Bound(t) /\ AddressOf(t) = worker[w].addr
  <2> DEFINE state == [worker[w] EXCEPT !.at = "bind"]
  <2>1. state \in WorkerType /\ state.at = "bind" /\ state.alone = worker[w].alone
        /\ state.addr = worker[w].addr /\ state.tunnel \in Gated
    BY <1>1 DEF WorkerType, HasTunnel
  <2>2. Becomes(w, state)
    BY <1>6 DEF Moves
  <2>3. worker[w].alone => ~dropped.any
    BY DEF Solitude
  <2> HIDE DEF state
  <2>4. QED
    BY <1>1, <1>2, <1>3, <1>4, <1>6, <2>1, <2>2, <2>3, QuietOwned
<1>7. QED
  BY <1>5, <1>6 DEF Check

\* Nobody who is alone finds the address taken.
LEMMA AloneFree ==
  ASSUME Owned, NEW w \in Workers, worker[w].at = "bind", worker[w].alone
  PROVE  ~Taken(worker[w].addr)
<1> USE DEF Owned
<1>1. /\ \A v \in Workers \ {w} : ~Busy(v)
      /\ ~dropped.any /\ teardown.at = "no"
      /\ \A t \in Gated : Bound(t) => AddressOf(t) # worker[w].addr
  BY DEF Solitude
<1>2. \A v \in Workers : worker[v].at \notin {"insert", "wait"}
  BY <1>1 DEF Busy
<1>3. \A l \in Listeners : listener[l].at # "closing"
  BY <1>1, <1>2 DEF ClosingAwaited
<1>4. \A l \in Listeners : listener[l].at = "open" => \E t \in Gated : bindings[t] = l
  BY <1>1, <1>2 DEF OpenOwned, Leftovers
<1>5. \A l \in Listeners : listener[l].at = "open" => listener[l].addr # worker[w].addr
  BY <1>1, <1>4, BoundListener DEF AddressOf
<1>6. QED
  BY <1>3, <1>5 DEF Taken

LEMMA BindOwned ==
  ASSUME Owned, NEW w \in Workers, BindListener(w)
  PROVE  Owned'
<1> USE DEF Owned
<1>1. worker[w].at = "bind" /\ worker[w] \in WorkerType /\ Busy(w)
  BY DEF BindListener, ListenersTypeOK, WorkerType, Busy
<1>2. UNCHANGED <<bindings, teardown, work, dropped>>
  BY DEF BindListener
<1>3. CASE Taken(worker[w].addr) /\ Moves(w, "blocked") /\ UNCHANGED listener
  <2> DEFINE state == [worker[w] EXCEPT !.at = "blocked"]
  <2>1. state \in WorkerType /\ state.at = "blocked" /\ state.alone = worker[w].alone
        /\ state.tunnel \in Gated
    BY <1>1 DEF WorkerType, HasTunnel
  <2>2. Becomes(w, state)
    BY <1>3 DEF Moves
  <2>3. ~state.alone
    BY <1>1, <1>3, <2>1, AloneFree
  <2>4. /\ dropped' \in [any : BOOLEAN, open : SUBSET Listeners]
        /\ ~dropped'.any => dropped'.open = {}
        /\ dropped' = dropped
    BY <1>2 DEF ListenersTypeOK, Leftovers
  <2> HIDE DEF state
  <2>5. QED
    BY <1>1, <1>2, <1>3, <2>1, <2>2, <2>3, <2>4, QuietOwned
<1>4. CASE /\ ~Taken(worker[w].addr)
           /\ \E l \in Listeners :
                /\ listener[l].at = "unborn" /\ \A m \in 1 .. l - 1 : listener[m].at # "unborn"
                /\ listener' = [listener EXCEPT ![l] = [at |-> "open", addr |-> worker[w].addr]]
                /\ Becomes(w, [worker[w] EXCEPT !.at = "insert", !.holds = l])
  <2>1. PICK l \in Listeners :
          /\ listener[l].at = "unborn"
          /\ listener' = [listener EXCEPT ![l] = [at |-> "open", addr |-> worker[w].addr]]
          /\ Becomes(w, [worker[w] EXCEPT !.at = "insert", !.holds = l])
    BY <1>4
  <2> DEFINE state == [worker[w] EXCEPT !.at = "insert", !.holds = l]
  <2>2. /\ state \in WorkerType /\ state.at = "insert" /\ state.holds = l
        /\ state.alone = worker[w].alone /\ state.tunnel \in Gated
    BY <1>1 DEF WorkerType, HasTunnel
  <2>3. worker'[w] = state /\ \A v \in Workers \ {w} : worker'[v] = worker[v]
    BY <2>1, OneWorker
  <2>4. worker' \in [Workers -> WorkerType]
    BY <2>1, <2>2, WorkerTyped
  <2>5. /\ listener'[l] = [at |-> "open", addr |-> worker[w].addr]
        /\ \A m \in Listeners \ {l} : listener'[m] = listener[m]
    BY <2>1 DEF ListenersTypeOK
  <2> HIDE DEF state
  <2>6. ListenersTypeOK'
    BY <1>1, <1>2, <2>1, <2>4 DEF ListenersTypeOK, WorkerType
  <2>7. \A t \in Gated : bindings[t] # l
    BY <2>1, BoundListener DEF TableOpen
  <2>8. TableOpen'
    BY <1>2, <2>5, <2>7, BoundListener DEF TableOpen, Bound
  <2>9. l \notin teardown.holds
    BY <2>1 DEF Leftovers
  <2>10. HandsOpen' /\ HasTunnel'
    BY <1>2, <2>1, <2>2, <2>3, <2>5, <2>7, <2>9 DEF HandsOpen, HasTunnel
  <2>11. OneSocket'
    BY <1>4, <2>5 DEF OneSocket, Live, Taken
  <2>12. OpenOwned'
    BY <1>1, <1>2, <2>2, <2>3, <2>5 DEF OpenOwned
  <2>13. ClosingAwaited'
    BY <1>1, <1>2, <2>3, <2>5 DEF ClosingAwaited
  <2>14. Leftovers'
    BY <1>2, <2>5 DEF Leftovers, ListenersTypeOK
  <2>15. Solitude'
    <3> SUFFICES ASSUME NEW v \in Workers, worker'[v].alone
                 PROVE  /\ Busy(v)' /\ \A u \in Workers \ {v} : ~Busy(u)'
                        /\ ~dropped.any /\ teardown.at = "no" /\ worker'[v].at # "bind"
      BY <1>2 DEF Solitude
    <3>1. worker[v].alone
      BY <2>2, <2>3
    <3>2. v = w /\ (\A u \in Workers \ {v} : ~Busy(u)) /\ ~dropped.any /\ teardown.at = "no"
      BY <1>1, <3>1 DEF Solitude
    <3>3. QED
      BY <2>2, <2>3, <3>2 DEF Busy
  <2>16. QED
    BY <2>6, <2>8, <2>10, <2>11, <2>12, <2>13, <2>14, <2>15
<1>5. QED
  BY <1>3, <1>4 DEF BindListener

\* A listener that the table had is told to stop, and waited for by w.
LEMMA ReplacedOwned ==
  ASSUME Owned, NEW w \in Workers, Busy(w), worker[w].at # "wait",
         NEW t \in Gated, Bound(t), NEW new \in Listeners \cup {Free},
         new # Free => worker[w].at = "insert" /\ worker[w].holds = new,
         new = Free => worker[w].at # "insert",
         bindings' = [bindings EXCEPT ![t] = new], Aborts(bindings[t]),
         Becomes(w, [worker[w] EXCEPT !.at = "wait", !.holds = bindings[t]]),
         UNCHANGED <<teardown, work, dropped>>
  PROVE  Owned'
<1> USE DEF Owned
<1> DEFINE previous == bindings[t]
           state == [worker[w] EXCEPT !.at = "wait", !.holds = previous]
<1>1. previous \in Listeners /\ listener[previous].at = "open" /\ previous \notin teardown.holds
      /\ \A u \in Gated \ {t} : bindings[u] # previous
  BY BoundListener DEF TableOpen
<1>2. worker[w] \in WorkerType
  BY DEF ListenersTypeOK, WorkerType
<1>3. /\ state \in WorkerType /\ state.at = "wait" /\ state.holds = previous
      /\ state.alone = worker[w].alone /\ state.tunnel = worker[w].tunnel
  BY <1>1, <1>2 DEF WorkerType
<1>4. worker'[w] = state /\ \A v \in Workers \ {w} : worker'[v] = worker[v]
  BY OneWorker
<1>5. /\ listener'[previous].at = "closing"
      /\ \A l \in Listeners : listener'[l].addr = listener[l].addr
      /\ \A l \in Listeners \ {previous} : listener'[l] = listener[l]
  BY <1>1 DEF Aborts, ListenersTypeOK
<1>6. bindings'[t] = new /\ \A u \in Gated \ {t} : bindings'[u] = bindings[u]
  BY DEF ListenersTypeOK
<1>7. \A v \in Workers : worker[v].at = "insert" => worker[v].holds # previous
  BY DEF HandsOpen
<1>8. new # Free => /\ listener[new].at = "open" /\ new \notin teardown.holds /\ new # previous
                    /\ \A u \in Gated : bindings[u] # new
                    /\ \A v \in Workers \ {w} : worker[v].at = "insert" => worker[v].holds # new
  BY <1>7 DEF HandsOpen
<1>9. ListenersTypeOK'
  <2>1. worker' \in [Workers -> WorkerType]
    BY <1>3, WorkerTyped
  <2>2. bindings' \in [Gated -> Listeners \cup {Free}]
    BY DEF ListenersTypeOK
  <2>3. listener' \in [Listeners -> [at : {"unborn", "open", "closing", "closed"},
                                     addr : Addresses \cup {Free}]]
    BY <1>1 DEF ListenersTypeOK, Aborts
  <2>4. QED
    BY <2>1, <2>2, <2>3 DEF ListenersTypeOK, WorkerType
<1> HIDE DEF state, previous
<1>10. TableOpen'
  <2> SUFFICES ASSUME NEW u \in Gated, Bound(u)'
               PROVE  /\ listener'[bindings'[u]].at = "open" /\ bindings'[u] \notin teardown.holds
                      /\ \A x \in Gated \ {u} : bindings'[x] # bindings'[u]
    BY DEF TableOpen
  <2>1. CASE u = t
    BY <1>5, <1>6, <1>8, <2>1 DEF Bound
  <2>2. CASE u # t
    <3>1. Bound(u) /\ bindings'[u] = bindings[u] /\ bindings[u] \in Listeners \ {previous}
      BY <1>1, <1>6, <2>2, BoundListener DEF Bound
    <3>2. QED
      BY <1>5, <1>6, <1>8, <2>2, <3>1 DEF TableOpen, Bound
  <2>3. QED
    BY <2>1, <2>2
<1>11. HandsOpen' /\ HasTunnel'
  <2>1. HandsOpen'
    <3> SUFFICES ASSUME NEW v \in Workers, worker'[v].at = "insert"
                 PROVE  /\ worker'[v].holds \in Listeners /\ worker'[v].holds \notin teardown.holds
                        /\ listener'[worker'[v].holds].at = "open"
                        /\ \A u \in Gated : bindings'[u] # worker'[v].holds
                        /\ \A x \in Workers \ {v} :
                             worker'[x].at = "insert" => worker'[x].holds # worker'[v].holds
      BY DEF HandsOpen
    <3>1. v # w /\ worker'[v] = worker[v] /\ worker[v].holds # previous
      BY <1>3, <1>4, <1>7
    <3>2. /\ worker[v].holds \in Listeners /\ worker[v].holds \notin teardown.holds
          /\ listener[worker[v].holds].at = "open"
          /\ \A u \in Gated : bindings[u] # worker[v].holds
          /\ \A x \in Workers \ {v} : worker[x].at = "insert" => worker[x].holds # worker[v].holds
      BY <3>1 DEF HandsOpen
    <3>3. new # worker[v].holds
      BY <1>8, <3>1, <3>2, ListenersAssumption DEF Listeners
    <3>4. listener'[worker[v].holds].at = "open"
      BY <1>5, <3>1, <3>2
    <3>5. \A u \in Gated : bindings'[u] # worker[v].holds
      BY <1>6, <3>2, <3>3
    <3>6. \A x \in Workers \ {v} : worker'[x].at = "insert" => worker'[x].holds # worker[v].holds
      BY <1>3, <1>4, <3>2
    <3>7. QED
      BY <3>1, <3>2, <3>4, <3>5, <3>6
  <2>2. worker'[w].tunnel \in Gated
    BY <1>3, <1>4 DEF HasTunnel, Busy
  <2>3. HasTunnel'
    BY <1>4, <2>2 DEF HasTunnel
  <2>4. QED
    BY <2>1, <2>3
<1>12. OneSocket'
  BY <1>1, <1>5 DEF OneSocket, Live
<1>13. OpenOwned'
  <2> SUFFICES ASSUME NEW l \in Listeners, listener'[l].at = "open"
               PROVE  \/ \E u \in Gated : bindings'[u] = l
                      \/ \E v \in Workers : worker'[v].at = "insert" /\ worker'[v].holds = l
                      \/ l \in teardown.holds \cup dropped.open
    BY DEF OpenOwned
  <2>1. l # previous /\ listener[l].at = "open"
    BY <1>5
  <2>2. CASE \E u \in Gated : bindings[u] = l
    BY <1>6, <2>1, <2>2 DEF previous
  <2>3. CASE \E v \in Workers : worker[v].at = "insert" /\ worker[v].holds = l
    BY <1>4, <1>6, <2>3
  <2>4. QED
    BY <2>1, <2>2, <2>3 DEF OpenOwned
<1>14. ClosingAwaited'
  BY <1>3, <1>4, <1>5 DEF ClosingAwaited
<1>15. Leftovers'
  BY <1>1, <1>5 DEF Leftovers, ListenersTypeOK
<1>16. Solitude'
  BY <1>3, <1>4 DEF Solitude, Busy
<1>17. QED
  BY <1>9, <1>10, <1>11, <1>12, <1>13, <1>14, <1>15, <1>16

LEMMA InsertOwned ==
  ASSUME Owned, NEW w \in Workers, Insert(w)
  PROVE  Owned'
<1> USE DEF Owned
<1> DEFINE t == worker[w].tunnel
           new == worker[w].holds
<1>1. worker[w].at = "insert" /\ worker[w] \in WorkerType /\ Busy(w)
  BY DEF Insert, ListenersTypeOK, WorkerType, Busy
<1>2. UNCHANGED <<teardown, work, dropped>> /\ bindings' = [bindings EXCEPT ![t] = new]
  BY DEF Insert
<1>3. /\ new \in Listeners /\ new \notin teardown.holds /\ listener[new].at = "open"
      /\ \A u \in Gated : bindings[u] # new
      /\ \A v \in Workers \ {w} : worker[v].at = "insert" => worker[v].holds # new
  BY <1>1 DEF HandsOpen
<1>4. CASE t \in Gated /\ bindings[t] # Free
  <2>1. Aborts(bindings[t]) /\ Becomes(w, [worker[w] EXCEPT !.at = "wait", !.holds = bindings[t]])
    BY <1>4 DEF Insert
  <2>2. Bound(t)
    BY <1>4 DEF Bound
  <2> HIDE DEF t
  <2>3. new # Free => worker[w].at = "insert" /\ worker[w].holds = new
    BY <1>1
  <2>4. new \in Listeners \cup {Free} /\ new # Free /\ worker[w].at # "wait"
    BY <1>1, <1>3, ListenersAssumption DEF Listeners
  <2> HIDE DEF new
  <2>5. QED
    BY <1>1, <1>2, <1>4, <2>1, <2>2, <2>3, <2>4, ReplacedOwned
<1>5. CASE t \in Gated /\ bindings[t] = Free
  <2>1. Returns(w) /\ UNCHANGED listener
    BY <1>5 DEF Insert
  <2>2. worker'[w] = Unused /\ \A v \in Workers \ {w} : worker'[v] = worker[v]
    BY <2>1, OneWorker DEF Returns
  <2>3. worker' \in [Workers -> WorkerType]
    BY <2>1, WorkerTyped, UnusedTyped DEF Returns
  <2>4. bindings'[t] = new /\ \A u \in Gated \ {t} : bindings'[u] = bindings[u]
    BY <1>2, <1>5 DEF ListenersTypeOK
  <2>5. ListenersTypeOK'
    BY <1>2, <1>3, <1>5, <2>1, <2>3 DEF ListenersTypeOK, WorkerType
  <2> HIDE DEF t, new
  <2>6. TableOpen'
    BY <1>2, <1>3, <1>5, <2>1, <2>4 DEF TableOpen, Bound
  <2>7. HandsOpen' /\ HasTunnel'
    BY <1>2, <1>3, <1>5, <2>1, <2>2, <2>4 DEF HandsOpen, HasTunnel, Unused
  <2>8. OneSocket' /\ Leftovers'
    BY <1>2, <2>1 DEF OneSocket, Leftovers
  <2>9. OpenOwned'
    BY <1>2, <1>5, <2>1, <2>2, <2>4, ListenersAssumption DEF OpenOwned, Listeners, new
  <2>10. ClosingAwaited'
    BY <1>1, <1>2, <2>1, <2>2 DEF ClosingAwaited
  <2>11. Solitude'
    BY <1>1, <1>2, <2>1, <2>2 DEF Solitude, Busy, Unused
  <2>12. QED
    BY <2>5, <2>6, <2>7, <2>8, <2>9, <2>10, <2>11
<1>6. QED
  BY <1>1, <1>4, <1>5 DEF HasTunnel

LEMMA UnbindOwned ==
  ASSUME Owned, NEW w \in Workers, Unbind(w)
  PROVE  Owned'
<1> USE DEF Owned
<1> DEFINE t == worker[w].tunnel
<1>1. worker[w].at = "release" /\ worker[w] \in WorkerType /\ Busy(w) /\ t \in Gated
  BY DEF Unbind, ListenersTypeOK, WorkerType, Busy, HasTunnel
<1>2. UNCHANGED <<teardown, work, dropped>> /\ bindings' = [bindings EXCEPT ![t] = Free]
  BY DEF Unbind
<1>3. CASE Bound(t)
  <2>1. Aborts(bindings[t]) /\ Becomes(w, [worker[w] EXCEPT !.at = "wait", !.holds = bindings[t]])
    BY <1>3 DEF Unbind
  <2> HIDE DEF t
  <2>2. QED
    BY <1>1, <1>2, <1>3, <2>1, ReplacedOwned
<1>4. CASE ~Bound(t)
  <2>1. Returns(w) /\ UNCHANGED listener
    BY <1>4 DEF Unbind
  <2>2. bindings' = bindings
    BY <1>1, <1>2, <1>4 DEF Bound, ListenersTypeOK
  <2>3. /\ dropped' \in [any : BOOLEAN, open : SUBSET Listeners]
        /\ ~dropped'.any => dropped'.open = {}
        /\ dropped' = dropped
    BY <1>2 DEF ListenersTypeOK, Leftovers
  <2> HIDE DEF t
  <2>4. QED
    BY <1>1, <1>2, <2>1, <2>2, <2>3, UnusedTyped, QuietOwned DEF Returns, Unused
<1>5. QED
  BY <1>3, <1>4

LEMMA WaitedOwned ==
  ASSUME Owned, NEW w \in Workers, Waited(w)
  PROVE  Owned'
<1> USE DEF Owned
<1>1. worker[w].at = "wait" /\ listener[worker[w].holds].at = "closed" /\ Busy(w) /\ Returns(w)
  BY DEF Waited, Busy
<1>2. UNCHANGED <<bindings, listener, teardown, work, dropped>>
  BY DEF Waited
<1>3. /\ dropped' \in [any : BOOLEAN, open : SUBSET Listeners]
      /\ ~dropped'.any => dropped'.open = {}
      /\ dropped' = dropped
  BY <1>2 DEF ListenersTypeOK, Leftovers
<1>4. QED
  BY <1>1, <1>2, <1>3, UnusedTyped, QuietOwned DEF Returns, Unused

LEMMA DropOwned ==
  ASSUME Owned, NEW w \in Workers, DropWorker(w)
  PROVE  Owned'
<1> USE DEF Owned
<1>1. Busy(w) /\ Returns(w) /\ UNCHANGED <<bindings, listener, teardown, work>>
  BY DEF DropWorker, Busy
<1>2. /\ dropped'.any /\ dropped.open \subseteq dropped'.open
      /\ worker[w].at = "insert" => worker[w].holds \in dropped'.open
      /\ dropped' \in [any : BOOLEAN, open : SUBSET Listeners]
  BY DEF DropWorker, HandsOpen, ListenersTypeOK
<1>3. QED
  BY <1>1, <1>2, UnusedTyped, QuietOwned DEF Returns, Unused

-----------------------------------------------------------------------------
(* Listeners and the shutdown *)

LEMMA CloseOwned ==
  ASSUME Owned, NEW l \in Listeners, Close(l)
  PROVE  Owned'
<1> USE DEF Owned
<1>1. /\ listener[l].at = "closing" /\ UNCHANGED <<bindings, worker, teardown, work, dropped>>
      /\ listener' = [listener EXCEPT ![l].at = "closed"]
  BY DEF Close
<1>2. /\ listener'[l].at = "closed" /\ \A m \in Listeners \ {l} : listener'[m] = listener[m]
      /\ \A m \in Listeners : listener'[m].addr = listener[m].addr
  BY <1>1 DEF ListenersTypeOK
<1>3. ListenersTypeOK'
  BY <1>1 DEF ListenersTypeOK
<1>4. TableOpen'
  BY <1>1, <1>2, BoundListener DEF TableOpen, Bound
<1>5. HandsOpen' /\ HasTunnel'
  BY <1>1, <1>2 DEF HandsOpen, HasTunnel
<1>6. OneSocket'
  BY <1>1, <1>2 DEF OneSocket, Live
<1>7. OpenOwned' /\ ClosingAwaited'
  BY <1>1, <1>2 DEF OpenOwned, ClosingAwaited
<1>8. Leftovers'
  BY <1>1, <1>2 DEF Leftovers, ListenersTypeOK
<1>9. Solitude'
  <2>1. \A t \in Gated : Bound(t) => AddressOf(t)' = AddressOf(t)
    BY <1>1, <1>2, BoundListener DEF AddressOf
  <2>2. QED
    BY <1>1, <2>1 DEF Solitude, Busy, Bound
<1>10. QED
  BY <1>3, <1>4, <1>5, <1>6, <1>7, <1>8, <1>9

LEMMA BeginTeardownOwned == Owned /\ BeginTeardown => Owned'
<1> SUFFICES ASSUME Owned, BeginTeardown PROVE Owned'
  OBVIOUS
<1> USE DEF Owned
<1>1. worker \in [Workers -> WorkerType]
  BY DEF ListenersTypeOK, WorkerType
<1>2. \A w \in Workers : /\ worker'[w].alone = FALSE /\ worker'[w].at = worker[w].at
                         /\ worker'[w].holds = worker[w].holds
                         /\ worker'[w].tunnel = worker[w].tunnel
  BY <1>1 DEF BeginTeardown, WorkerType
<1>3. worker' \in [Workers -> WorkerType]
  BY <1>1 DEF BeginTeardown, WorkerType
<1>4. /\ teardown'.at = "tunnels" /\ teardown'.holds = teardown.holds /\ teardown.at = "no"
      /\ teardown' \in [at : {"no", "tunnels", "listeners", "down"}, holds : SUBSET Listeners]
      /\ UNCHANGED <<bindings, listener, work, dropped>>
  BY DEF BeginTeardown, ListenersTypeOK
<1>5. ListenersTypeOK'
  BY <1>3, <1>4 DEF ListenersTypeOK, WorkerType
<1>6. TableOpen' /\ OneSocket' /\ Leftovers' /\ ClosingAwaited'
  BY <1>4 DEF TableOpen, OneSocket, Leftovers, ClosingAwaited, Bound
<1>7. HandsOpen' /\ HasTunnel'
  BY <1>2, <1>4 DEF HandsOpen, HasTunnel
<1>8. OpenOwned'
  BY <1>2, <1>4 DEF OpenOwned
<1>9. Solitude'
  BY <1>2 DEF Solitude
<1>10. QED
  BY <1>5, <1>6, <1>7, <1>8, <1>9

\* Nobody is alone any more.
LEMMA TakeOwned == Owned /\ TakeBindings => Owned'
<1> SUFFICES ASSUME Owned, TakeBindings PROVE Owned'
  OBVIOUS
<1> USE DEF Owned
<1> DEFINE taken == {bindings[t] : t \in Gated} \ {Free}
<1>1. /\ teardown.at = "tunnels" /\ teardown' = [at |-> "listeners", holds |-> taken]
      /\ bindings' = [t \in Gated |-> Free] /\ UNCHANGED <<listener, worker, work, dropped>>
  BY DEF TakeBindings
<1>2. taken \subseteq Listeners /\ \A l \in taken : listener[l].at = "open"
  BY BoundListener DEF TableOpen, Bound, ListenersTypeOK
<1>3. teardown.holds = {}
  BY <1>1 DEF Leftovers
<1>4. ListenersTypeOK'
  BY <1>1, <1>2 DEF ListenersTypeOK
<1>5. TableOpen' /\ OneSocket' /\ ClosingAwaited' /\ HasTunnel'
  BY <1>1 DEF TableOpen, OneSocket, ClosingAwaited, HasTunnel, Bound
<1>6. HandsOpen'
  BY <1>1, ListenersAssumption DEF HandsOpen, Listeners
<1>7. OpenOwned'
  BY <1>1, <1>3, ListenersAssumption DEF OpenOwned, Listeners
<1>8. Leftovers'
  BY <1>1, <1>2 DEF Leftovers
<1>9. Solitude'
  BY <1>1 DEF Solitude
<1>10. QED
  BY <1>4, <1>5, <1>6, <1>7, <1>8, <1>9

LEMMA StopTakenOwned == Owned /\ StopTaken => Owned'
<1> SUFFICES ASSUME Owned, StopTaken PROVE Owned'
  OBVIOUS
<1> USE DEF Owned
<1>1. PICK l \in teardown.holds : listener[l].at = "open" /\ Aborts(l)
  BY DEF StopTaken
<1>2. teardown.at = "listeners" /\ UNCHANGED <<bindings, worker, teardown, work, dropped>>
  BY DEF StopTaken
<1>3. l \in Listeners
  BY DEF ListenersTypeOK
<1>4. /\ listener'[l].at = "closing" /\ \A m \in Listeners \ {l} : listener'[m] = listener[m]
      /\ \A m \in Listeners : listener'[m].addr = listener[m].addr
  BY <1>1, <1>3 DEF Aborts, ListenersTypeOK
<1>5. ListenersTypeOK'
  BY <1>1, <1>2, <1>3 DEF ListenersTypeOK, Aborts
<1>6. TableOpen'
  BY <1>2, <1>4, BoundListener DEF TableOpen, Bound
<1>7. HandsOpen' /\ HasTunnel'
  BY <1>2, <1>4 DEF HandsOpen, HasTunnel
<1>8. OneSocket'
  BY <1>1, <1>3, <1>4 DEF OneSocket, Live
<1>9. OpenOwned' /\ ClosingAwaited'
  BY <1>2, <1>4 DEF OpenOwned, ClosingAwaited
<1>10. Leftovers'
  BY <1>2, <1>4 DEF Leftovers, ListenersTypeOK
<1>11. Solitude'
  BY <1>2 DEF Solitude
<1>12. QED
  BY <1>5, <1>6, <1>7, <1>8, <1>9, <1>10, <1>11

LEMMA EndTeardownOwned == Owned /\ EndTeardown => Owned'
<1> SUFFICES ASSUME Owned, EndTeardown PROVE Owned'
  OBVIOUS
<1> USE DEF Owned
<1>1. /\ teardown.at = "listeners" /\ \A l \in teardown.holds : listener[l].at = "closed"
      /\ teardown' = [at |-> "down", holds |-> {}]
      /\ UNCHANGED <<bindings, listener, worker, work, dropped>>
  BY DEF EndTeardown
<1>2. ListenersTypeOK'
  BY <1>1 DEF ListenersTypeOK
<1>3. TableOpen' /\ OneSocket' /\ ClosingAwaited' /\ HasTunnel' /\ HandsOpen' /\ Leftovers'
  BY <1>1 DEF TableOpen, OneSocket, ClosingAwaited, HasTunnel, HandsOpen, Leftovers, Bound
<1>4. OpenOwned'
  BY <1>1 DEF OpenOwned
<1>5. Solitude'
  BY <1>1 DEF Solitude
<1>6. QED
  BY <1>2, <1>3, <1>4, <1>5

-----------------------------------------------------------------------------
LEMMA StepOwned == Owned /\ [ListenersNext]_listenerVars => Owned'
<1> SUFFICES ASSUME Owned, [ListenersNext]_listenerVars PROVE Owned'
  OBVIOUS
<1>1. ASSUME NEW w \in Workers, NEW t \in Gated, StopListening(w, t) PROVE Owned'
  <2> DEFINE state == [Unused EXCEPT !.at = "release", !.tunnel = t]
  <2>1. state \in WorkerType /\ state.at \in {"check", "release"} /\ state.tunnel \in Gated
    BY DEF Unused, WorkerType
  <2>2. Enter(w, state) /\ UNCHANGED <<bindings, listener, teardown, dropped>>
    BY <1>1 DEF StopListening
  <2> HIDE DEF state
  <2>3. QED
    BY <2>1, <2>2, EnterOwned
<1>2. ASSUME NEW w \in Workers, NEW t \in Gated, NEW a \in Addresses, StartListening(w, t, a)
      PROVE  Owned'
  <2> DEFINE state == [Unused EXCEPT !.at = "check", !.tunnel = t, !.addr = a]
  <2>1. state \in WorkerType /\ state.at \in {"check", "release"} /\ state.tunnel \in Gated
    BY DEF Unused, WorkerType
  <2>2. Enter(w, state) /\ UNCHANGED <<bindings, listener, teardown, dropped>>
    BY <1>2 DEF StartListening
  <2> HIDE DEF state
  <2>3. QED
    BY <2>1, <2>2, EnterOwned
<1>3. ASSUME NEW w \in Workers,
             Check(w) \/ BindListener(w) \/ Insert(w) \/ Unbind(w) \/ Waited(w) \/ DropWorker(w)
      PROVE  Owned'
  BY <1>3, CheckOwned, BindOwned, InsertOwned, UnbindOwned, WaitedOwned, DropOwned
<1>4. ASSUME NEW l \in Listeners, Close(l) PROVE Owned'
  BY <1>4, CloseOwned
<1>5. CASE BeginTeardown \/ TakeBindings \/ StopTaken \/ EndTeardown
  BY <1>5, BeginTeardownOwned, TakeOwned, StopTakenOwned, EndTeardownOwned
<1>6. CASE UNCHANGED listenerVars
  BY <1>6 DEF listenerVars, Owned, ListenersTypeOK, HasTunnel, TableOpen, HandsOpen, OneSocket,
              OpenOwned, ClosingAwaited, Leftovers, Solitude, Bound, AddressOf, Busy
<1>7. QED
  BY <1>1, <1>2, <1>3, <1>4, <1>5, <1>6 DEF ListenersNext

LEMMA AlwaysOwned == ListenersSpec => []Owned
<1>1. QED
  BY InitOwned, StepOwned, PTL DEF ListenersSpec

\* Every reachable state of the listeners, their workers and the shutdown is well
\* typed, whatever starts, stops, drops and shutdowns come together.
THEOREM ListenersTypeCorrect == ListenersSpec => []ListenersTypeOK
<1>1. Owned => ListenersTypeOK
  BY DEF Owned
<1>2. QED
  BY <1>1, AlwaysOwned, PTL

\* Every listener that accepts connections has its owner, one address has one
\* listener in the table, and a start that has the daemon to itself gets its address.
THEOREM ListenersAlwaysOwned == ListenersSpec => []ListenersOwned
<1>1. ASSUME Owned PROVE ListenersOwned
  <2> USE DEF Owned
  <2>1. ASSUME NEW t \in Gated, Bound(t)
        PROVE  /\ listener[bindings[t]].at = "open"
               /\ \A u \in Gated \ {t} : Bound(u) => AddressOf(u) # AddressOf(t)
    BY <1>1, <2>1, BoundListener DEF TableOpen, OneSocket, Live, AddressOf
  <2>2. OpenOwned
    BY <1>1
  <2>3. \A w \in Workers : worker[w].at = "blocked" => ~worker[w].alone
    BY <1>1 DEF Solitude, Busy
  <2>4. QED
    BY <2>1, <2>2, <2>3 DEF ListenersOwned, OpenOwned
<1>2. QED
  BY <1>1, AlwaysOwned, PTL
=============================================================================
