----------------------------- MODULE DaemonBoot -----------------------------
(***************************************************************************)
(* The life of a daemon process (start, serve and shutdown in              *)
(* crates/tunnelmuxd/src/lib.rs) and what it finds of earlier ones: the    *)
(* ports, the shared token file, the state file, and the provider that a   *)
(* killed daemon left running, which reclaim_leftover_providers            *)
(* (runtime.rs) looks for before anything is served.                       *)
(*                                                                         *)
(* One tunnel; TunnelLifecycle has what several starts of it do.           *)
(***************************************************************************)
EXTENDS Integers, FiniteSets

CONSTANTS Daemons,       \* daemon processes
          Arguments,     \* their command lines
          Pids, NoPid,
          MaxBoots,      \* bound on starts of daemons
          MaxTroubles    \* bound on crashes, failures and reused pids

Nil == "none"     \* no daemon

ASSUME BootConstantsAssumption ==
  /\ NoPid \notin Pids /\ Nil \notin Daemons /\ {MaxBoots, MaxTroubles} \subseteq Nat
  /\ \A a \in Arguments: a.auth \in {"require", "explicit", "off"} /\ a.keep \in BOOLEAN

NoToken == 0
Secret == -1      \* an explicit token: the caller's own

VARIABLES
  host,        \* each daemon process: where it is, its arguments and its token
  status,      \* the tunnel's status in each daemon's memory
  stateFile,   \* and in the state file
  tokenFile,
  process,     \* each pid: "free", "provider" or "other"
  parent,      \* the daemon that holds a provider as its child
  boots, troubles, minted,
  excused,     \* history: providers that no record can be asked for
  shared,      \* history: two daemons have been up on one data directory
  raced        \* history: two daemons have minted a token at the same time

bootVars == <<host, status, stateFile, tokenFile, process, parent, boots,
              troubles, minted, excused, shared, raced>>

Stopped == [claims |-> FALSE, pid |-> NoPid, told |-> NoPid]
NoArguments == [port |-> "none", gateway |-> "none", auth |-> "off", keep |-> FALSE]
Off == [at |-> "off", args |-> NoArguments, token |-> NoToken, new |-> NoPid]

BootInit ==
  /\ host = [d \in Daemons |-> Off] /\ status = [d \in Daemons |-> Stopped]
  /\ stateFile = Stopped /\ tokenFile = NoToken
  /\ process = [p \in Pids |-> "free"] /\ parent = [p \in Pids |-> Nil]
  /\ boots = 0 /\ troubles = 0 /\ minted = 0
  /\ excused = {} /\ shared = FALSE /\ raced = FALSE

-----------------------------------------------------------------------------
(* Ports and steps *)

Up(d) == host[d].at \notin {"off", "bind"}
Reserved(port) == \E d \in Daemons: Up(d) /\ host[d].args.port = port
GatewayTaken(g) == \E d \in Daemons:
  host[d].at \in {"advertise", "serve"} /\ host[d].args.gateway = g

Trouble == troubles < MaxTroubles /\ troubles' = troubles + 1
Smooth == UNCHANGED troubles

Stands(d, at) == host[d].at = at
Proceeds(d, at) == host' = [host EXCEPT ![d].at = at]

(* A start that fails drops its listener, and goes away with an error.      *)
Fails(d) == host' = [host EXCEPT ![d] = Off]

providers == <<process, parent>>
histories == <<boots, excused, shared, raced>>

Boot(d) ==
  /\ Stands(d, "off") /\ boots < MaxBoots /\ boots' = boots + 1
  /\ \E a \in Arguments: host' = [host EXCEPT ![d] = [Off EXCEPT !.at = "bind", !.args = a]]
  /\ UNCHANGED <<status, stateFile, tokenFile, providers, troubles, minted,
                 excused, shared, raced>>

(* The control port comes first: a second instance goes away silently.      *)
BindControl(d) ==
  /\ Stands(d, "bind") /\ Smooth
  /\ IF Reserved(host[d].args.port)
       THEN Fails(d) /\ UNCHANGED shared
       ELSE Proceeds(d, "token") /\ shared' = (shared \/ \E e \in Daemons: Up(e))
  /\ UNCHANGED <<status, stateFile, tokenFile, providers, minted, boots, excused, raced>>

Advertises(d) == host[d].args.auth = "require"

TokenFor_AlwaysMinted(d) ==
  IF host[d].args.auth = "explicit" THEN Secret ELSE minted + 1

(* An explicit token is the caller's; else a usable one on disk is reused.  *)
TokenFor(d) ==
  CASE host[d].args.auth = "explicit" -> Secret
    [] host[d].args.auth = "off"      -> NoToken
    [] OTHER -> IF tokenFile # NoToken THEN tokenFile ELSE minted + 1

ResolveToken(d) ==
  LET token == TokenFor(d)
      mints == token > minted
  IN
  /\ Stands(d, "token") /\ Smooth
  /\ host' = [host EXCEPT ![d].at = "load", ![d].token = token]
  /\ minted' = IF mints THEN token ELSE minted
  /\ raced' = (raced \/ (mints /\ \E e \in Daemons \ {d}:
                 Up(e) /\ Advertises(e) /\ host[e].token \notin {NoToken, tokenFile}))
  /\ UNCHANGED <<status, stateFile, tokenFile, providers, boots, excused, shared>>

(* load_persisted_state_for_reclaim and the config file. Either may be bad. *)
LoadState(d) ==
  /\ Stands(d, "load")
  /\ \/ Proceeds(d, "reclaim") /\ status' = [status EXCEPT ![d] = stateFile] /\ Smooth
     \/ Fails(d) /\ UNCHANGED status /\ Trouble
  /\ UNCHANGED <<stateFile, tokenFile, providers, minted, histories>>

-----------------------------------------------------------------------------
(* reclaim_leftover_providers *)

Claims(s) == s.claims \/ s.pid # NoPid

(* The reset status: what it says of a process that may still run.          *)
Cleared(d, told) ==
  status' = [status EXCEPT ![d] = [Stopped EXCEPT !.told = told]]

NothingToReclaim(d) ==
  /\ Stands(d, "reclaim") /\ Smooth
  /\ \/ ~Claims(status[d]) /\ Proceeds(d, "gateway") /\ UNCHANGED status
     \/ Claims(status[d]) /\ status[d].pid = NoPid /\ Proceeds(d, "save") /\ Cleared(d, NoPid)
  /\ UNCHANGED <<stateFile, tokenFile, providers, minted, histories>>

(* The process table answers, or cannot be read.                            *)
Answers(p) == {"unknown", IF process[p] = "free" THEN "gone" ELSE "running"}

(* Only a process whose command line names this tunnel's provider and       *)
(* target is ever signalled.                                                *)
IsOurs(p) == process[p] = "provider"

Told_UnknownIsGone(p, answer, keep) ==
  IF answer = "running" /\ (keep \/ ~IsOurs(p)) THEN p ELSE NoPid

Told(p, answer, keep) ==
  IF answer = "unknown" \/ (answer = "running" /\ (keep \/ ~IsOurs(p)))
    THEN p ELSE NoPid

LookAtPid(d) ==
  LET p == status[d].pid
      keep == host[d].args.keep
  IN
  /\ Stands(d, "reclaim") /\ p # NoPid
  /\ \E answer \in Answers(p):
       /\ IF answer = "unknown" THEN Trouble ELSE Smooth
       /\ IF answer = "running" /\ IsOurs(p) /\ ~keep
            THEN Proceeds(d, "signal") /\ UNCHANGED status
            ELSE Proceeds(d, "save") /\ Cleared(d, Told(p, answer, keep))
  /\ UNCHANGED <<stateFile, tokenFile, providers, minted, histories>>

Ends(p) == process' = [process EXCEPT ![p] = "free"] /\ parent' = [parent EXCEPT ![p] = Nil]

(* TERM, up to three seconds, KILL. A provider that cannot be signalled, or *)
(* survives, is recorded as terminated all the same.                        *)
SignalLeftover(d) ==
  LET p == status[d].pid IN
  /\ Stands(d, "signal")
  /\ \/ /\ process[p] = "provider" /\ Ends(p)
        /\ Proceeds(d, "save") /\ Cleared(d, NoPid) /\ Smooth /\ UNCHANGED excused
     \/ /\ process[p] = "provider" /\ Proceeds(d, "kill")
        /\ UNCHANGED <<status, providers, excused>> /\ Smooth
     \/ /\ process[p] # "provider" /\ Proceeds(d, "save") /\ Cleared(d, NoPid)
        /\ UNCHANGED <<providers, excused>> /\ Smooth
     \/ /\ Proceeds(d, "save") /\ Cleared(d, NoPid) /\ Trouble
        /\ excused' = excused \cup {p} /\ UNCHANGED providers
  /\ UNCHANGED <<stateFile, tokenFile, minted, boots, shared, raced>>

(* Nothing is looked at again before the KILL but whether the pid is there. *)
KillLeftover(d) ==
  LET p == status[d].pid IN
  /\ Stands(d, "kill") /\ Proceeds(d, "save") /\ Cleared(d, NoPid)
  /\ \/ Ends(p) /\ UNCHANGED excused /\ Smooth
     \/ excused' = excused \cup {p} /\ UNCHANGED providers /\ Trouble
  /\ UNCHANGED <<stateFile, tokenFile, minted, boots, shared, raced>>

(* The file has to agree before anything is read; if it cannot be written   *)
(* the start fails, with what it has reclaimed.                             *)
SaveReclaimed(d) ==
  /\ Stands(d, "save")
  /\ \/ stateFile' = status[d] /\ Proceeds(d, "gateway") /\ Smooth
     \/ UNCHANGED stateFile /\ Fails(d) /\ Trouble
  /\ UNCHANGED <<status, tokenFile, providers, minted, histories>>

BindGateway(d) ==
  /\ Stands(d, "gateway") /\ Smooth
  /\ IF GatewayTaken(host[d].args.gateway) THEN Fails(d) ELSE Proceeds(d, "advertise")
  /\ UNCHANGED <<status, stateFile, tokenFile, providers, minted, histories>>

(* Only now is the token written for local clients to discover.             *)
AdvertiseToken(d) ==
  /\ Stands(d, "advertise")
  /\ \/ /\ tokenFile' = IF Advertises(d) THEN host[d].token ELSE tokenFile
        /\ Proceeds(d, "serve") /\ Smooth
     \/ Advertises(d) /\ UNCHANGED tokenFile /\ Fails(d) /\ Trouble
  /\ UNCHANGED <<status, stateFile, providers, minted, histories>>

-----------------------------------------------------------------------------
(* While it serves *)

Serving(d) == Stands(d, "serve")
Children(d) == {p \in Pids: parent[p] = d}

(* The operator who starts or stops the tunnel has been told.               *)
Forgotten(d) == {status[d].told} \ {NoPid}

(* A provider is spawned, its pid goes into the status and then to disk.    *)
SpawnChild(d, p) ==
  /\ Serving(d) /\ Children(d) = {} /\ host[d].new = NoPid /\ process[p] = "free"
  /\ process' = [process EXCEPT ![p] = "provider"]
  /\ parent' = [parent EXCEPT ![p] = d]
  /\ host' = [host EXCEPT ![d].new = p]
  /\ status' = [status EXCEPT ![d] = [claims |-> TRUE, pid |-> NoPid, told |-> NoPid]]
  /\ stateFile' = status'[d]
  /\ excused' = (excused \cup Forgotten(d)) \ {p}
  /\ UNCHANGED <<tokenFile, minted, troubles, boots, shared, raced>>

RecordChild(d) ==
  LET p == host[d].new IN
  /\ Serving(d) /\ p # NoPid /\ host' = [host EXCEPT ![d].new = NoPid]
  /\ status' = [status EXCEPT ![d].pid = p]
  /\ \/ stateFile' = status'[d] /\ Smooth /\ UNCHANGED excused
     \/ UNCHANGED stateFile /\ Trouble /\ excused' = excused \cup {p}
  /\ UNCHANGED <<tokenFile, providers, minted, boots, shared, raced>>

StopChild(d) ==
  /\ Serving(d) /\ host[d].new = NoPid /\ Claims(status[d])
  /\ process' = [p \in Pids |-> IF p \in Children(d) THEN "free" ELSE process[p]]
  /\ parent' = [p \in Pids |-> IF p \in Children(d) THEN Nil ELSE parent[p]]
  /\ status' = [status EXCEPT ![d] = Stopped]
  /\ \/ stateFile' = Stopped /\ Smooth
     \/ UNCHANGED stateFile /\ Trouble
  /\ UNCHANGED <<host, tokenFile, minted, histories>>

(* DaemonHandle::shutdown ends the children and saves nothing.              *)
Shutdown(d) ==
  /\ Serving(d) /\ Fails(d) /\ Smooth
  /\ process' = [p \in Pids |-> IF p \in Children(d) THEN "free" ELSE process[p]]
  /\ parent' = [p \in Pids |-> IF p \in Children(d) THEN Nil ELSE parent[p]]
  /\ UNCHANGED <<status, stateFile, tokenFile, minted, histories>>

(* The process is killed. Its children live on.                             *)
Crash(d) ==
  /\ host[d].at # "off" /\ Fails(d) /\ Trouble
  /\ parent' = [p \in Pids |-> IF p \in Children(d) THEN Nil ELSE parent[p]]
  /\ excused' = excused \cup ({host[d].new} \ {NoPid})
  /\ UNCHANGED <<status, stateFile, tokenFile, process, minted, boots, shared, raced>>

ProviderEnds(p) ==
  /\ process[p] # "free" /\ Ends(p) /\ Trouble
  /\ UNCHANGED <<host, status, stateFile, tokenFile, minted, histories>>

PidReused(p) ==
  /\ process[p] = "free" /\ process' = [process EXCEPT ![p] = "other"] /\ Trouble
  /\ UNCHANGED <<host, status, stateFile, tokenFile, parent, minted, histories>>

BootNext ==
  \/ \E d \in Daemons:
       \/ Boot(d) \/ BindControl(d) \/ ResolveToken(d) \/ LoadState(d)
       \/ NothingToReclaim(d) \/ LookAtPid(d) \/ SignalLeftover(d) \/ KillLeftover(d)
       \/ SaveReclaimed(d) \/ BindGateway(d) \/ AdvertiseToken(d)
       \/ RecordChild(d) \/ StopChild(d) \/ Shutdown(d) \/ Crash(d)
       \/ \E p \in Pids: SpawnChild(d, p)
  \/ \E p \in Pids: ProviderEnds(p) \/ PidReused(p)

BootSpec == BootInit /\ [][BootNext]_bootVars

-----------------------------------------------------------------------------
(* Properties *)

Record == [claims: BOOLEAN, pid: Pids \cup {NoPid}, told: Pids \cup {NoPid}]

BootTypeOK ==
  /\ stateFile \in Record /\ status \in [Daemons -> Record]
  /\ process \in [Pids -> {"free", "provider", "other"}]
  /\ parent \in [Pids -> Daemons \cup {Nil}]
  /\ \A d \in Daemons:
       host[d].at \in {"off", "bind", "token", "load", "reclaim", "signal", "kill",
                       "save", "gateway", "advertise", "serve"}
  /\ boots <= MaxBoots /\ troubles <= MaxTroubles

(* Whatever is killed and started again, a provider that runs is the child  *)
(* of a daemon, or the state file names it: as a pid that the next start    *)
(* will look at, or in the error that tells the operator of a process which *)
(* was not signalled. Excused are a provider whose daemon was killed before *)
(* its pid was saved, one that could not be saved, and one that outlives a  *)
(* KILL; and data directories that two daemons share.                       *)
NoSilentOrphan ==
  shared \/ \A p \in Pids: process[p] = "provider" /\ p \notin excused =>
    \/ parent[p] # Nil
    \/ p \in {stateFile.pid, stateFile.told}

(* The token on disk is the one of every daemon that advertises its token,  *)
(* whatever others start, fail or end next to it with the same data         *)
(* directory. Excused are two that found none and minted one each.          *)
TokenHonoured ==
  raced \/ \A d \in Daemons: Serving(d) /\ Advertises(d) => tokenFile = host[d].token
=============================================================================
