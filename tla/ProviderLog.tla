---------------------------- MODULE ProviderLog ----------------------------
(***************************************************************************)
(* Provider output (crates/tunnelmuxd/src/runtime.rs, and the log handlers *)
(* of api.rs): the start that waits for a provider to report its URL, the  *)
(* two pipe readers of every provider, the one log file they share with    *)
(* its rotation, and the readers that follow it over SSE.                  *)
(*                                                                         *)
(* A line is its serial number in the order of appends, the tunnel it      *)
(* belongs to and the offset it ends at in its file; sizes and limits are  *)
(* in the same units.                                                      *)
(***************************************************************************)
EXTENDS Integers, Sequences, FiniteSets

CONSTANTS Tunnels,        \* one provider per tunnel
          Followers,      \* clients of GET /v1/tunnel/logs/stream
          Sizes,          \* sizes of a formatted line
          MaxBytes,       \* --provider-log-max-bytes
          MaxFiles,       \* --provider-log-max-files
          TailLines,      \* lines a follower asks for
          MaxLines,       \* bound on the lines the providers emit
          MaxFaults       \* bound on file operations that fail

ASSUME LogConstantsAssumption ==
  /\ Sizes \subseteq Nat \ {0}
  /\ MaxBytes \in Nat /\ MaxFiles \in Nat /\ TailLines \in Nat \ {0}
  /\ MaxLines \in Nat /\ MaxFaults \in Nat

Streams == {"stdout", "stderr"}
Pipes == Tunnels \X Streams
Nobody == <<"nobody", "none">>
Providers == {"cloudflared", "ngrok"}
Text == Providers \cup {"plain"}    \* a line with a URL of that provider's domain

(* The token is cloudflaredTunnelToken; ngrok has no named tunnels.         *)
Requests == [provider: Providers, token: BOOLEAN]
Named(request) == request.provider = "cloudflared" /\ request.token
RequiresUrl(request) == ~Named(request)

(* extract_public_url                                                       *)
HasUrl(provider, text) == text = provider

NotStarted == [at |-> "off", request |-> [provider |-> "cloudflared", token |-> FALSE],
        late |-> FALSE, url |-> FALSE]

VARIABLES
  files,      \* files[0] is provider.log, files[i] is provider.log.i
  present,    \* which of them exist
  sink,       \* OpenLog: the open handle and the bytes counted into the live log
  holder,     \* the pipe reader that holds the sink's lock, and where it is
  inHand,     \* the line each pipe reader has read and not yet logged
  pipe,       \* each pipe: "off", "open" or "closed"
  channel,    \* what a starting provider's readers have sent to the start
  startup,    \* each tunnel's start
  provider,    \* each provider process
  follower,   \* each log follower
  serial,     \* lines appended so far
  gapped,     \* history: a rename replaced lines that were not the oldest
  emitted, failures

NoFollower == [at |-> "off", tunnel |-> "", offset |-> 0, pending |-> <<>>, sent |-> <<>>]

logVars == <<files, present, sink, holder, inHand, pipe, channel, startup,
             provider, follower, serial, gapped, emitted, failures>>

\* A file's length: it is written from its beginning, and renamed as a whole.
SizeOf(ls) == IF ls = <<>> THEN 0 ELSE ls[Len(ls)].end

Fault == failures < MaxFaults /\ failures' = failures + 1
NoFault == UNCHANGED failures

LogInit ==
  /\ files = [i \in 0..MaxFiles |-> <<>>] /\ present = {}
  /\ sink = [open |-> FALSE, written |-> 0, overdue |-> FALSE]
  /\ holder = [pipe |-> Nobody, at |-> "idle", index |-> 0]
  /\ inHand = [q \in Pipes |-> <<>>] /\ pipe = [q \in Pipes |-> "off"]
  /\ channel = [t \in Tunnels |-> <<>>]
  /\ startup = [t \in Tunnels |-> NotStarted]
  /\ provider = [t \in Tunnels |-> "none"]
  /\ follower = [f \in Followers |-> NoFollower]
  /\ serial = 0 /\ gapped = FALSE /\ emitted = 0 /\ failures = 0

-----------------------------------------------------------------------------
(* The start of a provider *)

fileVars == <<files, present, sink, holder, serial, gapped>>

(* spawn_and_wait_ready: the child, its two readers, an empty channel.      *)
SpawnProvider(t) ==
  /\ startup[t].at # "waiting" /\ provider[t] # "alive"
  /\ \A s \in Streams: pipe[<<t, s>>] \in {"off", "closed"}
  /\ emitted < MaxLines
  /\ \E request \in Requests:
       startup' = [startup EXCEPT ![t] =
         [NotStarted EXCEPT !.at = "waiting", !.request = request]]
  /\ provider' = [provider EXCEPT ![t] = "alive"]
  /\ pipe' = [q \in Pipes |-> IF q[1] = t THEN "open" ELSE pipe[q]]
  /\ channel' = [channel EXCEPT ![t] = <<>>]
  /\ UNCHANGED <<fileVars, inHand, follower, emitted, failures>>

(* The provider writes a line and its pipe reader takes it.                 *)
ReadLine(q) ==
  /\ pipe[q] = "open" /\ inHand[q] = <<>> /\ provider[q[1]] = "alive"
  /\ emitted < MaxLines /\ emitted' = emitted + 1
  /\ \E text \in Text, size \in Sizes:
       inHand' = [inHand EXCEPT ![q] = <<[text |-> text, size |-> size]>>]
  /\ UNCHANGED <<fileVars, pipe, channel, startup, provider, follower, failures>>

(* A reader stops for good at the end of its stream, and just the same at   *)
(* bytes that are not UTF-8.                                                *)
StopReading(q) ==
  /\ pipe[q] = "open" /\ inHand[q] = <<>>
  /\ \/ provider[q[1]] = "dead" /\ NoFault
     \/ provider[q[1]] = "alive" /\ Fault
  /\ pipe' = [pipe EXCEPT ![q] = "closed"]
  /\ UNCHANGED <<fileVars, inHand, channel, startup, provider, follower, emitted>>

ProviderExits(t) ==
  /\ provider[t] = "alive" /\ provider' = [provider EXCEPT ![t] = "dead"]
  /\ UNCHANGED <<fileVars, inHand, pipe, channel, startup, follower, emitted, failures>>

(* ready_after has elapsed.                                                 *)
StartupLate(t) ==
  /\ startup[t].at = "waiting" /\ ~startup[t].late
  /\ startup' = [startup EXCEPT ![t].late = TRUE]
  /\ UNCHANGED <<fileVars, inHand, pipe, channel, provider, follower, emitted, failures>>

Answer_ChildKept(t, answer) ==
  /\ startup' = [startup EXCEPT ![t].at = answer]
  /\ UNCHANGED <<provider, channel>>

(* A start that fails ends its child: terminate_child, or kill_on_drop.     *)
Answer(t, answer) ==
  /\ startup' = [startup EXCEPT ![t].at = answer]
  /\ provider' = [provider EXCEPT ![t] = IF answer = "failed" THEN "dead" ELSE @]
  /\ UNCHANGED channel

(* One turn of wait_for_provider_startup's loop: the exit is looked at      *)
(* first, then the clock, then the channel. The channel of two readers that *)
(* have stopped is closed, and for a named tunnel that is a success.        *)
AwaitStartup(t) ==
  LET request == startup[t].request
      closed == \A s \in Streams: pipe[<<t, s>>] = "closed"
  IN
  /\ startup[t].at = "waiting"
  /\ \/ provider[t] = "dead" /\ Answer(t, "failed")
     \/ /\ provider[t] = "alive" /\ startup[t].late
        /\ Answer(t, IF RequiresUrl(request) THEN "failed" ELSE "up")
     \/ /\ provider[t] = "alive" /\ ~startup[t].late /\ channel[t] # <<>>
        /\ LET url == HasUrl(request.provider, Head(channel[t])) IN
           /\ channel' = [channel EXCEPT ![t] = Tail(@)]
           /\ startup' = [startup EXCEPT
                ![t].url = @ \/ url,
                ![t].at = IF url /\ RequiresUrl(request) THEN "up" ELSE @]
           /\ UNCHANGED provider
     \/ /\ ~startup[t].late /\ channel[t] = <<>> /\ closed
        /\ Answer(t, IF RequiresUrl(request) THEN "failed" ELSE "up")
  /\ UNCHANGED <<fileVars, inHand, pipe, follower, emitted, failures>>

(* The start is dropped (its client is gone) or try_wait fails: the child   *)
(* is dropped with it.                                                      *)
DropStartup(t) ==
  /\ startup[t].at = "waiting" /\ Fault /\ Answer(t, "failed")
  /\ UNCHANGED <<fileVars, inHand, pipe, follower, emitted>>

-----------------------------------------------------------------------------
(* ProviderLogSink::write_line, under the sink's lock                       *)

startVars == <<startup, provider, follower, emitted>>

At(step, index) == holder' = [holder EXCEPT !.at = step, !.index = index]
Writing(step) == holder.at = step /\ UNCHANGED startVars

LineOf(q) == [n |-> serial + 1, tunnel |-> q[1],
              end |-> SizeOf(files[0]) + inHand[q][1].size]

(* write_line returns; the reader then sends the line to the start, which   *)
(* may be waiting for it or long over.                                      *)
Done(q) ==
  /\ holder' = [pipe |-> Nobody, at |-> "idle", index |-> 0]
  /\ inHand' = [inHand EXCEPT ![q] = <<>>]
  /\ channel' = [channel EXCEPT ![q[1]] =
       IF startup[q[1]].at = "waiting" THEN Append(@, inHand[q][1].text) ELSE @]
  /\ UNCHANGED pipe

Held == UNCHANGED <<inHand, pipe, channel>>

ShouldRotate_Late(written, incoming) ==
  MaxBytes > 0 /\ written > 0 /\ written > MaxBytes

ShouldRotate(written, incoming) ==
  MaxBytes > 0 /\ written > 0 /\ written + incoming > MaxBytes

BeginLine(q, written) ==
  At(IF ShouldRotate(written, inHand[q][1].size) THEN "discard" ELSE "append", 0)

LockLog(q) ==
  /\ holder.pipe = Nobody /\ inHand[q] # <<>>
  /\ holder' = [pipe |-> q, at |-> "open", index |-> 0]
  /\ UNCHANGED <<files, present, sink, serial, gapped, failures, startVars>> /\ Held

(* What is on disk counts toward the cap when the file is opened, unless    *)
(* its length cannot be read.                                               *)
OpenLog ==
  LET q == holder.pipe
      onDisk == SizeOf(files[0])
  IN
  /\ Writing("open")
  /\ \/ /\ sink.open /\ BeginLine(q, sink.written)
        /\ UNCHANGED <<present, sink>> /\ NoFault /\ Held
     \/ /\ ~sink.open /\ BeginLine(q, onDisk)
        /\ present' = present \cup {0}
        /\ sink' = [sink EXCEPT !.open = TRUE, !.written = onDisk]
        /\ NoFault /\ Held
     \/ /\ ~sink.open /\ BeginLine(q, 0)
        /\ present' = present \cup {0}
        /\ sink' = [open |-> TRUE, written |-> 0, overdue |-> TRUE]
        /\ Fault /\ Held
     \/ ~sink.open /\ Done(q) /\ UNCHANGED <<present, sink>> /\ Fault
  /\ UNCHANGED <<files, serial, gapped>>

Rename(from, to) ==
  /\ files' = [files EXCEPT ![to] = files[from], ![from] = <<>>]
  /\ present' = (present \ {from}) \cup {to}
  /\ gapped' = (gapped \/ /\ files[to] # <<>>
                          /\ \E older \in to + 1..MaxFiles: files[older] # <<>>)

(* A shift that fails gives the rotation up, and the line goes to the live  *)
(* file all the same.                                                       *)
GiveUpRotation ==
  /\ UNCHANGED <<files, present, gapped>> /\ sink' = [sink EXCEPT !.overdue = TRUE]
  /\ At("append", 0) /\ Fault

(* rotate_provider_log: without backups the live file is truncated, else    *)
(* the oldest goes first, then every backup moves up, the last one first.   *)
Discard ==
  /\ Writing("discard") /\ Held /\ UNCHANGED <<serial, gapped>>
  /\ \/ /\ MaxFiles = 0 /\ files' = [files EXCEPT ![0] = <<>>]
        /\ At("reopen", 0) /\ NoFault /\ UNCHANGED <<present, sink>>
     \/ MaxFiles = 0 /\ GiveUpRotation
     \/ /\ MaxFiles > 0 /\ files' = [files EXCEPT ![MaxFiles] = <<>>]
        /\ present' = present \ {MaxFiles}
        /\ At("shift", MaxFiles - 1) /\ NoFault /\ UNCHANGED sink
     \/ /\ MaxFiles > 0 /\ UNCHANGED <<files, present, sink>>
        /\ At("shift", MaxFiles - 1) /\ Fault

(* A backup that cannot be looked at is taken for one that is not there,    *)
(* and the next one is renamed over it.                                     *)
Shift ==
  LET i == holder.index IN
  /\ Writing("shift") /\ i > 0 /\ Held /\ UNCHANGED serial
  /\ \/ /\ i \in present /\ Rename(i, i + 1)
        /\ At("shift", i - 1) /\ NoFault /\ UNCHANGED sink
     \/ /\ UNCHANGED <<files, present, sink, gapped>> /\ At("shift", i - 1)
        /\ IF i \in present THEN Fault ELSE NoFault
     \/ i \in present /\ GiveUpRotation

SealLive ==
  /\ Writing("shift") /\ holder.index = 0 /\ Held /\ UNCHANGED serial
  /\ \/ Rename(0, 1) /\ At("reopen", 0) /\ NoFault /\ UNCHANGED sink
     \/ GiveUpRotation

Reopen ==
  /\ Writing("reopen") /\ UNCHANGED <<files, serial, gapped>>
  /\ \/ /\ present' = present \cup {0} /\ At("append", 0) /\ NoFault /\ Held
        /\ sink' = [open |-> TRUE, written |-> 0, overdue |-> FALSE]
     \/ /\ UNCHANGED present /\ Fault /\ Done(holder.pipe)
        /\ sink' = [open |-> FALSE, written |-> 0, overdue |-> FALSE]

(* A failed write drops the line, a failed flush keeps it; both close the   *)
(* file, so that the next line opens it again.                              *)
AppendLine ==
  LET q == holder.pipe
      line == LineOf(q)
      kept == files' = [files EXCEPT ![0] = Append(@, line)] /\ serial' = serial + 1
      closed == sink' = [sink EXCEPT !.open = FALSE, !.written = 0]
  IN
  /\ Writing("append") /\ Done(q) /\ UNCHANGED <<present, gapped>>
  /\ \/ kept /\ sink' = [sink EXCEPT !.written = @ + inHand[q][1].size] /\ NoFault
     \/ kept /\ closed /\ Fault
     \/ UNCHANGED <<files, serial>> /\ closed /\ Fault

(* The daemon is killed: the files stay as they are, its providers' pipes   *)
(* are gone and so are its followers. A new one starts with a closed sink.  *)
KillDaemon ==
  /\ Fault
  /\ sink' = [open |-> FALSE, written |-> 0, overdue |-> sink.overdue]
  /\ holder' = [pipe |-> Nobody, at |-> "idle", index |-> 0]
  /\ inHand' = [q \in Pipes |-> <<>>] /\ pipe' = [q \in Pipes |-> "off"]
  /\ channel' = [t \in Tunnels |-> <<>>]
  /\ startup' = [t \in Tunnels |-> NotStarted]
  /\ provider' = [t \in Tunnels |-> "none"]
  /\ follower' = [f \in Followers |-> [follower[f] EXCEPT !.at = "off", !.pending = <<>>]]
  /\ UNCHANGED <<files, present, serial, gapped, emitted>>

-----------------------------------------------------------------------------
(* Readers of the live log *)

readVars == <<fileVars, inHand, pipe, channel, startup, provider, emitted>>

(* filter_log_lines_for_tunnel, "" for no filter.                           *)
ForTunnel(line, t) == t \in {"", line.tunnel}

(* tail_lines                                                               *)
LogTail(ls) ==
  SubSeq(ls, IF Len(ls) > TailLines THEN Len(ls) - TailLines + 1 ELSE 1, Len(ls))

(* stream_tunnel_logs reads the tail and remembers the length. A missing    *)
(* file has neither.                                                        *)
Follow(f) ==
  /\ follower[f].at = "off" /\ follower[f].sent = <<>>
  /\ \E t \in Tunnels \cup {""}:
       follower' = [follower EXCEPT ![f] =
         [at |-> "on", tunnel |-> t, offset |-> SizeOf(files[0]),
          pending |-> LogTail(files[0]), sent |-> <<>>]]
  /\ NoFault /\ UNCHANGED readVars

(* What was read goes out line by line, each awaited: meanwhile the log     *)
(* goes on. The lines of other tunnels are passed over.                     *)
SendLine(f) ==
  LET r == follower[f] IN
  /\ r.at = "on" /\ r.pending # <<>> /\ NoFault /\ UNCHANGED readVars
  /\ follower' = [follower EXCEPT ![f] =
       [r EXCEPT !.pending = Tail(@),
                 !.sent = IF ForTunnel(Head(r.pending), r.tunnel)
                            THEN Append(@, Head(r.pending).n) ELSE @]]

(* The lines that end past an offset: the first may be cut by it.           *)
Beyond(ls, offset) ==
  LET past == {i \in 1..Len(ls): ls[i].end > offset}
  IN IF past = {} THEN <<>>
     ELSE SubSeq(ls, CHOOSE i \in past: \A j \in past: i <= j, Len(ls))

DeltaStart_Again(length, offset) == IF length # offset THEN 0 ELSE offset

(* read_log_delta: a file shorter than the offset is read from the start.   *)
DeltaStart(length, offset) == IF length < offset THEN 0 ELSE offset

PollLog(f) ==
  LET r == follower[f]
      start == DeltaStart(SizeOf(files[0]), r.offset)
  IN
  /\ r.at = "on" /\ r.pending = <<>> /\ NoFault /\ UNCHANGED readVars
  /\ follower' = [follower EXCEPT ![f] =
       IF 0 \in present
         THEN [r EXCEPT !.offset = SizeOf(files[0]),
                        !.pending = Beyond(files[0], start)]
         ELSE [r EXCEPT !.offset = 0]]
  /\ follower'[f] # r

(* The client is gone, or the daemon shuts down: what was not sent is not.  *)
Unfollow(f) ==
  /\ follower[f].at = "on" /\ NoFault /\ UNCHANGED readVars
  /\ follower' = [follower EXCEPT ![f].at = "off", ![f].pending = <<>>]

LogNext ==
  \/ \E t \in Tunnels: SpawnProvider(t) \/ ProviderExits(t) \/ StartupLate(t)
                       \/ AwaitStartup(t) \/ DropStartup(t)
  \/ \E q \in Pipes: ReadLine(q) \/ StopReading(q) \/ LockLog(q)
  \/ OpenLog \/ Discard \/ Shift \/ SealLive \/ Reopen \/ AppendLine
  \/ KillDaemon
  \/ \E f \in Followers: Follow(f) \/ SendLine(f) \/ PollLog(f) \/ Unfollow(f)

LogSpec == LogInit /\ [][LogNext]_logVars

-----------------------------------------------------------------------------
(* Properties *)

(* Types, and what a start leaves behind: one that failed no provider, one  *)
(* that needs a public URL a URL that its own provider printed.             *)
LogTypeOK ==
  /\ present \subseteq 0..MaxFiles /\ DOMAIN files = 0..MaxFiles
  /\ \A i \in 0..MaxFiles: files[i] # <<>> => i \in present
  /\ sink.open \in BOOLEAN /\ sink.written \in Nat
  /\ holder.pipe \in Pipes \cup {Nobody} /\ holder.index \in 0..MaxFiles
  /\ \A q \in Pipes: pipe[q] \in {"off", "open", "closed"} /\ Len(inHand[q]) <= 1
  /\ \A t \in Tunnels:
       /\ startup[t].at \in {"off", "waiting", "up", "failed"}
       /\ provider[t] \in {"none", "alive", "dead"}
       /\ startup[t].at = "failed" => provider[t] = "dead"
       /\ startup[t].at = "up" /\ RequiresUrl(startup[t].request) => startup[t].url
  /\ \A f \in Followers: follower[f].at \in {"off", "on"} /\ follower[f].offset \in Nat
  /\ serial <= MaxLines /\ emitted <= MaxLines /\ failures <= MaxFaults

(* Through rotations that fail half way, writes that fail and daemons that  *)
(* are killed in the middle, the log and its backups are the newest lines   *)
(* without a gap, each once and in order: only the oldest are ever given    *)
(* up, unless a backup that could not be looked at was renamed over while   *)
(* older ones stay. And unless the last rotation failed, or the length of   *)
(* the live log could not be read, the live log is within its cap, or one   *)
(* line that is larger than the cap by itself.                              *)
OnDisk == UNION {{files[i][k].n: k \in DOMAIN files[i]}: i \in 0..MaxFiles}

InOrder ==
  \A i, j \in 0..MaxFiles: \A k \in DOMAIN files[i], m \in DOMAIN files[j]:
    i > j \/ (i = j /\ k < m) => files[i][k].n < files[j][m].n

NoGap == \A n \in OnDisk: n \in 1..serial /\ n..serial \subseteq OnDisk
NoOtherGap == gapped \/ NoGap

WithinCap ==
  MaxBytes = 0 \/ sink.overdue \/ Len(files[0]) <= 1 \/ SizeOf(files[0]) <= MaxBytes

NewestKept == InOrder /\ NoOtherGap /\ WithinCap

(* A follower never gets a line twice or out of order, however the file it  *)
(* reads is rotated under it, and while it is still being sent what was     *)
(* read before.                                                             *)
FollowerInOrder ==
  \A f \in Followers: \A i, j \in DOMAIN follower[f].sent:
    i < j => follower[f].sent[i] < follower[f].sent[j]
=============================================================================
