-------------------------- MODULE ProviderLogProofs --------------------------
(***************************************************************************)
(* Proofs about ProviderLog: types and what a start leaves behind, that    *)
(* the newest lines are kept, and that a follower gets its lines in order. *)
(*                                                                         *)
(* The inductive invariant has a part per concern; each part is proved     *)
(* from those before it.                                                   *)
(***************************************************************************)
EXTENDS ProviderLog, TLAPS, FiniteSetTheorems, SequenceTheorems, WellFoundedInduction

Lines == [n: Nat, tunnel: Tunnels, end: Nat]
InHands == {<<>>} \cup {<<r>> : r \in [text: Text, size: Sizes]}
Startups == [at: {"off", "waiting", "up", "failed"}, request: Requests,
             late: BOOLEAN, url: BOOLEAN]
LogSteps == {"idle", "open", "discard", "shift", "reopen", "append"}

\* The starts, and what they leave behind.
StartupInv ==
  /\ pipe \in [Pipes -> {"off", "open", "closed"}]
  /\ provider \in [Tunnels -> {"none", "alive", "dead"}]
  /\ startup \in [Tunnels -> Startups]
  /\ \A t \in Tunnels:
       /\ startup[t].at = "failed" => provider[t] = "dead"
       /\ startup[t].at = "up" /\ RequiresUrl(startup[t].request) => startup[t].url

\* Lines in hand are lines that were emitted and not appended.
Hands == {q \in Pipes: inHand[q] # <<>>}

HandInv ==
  /\ inHand \in [Pipes -> InHands] /\ IsFiniteSet(Hands)
  /\ serial \in Nat /\ emitted \in Nat /\ failures \in Nat
  /\ serial + Cardinality(Hands) <= emitted
  /\ emitted <= MaxLines /\ failures <= MaxFaults

\* The files: every line ends after the one before it.
DiskInv ==
  /\ files \in [0..MaxFiles -> Seq(Lines)] /\ present \subseteq 0..MaxFiles
  /\ \A i \in 0..MaxFiles: files[i] # <<>> => i \in present
  /\ \A i \in 0..MaxFiles: \A k \in DOMAIN files[i]: files[i][k].end > 0
  /\ \A i \in 0..MaxFiles: \A k, m \in DOMAIN files[i]:
       k < m => files[i][k].end < files[i][m].end
  /\ InOrder /\ (\A n \in OnDisk: n \in 1..serial) /\ gapped \in BOOLEAN /\ NoOtherGap

\* The writer: what it counts is what the live log holds, and what it is about
\* to append fits, unless the log is overdue for a rotation.
Counted(overdue, written, size) == overdue \/ written = size
SinkInv ==
  /\ sink \in [open: BOOLEAN, written: Nat, overdue: BOOLEAN]
  /\ holder \in [pipe: Pipes \cup {Nobody}, at: LogSteps, index: 0..MaxFiles]
  /\ holder.at = "idle" <=> holder.pipe = Nobody
  /\ holder.pipe # Nobody => inHand[holder.pipe] # <<>>
  /\ holder.at \in {"discard", "shift", "reopen", "append"} => sink.open
  /\ sink.open /\ holder.at # "reopen" =>
       Counted(sink.overdue, sink.written, SizeOf(files[0])) /\ 0 \in present
  /\ holder.at = "shift" => holder.index < MaxFiles
  /\ holder.at = "reopen" => files[0] = <<>>
  /\ holder.at = "append" =>
       \/ MaxBytes = 0 \/ sink.overdue \/ sink.written = 0
       \/ sink.written + inHand[holder.pipe][1].size <= MaxBytes
  /\ WithinCap

\* A follower: what it was sent, what it is being sent and what it will read
\* follow each other.
FollowerTypes ==
  [at: {"off", "on"}, tunnel: Tunnels \cup {""}, offset: Nat,
   pending: Seq(Lines), sent: Seq(Nat)]

\* n: the lines appended so far. A line of the live log is still to be read
\* when it ends past the offset, or the log is shorter than the offset.
Sound(r, live, n) ==
  /\ \A i \in DOMAIN r.sent: r.sent[i] <= n
  /\ \A i \in DOMAIN r.pending: r.pending[i].n <= n
  /\ \A i, j \in DOMAIN r.sent: i < j => r.sent[i] < r.sent[j]
  /\ \A i, j \in DOMAIN r.pending: i < j => r.pending[i].n < r.pending[j].n
  /\ \A i \in DOMAIN r.sent, j \in DOMAIN r.pending: r.sent[i] < r.pending[j].n
  /\ \A k \in DOMAIN live: live[k].end > r.offset \/ SizeOf(live) < r.offset =>
       /\ \A i \in DOMAIN r.sent: r.sent[i] < live[k].n
       /\ \A i \in DOMAIN r.pending: r.pending[i].n < live[k].n

FollowInv ==
  /\ follower \in [Followers -> FollowerTypes]
  /\ \A f \in Followers: Sound(follower[f], files[0], serial)

LogInv == StartupInv /\ HandInv /\ DiskInv /\ SinkInv /\ FollowInv

-----------------------------------------------------------------------------
(* Starts *)

\* The steps that leave the starts, the pipes and the providers alone.
LEMMA OnlyLog ==
  ASSUME \/ \E q \in Pipes: ReadLine(q) \/ LockLog(q)
         \/ OpenLog \/ Discard \/ Shift \/ SealLive \/ Reopen \/ AppendLine
         \/ \E f \in Followers: Follow(f) \/ SendLine(f) \/ PollLog(f) \/ Unfollow(f)
  PROVE  UNCHANGED <<pipe, provider, startup>>
<1>1. CASE \E q \in Pipes: ReadLine(q) \/ LockLog(q)
  BY <1>1 DEF ReadLine, LockLog, Held, startVars
<1>2. CASE OpenLog \/ Discard \/ Shift \/ SealLive \/ Reopen \/ AppendLine
  BY <1>2 DEF OpenLog, Discard, Shift, SealLive, Reopen, AppendLine, Writing, Held, Done, startVars
<1>3. CASE \E f \in Followers: Follow(f) \/ SendLine(f) \/ PollLog(f) \/ Unfollow(f)
  BY <1>3 DEF Follow, SendLine, PollLog, Unfollow, readVars
<1> QED BY <1>1, <1>2, <1>3

\* A start is answered: it failed and its child is ended, or it is up.
LEMMA AnswerKeeps ==
  ASSUME StartupInv, NEW t \in Tunnels, NEW answer \in {"failed", "up"},
         answer = "up" => (RequiresUrl(startup[t].request) => startup[t].url),
         Answer(t, answer), pipe' = pipe
  PROVE  StartupInv'
<1> DEFINE r == [startup[t] EXCEPT !.at = answer]
<1>1. /\ startup' = [startup EXCEPT ![t] = r]
      /\ provider' = [provider EXCEPT ![t] = IF answer = "failed" THEN "dead" ELSE @]
  BY DEF Answer
<1>2. r \in Startups /\ r.at = answer /\ r.request = startup[t].request /\ r.url = startup[t].url
  BY DEF StartupInv, Startups
<1> HIDE DEF r
<1> QED BY <1>1, <1>2 DEF StartupInv

\* Steps of one start that only change its record.
LEMMA StartupGoesOn ==
  ASSUME StartupInv, NEW t \in Tunnels, NEW r \in Startups,
         startup' = [startup EXCEPT ![t] = r], UNCHANGED <<pipe, provider>>,
         r.at # "failed", r.at = "up" => (RequiresUrl(r.request) => r.url)
  PROVE  StartupInv'
BY DEF StartupInv

LEMMA AwaitStartupKeeps ==
  ASSUME StartupInv, NEW t \in Tunnels, AwaitStartup(t)
  PROVE  StartupInv'
<1> DEFINE request == startup[t].request
<1>1. pipe' = pipe /\ startup[t].at = "waiting" /\ startup[t] \in Startups
  BY DEF AwaitStartup, StartupInv
<1>2. CASE \E answer \in {"failed", "up"}:
             Answer(t, answer) /\ (answer = "up" => ~RequiresUrl(request))
  BY <1>1, <1>2, AnswerKeeps
<1>3. CASE \E url \in BOOLEAN:
        /\ startup' = [startup EXCEPT
             ![t].url = @ \/ url,
             ![t].at = IF url /\ RequiresUrl(request) THEN "up" ELSE @]
        /\ UNCHANGED provider
  <2> PICK url \in BOOLEAN:
        /\ startup' = [startup EXCEPT
             ![t].url = @ \/ url,
             ![t].at = IF url /\ RequiresUrl(request) THEN "up" ELSE @]
        /\ UNCHANGED provider
    BY <1>3
  <2> DEFINE r == [startup[t] EXCEPT !.url = @ \/ url,
                     !.at = IF url /\ RequiresUrl(request) THEN "up" ELSE @]
  <2>1. startup' = [startup EXCEPT ![t] = r]
    BY <1>1 DEF StartupInv
  <2>2. /\ r \in Startups /\ r.at \in {"waiting", "up"} /\ r.request = request
        /\ r.at = "up" => url
        /\ url => r.url
    BY <1>1 DEF Startups
  <2> HIDE DEF r
  <2> QED BY <2>1, <2>2, <1>1, StartupGoesOn
<1>4. <1>2!1 \/ <1>3!1
  BY DEF AwaitStartup, HasUrl
<1> QED BY <1>2, <1>3, <1>4

LEMMA StartupKept ==
  ASSUME StartupInv, LogNext
  PROVE  StartupInv'
<1>1. ASSUME NEW t \in Tunnels, SpawnProvider(t) PROVE StartupInv'
  <2> PICK request \in Requests:
        startup' = [startup EXCEPT ![t] =
          [NotStarted EXCEPT !.at = "waiting", !.request = request]]
    BY <1>1 DEF SpawnProvider
  <2> DEFINE r == [NotStarted EXCEPT !.at = "waiting", !.request = request]
  <2>1. r \in Startups /\ r.at = "waiting"
    BY DEF NotStarted, Startups
  <2>2. startup' = [startup EXCEPT ![t] = r]
    OBVIOUS
  <2> HIDE DEF r
  <2> QED BY <1>1, <2>1, <2>2 DEF SpawnProvider, StartupInv
<1>2. ASSUME NEW t \in Tunnels, ProviderExits(t) PROVE StartupInv'
  BY <1>2 DEF ProviderExits, StartupInv
<1>3. ASSUME NEW t \in Tunnels, StartupLate(t) PROVE StartupInv'
  <2> DEFINE r == [startup[t] EXCEPT !.late = TRUE]
  <2>1. startup' = [startup EXCEPT ![t] = r] /\ UNCHANGED <<pipe, provider>>
    BY <1>3 DEF StartupLate
  <2>2. r \in Startups /\ r.at = "waiting"
    BY <1>3 DEF StartupLate, StartupInv, Startups
  <2> HIDE DEF r
  <2> QED BY <2>1, <2>2, StartupGoesOn
<1>4. ASSUME NEW t \in Tunnels, AwaitStartup(t) PROVE StartupInv'
  BY <1>4, AwaitStartupKeeps
<1>5. ASSUME NEW t \in Tunnels, DropStartup(t) PROVE StartupInv'
  BY <1>5, AnswerKeeps DEF DropStartup
<1>6. ASSUME NEW q \in Pipes, StopReading(q) PROVE StartupInv'
  BY <1>6 DEF StopReading, StartupInv
<1>7. ASSUME KillDaemon PROVE StartupInv'
  <2>1. NotStarted \in Startups /\ NotStarted.at = "off"
    BY DEF NotStarted, Startups, Requests, Providers
  <2> HIDE DEF NotStarted
  <2> QED BY <1>7, <2>1 DEF KillDaemon, StartupInv
<1>8. ASSUME UNCHANGED <<pipe, provider, startup>> PROVE StartupInv'
  BY <1>8 DEF StartupInv
<1> QED BY <1>1, <1>2, <1>3, <1>4, <1>5, <1>6, <1>7, <1>8, OnlyLog DEF LogNext

-----------------------------------------------------------------------------
(* Lines in hand *)

LEMMA SizePositive ==
  ASSUME NEW size \in Sizes
  PROVE  size \in Nat /\ size > 0
<1>1. size \in Nat \ {0}
  BY LogConstantsAssumption
<1> QED BY <1>1

LEMMA InHandLine ==
  ASSUME HandInv, NEW q \in Pipes, inHand[q] # <<>>
  PROVE  /\ inHand[q][1].text \in Text /\ inHand[q][1].size \in Sizes
         /\ inHand[q][1].size \in Nat /\ inHand[q][1].size > 0
<1> PICK r \in [text: Text, size: Sizes]: inHand[q] = <<r>>
  BY DEF HandInv, InHands
<1>1. inHand[q][1] = r
  OBVIOUS
<1>2. r.text \in Text /\ r.size \in Sizes
  OBVIOUS
<1>3. r.size \in Nat /\ r.size > 0
  BY ONLY <1>2, SizePositive
<1> QED BY ONLY <1>1, <1>2, <1>3

\* Done takes one line from the hands of its reader.
LEMMA DoneTakes ==
  ASSUME HandInv, NEW q \in Pipes, inHand[q] # <<>>, Done(q)
  PROVE  /\ inHand' \in [Pipes -> InHands] /\ IsFiniteSet(Hands')
         /\ Cardinality(Hands') = Cardinality(Hands) - 1
         /\ Cardinality(Hands) \in Nat /\ Cardinality(Hands') \in Nat
<1>1. inHand' = [inHand EXCEPT ![q] = <<>>]
  BY DEF Done
<1>2. Hands' = Hands \ {q} /\ q \in Hands
  BY <1>1 DEF Hands, HandInv
<1>3. IsFiniteSet(Hands)
  BY DEF HandInv
<1>4. IsFiniteSet(Hands') /\ Cardinality(Hands') = Cardinality(Hands) - 1
  BY <1>2, <1>3, FS_RemoveElement
<1>5. Cardinality(Hands) \in Nat /\ Cardinality(Hands') \in Nat
  BY <1>3, <1>4, FS_CardinalityType
<1>6. inHand' \in [Pipes -> InHands]
  BY <1>1 DEF HandInv, InHands
<1> QED BY <1>4, <1>5, <1>6

\* The steps that leave the lines in hand and the counts alone.
LEMMA OnlyOthers ==
  ASSUME \/ \E t \in Tunnels: SpawnProvider(t) \/ ProviderExits(t) \/ StartupLate(t)
                              \/ AwaitStartup(t) \/ DropStartup(t)
         \/ \E q \in Pipes: StopReading(q) \/ LockLog(q)
         \/ Discard \/ Shift \/ SealLive
         \/ \E f \in Followers: Follow(f) \/ SendLine(f) \/ PollLog(f) \/ Unfollow(f)
  PROVE  UNCHANGED <<inHand, serial, emitted>> /\ (NoFault \/ Fault)
<1>1. CASE \E t \in Tunnels: SpawnProvider(t) \/ ProviderExits(t) \/ StartupLate(t)
                              \/ AwaitStartup(t) \/ DropStartup(t)
  BY <1>1 DEF SpawnProvider, ProviderExits, StartupLate, AwaitStartup, DropStartup, NoFault,
              fileVars
<1>2. CASE \E q \in Pipes: StopReading(q) \/ LockLog(q)
  BY <1>2 DEF StopReading, LockLog, Held, startVars, NoFault, fileVars
<1>3. CASE Discard \/ Shift \/ SealLive
  BY <1>3 DEF Discard, Shift, SealLive, GiveUpRotation, Writing, Held, startVars
<1>4. CASE \E f \in Followers: Follow(f) \/ SendLine(f) \/ PollLog(f) \/ Unfollow(f)
  BY <1>4 DEF Follow, SendLine, PollLog, Unfollow, readVars, fileVars
<1> QED BY <1>1, <1>2, <1>3, <1>4

LEMMA FaultCounted ==
  ASSUME failures \in Nat, failures <= MaxFaults, NoFault \/ Fault
  PROVE  failures' \in Nat /\ failures' <= MaxFaults
BY LogConstantsAssumption DEF NoFault, Fault

LEMMA HandKept ==
  ASSUME HandInv, SinkInv, LogNext
  PROVE  HandInv'
<1>h. holder.pipe # Nobody => holder.pipe \in Pipes /\ inHand[holder.pipe] # <<>>
  BY DEF SinkInv
<1>a. holder.at # "idle" => holder.pipe # Nobody
  BY DEF SinkInv
<1>f. failures \in Nat /\ failures <= MaxFaults
  BY DEF HandInv
<1>m. MaxLines \in Nat
  BY LogConstantsAssumption
<1>c. Cardinality(Hands) \in Nat /\ serial \in Nat /\ emitted \in Nat
  BY FS_CardinalityType DEF HandInv
<1>1. ASSUME UNCHANGED <<inHand, serial, emitted>>, NoFault \/ Fault PROVE HandInv'
  BY <1>1, <1>f, FaultCounted DEF HandInv, Hands
<1>2. ASSUME NEW q \in Pipes, ReadLine(q) PROVE HandInv'
  <2> PICK text \in Text, size \in Sizes:
        inHand' = [inHand EXCEPT ![q] = <<[text |-> text, size |-> size]>>]
    BY <1>2 DEF ReadLine
  <2> DEFINE r == [text |-> text, size |-> size]
  <2>1. <<r>> \in InHands /\ <<r>> # <<>>
    BY DEF InHands
  <2>2. inHand' = [inHand EXCEPT ![q] = <<r>>]
    OBVIOUS
  <2> HIDE DEF r
  <2>3. Hands' = Hands \cup {q} /\ q \notin Hands
    BY <1>2, <2>1, <2>2 DEF ReadLine, Hands, HandInv
  <2>4. IsFiniteSet(Hands') /\ Cardinality(Hands') = Cardinality(Hands) + 1
    BY <2>3, FS_AddElement DEF HandInv
  <2>5. inHand' \in [Pipes -> InHands]
    BY <2>1, <2>2 DEF HandInv
  <2>6. emitted' = emitted + 1 /\ emitted < MaxLines /\ UNCHANGED <<serial, failures>>
    BY <1>2 DEF ReadLine, fileVars
  <2> QED BY <2>4, <2>5, <2>6, <1>c, <1>f, <1>m DEF HandInv
<1>3. ASSUME Done(holder.pipe), holder.pipe # Nobody, serial' \in {serial, serial + 1},
             emitted' = emitted, NoFault \/ Fault
      PROVE HandInv'
  <2>1. /\ inHand' \in [Pipes -> InHands] /\ IsFiniteSet(Hands')
        /\ Cardinality(Hands') = Cardinality(Hands) - 1
        /\ Cardinality(Hands') \in Nat
    BY <1>3, <1>h, DoneTakes
  <2>2. failures' \in Nat /\ failures' <= MaxFaults
    BY <1>3, <1>f, FaultCounted
  <2> QED BY <2>1, <2>2, <1>3, <1>c, <1>m DEF HandInv
<1>4. ASSUME OpenLog PROVE HandInv'
  <2>1. emitted' = emitted /\ serial' = serial /\ holder.pipe # Nobody
    BY <1>4, <1>a DEF OpenLog, Writing, startVars
  <2>2. \/ inHand' = inHand /\ (NoFault \/ Fault)
        \/ Done(holder.pipe) /\ Fault
    BY <1>4 DEF OpenLog, Held
  <2> QED BY <2>1, <2>2, <1>1, <1>3
<1>5. ASSUME Reopen PROVE HandInv'
  <2>1. emitted' = emitted /\ serial' = serial /\ holder.pipe # Nobody
    BY <1>5, <1>a DEF Reopen, Writing, startVars
  <2>2. (inHand' = inHand /\ NoFault) \/ (Done(holder.pipe) /\ Fault)
    BY <1>5 DEF Reopen, Held
  <2> QED BY <2>1, <2>2, <1>1, <1>3
<1>6. ASSUME AppendLine PROVE HandInv'
  <2>1. emitted' = emitted /\ serial' \in {serial, serial + 1} /\ holder.pipe # Nobody
    BY <1>6, <1>a DEF AppendLine, Writing, startVars
  <2>2. Done(holder.pipe) /\ (NoFault \/ Fault)
    BY <1>6 DEF AppendLine
  <2> QED BY <2>1, <2>2, <1>3
<1>7. ASSUME KillDaemon PROVE HandInv'
  <2>1. /\ inHand' = [q \in Pipes |-> <<>>] /\ Fault
        /\ serial' = serial /\ emitted' = emitted
    BY <1>7 DEF KillDaemon
  <2>2. Hands' = {}
    BY <2>1 DEF Hands
  <2>3. IsFiniteSet(Hands') /\ Cardinality(Hands') = 0
    BY <2>2, FS_EmptySet
  <2>4. inHand' \in [Pipes -> InHands]
    BY <2>1 DEF InHands
  <2>5. failures' \in Nat /\ failures' <= MaxFaults
    BY <2>1, <1>f, FaultCounted
  <2>6. serial <= emitted /\ emitted <= MaxLines
    BY <1>c DEF HandInv
  <2> QED BY <2>1, <2>3, <2>4, <2>5, <2>6, <1>c DEF HandInv
<1> QED BY <1>1, <1>2, <1>4, <1>5, <1>6, <1>7, OnlyOthers DEF LogNext

-----------------------------------------------------------------------------
(* The files *)

\* A serial is on disk when some line of some file has it.
LEMMA OnDiskIs ==
  ASSUME DiskInv, NEW n
  PROVE  n \in OnDisk <=> \E i \in 0..MaxFiles: \E k \in DOMAIN files[i]: files[i][k].n = n
BY DEF OnDisk

LEMMA OnDiskIsNext ==
  ASSUME NEW n
  PROVE  n \in OnDisk' <=> \E i \in 0..MaxFiles: \E k \in DOMAIN files'[i]: files'[i][k].n = n
BY DEF OnDisk

\* What is there of one file.
LEMMA LineTyped ==
  ASSUME DiskInv, NEW i \in 0..MaxFiles, NEW k \in DOMAIN files[i]
  PROVE  /\ files[i] \in Seq(Lines) /\ files[i][k] \in Lines
         /\ files[i][k].n \in Nat /\ files[i][k].end \in Nat
         /\ k \in 1..Len(files[i]) /\ Len(files[i]) \in Nat
<1>1. files[i] \in Seq(Lines)
  BY DEF DiskInv
<1>2. k \in 1..Len(files[i]) /\ files[i][k] \in Lines /\ Len(files[i]) \in Nat
  BY <1>1
<1> QED BY <1>1, <1>2 DEF Lines

LEMMA Slots == MaxFiles \in Nat /\ 0 \in 0..MaxFiles /\ MaxFiles \in 0..MaxFiles
BY LogConstantsAssumption

LEMMA DiskUnchanged ==
  ASSUME DiskInv, UNCHANGED <<files, serial, gapped>>,
         present' = present \/ present' = present \cup {0}
  PROVE  DiskInv'
<1>1. OnDisk' = OnDisk
  BY DEF OnDisk
<1>2. InOrder' /\ (\A n \in OnDisk': n \in 1..serial') /\ gapped' \in BOOLEAN /\ NoOtherGap'
  BY <1>1 DEF DiskInv, InOrder, NoGap, NoOtherGap
<1> QED BY <1>2, Slots DEF DiskInv

\* The oldest file goes: its lines are older than all the others.
LEMMA OldestGone ==
  ASSUME DiskInv, files' = [files EXCEPT ![MaxFiles] = <<>>], UNCHANGED <<serial, gapped>>,
         present' = present \/ (MaxFiles > 0 /\ present' = present \ {MaxFiles})
  PROVE  DiskInv'
<1>0. files \in [0..MaxFiles -> Seq(Lines)] /\ <<>> \in Seq(Lines)
  BY DEF DiskInv
<1>1. /\ files' \in [0..MaxFiles -> Seq(Lines)] /\ present' \subseteq 0..MaxFiles
      /\ \A i \in 0..MaxFiles: files'[i] # <<>> => i \in present'
  <2>1. files' \in [0..MaxFiles -> Seq(Lines)]
    BY <1>0
  <2>2. present' \subseteq 0..MaxFiles
    BY DEF DiskInv
  <2>3. \A i \in 0..MaxFiles: files'[i] = IF i = MaxFiles THEN <<>> ELSE files[i]
    BY <1>0
  <2>4. \A i \in 0..MaxFiles: i # MaxFiles => (i \in present' <=> i \in present)
    OBVIOUS
  <2>5. \A i \in 0..MaxFiles: files'[i] # <<>> => i \in present'
    BY <2>3, <2>4 DEF DiskInv
  <2> QED BY <2>1, <2>2, <2>5
<1>2. \A i \in 0..MaxFiles: \A k \in DOMAIN files'[i]: i # MaxFiles /\ files'[i] = files[i]
  BY Slots DEF DiskInv
<1>3. /\ \A i \in 0..MaxFiles: \A k \in DOMAIN files'[i]: files'[i][k].end > 0
      /\ \A i \in 0..MaxFiles: \A k, m \in DOMAIN files'[i]:
           k < m => files'[i][k].end < files'[i][m].end
  BY <1>2 DEF DiskInv
<1>4. InOrder'
  BY <1>2 DEF DiskInv, InOrder
<1>5. ASSUME NEW n \in OnDisk'
      PROVE  n \in 1..serial' /\ (~gapped' => n..serial' \subseteq OnDisk')
  <2> PICK i \in 0..MaxFiles: \E k \in DOMAIN files'[i]: files'[i][k].n = n
    BY OnDiskIsNext
  <2> PICK k \in DOMAIN files'[i]: files'[i][k].n = n
    OBVIOUS
  <2>1. i # MaxFiles /\ files'[i] = files[i] /\ k \in DOMAIN files[i] /\ files[i][k].n = n
    BY <1>2
  <2>2. n \in OnDisk
    BY <2>1, OnDiskIs
  <2>3. n \in 1..serial /\ (~gapped => n..serial \subseteq OnDisk)
    BY <2>2 DEF DiskInv, NoGap, NoOtherGap
  <2>4. ASSUME ~gapped, NEW m \in n..serial PROVE m \in OnDisk'
    <3>1. m \in OnDisk
      BY <2>3, <2>4
    <3> PICK j \in 0..MaxFiles: \E p \in DOMAIN files[j]: files[j][p].n = m
      BY <3>1, OnDiskIs
    <3> PICK p \in DOMAIN files[j]: files[j][p].n = m
      OBVIOUS
    <3>2. j = MaxFiles => m < n
      BY <2>1, Slots DEF DiskInv, InOrder
    <3>3. j # MaxFiles
      BY <3>2, <2>3
    <3>4. files'[j] = files[j]
      BY <3>3, Slots DEF DiskInv
    <3> QED BY <3>4, OnDiskIsNext
  <2> QED BY <2>3, <2>4
<1>6. (\A n \in OnDisk': n \in 1..serial') /\ gapped' \in BOOLEAN /\ NoOtherGap'
  BY <1>5 DEF NoGap, NoOtherGap, DiskInv
<1> QED BY <1>1, <1>3, <1>4, <1>6 DEF DiskInv

\* A file moves up: into an empty slot, over the oldest, or it leaves a gap.
LEMMA MovedUp ==
  ASSUME DiskInv, NEW i \in 0..MaxFiles, i < MaxFiles,
         Rename(i, i + 1), serial' = serial
  PROVE  DiskInv'
<1> DEFINE was(j) == IF j = i + 1 THEN i ELSE j
<1>0. i + 1 \in 0..MaxFiles /\ MaxFiles \in Nat /\ i \in Nat
  BY Slots
<1>a. /\ files' = [files EXCEPT ![i + 1] = files[i], ![i] = <<>>]
      /\ present' = (present \ {i}) \cup {i + 1}
  BY DEF Rename
<1>1. /\ files' \in [0..MaxFiles -> Seq(Lines)] /\ present' \subseteq 0..MaxFiles
      /\ \A j \in 0..MaxFiles: files'[j] # <<>> => j \in present'
  <2>0. files \in [0..MaxFiles -> Seq(Lines)] /\ <<>> \in Seq(Lines) /\ files[i] \in Seq(Lines)
    BY DEF DiskInv
  <2>1. files' \in [0..MaxFiles -> Seq(Lines)]
    BY <1>a, <2>0
  <2>2. present' \subseteq 0..MaxFiles
    BY <1>0, <1>a DEF DiskInv
  <2>3. \A j \in 0..MaxFiles:
          files'[j] = IF j = i THEN <<>> ELSE IF j = i + 1 THEN files[i] ELSE files[j]
    BY <1>0, <1>a, <2>0
  <2>5. \A j \in 0..MaxFiles: files'[j] # <<>> => j \in present'
    BY <1>a, <2>3 DEF DiskInv
  <2> QED BY <2>1, <2>2, <2>5
<1>2. \A j \in 0..MaxFiles: \A k \in DOMAIN files'[j]:
        /\ j # i /\ was(j) \in 0..MaxFiles /\ was(j) # i + 1
        /\ files'[j] = files[was(j)] /\ k \in DOMAIN files[was(j)]
  <2> TAKE j \in 0..MaxFiles
  <2> TAKE k \in DOMAIN files'[j]
  <2>1. files'[i] = <<>> /\ files'[i + 1] = files[i]
    BY <1>0, <1>a DEF DiskInv
  <2>2. j # i
    BY <2>1
  <2>3. files'[j] = files[was(j)]
    BY <1>0, <1>a, <2>1, <2>2 DEF DiskInv
  <2> QED BY <1>0, <2>2, <2>3
<1>3. \A j, l \in 0..MaxFiles: j # i /\ l # i => (j > l <=> was(j) > was(l)) /\ (j = l <=> was(j) = was(l))
  BY <1>0
<1> HIDE DEF was
<1>4. \A j \in 0..MaxFiles: \A k \in DOMAIN files'[j]: files'[j][k].end > 0
  BY <1>2 DEF DiskInv
<1>5. \A j \in 0..MaxFiles: \A k, m \in DOMAIN files'[j]:
           k < m => files'[j][k].end < files'[j][m].end
  BY <1>2 DEF DiskInv
<1>6. InOrder'
  <2> SUFFICES ASSUME NEW j \in 0..MaxFiles, NEW l \in 0..MaxFiles,
                      NEW k \in DOMAIN files'[j], NEW m \in DOMAIN files'[l],
                      j > l \/ (j = l /\ k < m)
               PROVE  files'[j][k].n < files'[l][m].n
    BY DEF InOrder
  <2>1. was(j) > was(l) \/ (was(j) = was(l) /\ k < m)
    BY <1>2, <1>3
  <2>2. files[was(j)][k].n < files[was(l)][m].n
    BY <2>1, <1>2 DEF DiskInv, InOrder
  <2> QED BY <2>2, <1>2
<1>b. /\ gapped' \in BOOLEAN
      /\ ~gapped' => ~gapped
      /\ ~gapped' /\ files[i + 1] # <<>> =>
           \A older \in (i + 1) + 1..MaxFiles: files[older] = <<>>
  BY DEF Rename, DiskInv
<1>7. ASSUME NEW n \in OnDisk'
      PROVE  n \in 1..serial' /\ (~gapped' => n..serial' \subseteq OnDisk')
  <2> PICK j \in 0..MaxFiles: \E k \in DOMAIN files'[j]: files'[j][k].n = n
    BY OnDiskIsNext
  <2> PICK k \in DOMAIN files'[j]: files'[j][k].n = n
    OBVIOUS
  <2>1. /\ was(j) \in 0..MaxFiles /\ was(j) # i + 1
        /\ k \in DOMAIN files[was(j)] /\ files[was(j)][k].n = n
    BY <1>2
  <2>2. n \in OnDisk
    BY <2>1, OnDiskIs
  <2>3. n \in 1..serial /\ (~gapped => n..serial \subseteq OnDisk)
    BY <2>2 DEF DiskInv, NoGap, NoOtherGap
  <2>4. ASSUME ~gapped', NEW m \in n..serial PROVE m \in OnDisk'
    <3>0. ~gapped
      BY <2>4, <1>b
    <3>1. m \in OnDisk
      BY <2>3, <2>4, <3>0
    <3> PICK l \in 0..MaxFiles: \E p \in DOMAIN files[l]: files[l][p].n = m
      BY <3>1, OnDiskIs
    <3> PICK p \in DOMAIN files[l]: files[l][p].n = m
      OBVIOUS
    <3>2. ASSUME l = i + 1 PROVE FALSE
      <4>0. files[i + 1] # <<>> /\ files[was(j)] # <<>>
        BY <3>2, <2>1
      <4>1. ~(was(j) \in (i + 1) + 1..MaxFiles)
        BY <4>0, <2>4, <1>b
      <4>2. l > was(j)
        BY <4>1, <3>2, <2>1, <1>0
      <4>3. files[l][p].n < files[was(j)][k].n
        BY <4>2, <2>1 DEF DiskInv, InOrder
      <4> QED BY <4>3, <2>1, <2>3
    <3>3. \E o \in 0..MaxFiles: files'[o] = files[l]
      BY <3>2, <1>0, <1>a DEF DiskInv
    <3> QED BY <3>3, OnDiskIsNext
  <2> QED BY <2>3, <2>4
<1>8. (\A n \in OnDisk': n \in 1..serial') /\ gapped' \in BOOLEAN /\ NoOtherGap'
  <2>1. \A n \in OnDisk': n \in 1..serial'
    BY <1>7
  <2>2. ~gapped' => NoGap'
    BY <1>7 DEF NoGap
  <2> QED BY <2>1, <2>2, <1>b, Zenon DEF NoOtherGap
<1> QED BY <1>1, <1>4, <1>5, <1>6, <1>8 DEF DiskInv

\* The length of the live log is the end of its last line, and no line's end
\* is beyond it.
LEMMA LengthIs ==
  ASSUME DiskInv
  PROVE  /\ SizeOf(files[0]) \in Nat /\ files[0] \in Seq(Lines)
         /\ files[0] = <<>> <=> SizeOf(files[0]) = 0
         /\ \A k \in DOMAIN files[0]: files[0][k].end <= SizeOf(files[0])
<1>1. files[0] \in Seq(Lines)
  BY Slots DEF DiskInv
<1>2. CASE files[0] = <<>>
  BY <1>1, <1>2 DEF SizeOf
<1>3. CASE files[0] # <<>>
  <2>1. Len(files[0]) \in DOMAIN files[0] /\ SizeOf(files[0]) = files[0][Len(files[0])].end
    BY <1>1, <1>3 DEF SizeOf
  <2>2. SizeOf(files[0]) \in Nat
    BY <2>1, LineTyped, Slots
  <2>3. SizeOf(files[0]) > 0
    BY <2>1, Slots DEF DiskInv
  <2>4. ASSUME NEW k \in DOMAIN files[0] PROVE files[0][k].end <= SizeOf(files[0])
    <3>1. k = Len(files[0]) \/ k < Len(files[0])
      BY <1>1
    <3>2. k < Len(files[0]) => files[0][k].end < files[0][Len(files[0])].end
      BY <2>1, Slots DEF DiskInv
    <3>3. files[0][k].end \in Nat
      BY LineTyped, Slots
    <3> QED BY <2>1, <2>2, <3>1, <3>2, <3>3
  <2> QED BY <1>1, <1>3, <2>2, <2>3, <2>4
<1> QED BY <1>2, <1>3

\* A line goes to the end of the live log.
LEMMA Appended ==
  ASSUME DiskInv, NEW line \in Lines, serial \in Nat, line.n = serial + 1,
         line.end > SizeOf(files[0]), files' = [files EXCEPT ![0] = Append(@, line)],
         serial' = serial + 1, 0 \in present, UNCHANGED <<present, gapped>>
  PROVE  DiskInv'
<1> DEFINE live == files[0]
           last == Len(live) + 1
<1>0. /\ files \in [0..MaxFiles -> Seq(Lines)] /\ live \in Seq(Lines) /\ Len(live) \in Nat
      /\ 0 \in 0..MaxFiles /\ line.n \in Nat /\ line.end \in Nat
  <2>1. files \in [0..MaxFiles -> Seq(Lines)] /\ 0 \in 0..MaxFiles
    BY Slots DEF DiskInv
  <2>2. live \in Seq(Lines) /\ Len(live) \in Nat
    BY <2>1
  <2> QED BY <2>1, <2>2 DEF Lines
<1>1. /\ files'[0] = Append(live, line) /\ Append(live, line) \in Seq(Lines)
      /\ \A i \in 0..MaxFiles: i # 0 => files'[i] = files[i]
      /\ files' \in [0..MaxFiles -> Seq(Lines)]
  BY <1>0
<1>2. /\ DOMAIN files'[0] = 1..last /\ DOMAIN live = 1..(last - 1) /\ files'[0][last] = line
      /\ \A k \in DOMAIN live: k < last /\ files'[0][k] = live[k]
  BY <1>0, <1>1
<1>3. \A i \in 0..MaxFiles: \A k \in DOMAIN files'[i]:
        \/ i = 0 /\ k = last /\ files'[i][k] = line
        \/ k \in DOMAIN files[i] /\ files'[i][k] = files[i][k] /\ (i = 0 => k < last)
  BY <1>0, <1>1, <1>2
<1>4. \A i \in 0..MaxFiles: \A k \in DOMAIN files[i]:
        k \in DOMAIN files'[i] /\ files'[i][k] = files[i][k]
  BY <1>0, <1>1, <1>2
<1> HIDE DEF live, last
<1>5. \A i \in 0..MaxFiles: \A k \in DOMAIN files[i]: files[i][k].n <= serial
  <2> SUFFICES ASSUME NEW i \in 0..MaxFiles, NEW k \in DOMAIN files[i]
               PROVE  files[i][k].n <= serial
    OBVIOUS
  <2>1. files[i][k].n \in OnDisk
    BY OnDiskIs
  <2>2. files[i][k].n \in 1..serial
    BY <2>1 DEF DiskInv
  <2> QED BY <2>2
<1>6. \A k \in DOMAIN files[0]: files[0][k].end < line.end
  <2> SUFFICES ASSUME NEW k \in DOMAIN files[0] PROVE files[0][k].end < line.end
    OBVIOUS
  <2>1. files[0][k].end \in Nat /\ files[0][k].end <= SizeOf(files[0])
    BY LengthIs, LineTyped, Slots
  <2> QED BY <2>1, LengthIs, <1>0
<1>7. /\ \A i \in 0..MaxFiles: \A k \in DOMAIN files'[i]: files'[i][k].end > 0
      /\ \A i \in 0..MaxFiles: files'[i] # <<>> => i \in present'
  <2>1. line.end > 0
    BY LengthIs, <1>0
  <2>2. \A i \in 0..MaxFiles: \A k \in DOMAIN files'[i]: files'[i][k].end > 0
    BY <1>3, <2>1 DEF DiskInv
  <2>3. \A i \in 0..MaxFiles: files'[i] # <<>> => i \in present'
    BY <1>1 DEF DiskInv
  <2> QED BY <2>2, <2>3
<1>8. ASSUME NEW i \in 0..MaxFiles, NEW k \in DOMAIN files'[i], NEW m \in DOMAIN files'[i], k < m
      PROVE  files'[i][k].end < files'[i][m].end
  <2>0. last \in Nat
    BY <1>0 DEF last
  <2>1. CASE i = 0 /\ m = last
    <3>1. k # last
      BY <1>8, <2>1, <2>0
    <3>2. k \in DOMAIN files[i] /\ files'[i][k] = files[i][k]
      BY <3>1, <1>3
    <3>3. files'[i][m] = line
      BY <2>1, <1>2
    <3> QED BY <2>1, <3>2, <3>3, <1>6
  <2>2. CASE ~(i = 0 /\ m = last)
    <3>1. m \in DOMAIN files[i] /\ files'[i][m] = files[i][m] /\ (i = 0 => m < last)
      BY <2>2, <1>3
    <3>2. i # 0 \/ k # last
      <4>1. k \in Nat /\ m \in Nat
        BY <1>1
      <4> QED BY <3>1, <1>8, <2>0, <4>1
    <3>3. k \in DOMAIN files[i] /\ files'[i][k] = files[i][k]
      BY <3>2, <1>3
    <3> QED BY <3>1, <3>3, <1>8 DEF DiskInv
  <2> QED BY <2>1, <2>2
<1>9. InOrder'
  <2> SUFFICES ASSUME NEW i \in 0..MaxFiles, NEW j \in 0..MaxFiles,
                      NEW k \in DOMAIN files'[i], NEW m \in DOMAIN files'[j],
                      i > j \/ (i = j /\ k < m)
               PROVE  files'[i][k].n < files'[j][m].n
    BY DEF InOrder
  <2>0. last \in Nat /\ k \in Nat /\ m \in Nat
    <3>1. last \in Nat
      BY <1>0 DEF last
    <3>2. files'[i] \in Seq(Lines) /\ files'[j] \in Seq(Lines)
      BY <1>1
    <3> QED BY <3>1, <3>2
  <2>1. ~(i = 0 /\ k = last)
    <3> SUFFICES ASSUME i = 0, k = last PROVE FALSE
      OBVIOUS
    <3>1. j = 0 /\ m > last
      BY Slots
    <3> QED BY <3>1, <2>0, <1>2
  <2>2. k \in DOMAIN files[i] /\ files'[i][k] = files[i][k]
    BY <2>1, <1>3
  <2>3. CASE j = 0 /\ m = last
    BY <2>3, <2>2, <1>2, <1>5, <1>0, LineTyped
  <2>4. CASE ~(j = 0 /\ m = last)
    <3>1. m \in DOMAIN files[j] /\ files'[j][m] = files[j][m]
      BY <2>4, <1>3
    <3> QED BY <3>1, <2>2 DEF DiskInv, InOrder
  <2> QED BY <2>3, <2>4
<1>10. \A m \in OnDisk \cup {serial + 1}: m \in OnDisk'
  <2>1. serial + 1 \in OnDisk'
    <3>0. last \in Nat /\ last > 0
      BY <1>0 DEF last
    <3>1. files'[0][last].n = serial + 1 /\ last \in DOMAIN files'[0]
      BY <1>2, <3>0
    <3> QED BY <3>1, <1>0, OnDiskIsNext
  <2>2. ASSUME NEW m \in OnDisk PROVE m \in OnDisk'
    <3> PICK i \in 0..MaxFiles: \E k \in DOMAIN files[i]: files[i][k].n = m
      BY OnDiskIs
    <3> QED BY <1>4, OnDiskIsNext
  <2> QED BY <2>1, <2>2
<1>11. \A n \in OnDisk': n \in OnDisk \/ n = serial + 1
  <2> SUFFICES ASSUME NEW n \in OnDisk' PROVE n \in OnDisk \/ n = serial + 1
    OBVIOUS
  <2> PICK i \in 0..MaxFiles: \E k \in DOMAIN files'[i]: files'[i][k].n = n
    BY OnDiskIsNext
  <2> QED BY <1>3, OnDiskIs
<1>12. (\A n \in OnDisk': n \in 1..serial') /\ gapped' \in BOOLEAN /\ NoOtherGap'
  <2> SUFFICES ASSUME NEW n \in OnDisk'
               PROVE  n \in 1..serial' /\ (~gapped' => n..serial' \subseteq OnDisk')
    BY DEF NoGap, NoOtherGap, DiskInv
  <2>1. n \in OnDisk => n \in 1..serial /\ (~gapped => n..serial \subseteq OnDisk)
    BY DEF DiskInv, NoGap, NoOtherGap
  <2>2. n \in 1..(serial + 1) /\ (~gapped => n..serial \subseteq OnDisk)
    BY <1>11, <2>1
  <2>3. ~gapped' => ~gapped
    OBVIOUS
  <2> QED BY <2>2, <2>3, <1>10
<1> QED BY <1>1, <1>7, <1>8, <1>9, <1>12 DEF DiskInv

\* Every step does to the files one of four things.
FilesStay == UNCHANGED <<files, serial, gapped>> /\ present' \in {present, present \cup {0}}

OldestGoes ==
  /\ files' = [files EXCEPT ![MaxFiles] = <<>>] /\ UNCHANGED <<serial, gapped>>
  /\ present' = present \/ (MaxFiles > 0 /\ present' = present \ {MaxFiles})

MovesUp(i) == i < MaxFiles /\ Rename(i, i + 1) /\ serial' = serial

Appends ==
  LET line == LineOf(holder.pipe) IN
  /\ holder.at = "append" /\ UNCHANGED <<present, gapped>>
  /\ files' = [files EXCEPT ![0] = Append(@, line)] /\ serial' = serial + 1

LEMMA FilesStep ==
  ASSUME SinkInv, LogNext
  PROVE  \/ FilesStay
         \/ Discard /\ OldestGoes
         \/ \E i \in 0..MaxFiles: (Shift \/ SealLive) /\ i = holder.index /\ MovesUp(i)
         \/ AppendLine /\ Appends
<1>1. CASE \E t \in Tunnels: SpawnProvider(t) \/ ProviderExits(t) \/ StartupLate(t)
                       \/ AwaitStartup(t) \/ DropStartup(t)
  BY <1>1 DEF SpawnProvider, ProviderExits, StartupLate, AwaitStartup, DropStartup, fileVars,
              FilesStay
<1>2. CASE \E q \in Pipes: ReadLine(q) \/ StopReading(q) \/ LockLog(q)
  BY <1>2 DEF ReadLine, StopReading, LockLog, fileVars, FilesStay
<1>3. CASE OpenLog \/ Reopen
  BY <1>3 DEF OpenLog, Reopen, FilesStay
<1>4. CASE KillDaemon
  BY <1>4 DEF KillDaemon, FilesStay
<1>5. CASE \E f \in Followers: Follow(f) \/ SendLine(f) \/ PollLog(f) \/ Unfollow(f)
  BY <1>5 DEF Follow, SendLine, PollLog, Unfollow, readVars, fileVars, FilesStay
<1>6. CASE Discard
  BY <1>6, Slots DEF Discard, GiveUpRotation, FilesStay, OldestGoes
<1>7. CASE Shift \/ SealLive
  <2>1. /\ holder.at = "shift" /\ holder.index \in 0..MaxFiles /\ holder.index < MaxFiles
    BY <1>7 DEF Shift, SealLive, Writing, SinkInv
  <2>2. serial' = serial /\ (FilesStay \/ Rename(holder.index, holder.index + 1))
    BY <1>7 DEF Shift, SealLive, GiveUpRotation, FilesStay
  <2> QED BY <1>7, <2>1, <2>2 DEF MovesUp
<1>8. CASE AppendLine
  BY <1>8 DEF AppendLine, Writing, FilesStay, Appends
<1> QED BY <1>1, <1>2, <1>3, <1>4, <1>5, <1>6, <1>7, <1>8 DEF LogNext

\* The line that is appended.
LEMMA AppendedLine ==
  ASSUME HandInv, DiskInv, SinkInv, holder.at = "append"
  PROVE  /\ LineOf(holder.pipe) \in Lines /\ LineOf(holder.pipe).n = serial + 1
         /\ LineOf(holder.pipe).end = SizeOf(files[0]) + inHand[holder.pipe][1].size
         /\ LineOf(holder.pipe).end > SizeOf(files[0])
         /\ inHand[holder.pipe][1].size \in Nat /\ inHand[holder.pipe][1].size > 0
         /\ Counted(sink.overdue, sink.written, SizeOf(files[0])) /\ 0 \in present
<1>1. holder.pipe \in Pipes /\ inHand[holder.pipe] # <<>>
  BY DEF SinkInv
<1>2. inHand[holder.pipe][1].size \in Nat /\ inHand[holder.pipe][1].size > 0
  BY <1>1, InHandLine
<1>3. holder.pipe[1] \in Tunnels
  BY <1>1 DEF Pipes
<1>4. SizeOf(files[0]) \in Nat /\ serial \in Nat
  BY LengthIs DEF HandInv
<1>5. Counted(sink.overdue, sink.written, SizeOf(files[0])) /\ 0 \in present
  BY DEF SinkInv
<1> QED BY <1>2, <1>3, <1>4, <1>5 DEF LineOf, Lines

LEMMA DiskKept ==
  ASSUME HandInv, DiskInv, SinkInv, LogNext
  PROVE  DiskInv'
<1>1. CASE FilesStay
  BY <1>1, DiskUnchanged DEF FilesStay
<1>2. CASE OldestGoes
  BY <1>2, OldestGone DEF OldestGoes
<1>3. CASE \E i \in 0..MaxFiles: MovesUp(i)
  BY <1>3, MovedUp DEF MovesUp
<1>4. CASE Appends
  <2> DEFINE line == LineOf(holder.pipe)
  <2>1. line \in Lines /\ line.n = serial + 1 /\ line.end > SizeOf(files[0]) /\ 0 \in present
    BY <1>4, AppendedLine DEF Appends
  <2>2. /\ files' = [files EXCEPT ![0] = Append(@, line)] /\ serial' = serial + 1
        /\ UNCHANGED <<present, gapped>> /\ serial \in Nat
    BY <1>4 DEF Appends, HandInv
  <2> HIDE DEF line
  <2> QED BY <2>1, <2>2, Appended
<1> QED BY <1>1, <1>2, <1>3, <1>4, FilesStep

-----------------------------------------------------------------------------
(* The writer *)

Sinks == [open: BOOLEAN, written: Nat, overdue: BOOLEAN]
Holders == [pipe: Pipes \cup {Nobody}, at: LogSteps, index: 0..MaxFiles]
IdleHolder == [pipe |-> Nobody, at |-> "idle", index |-> 0]

LEMMA IdleTyped ==
  /\ IdleHolder \in Holders /\ IdleHolder.at = "idle" /\ IdleHolder.pipe = Nobody
BY Slots DEF IdleHolder, Holders, LogSteps

LEMMA NobodyReads == Nobody \notin Pipes
BY DEF Nobody, Pipes, Streams

\* Where At leads to.
LEMMA AtIs ==
  ASSUME SinkInv, NEW step \in LogSteps, NEW index \in 0..MaxFiles, At(step, index)
  PROVE  /\ holder' \in Holders /\ holder'.pipe = holder.pipe
         /\ holder'.at = step /\ holder'.index = index
BY DEF At, SinkInv, Holders

LEMMA SinkStays ==
  ASSUME SinkInv, UNCHANGED <<files, sink, holder, present>>,
         holder.pipe # Nobody => inHand'[holder.pipe] = inHand[holder.pipe]
  PROVE  SinkInv'
<1>1. WithinCap' <=> WithinCap
  BY DEF WithinCap, SizeOf
<1>2. SizeOf(files[0])' = SizeOf(files[0])
  BY DEF SizeOf
<1> QED BY <1>1, <1>2 DEF SinkInv

\* The lock is released.
LEMMA LineDone ==
  ASSUME holder' = IdleHolder, sink' \in Sinks, WithinCap',
         sink'.open =>
           Counted(sink'.overdue, sink'.written, SizeOf(files[0])') /\ 0 \in present'
  PROVE  SinkInv'
BY IdleTyped DEF SinkInv, Sinks, Holders

LEMMA DoneIdles ==
  ASSUME NEW q, Done(q)
  PROVE  holder' = IdleHolder
BY DEF Done, IdleHolder

LEMMA CapStays ==
  ASSUME WithinCap, files'[0] = files[0], sink.overdue => sink'.overdue
  PROVE  WithinCap'
BY DEF WithinCap, SizeOf

\* The file is open: the line starts a rotation, or it fits.
LEMMA Begun ==
  ASSUME HandInv, DiskInv, SinkInv, holder.at = "open", sink' \in Sinks, sink'.open,
         Counted(sink'.overdue, sink'.written, SizeOf(files[0])),
         sink.overdue => sink'.overdue, 0 \in present', UNCHANGED <<files, inHand>>,
         BeginLine(holder.pipe, sink'.written)
  PROVE  SinkInv'
<1> DEFINE size == inHand[holder.pipe][1].size
           w == sink'.written
           step == IF ShouldRotate(w, size) THEN "discard" ELSE "append"
<1>1. holder.pipe \in Pipes /\ inHand[holder.pipe] # <<>> /\ holder.pipe # Nobody
  BY NobodyReads DEF SinkInv
<1>2. size \in Nat /\ w \in Nat /\ MaxBytes \in Nat
  BY <1>1, InHandLine, LogConstantsAssumption DEF Sinks
<1>3. At(step, 0)
  BY DEF BeginLine
<1>4. step \in {"discard", "append"}
  OBVIOUS
<1>5. step = "append" => MaxBytes = 0 \/ w = 0 \/ w + size <= MaxBytes
  BY <1>2 DEF ShouldRotate
<1> HIDE DEF step
<1>6. /\ holder' \in Holders /\ holder'.pipe = holder.pipe /\ holder'.at = step
  BY <1>3, <1>4, AtIs, Slots DEF LogSteps
<1>7. WithinCap' /\ SizeOf(files[0])' = SizeOf(files[0])
  BY CapStays DEF SinkInv, SizeOf
<1> QED BY <1>1, <1>4, <1>5, <1>6, <1>7 DEF SinkInv, Sinks, Holders

LEMMA OpenLogKeeps ==
  ASSUME HandInv, DiskInv, SinkInv, OpenLog
  PROVE  SinkInv'
<1>0. /\ holder.at = "open" /\ files' = files /\ sink \in Sinks
      /\ SizeOf(files[0]) \in Nat
  BY LengthIs DEF OpenLog, Writing, SinkInv, Sinks
<1>1. CASE /\ sink.open /\ BeginLine(holder.pipe, sink.written)
           /\ UNCHANGED <<present, sink>> /\ Held
  <2>1. Counted(sink.overdue, sink.written, SizeOf(files[0])) /\ 0 \in present
    BY <1>0, <1>1 DEF SinkInv
  <2> QED BY <1>0, <1>1, <2>1, Begun DEF Held
<1>2. CASE /\ ~sink.open /\ BeginLine(holder.pipe, SizeOf(files[0]))
           /\ present' = present \cup {0}
           /\ sink' = [sink EXCEPT !.open = TRUE, !.written = SizeOf(files[0])] /\ Held
  <2>1. /\ sink' \in Sinks /\ sink'.open /\ sink'.written = SizeOf(files[0])
        /\ sink'.overdue = sink.overdue /\ 0 \in present'
    BY <1>0, <1>2 DEF Sinks
  <2> QED BY <1>0, <1>2, <2>1, Begun DEF Held, Counted
<1>4. CASE /\ ~sink.open /\ BeginLine(holder.pipe, 0)
           /\ present' = present \cup {0}
           /\ sink' = [open |-> TRUE, written |-> 0, overdue |-> TRUE] /\ Held
  <2>1. /\ sink' \in Sinks /\ sink'.open /\ sink'.written = 0 /\ sink'.overdue
        /\ 0 \in present'
    BY <1>4 DEF Sinks
  <2> QED BY <1>0, <1>4, <2>1, Begun DEF Held, Counted
<1>3. CASE ~sink.open /\ Done(holder.pipe) /\ UNCHANGED <<present, sink>>
  <2>1. WithinCap'
    BY <1>0, <1>3, CapStays DEF SinkInv
  <2> QED BY <1>0, <1>3, <2>1, LineDone, DoneIdles
<1> QED BY <1>1, <1>2, <1>3, <1>4 DEF OpenLog

\* A rotation is given up.
LEMMA GivenUp ==
  ASSUME HandInv, SinkInv, GiveUpRotation, Held, holder.at \in {"discard", "shift"}
  PROVE  SinkInv'
<1>1. /\ holder' \in Holders /\ holder'.pipe = holder.pipe
      /\ holder'.at = "append"
  BY AtIs, Slots DEF GiveUpRotation, LogSteps
<1>2. sink' \in Sinks /\ sink'.overdue /\ sink'.open = sink.open /\ sink'.written = sink.written
  BY DEF GiveUpRotation, SinkInv, Sinks
<1>3. /\ WithinCap' /\ SizeOf(files[0])' = SizeOf(files[0])
      /\ UNCHANGED <<files, present, inHand>>
  BY <1>2 DEF GiveUpRotation, WithinCap, SizeOf, Held
<1>4. holder.pipe # Nobody /\ sink.open /\ 0 \in present
  BY DEF SinkInv
<1> QED BY <1>1, <1>2, <1>3, <1>4 DEF SinkInv, Sinks, Holders, Counted

\* A rotation goes on.
LEMMA GoesOn ==
  ASSUME HandInv, SinkInv, Held, holder.at \in {"discard", "shift"}, sink' = sink,
         NEW step \in {"shift", "reopen"}, NEW index \in 0..MaxFiles, At(step, index),
         WithinCap',
         step = "reopen" => files'[0] = <<>>,
         step = "shift" =>
           /\ files'[0] = files[0] /\ (0 \in present => 0 \in present')
           /\ index < MaxFiles
  PROVE  SinkInv'
<1>1. /\ holder' \in Holders /\ holder'.pipe = holder.pipe
      /\ holder'.at = step /\ holder'.index = index
  BY AtIs DEF LogSteps
<1>2. inHand' = inHand
  BY DEF Held
<1>3. step = "shift" => SizeOf(files[0])' = SizeOf(files[0])
  BY DEF SizeOf
<1>4. /\ holder.pipe # Nobody /\ inHand[holder.pipe] # <<>> /\ sink \in Sinks
      /\ sink.open /\ 0 \in present
      /\ Counted(sink.overdue, sink.written, SizeOf(files[0]))
  BY DEF SinkInv, Sinks
<1> QED BY <1>1, <1>2, <1>3, <1>4 DEF SinkInv, Sinks, Holders

\* An empty live log is within its cap.
LEMMA EmptyFits ==
  ASSUME files'[0] = <<>>
  PROVE  WithinCap'
BY DEF WithinCap

LEMMA DiscardKeeps ==
  ASSUME HandInv, DiskInv, SinkInv, Discard
  PROVE  SinkInv'
<1>0. holder.at = "discard" /\ Held /\ files \in [0..MaxFiles -> Seq(Lines)] /\ WithinCap
  BY DEF Discard, Writing, DiskInv, SinkInv
<1>1. CASE MaxFiles = 0 /\ files' = [files EXCEPT ![0] = <<>>] /\ At("reopen", 0) /\ sink' = sink
  <2>1. files'[0] = <<>>
    BY <1>0, <1>1, Slots
  <2>2. WithinCap'
    BY <2>1, EmptyFits
  <2> QED BY <1>0, <1>1, <2>1, <2>2, GoesOn, Slots
<1>2. CASE GiveUpRotation
  BY <1>0, <1>2, GivenUp
<1>3. CASE /\ MaxFiles > 0 /\ sink' = sink /\ At("shift", MaxFiles - 1)
           /\ \/ /\ files' = [files EXCEPT ![MaxFiles] = <<>>] /\ present' = present \ {MaxFiles}
              \/ UNCHANGED <<files, present>>
  <2>1. files'[0] = files[0] /\ (0 \in present => 0 \in present')
    BY <1>0, <1>3, Slots
  <2>2. WithinCap'
    BY <1>0, <1>3, <2>1, CapStays
  <2>3. MaxFiles - 1 \in 0..MaxFiles /\ MaxFiles - 1 < MaxFiles
    BY <1>3, Slots
  <2> QED BY <1>0, <1>3, <2>1, <2>2, <2>3, GoesOn
<1> QED BY <1>1, <1>2, <1>3 DEF Discard

LEMMA ShiftKeeps ==
  ASSUME HandInv, DiskInv, SinkInv, Shift
  PROVE  SinkInv'
<1> DEFINE i == holder.index
<1>0. /\ holder.at = "shift" /\ i > 0 /\ Held /\ i \in 0..MaxFiles /\ i < MaxFiles
      /\ files \in [0..MaxFiles -> Seq(Lines)] /\ WithinCap
  <2>1. holder.at = "shift" /\ i > 0 /\ Held
    BY DEF Shift, Writing
  <2>2. i \in 0..MaxFiles /\ i < MaxFiles /\ WithinCap
    BY <2>1 DEF SinkInv
  <2>3. files \in [0..MaxFiles -> Seq(Lines)]
    BY DEF DiskInv
  <2> QED BY <2>1, <2>2, <2>3
<1>i. i \in 0..MaxFiles /\ i > 0 /\ i < MaxFiles
  BY <1>0
<1>1. i - 1 \in 0..MaxFiles /\ i - 1 < MaxFiles /\ i + 1 # 0 /\ i + 1 \in 0..MaxFiles
  BY ONLY <1>i, Slots
<1>2. CASE Rename(i, i + 1) /\ At("shift", i - 1) /\ sink' = sink
  <2>a. /\ files' = [files EXCEPT ![i + 1] = files[i], ![i] = <<>>]
        /\ present' = (present \ {i}) \cup {i + 1}
    BY <1>2 DEF Rename
  <2>b. DOMAIN files = 0..MaxFiles /\ 0 \in 0..MaxFiles /\ 0 # i
    BY ONLY <1>0, <1>i, Slots
  <2>c. files'[0] = files[0]
    BY ONLY <1>1, <2>a, <2>b
  <2>e. 0 \in present => 0 \in present'
    BY ONLY <2>a, <2>b
  <2>1. files'[0] = files[0] /\ (0 \in present => 0 \in present')
    BY ONLY <2>c, <2>e
  <2>2. WithinCap'
    BY <1>0, <1>2, <2>1, CapStays
  <2> QED BY <1>0, <1>1, <1>2, <2>1, <2>2, GoesOn
<1>3. CASE UNCHANGED <<files, present, sink>> /\ At("shift", i - 1)
  <2>1. WithinCap'
    BY <1>0, <1>3, CapStays
  <2> QED BY <1>0, <1>1, <1>3, <2>1, GoesOn
<1>4. CASE GiveUpRotation
  BY <1>0, <1>4, GivenUp
<1> QED BY <1>2, <1>3, <1>4 DEF Shift

LEMMA SealLiveKeeps ==
  ASSUME HandInv, DiskInv, SinkInv, SealLive
  PROVE  SinkInv'
<1>0. /\ holder.at = "shift" /\ holder.index = 0 /\ Held /\ 0 < MaxFiles
      /\ files \in [0..MaxFiles -> Seq(Lines)]
  BY DEF SealLive, Writing, DiskInv, SinkInv
<1>1. CASE Rename(0, 1) /\ At("reopen", 0) /\ sink' = sink
  <2>1. files'[0] = <<>>
    BY <1>0, <1>1, Slots DEF Rename
  <2> QED BY <1>0, <1>1, <2>1, EmptyFits, GoesOn, Slots
<1>2. CASE GiveUpRotation
  BY <1>0, <1>2, GivenUp
<1> QED BY <1>1, <1>2 DEF SealLive

LEMMA ReopenKeeps ==
  ASSUME HandInv, DiskInv, SinkInv, Reopen
  PROVE  SinkInv'
<1>0. /\ holder.at = "reopen" /\ files' = files /\ files'[0] = <<>>
      /\ holder.pipe # Nobody /\ inHand[holder.pipe] # <<>>
  BY DEF Reopen, Writing, SinkInv
<1>1. WithinCap' /\ SizeOf(files[0])' = 0
  BY <1>0, EmptyFits DEF SizeOf
<1>2. CASE /\ present' = present \cup {0} /\ At("append", 0) /\ Held
           /\ sink' = [open |-> TRUE, written |-> 0, overdue |-> FALSE]
  <2>1. /\ holder' \in Holders /\ holder'.pipe = holder.pipe
        /\ holder'.at = "append"
    BY <1>2, AtIs, Slots DEF LogSteps
  <2>2. sink' \in Sinks /\ sink'.written = 0 /\ sink'.open
    BY <1>2 DEF Sinks
  <2> QED BY <1>0, <1>1, <1>2, <2>1, <2>2 DEF SinkInv, Sinks, Holders, Held, Counted
<1>3. CASE Done(holder.pipe) /\ sink' = [open |-> FALSE, written |-> 0, overdue |-> FALSE]
  <2>1. sink' \in Sinks /\ ~sink'.open
    BY <1>3 DEF Sinks
  <2> QED BY <1>1, <1>3, <2>1, LineDone, DoneIdles
<1> QED BY <1>2, <1>3 DEF Reopen

\* The appended line fits, or is alone in the file, or a rotation failed.
LEMMA AppendFits ==
  ASSUME HandInv, DiskInv, SinkInv, holder.at = "append",
         files' = [files EXCEPT ![0] = Append(@, LineOf(holder.pipe))],
         sink'.overdue = sink.overdue
  PROVE  /\ WithinCap'
         /\ Counted(sink.overdue, sink.written + inHand[holder.pipe][1].size,
                    SizeOf(files[0])')
<1> DEFINE line == LineOf(holder.pipe)
           live == files[0]
           size == inHand[holder.pipe][1].size
<1>1. /\ line \in Lines /\ line.end = SizeOf(live) + size /\ size \in Nat /\ size > 0
      /\ Counted(sink.overdue, sink.written, SizeOf(live)) /\ SizeOf(live) \in Nat
      /\ (live = <<>> <=> SizeOf(live) = 0)
  BY AppendedLine, LengthIs
<1>2. live \in Seq(Lines) /\ files'[0] = Append(live, line)
  BY Slots DEF DiskInv
<1> HIDE DEF line, live, size
<1>3. Len(files'[0]) = Len(live) + 1 /\ files'[0][Len(files'[0])] = line /\ files'[0] # <<>>
  BY <1>1, <1>2
<1>4. SizeOf(files[0])' = line.end
  BY <1>3 DEF SizeOf
<1>5. live = <<>> => Len(files'[0]) <= 1
  BY <1>2, <1>3
<1>6. MaxBytes = 0 \/ sink.overdue \/ sink.written = 0 \/ sink.written + size <= MaxBytes
  BY DEF SinkInv, size
<1>l. sink.overdue \/ line.end = sink.written + size
  BY <1>1 DEF Counted
<1>7. WithinCap'
  <2>0. sink.written = 0 => sink.overdue \/ live = <<>>
    BY <1>1 DEF Counted
  <2>1. sink.written = 0 => sink.overdue \/ Len(files'[0]) <= 1
    BY <2>0, <1>5
  <2>2. sink.written + size <= MaxBytes => sink.overdue \/ SizeOf(files[0])' <= MaxBytes
    BY <1>l, <1>4
  <2> QED BY <1>6, <2>1, <2>2 DEF WithinCap
<1> QED BY <1>l, <1>4, <1>7 DEF size, Counted

LEMMA AppendLineKeeps ==
  ASSUME HandInv, DiskInv, SinkInv, AppendLine
  PROVE  SinkInv'
<1> DEFINE line == LineOf(holder.pipe)
           size == inHand[holder.pipe][1].size
           kept == files' = [files EXCEPT ![0] = Append(@, line)]
           closed == sink' = [sink EXCEPT !.open = FALSE, !.written = 0]
<1>0. /\ holder.at = "append" /\ Done(holder.pipe) /\ present' = present /\ sink \in Sinks
      /\ sink.written \in Nat /\ 0 \in present
  BY DEF AppendLine, Writing, SinkInv, Sinks
<1>s. size \in Nat
  BY <1>0, AppendedLine
<1>1. CASE kept /\ sink' = [sink EXCEPT !.written = @ + size]
  <2>1. /\ sink' \in Sinks /\ sink'.written = sink.written + size
        /\ sink'.overdue = sink.overdue
    BY <1>0, <1>1, <1>s DEF Sinks
  <2>2. WithinCap' /\ Counted(sink'.overdue, sink'.written, SizeOf(files[0])')
    BY <1>0, <1>1, <2>1, AppendFits
  <2> QED BY <1>0, <2>1, <2>2, LineDone, DoneIdles
<1>2. CASE kept /\ closed
  <2>1. sink' \in Sinks /\ ~sink'.open /\ sink'.overdue = sink.overdue
    BY <1>0, <1>2 DEF Sinks
  <2>2. WithinCap'
    BY <1>0, <1>2, <2>1, AppendFits
  <2> QED BY <1>0, <2>1, <2>2, LineDone, DoneIdles
<1>3. CASE files' = files /\ closed
  <2>1. sink' \in Sinks /\ ~sink'.open /\ sink'.overdue = sink.overdue
    BY <1>0, <1>3 DEF Sinks
  <2>2. WithinCap'
    BY <1>3, <2>1, CapStays DEF SinkInv
  <2> QED BY <1>0, <2>1, <2>2, LineDone, DoneIdles
<1> QED BY <1>1, <1>2, <1>3 DEF AppendLine

LEMMA SinkKept ==
  ASSUME HandInv, DiskInv, SinkInv, LogNext
  PROVE  SinkInv'
<1>1. ASSUME UNCHANGED <<files, sink, holder, present, inHand>> PROVE SinkInv'
  BY <1>1, SinkStays
<1>2. CASE \E t \in Tunnels: SpawnProvider(t) \/ ProviderExits(t) \/ StartupLate(t)
                       \/ AwaitStartup(t) \/ DropStartup(t)
  BY <1>1, <1>2 DEF SpawnProvider, ProviderExits, StartupLate, AwaitStartup, DropStartup, fileVars
<1>3. CASE \E f \in Followers: Follow(f) \/ SendLine(f) \/ PollLog(f) \/ Unfollow(f)
  BY <1>1, <1>3 DEF Follow, SendLine, PollLog, Unfollow, readVars, fileVars
<1>4. ASSUME NEW q \in Pipes, StopReading(q) PROVE SinkInv'
  BY <1>1, <1>4 DEF StopReading, fileVars
<1>5. ASSUME NEW q \in Pipes, ReadLine(q) PROVE SinkInv'
  <2>1. UNCHANGED <<files, sink, holder, present>> /\ inHand[q] = <<>>
    BY <1>5 DEF ReadLine, fileVars
  <2>2. holder.pipe # Nobody => inHand'[holder.pipe] = inHand[holder.pipe]
    <3>1. holder.pipe # Nobody => holder.pipe \in Pipes /\ holder.pipe # q
      BY <2>1 DEF SinkInv
    <3> QED BY <3>1, <1>5 DEF ReadLine, HandInv
  <2> QED BY <2>1, <2>2, SinkStays
<1>6. ASSUME NEW q \in Pipes, LockLog(q) PROVE SinkInv'
  <2>1. /\ holder' = [pipe |-> q, at |-> "open", index |-> 0] /\ inHand[q] # <<>>
        /\ holder.pipe = Nobody /\ UNCHANGED <<files, present, sink, inHand>>
    BY <1>6 DEF LockLog, Held
  <2>2. holder' \in Holders /\ holder'.pipe = q /\ holder'.at = "open" /\ q # Nobody
    BY <2>1, Slots, NobodyReads DEF Holders, LogSteps
  <2>3. holder.at = "idle"
    BY <2>1 DEF SinkInv
  <2>4. /\ sink \in Sinks
        /\ sink.open =>
             Counted(sink.overdue, sink.written, SizeOf(files[0])) /\ 0 \in present
    BY <2>3 DEF SinkInv, Sinks
  <2>5. WithinCap' /\ SizeOf(files[0])' = SizeOf(files[0])
    BY <2>1, CapStays DEF SinkInv, SizeOf
  <2> QED BY <2>1, <2>2, <2>4, <2>5 DEF SinkInv, Sinks, Holders
<1>7. ASSUME KillDaemon PROVE SinkInv'
  <2>1. /\ sink' = [open |-> FALSE, written |-> 0, overdue |-> sink.overdue]
        /\ holder' = IdleHolder /\ UNCHANGED <<files, present>>
    BY <1>7 DEF KillDaemon, IdleHolder
  <2>2. sink' \in Sinks /\ ~sink'.open /\ sink'.overdue = sink.overdue
    BY <2>1 DEF Sinks, SinkInv
  <2>3. WithinCap'
    BY <2>1, <2>2, CapStays DEF SinkInv
  <2> QED BY <2>1, <2>2, <2>3, LineDone
<1> QED BY <1>2, <1>3, <1>4, <1>5, <1>6, <1>7, OpenLogKeeps, DiscardKeeps, ShiftKeeps,
           SealLiveKeeps, ReopenKeeps, AppendLineKeeps DEF LogNext

-----------------------------------------------------------------------------
(* Followers *)

\* What a follower relies on of the live log.
InLine(live, n) ==
  /\ live \in Seq(Lines) /\ SizeOf(live) \in Nat /\ n \in Nat
  /\ \A k \in DOMAIN live: live[k].end <= SizeOf(live) /\ live[k].n <= n
  /\ \A k, m \in DOMAIN live: k < m => live[k].n < live[m].n /\ live[k].end < live[m].end

LEMMA LiveInLine ==
  ASSUME HandInv, DiskInv
  PROVE  InLine(files[0], serial)
<1>1. files[0] \in Seq(Lines) /\ SizeOf(files[0]) \in Nat /\ serial \in Nat
  BY LengthIs DEF HandInv
<1>2. ASSUME NEW k \in DOMAIN files[0] PROVE files[0][k].n <= serial
  <2>1. files[0][k].n \in OnDisk
    BY OnDiskIs, Slots
  <2> QED BY <2>1 DEF DiskInv, NoGap
<1>3. \A k, m \in DOMAIN files[0]: k < m =>
        files[0][k].n < files[0][m].n /\ files[0][k].end < files[0][m].end
  BY Slots DEF DiskInv, InOrder
<1> QED BY <1>1, <1>2, <1>3, LengthIs DEF InLine

LEMMA LineIs ==
  ASSUME NEW ls \in Seq(Lines), NEW k \in DOMAIN ls
  PROVE  ls[k] \in Lines /\ ls[k].n \in Nat /\ ls[k].end \in Nat /\ k \in 1..Len(ls)
<1>1. ls[k] \in Lines /\ k \in 1..Len(ls)
  OBVIOUS
<1> QED BY <1>1 DEF Lines

LEMMA SuffixIs ==
  ASSUME NEW s \in Seq(Lines), NEW c \in 1..(Len(s) + 1)
  PROVE  /\ SubSeq(s, c, Len(s)) \in Seq(Lines)
         /\ Len(SubSeq(s, c, Len(s))) = Len(s) - c + 1
         /\ \A i \in DOMAIN SubSeq(s, c, Len(s)):
              c + i - 1 \in DOMAIN s /\ c + i - 1 >= c /\ SubSeq(s, c, Len(s))[i] = s[c + i - 1]
<1>0. Len(s) \in Nat /\ c \in Nat /\ c >= 1 /\ c <= Len(s) + 1
  OBVIOUS
<1>1. \A i \in c..Len(s): s[i] \in Lines
  BY <1>0
<1>2. /\ SubSeq(s, c, Len(s)) \in Seq(Lines)
      /\ Len(SubSeq(s, c, Len(s))) = IF c <= Len(s) THEN Len(s) - c + 1 ELSE 0
      /\ \A i \in 1..(Len(s) - c + 1): SubSeq(s, c, Len(s))[i] = s[c + i - 1]
  BY <1>0, <1>1, SubSeqProperties
<1>3. Len(SubSeq(s, c, Len(s))) = Len(s) - c + 1
  BY <1>0, <1>2
<1>4. DOMAIN SubSeq(s, c, Len(s)) = 1..(Len(s) - c + 1) /\ DOMAIN s = 1..Len(s)
  BY <1>2, <1>3
<1>5. \A i \in 1..(Len(s) - c + 1): c + i - 1 \in 1..Len(s) /\ c + i - 1 >= c
  BY <1>0
<1> QED BY <1>2, <1>3, <1>4, <1>5

LEMMA LeastOf ==
  ASSUME NEW T \in SUBSET Nat, T # {}
  PROVE  \E i \in T: \A j \in T: i <= j
<1> PICK i \in T: \A j \in T: ~(<<j, i>> \in OpToRel(<, Nat))
  BY NatLessThanWellFounded, WFMin
<1>1. \A p, q \in Nat: p < q => <<p, q>> \in OpToRel(<, Nat)
  BY Zenon DEF OpToRel
<1>2. \A j \in T: i \in Nat /\ j \in Nat
  OBVIOUS
<1>3. \A j \in T: ~(j < i)
  BY <1>1, <1>2
<1>4. \A j \in T: i <= j
  BY ONLY <1>2, <1>3
<1> QED BY <1>4, Zenon

\* Beyond is a suffix of the log, of lines that end past the offset.
LEMMA BeyondIs ==
  ASSUME NEW live, NEW n, InLine(live, n), NEW offset \in Nat
  PROVE  \E c \in 1..(Len(live) + 1):
           /\ Beyond(live, offset) = SubSeq(live, c, Len(live))
           /\ \A k \in DOMAIN live: k >= c => live[k].end > offset
<1> DEFINE past == {i \in 1..Len(live): live[i].end > offset}
<1>1. live \in Seq(Lines) /\ Len(live) \in Nat /\ DOMAIN live = 1..Len(live)
  BY DEF InLine
<1>2. CASE past = {}
  <2>1. Beyond(live, offset) = <<>>
    BY <1>2 DEF Beyond
  <2>2. SubSeq(live, Len(live) + 1, Len(live)) = <<>>
    BY <1>1, SubSeqEmpty
  <2>3. Len(live) + 1 \in 1..(Len(live) + 1) /\ \A k \in DOMAIN live: ~(k >= Len(live) + 1)
    BY <1>1
  <2> QED BY <2>1, <2>2, <2>3
<1>3. CASE past # {}
  <2> DEFINE c == CHOOSE i \in past: \A j \in past: i <= j
  <2>1. past \subseteq Nat
    BY <1>1
  <2>2. \E i \in past: \A j \in past: i <= j
    BY <1>3, <2>1, LeastOf
  <2>3. c \in past
    BY <2>2
  <2>4. Beyond(live, offset) = SubSeq(live, c, Len(live))
    BY <1>3 DEF Beyond
  <2> HIDE DEF c
  <2>5. c \in 1..Len(live) /\ live[c].end > offset
    BY <2>3
  <2>6. ASSUME NEW k \in DOMAIN live, k >= c PROVE live[k].end > offset
    <3>0. k \in Nat /\ c \in Nat /\ c \in DOMAIN live
      BY <1>1, <2>5
    <3>1. k = c \/ k > c
      BY <2>6, <3>0
    <3>2. live[c].end \in Nat /\ live[k].end \in Nat
      BY <1>1, <3>0, LineIs
    <3>3. k > c => live[c].end < live[k].end
      BY <3>0 DEF InLine
    <3> QED BY <2>5, <3>1, <3>2, <3>3
  <2>7. c \in 1..(Len(live) + 1)
    BY ONLY <1>1, <2>5
  <2>8. \A k \in DOMAIN live: k >= c => live[k].end > offset
    BY ONLY <2>6
  <2> QED BY ONLY <2>4, <2>7, <2>8
<1> QED BY <1>2, <1>3

LEMMA TailLogIs ==
  ASSUME NEW live \in Seq(Lines)
  PROVE  \E c \in 1..(Len(live) + 1): LogTail(live) = SubSeq(live, c, Len(live))
<1>1. Len(live) \in Nat /\ TailLines \in Nat /\ TailLines > 0
  BY LogConstantsAssumption
<1> DEFINE c == IF Len(live) > TailLines THEN Len(live) - TailLines + 1 ELSE 1
<1>2. c \in 1..(Len(live) + 1)
  BY <1>1
<1>3. LogTail(live) = SubSeq(live, c, Len(live))
  BY DEF LogTail
<1> QED BY <1>2, <1>3

\* A suffix of the log is in line.
LEMMA SuffixInLine ==
  ASSUME NEW live, NEW n, InLine(live, n), NEW c \in 1..(Len(live) + 1),
         NEW p, p = SubSeq(live, c, Len(live))
  PROVE  /\ p \in Seq(Lines)
         /\ \A i \in DOMAIN p: p[i].n <= n /\ \E k \in DOMAIN live: k >= c /\ p[i] = live[k]
         /\ \A i, j \in DOMAIN p: i < j => p[i].n < p[j].n
<1>1. live \in Seq(Lines)
  BY DEF InLine
<1>2. /\ p \in Seq(Lines)
      /\ \A i \in DOMAIN p: c + i - 1 \in DOMAIN live /\ c + i - 1 >= c /\ p[i] = live[c + i - 1]
  BY <1>1, SuffixIs
<1>3. ASSUME NEW i \in DOMAIN p, NEW j \in DOMAIN p, i < j PROVE p[i].n < p[j].n
  <2>1. i \in Nat /\ j \in Nat /\ c \in Nat
    BY <1>1, <1>2
  <2>2. c + i - 1 < c + j - 1
    BY <2>1, <1>3
  <2> QED BY <1>2, <2>2 DEF InLine
<1>4. ASSUME NEW i \in DOMAIN p
      PROVE  p[i].n <= n /\ \E k \in DOMAIN live: k >= c /\ p[i] = live[k]
  BY <1>2 DEF InLine
<1> QED BY <1>2, <1>3, <1>4

\* The empty log asks nothing of a follower.
LEMMA SoundEmptied ==
  ASSUME NEW r, NEW live, NEW n, Sound(r, live, n)
  PROVE  Sound(r, <<>>, n)
BY DEF Sound

\* An appended line is newer than all that was read.
LEMMA SoundAppended ==
  ASSUME NEW r \in FollowerTypes, NEW live, NEW n, InLine(live, n), Sound(r, live, n),
         NEW line \in Lines, line.n = n + 1, line.end > SizeOf(live)
  PROVE  Sound(r, Append(live, line), n + 1)
<1> DEFINE new == Append(live, line)
           last == Len(live) + 1
<1>1. live \in Seq(Lines) /\ Len(live) \in Nat /\ n \in Nat /\ SizeOf(live) \in Nat
  BY DEF InLine
<1>2. /\ new \in Seq(Lines) /\ Len(new) = last /\ new[last] = line
      /\ \A k \in DOMAIN new: k = last \/ (k \in DOMAIN live /\ new[k] = live[k])
  BY <1>1
<1>3. SizeOf(new) = line.end
  BY <1>1, <1>2 DEF SizeOf
<1>4. line.end \in Nat /\ r.offset \in Nat /\ r.sent \in Seq(Nat) /\ r.pending \in Seq(Lines)
  BY DEF Lines, FollowerTypes
<1>5. SizeOf(new) < r.offset => SizeOf(live) < r.offset
  BY <1>1, <1>3, <1>4
<1> HIDE DEF new, last
<1>6. /\ \A i \in DOMAIN r.sent: r.sent[i] \in Nat /\ r.sent[i] <= n
      /\ \A i \in DOMAIN r.pending: r.pending[i].n \in Nat /\ r.pending[i].n <= n
  BY <1>4, LineIs DEF Sound
<1>7. /\ \A i \in DOMAIN r.sent: r.sent[i] <= n + 1 /\ r.sent[i] < line.n
      /\ \A i \in DOMAIN r.pending: r.pending[i].n <= n + 1 /\ r.pending[i].n < line.n
  BY <1>1, <1>6
<1>8. ASSUME NEW k \in DOMAIN new, new[k].end > r.offset \/ SizeOf(new) < r.offset
      PROVE  /\ \A i \in DOMAIN r.sent: r.sent[i] < new[k].n
             /\ \A i \in DOMAIN r.pending: r.pending[i].n < new[k].n
  <2>1. CASE k = last
    BY <2>1, <1>2, <1>7
  <2>2. CASE k \in DOMAIN live /\ new[k] = live[k]
    BY <2>2, <1>5, <1>8 DEF Sound
  <2> QED BY <1>2, <2>1, <2>2
<1> QED BY <1>7, <1>8 DEF Sound, new

\* A line is sent, or passed over.
LEMMA SoundSend ==
  ASSUME NEW r \in FollowerTypes, NEW live \in Seq(Lines), NEW n, Sound(r, live, n), r.pending # <<>>,
         NEW s \in FollowerTypes, s.offset = r.offset, s.pending = Tail(r.pending),
         s.sent = r.sent \/ s.sent = Append(r.sent, Head(r.pending).n)
  PROVE  Sound(s, live, n)
<1> DEFINE first == Head(r.pending).n
<1>1. /\ r.pending \in Seq(Lines) /\ r.sent \in Seq(Nat)
      /\ s.pending \in Seq(Lines) /\ s.sent \in Seq(Nat)
  BY DEF FollowerTypes
<1>2. 1 \in DOMAIN r.pending /\ first = r.pending[1].n /\ first \in Nat
  <2>1. 1 \in DOMAIN r.pending /\ first = r.pending[1].n
    BY <1>1
  <2> QED BY <1>1, <2>1, LineIs
<1>3. \A i \in DOMAIN s.pending: i \in Nat /\ i + 1 \in DOMAIN r.pending /\ i + 1 > 1
                                 /\ s.pending[i] = r.pending[i + 1]
  BY <1>1
<1>4. \A i \in DOMAIN s.sent: i \in Nat /\
        (\/ i \in DOMAIN r.sent /\ s.sent[i] = r.sent[i]
         \/ s.sent[i] = first /\ i \notin DOMAIN r.sent /\ \A j \in DOMAIN s.sent: j <= i)
  <2>1. CASE s.sent = r.sent
    BY <1>1, <2>1
  <2>2. CASE s.sent = Append(r.sent, first)
    BY <1>1, <1>2, <2>2
  <2> QED BY <2>1, <2>2
<1> HIDE DEF first
<1>5. \A j \in DOMAIN s.pending: first < s.pending[j].n
  BY <1>2, <1>3 DEF Sound
<1>6. \A i \in DOMAIN r.sent: r.sent[i] < first
  BY <1>2 DEF Sound
<1>7. /\ \A i \in DOMAIN s.sent: s.sent[i] <= n
      /\ \A i \in DOMAIN s.pending: s.pending[i].n <= n
  BY <1>2, <1>3, <1>4 DEF Sound
<1>8. \A i, j \in DOMAIN s.sent: i < j => s.sent[i] < s.sent[j]
  <2> SUFFICES ASSUME NEW i \in DOMAIN s.sent, NEW j \in DOMAIN s.sent, i < j
               PROVE  s.sent[i] < s.sent[j]
    OBVIOUS
  <2>1. i \in DOMAIN r.sent /\ s.sent[i] = r.sent[i]
    BY <1>4
  <2> QED BY <1>4, <1>6, <2>1 DEF Sound
<1>9. \A i, j \in DOMAIN s.pending: i < j => s.pending[i].n < s.pending[j].n
  <2> SUFFICES ASSUME NEW i \in DOMAIN s.pending, NEW j \in DOMAIN s.pending, i < j
               PROVE  s.pending[i].n < s.pending[j].n
    OBVIOUS
  <2>1. i + 1 < j + 1
    BY <1>3
  <2> QED BY <1>3, <2>1 DEF Sound
<1>10. \A i \in DOMAIN s.sent, j \in DOMAIN s.pending: s.sent[i] < s.pending[j].n
  BY <1>3, <1>4, <1>5 DEF Sound
<1>11. ASSUME NEW k \in DOMAIN live, live[k].end > s.offset \/ SizeOf(live) < s.offset
       PROVE  /\ \A i \in DOMAIN s.sent: s.sent[i] < live[k].n
              /\ \A i \in DOMAIN s.pending: s.pending[i].n < live[k].n
  BY <1>2, <1>3, <1>4, <1>11 DEF Sound
<1> QED BY <1>7, <1>8, <1>9, <1>10, <1>11 DEF Sound

\* Nothing pending.
LEMMA SoundDropped ==
  ASSUME NEW r, NEW live, NEW n, Sound(r, live, n),
         NEW s, s.offset = r.offset \/ live = <<>>, s.pending = <<>>, s.sent = r.sent
  PROVE  Sound(s, live, n)
BY DEF Sound

\* A poll reads what is past the offset, or all of a log that is shorter.
LEMMA SoundPoll ==
  ASSUME NEW r \in FollowerTypes, NEW live, NEW n, InLine(live, n), Sound(r, live, n),
         r.pending = <<>>,
         NEW s, s.offset = SizeOf(live), s.sent = r.sent,
         s.pending = Beyond(live, DeltaStart(SizeOf(live), r.offset))
  PROVE  s.pending \in Seq(Lines) /\ Sound(s, live, n)
<1> DEFINE start == DeltaStart(SizeOf(live), r.offset)
<1>1. r.offset \in Nat /\ SizeOf(live) \in Nat
  BY DEF FollowerTypes, InLine
<1>2. start \in Nat /\ (start = r.offset \/ SizeOf(live) < r.offset)
  BY <1>1 DEF DeltaStart
<1> HIDE DEF start
<1>3. PICK c \in 1..(Len(live) + 1):
        /\ s.pending = SubSeq(live, c, Len(live))
        /\ \A k \in DOMAIN live: k >= c => live[k].end > start
  BY <1>2, BeyondIs DEF start
<1>4. /\ s.pending \in Seq(Lines)
      /\ \A i \in DOMAIN s.pending:
           s.pending[i].n <= n /\ \E k \in DOMAIN live: k >= c /\ s.pending[i] = live[k]
      /\ \A i, j \in DOMAIN s.pending: i < j => s.pending[i].n < s.pending[j].n
  BY <1>3, SuffixInLine
<1>5. ASSUME NEW i \in DOMAIN s.sent, NEW j \in DOMAIN s.pending
      PROVE  s.sent[i] < s.pending[j].n
  <2> PICK k \in DOMAIN live: k >= c /\ s.pending[j] = live[k]
    BY <1>4
  <2>1. live[k].end > r.offset \/ SizeOf(live) < r.offset
    BY <1>2, <1>3
  <2> QED BY <2>1 DEF Sound
<1>6. \A k \in DOMAIN live: ~(live[k].end > s.offset) /\ ~(SizeOf(live) < s.offset)
  <2> SUFFICES ASSUME NEW k \in DOMAIN live
               PROVE  ~(live[k].end > SizeOf(live)) /\ ~(SizeOf(live) < SizeOf(live))
    OBVIOUS
  <2>1. live[k].end \in Nat /\ live[k].end <= SizeOf(live)
    BY LineIs DEF InLine
  <2> QED BY <1>1, <2>1
<1> QED BY <1>4, <1>5, <1>6 DEF Sound

\* A new follower gets the tail, and will read what comes after it.
LEMMA SoundFollow ==
  ASSUME NEW live, NEW n, InLine(live, n),
         NEW s, s.offset = SizeOf(live), s.pending = LogTail(live), s.sent = <<>>
  PROVE  s.pending \in Seq(Lines) /\ Sound(s, live, n)
<1>0. live \in Seq(Lines)
  BY DEF InLine
<1>1. PICK c \in 1..(Len(live) + 1): s.pending = SubSeq(live, c, Len(live))
  BY <1>0, TailLogIs
<1>2. /\ s.pending \in Seq(Lines)
      /\ \A i \in DOMAIN s.pending: s.pending[i].n <= n
      /\ \A i, j \in DOMAIN s.pending: i < j => s.pending[i].n < s.pending[j].n
  BY <1>1, SuffixInLine
<1>3. \A k \in DOMAIN live: ~(live[k].end > s.offset) /\ ~(SizeOf(live) < s.offset)
  <2> SUFFICES ASSUME NEW k \in DOMAIN live
               PROVE  ~(live[k].end > SizeOf(live)) /\ ~(SizeOf(live) < SizeOf(live))
    OBVIOUS
  <2>1. live[k].end \in Nat /\ SizeOf(live) \in Nat /\ live[k].end <= SizeOf(live)
    BY LineIs DEF InLine
  <2> QED BY <2>1
<1> QED BY <1>2, <1>3 DEF Sound

\* What a step does to the live log, and which steps leave the followers.
LEMMA LiveStep ==
  ASSUME DiskInv, SinkInv, LogNext
  PROVE  \/ files'[0] = files[0] /\ serial' = serial
         \/ files'[0] = <<>> /\ serial' = serial /\ follower' = follower
         \/ Appends /\ follower' = follower
<1>0. files \in [0..MaxFiles -> Seq(Lines)]
  BY DEF DiskInv
<1>1. Discard \/ Shift \/ SealLive \/ AppendLine => follower' = follower
  BY DEF Discard, Shift, SealLive, AppendLine, Writing, startVars
<1>2. CASE FilesStay
  BY <1>2 DEF FilesStay
<1>3. CASE Discard /\ OldestGoes
  BY <1>0, <1>1, <1>3, Slots DEF OldestGoes
<1>4. CASE \E i \in 0..MaxFiles: (Shift \/ SealLive) /\ MovesUp(i)
  <2> PICK i \in 0..MaxFiles: (Shift \/ SealLive) /\ MovesUp(i)
    BY <1>4
  <2>1. /\ files' = [files EXCEPT ![i + 1] = files[i], ![i] = <<>>]
        /\ serial' = serial /\ i + 1 # 0 /\ i \in 0..MaxFiles
    BY Slots DEF MovesUp, Rename
  <2>2. files'[0] = IF i = 0 THEN <<>> ELSE files[0]
    BY <1>0, <2>1, Slots
  <2> QED BY <1>1, <2>1, <2>2
<1>5. CASE AppendLine /\ Appends
  BY <1>1, <1>5
<1> QED BY <1>2, <1>3, <1>4, <1>5, FilesStep

\* A step of one follower.
LEMMA FollowerSteps ==
  ASSUME FollowInv, files'[0] = files[0], serial' = serial,
         NEW f \in Followers, NEW s \in FollowerTypes, Sound(s, files[0], serial),
         follower' = [follower EXCEPT ![f] = s]
  PROVE  FollowInv'
<1>1. follower' \in [Followers -> FollowerTypes]
  BY DEF FollowInv
<1>2. \A g \in Followers: follower'[g] = IF g = f THEN s ELSE follower[g]
  BY DEF FollowInv
<1> QED BY <1>1, <1>2 DEF FollowInv

LEMMA FollowerTyped ==
  ASSUME FollowInv, NEW f \in Followers
  PROVE  /\ follower[f] \in FollowerTypes /\ Sound(follower[f], files[0], serial)
         /\ follower[f].pending \in Seq(Lines) /\ follower[f].sent \in Seq(Nat)
         /\ follower[f].offset \in Nat
<1>1. follower[f] \in FollowerTypes /\ Sound(follower[f], files[0], serial)
  BY DEF FollowInv
<1> QED BY <1>1 DEF FollowerTypes

LEMMA NothingTyped == <<>> \in Seq(Lines) /\ <<>> \in Seq(Nat)
OBVIOUS

\* A follower's record after it is let go.
LEMMA DroppedTyped ==
  ASSUME NEW r \in FollowerTypes, NEW s, s = [r EXCEPT !.at = "off", !.pending = <<>>]
  PROVE  s \in FollowerTypes /\ s.offset = r.offset /\ s.pending = <<>> /\ s.sent = r.sent
BY NothingTyped DEF FollowerTypes

LEMMA FollowKeeps ==
  ASSUME HandInv, DiskInv, FollowInv, files'[0] = files[0], serial' = serial,
         NEW f \in Followers, Follow(f)
  PROVE  FollowInv'
<1> PICK t \in Tunnels \cup {""}:
      follower' = [follower EXCEPT ![f] =
        [at |-> "on", tunnel |-> t, offset |-> SizeOf(files[0]),
         pending |-> LogTail(files[0]), sent |-> <<>>]]
  BY DEF Follow
<1> DEFINE s == [at |-> "on", tunnel |-> t, offset |-> SizeOf(files[0]),
                 pending |-> LogTail(files[0]), sent |-> <<>>]
<1>1. follower' = [follower EXCEPT ![f] = s]
  OBVIOUS
<1>2. s.offset = SizeOf(files[0]) /\ s.pending = LogTail(files[0]) /\ s.sent = <<>>
  OBVIOUS
<1>3. InLine(files[0], serial)
  BY LiveInLine
<1>4. LogTail(files[0]) \in Seq(Lines) /\ SizeOf(files[0]) \in Nat
  BY <1>2, <1>3, SoundFollow DEF InLine
<1>5. s \in FollowerTypes
  BY <1>4, NothingTyped DEF FollowerTypes
<1> HIDE DEF s
<1>6. Sound(s, files[0], serial)
  BY <1>2, <1>3, SoundFollow
<1> QED BY <1>1, <1>5, <1>6, FollowerSteps

LEMMA SendLineKeeps ==
  ASSUME HandInv, DiskInv, FollowInv, files'[0] = files[0], serial' = serial,
         NEW f \in Followers, SendLine(f)
  PROVE  FollowInv'
<1> DEFINE r == follower[f]
           p == Tail(r.pending)
           q == IF ForTunnel(Head(r.pending), r.tunnel)
                  THEN Append(r.sent, Head(r.pending).n) ELSE r.sent
           s == [r EXCEPT !.pending = p, !.sent = q]
<1>1. follower' = [follower EXCEPT ![f] = s] /\ r.pending # <<>>
  BY DEF SendLine
<1>2. r \in FollowerTypes /\ r.pending \in Seq(Lines) /\ r.sent \in Seq(Nat) /\ Sound(r, files[0], serial)
  BY FollowerTyped
<1> HIDE DEF r
<1>3. p \in Seq(Lines) /\ Head(r.pending) \in Lines
  BY <1>1, <1>2
<1>4. Head(r.pending).n \in Nat
  BY <1>3 DEF Lines
<1>5. q = r.sent \/ q = Append(r.sent, Head(r.pending).n)
  OBVIOUS
<1> HIDE DEF q
<1>6. q \in Seq(Nat)
  <2>1. Append(r.sent, Head(r.pending).n) \in Seq(Nat)
    BY <1>2, <1>4, AppendProperties
  <2> QED BY <1>2, <1>5, <2>1
<1> HIDE DEF p
<1>s. s = [r EXCEPT !.pending = p, !.sent = q]
  OBVIOUS
<1> HIDE DEF s
<1>7. s \in FollowerTypes /\ s.offset = r.offset /\ s.pending = p /\ s.sent = q
  BY <1>2, <1>3, <1>6, <1>s DEF FollowerTypes
<1>8. files[0] \in Seq(Lines)
  BY LiveInLine DEF InLine
<1>9. Sound(s, files[0], serial)
  <2>1. s.pending = Tail(r.pending) /\ (s.sent = r.sent \/ s.sent = Append(r.sent, Head(r.pending).n))
    BY <1>5, <1>7 DEF p
  <2> QED BY <1>1, <1>2, <1>7, <1>8, <2>1, SoundSend
<1> QED BY <1>1, <1>7, <1>9, FollowerSteps

LEMMA PollLogKeeps ==
  ASSUME HandInv, DiskInv, FollowInv, files'[0] = files[0], serial' = serial,
         NEW f \in Followers, PollLog(f)
  PROVE  FollowInv'
<1> DEFINE r == follower[f]
           start == DeltaStart(SizeOf(files[0]), r.offset)
<1>1. r.pending = <<>>
  BY DEF PollLog
<1>2. r \in FollowerTypes /\ r.pending \in Seq(Lines) /\ r.sent \in Seq(Nat) /\ Sound(r, files[0], serial)
  BY FollowerTyped
<1>3. InLine(files[0], serial) /\ SizeOf(files[0]) \in Nat
  BY LiveInLine DEF InLine
<1>4. CASE follower' = [follower EXCEPT ![f] =
             [r EXCEPT !.offset = SizeOf(files[0]), !.pending = Beyond(files[0], start)]]
  <2> DEFINE s == [r EXCEPT !.offset = SizeOf(files[0]), !.pending = Beyond(files[0], start)]
  <2>1. follower' = [follower EXCEPT ![f] = s]
    BY <1>4
  <2>2. /\ s.offset = SizeOf(files[0]) /\ s.pending = Beyond(files[0], start)
        /\ s.sent = r.sent
    BY <1>2 DEF FollowerTypes
  <2>3. Beyond(files[0], start) \in Seq(Lines)
    BY <1>1, <1>2, <1>3, <2>2, SoundPoll
  <2>4. s \in FollowerTypes
    BY <1>2, <1>3, <2>3 DEF FollowerTypes
  <2> HIDE DEF s
  <2>5. Sound(s, files[0], serial)
    BY <1>1, <1>2, <1>3, <2>2, SoundPoll
  <2> QED BY <2>1, <2>4, <2>5, FollowerSteps
<1>5. CASE 0 \notin present /\ follower' = [follower EXCEPT ![f] = [r EXCEPT !.offset = 0]]
  <2> DEFINE s == [r EXCEPT !.offset = 0]
  <2>1. follower' = [follower EXCEPT ![f] = s]
    BY <1>5
  <2>2. s.pending = <<>> /\ s.sent = r.sent
    BY <1>1, <1>2 DEF FollowerTypes
  <2>3. s \in FollowerTypes
    BY <1>2 DEF FollowerTypes
  <2> HIDE DEF s
  <2>4. files[0] = <<>>
    BY <1>5, Slots DEF DiskInv
  <2>5. Sound(s, files[0], serial)
    BY <1>2, <2>2, <2>4, SoundDropped
  <2> QED BY <2>1, <2>3, <2>5, FollowerSteps
<1> QED BY <1>4, <1>5 DEF PollLog

LEMMA UnfollowKeeps ==
  ASSUME FollowInv, files'[0] = files[0], serial' = serial, NEW f \in Followers, Unfollow(f)
  PROVE  FollowInv'
<1> DEFINE s == [follower[f] EXCEPT !.at = "off", !.pending = <<>>]
<1>1. follower' = [follower EXCEPT ![f] = s]
  BY DEF Unfollow, FollowInv
<1>2. s \in FollowerTypes /\ s.offset = follower[f].offset /\ s.pending = <<>>
      /\ s.sent = follower[f].sent
  BY FollowerTyped, DroppedTyped
<1> HIDE DEF s
<1>3. Sound(s, files[0], serial)
  BY <1>2, FollowerTyped, SoundDropped
<1> QED BY <1>1, <1>2, <1>3, FollowerSteps

LEMMA KillDropsFollowers ==
  ASSUME FollowInv, KillDaemon
  PROVE  FollowInv'
<1>1. /\ follower' = [f \in Followers |-> [follower[f] EXCEPT !.at = "off", !.pending = <<>>]]
      /\ files' = files /\ serial' = serial
  BY DEF KillDaemon
<1>2. ASSUME NEW f \in Followers
      PROVE  follower'[f] \in FollowerTypes /\ Sound(follower'[f], files[0], serial)
  <2> DEFINE s == [follower[f] EXCEPT !.at = "off", !.pending = <<>>]
  <2>1. follower'[f] = s
    BY <1>1
  <2>2. s \in FollowerTypes /\ s.offset = follower[f].offset /\ s.pending = <<>>
        /\ s.sent = follower[f].sent
    BY FollowerTyped, DroppedTyped
  <2> HIDE DEF s
  <2> QED BY <2>1, <2>2, FollowerTyped, SoundDropped
<1>3. follower' \in [Followers -> FollowerTypes]
  BY <1>1, <1>2
<1> QED BY <1>1, <1>2, <1>3 DEF FollowInv

LEMMA FollowKept ==
  ASSUME HandInv, DiskInv, SinkInv, FollowInv, LogNext
  PROVE  FollowInv'
<1>1. CASE files'[0] = files[0] /\ serial' = serial
  <2>1. ASSUME follower' = follower PROVE FollowInv'
    BY <1>1, <2>1 DEF FollowInv
  <2>2. CASE \E t \in Tunnels: SpawnProvider(t) \/ ProviderExits(t) \/ StartupLate(t)
                       \/ AwaitStartup(t) \/ DropStartup(t)
    BY <2>1, <2>2 DEF SpawnProvider, ProviderExits, StartupLate, AwaitStartup, DropStartup
  <2>3. CASE \E q \in Pipes: ReadLine(q) \/ StopReading(q) \/ LockLog(q)
    BY <2>1, <2>3 DEF ReadLine, StopReading, LockLog, startVars
  <2>4. CASE OpenLog \/ Discard \/ Shift \/ SealLive \/ Reopen \/ AppendLine
    BY <2>1, <2>4 DEF OpenLog, Discard, Shift, SealLive, Reopen, AppendLine, Writing, startVars
  <2> QED BY <1>1, <2>2, <2>3, <2>4, KillDropsFollowers, FollowKeeps, SendLineKeeps,
             PollLogKeeps, UnfollowKeeps DEF LogNext
<1>2. CASE files'[0] = <<>> /\ serial' = serial /\ follower' = follower
  <2>1. \A f \in Followers: Sound(follower[f], <<>>, serial)
    BY FollowerTyped, SoundEmptied
  <2> QED BY <1>2, <2>1 DEF FollowInv
<1>3. CASE Appends /\ follower' = follower
  <2> DEFINE line == LineOf(holder.pipe)
  <2>1. line \in Lines /\ line.n = serial + 1 /\ line.end > SizeOf(files[0])
    BY <1>3, AppendedLine DEF Appends
  <2>2. files'[0] = Append(files[0], line) /\ serial' = serial + 1
    BY <1>3, Slots DEF Appends, DiskInv
  <2> HIDE DEF line
  <2>3. ASSUME NEW f \in Followers
        PROVE  Sound(follower[f], Append(files[0], line), serial + 1)
    BY <2>1, FollowerTyped, LiveInLine, SoundAppended
  <2> QED BY <1>3, <2>2, <2>3 DEF FollowInv
<1> QED BY <1>1, <1>2, <1>3, LiveStep

-----------------------------------------------------------------------------
(* The inductive invariant *)

LEMMA LogInvInit ==
  ASSUME LogInit
  PROVE  LogInv
<1>1. StartupInv
  <2>1. NotStarted \in Startups /\ NotStarted.at = "off"
    BY DEF NotStarted, Startups, Requests, Providers
  <2> HIDE DEF NotStarted
  <2> QED BY <2>1 DEF LogInit, StartupInv
<1>2. HandInv
  <2>1. Hands = {}
    BY DEF LogInit, Hands
  <2>2. IsFiniteSet(Hands) /\ Cardinality(Hands) = 0
    BY <2>1, FS_EmptySet
  <2>3. inHand \in [Pipes -> InHands] /\ serial = 0 /\ emitted = 0 /\ failures = 0
    BY DEF LogInit, InHands
  <2> QED BY <2>2, <2>3, LogConstantsAssumption DEF HandInv
<1>3. /\ files = [i \in 0..MaxFiles |-> <<>>] /\ present = {} /\ serial = 0
      /\ files[0] = <<>> /\ gapped = FALSE
  BY Slots DEF LogInit
<1>4. DiskInv
  <2>1. OnDisk = {}
    BY <1>3 DEF OnDisk
  <2>2. InOrder /\ NoOtherGap
    BY <1>3, <2>1 DEF InOrder, NoGap, NoOtherGap
  <2>3. files \in [0..MaxFiles -> Seq(Lines)]
    BY <1>3
  <2>4. gapped \in BOOLEAN /\ \A n \in OnDisk: n \in 1..serial
    BY <1>3, <2>1
  <2>5. \A i \in 0..MaxFiles: files[i] = <<>>
    BY <1>3
  <2> QED BY <1>3, <2>2, <2>3, <2>4, <2>5 DEF DiskInv
<1>5. SinkInv
  <2>1. /\ sink = [open |-> FALSE, written |-> 0, overdue |-> FALSE] /\ holder = IdleHolder
    BY DEF LogInit, IdleHolder
  <2>2. WithinCap
    BY <1>3 DEF WithinCap
  <2> QED BY <2>1, <2>2, IdleTyped DEF SinkInv, Holders
<1>6. FollowInv
  <2>1. /\ NoFollower \in FollowerTypes /\ NoFollower.sent = <<>> /\ NoFollower.pending = <<>>
    BY DEF NoFollower, FollowerTypes
  <2> HIDE DEF NoFollower
  <2>2. Sound(NoFollower, <<>>, 0)
    BY <2>1 DEF Sound
  <2>3. \A f \in Followers: follower[f] = NoFollower
    BY DEF LogInit
  <2>4. follower \in [Followers -> FollowerTypes]
    BY <2>1 DEF LogInit
  <2> QED BY <1>3, <2>2, <2>3, <2>4 DEF FollowInv
<1> QED BY <1>1, <1>2, <1>4, <1>5, <1>6 DEF LogInv

LEMMA LogInvKept ==
  ASSUME LogInv, [LogNext]_logVars
  PROVE  LogInv'
<1>1. CASE LogNext
  BY <1>1, StartupKept, HandKept, DiskKept, SinkKept, FollowKept DEF LogInv
<1>2. CASE UNCHANGED logVars
  <2>1. UNCHANGED <<files, present, sink, holder, inHand, pipe, startup, provider, follower,
                    serial, gapped, emitted, failures>>
    BY <1>2 DEF logVars
  <2>2. StartupInv'
    BY <2>1 DEF LogInv, StartupInv
  <2>3. HandInv'
    BY <2>1 DEF LogInv, HandInv, Hands
  <2>4. DiskInv'
    BY <2>1, DiskUnchanged DEF LogInv
  <2>5. SinkInv'
    BY <2>1, SinkStays DEF LogInv
  <2>6. FollowInv'
    BY <2>1 DEF LogInv, FollowInv
  <2> QED BY <2>2, <2>3, <2>4, <2>5, <2>6 DEF LogInv
<1> QED BY <1>1, <1>2

\* The invariant holds in every state of the log.
THEOREM LogInvariant == LogSpec => []LogInv
<1>1. LogInit => LogInv
  BY LogInvInit
<1>2. LogInv /\ [LogNext]_logVars => LogInv'
  BY LogInvKept
<1> QED BY <1>1, <1>2, PTL DEF LogSpec

\* Types of the log's state, and what a start leaves behind: one that failed
\* no provider (terminate_child, kill_on_drop), one that needs a public URL
\* (wait_for_provider_startup) a URL that its own provider printed.
THEOREM LogTypeCorrect == LogSpec => []LogTypeOK
<1>1. LogInv => LogTypeOK
  <2> SUFFICES ASSUME LogInv PROVE LogTypeOK
    OBVIOUS
  <2>0. StartupInv /\ HandInv /\ DiskInv /\ SinkInv /\ FollowInv
    BY DEF LogInv
  <2>1. /\ present \subseteq 0..MaxFiles /\ DOMAIN files = 0..MaxFiles
        /\ \A i \in 0..MaxFiles: files[i] # <<>> => i \in present
    BY <2>0 DEF DiskInv
  <2>2. /\ sink.open \in BOOLEAN /\ sink.written \in Nat
        /\ holder.pipe \in Pipes \cup {Nobody} /\ holder.index \in 0..MaxFiles
    BY <2>0 DEF SinkInv
  <2>3. ASSUME NEW q \in Pipes PROVE pipe[q] \in {"off", "open", "closed"} /\ Len(inHand[q]) <= 1
    <3>1. pipe[q] \in {"off", "open", "closed"}
      BY <2>0 DEF StartupInv
    <3>2. inHand[q] = <<>> \/ \E r \in [text: Text, size: Sizes]: inHand[q] = <<r>>
      BY <2>0 DEF HandInv, InHands
    <3>3. Len(inHand[q]) <= 1
      <4>1. CASE inHand[q] = <<>>
        BY <4>1
      <4>2. ASSUME NEW r, inHand[q] = <<r>> PROVE Len(inHand[q]) <= 1
        <5>1. Len(<<r>>) = 1
          OBVIOUS
        <5>2. Len(<<r>>) <= 1
          BY <5>1
        <5> QED BY <4>2, <5>2
      <4> QED BY <3>2, <4>1, <4>2
    <3> QED BY <3>1, <3>3
  <2>4. ASSUME NEW t \in Tunnels
        PROVE  /\ startup[t].at \in {"off", "waiting", "up", "failed"}
               /\ provider[t] \in {"none", "alive", "dead"}
               /\ startup[t].at = "failed" => provider[t] = "dead"
               /\ startup[t].at = "up" /\ RequiresUrl(startup[t].request) => startup[t].url
    BY <2>0 DEF StartupInv, Startups
  <2>5. ASSUME NEW f \in Followers
        PROVE  follower[f].at \in {"off", "on"} /\ follower[f].offset \in Nat
    BY <2>0 DEF FollowInv, FollowerTypes
  <2>6. serial <= MaxLines /\ emitted <= MaxLines /\ failures <= MaxFaults
    <3>1. Cardinality(Hands) \in Nat
      BY <2>0, FS_CardinalityType DEF HandInv
    <3>2. /\ serial \in Nat /\ emitted \in Nat /\ serial + Cardinality(Hands) <= emitted
          /\ emitted <= MaxLines /\ failures <= MaxFaults
      BY <2>0 DEF HandInv
    <3> QED BY <3>1, <3>2, LogConstantsAssumption
  <2> QED BY <2>1, <2>2, <2>3, <2>4, <2>5, <2>6 DEF LogTypeOK
<1> QED BY <1>1, LogInvariant, PTL

\* Through rotations that fail half way, failed writes and killed daemons, the
\* log and its backups are the newest lines without a gap, each once and in
\* order, and the live log is within its cap (ProviderLogSink::write_line,
\* rotate_provider_log), but for the two faults that NewestKept names.
THEOREM NewestLinesKept == LogSpec => []NewestKept
<1>1. LogInv => NewestKept
  BY DEF LogInv, DiskInv, SinkInv, NewestKept
<1> QED BY <1>1, LogInvariant, PTL

\* A follower never gets a line twice or out of order, however the file it
\* reads is rotated under it (stream_tunnel_logs, read_log_delta).
THEOREM FollowersInOrder == LogSpec => []FollowerInOrder
<1>1. LogInv => FollowerInOrder
  BY DEF LogInv, FollowInv, Sound, FollowerInOrder
<1> QED BY <1>1, LogInvariant, PTL
=============================================================================
