---------------------------- MODULE ControlProofs ----------------------------
(***************************************************************************)
(* Proofs about the control plane, for any callers and clients. The unlock *)
(* window: the end of the window in the lock is that of the unlock in      *)
(* force, and a relock forgets both at once. The streams: a client has     *)
(* seen nothing newer than what is on its way to it, in the order in which *)
(* it was built, and a dashboard that is half built is of this state       *)
(* unless the state has changed. The commands of several requests: what    *)
(* the daemon is after each of them, seen from what it was at the first.   *)
(***************************************************************************)
EXTENDS UnlockWindow, ControlStreams, RouteClients, SequenceTheorems, TLAPS

(* The unlock window *)

Places == {"idle", "unlock", "relock", "unlocking", "relocking", "status", "reading"}

LEMMA InitTyped == UnlockInit => UnlockTypeOK
<1> SUFFICES ASSUME UnlockInit PROVE UnlockTypeOK
  OBVIOUS
<1>1. cfg \in Configs /\ clock \in Nat \ {0} /\ codes \in Nat \ {0}
  BY DEF UnlockInit
<1>2. lock \in [code: Int, until: Nat]
  BY DEF UnlockInit, InitialCode, FixedCode, NoCode
<1>3. handler \in [Callers -> [at: Places, code: Int]]
  BY DEF UnlockInit, Resting, NoCode, Places
<1>4. opened \in [code: Int, at: Nat]
  BY DEF UnlockInit, Shut, NoCode
<1>5. request \in [peer: Peers, bearer: Bearers, allowed: BOOLEAN, free: BOOLEAN,
                   now: Nat, opened: [code: Int, at: Nat]]
  BY DEF UnlockInit, Unasked, Shut, NoCode, Peers, Bearers
<1>6. QED BY <1>1, <1>2, <1>3, <1>4, <1>5 DEF UnlockTypeOK, Places

LEMMA GoesTyped ==
  ASSUME UnlockTypeOK, NEW c \in Callers, NEW to \in Places, Goes(c, to)
  PROVE  handler' \in [Callers -> [at: Places, code: Int]]
BY DEF UnlockTypeOK, Goes, Places

LEMMA RequestTyped ==
  ASSUME UnlockTypeOK, NEW peer \in Peers, NEW bearer \in Bearers, Request(peer, bearer)
  PROVE  UnlockTypeOK'
<1>1. RequestAllowed(peer, bearer) \in BOOLEAN /\ CanTryRead \in BOOLEAN
  BY DEF RequestAllowed, CanTryRead, Authorized, Unlocked
<1>2. clock \in Nat /\ opened \in [code: Int, at: Nat]
  BY DEF UnlockTypeOK
<1>3. request' \in [peer: Peers, bearer: Bearers, allowed: BOOLEAN, free: BOOLEAN,
                    now: Nat, opened: [code: Int, at: Nat]]
  BY <1>1, <1>2 DEF Request
<1>4. QED BY <1>3 DEF Request, UnlockTypeOK

LEMMA StepTyped == UnlockTypeOK /\ [UnlockNext]_unlockVars => UnlockTypeOK'
<1> SUFFICES ASSUME UnlockTypeOK, [UnlockNext]_unlockVars PROVE UnlockTypeOK'
  OBVIOUS
<1>1. ASSUME cfg' = cfg, clock' = clock, request' = request,
             handler' \in [Callers -> [at: Places, code: Int]],
             lock' \in [code: Int, until: Nat], codes' \in Nat \ {0}, opened' \in [code: Int, at: Nat]
      PROVE  UnlockTypeOK'
  BY <1>1 DEF UnlockTypeOK, Places
<1>2. /\ lock \in [code: Int, until: Nat] /\ codes \in Nat \ {0} /\ clock \in Nat \ {0}
      /\ opened \in [code: Int, at: Nat] /\ handler \in [Callers -> [at: Places, code: Int]]
  BY DEF UnlockTypeOK, Places
<1>3. Shut \in [code: Int, at: Nat] /\ Resting \in [at: Places, code: Int]
  BY DEF Shut, NoCode, Resting, Places
<1>4. ASSUME NEW c \in Callers, CallAuth(c) PROVE UnlockTypeOK'
  <2>1. PICK op \in {"unlock", "relock", "status"}, code \in {FixedCode} \cup 1..codes :
          handler' = [handler EXCEPT ![c] = [at |-> op, code |-> code]]
    BY <1>4 DEF CallAuth
  <2>2. [at |-> op, code |-> code] \in [at: Places, code: Int]
    BY <1>2 DEF Places, FixedCode
  <2>3. handler' \in [Callers -> [at: Places, code: Int]]
    BY <1>2, <2>1, <2>2
  <2>4. QED BY <1>1, <1>2, <1>4, <2>3 DEF CallAuth, quiet
<1>5. ASSUME NEW c \in Callers, TakeWrite(c) PROVE UnlockTypeOK'
  <2>1. handler' \in [Callers -> [at: Places, code: Int]]
    BY <1>5, GoesTyped DEF TakeWrite, Places
  <2>2. QED BY <1>1, <1>2, <1>5, <2>1 DEF TakeWrite, quiet
<1>6. ASSUME NEW c \in Callers, Unlock(c) PROVE UnlockTypeOK'
  <2>1. handler' \in [Callers -> [at: Places, code: Int]]
    BY <1>6, GoesTyped DEF Unlock, Places
  <2>2. lock' \in [code: Int, until: Nat] /\ opened' \in [code: Int, at: Nat]
    BY <1>2, <1>6, UnlockConstantsAssumption DEF Unlock
  <2>3. QED BY <1>1, <1>2, <1>6, <2>1, <2>2 DEF Unlock, quiet
<1>7. ASSUME NEW c \in Callers, Relock(c) PROVE UnlockTypeOK'
  <2>1. handler' \in [Callers -> [at: Places, code: Int]]
    BY <1>7, GoesTyped DEF Relock, Places
  <2>2. lock' \in [code: Int, until: Nat] /\ codes' \in Nat \ {0}
    BY <1>2, <1>7 DEF Relock
  <2>3. QED BY <1>1, <1>3, <1>7, <2>1, <2>2 DEF Relock, quiet
<1>8. ASSUME NEW c \in Callers, TakeRead(c) PROVE UnlockTypeOK'
  <2>1. handler' \in [Callers -> [at: Places, code: Int]]
    BY <1>8, GoesTyped DEF TakeRead, Places
  <2>2. QED BY <1>1, <1>2, <1>8, <2>1 DEF TakeRead, quiet
<1>9. ASSUME NEW c \in Callers, AnswerStatus(c) PROVE UnlockTypeOK'
  <2>1. handler' \in [Callers -> [at: Places, code: Int]]
    BY <1>2, <1>3, <1>9 DEF AnswerStatus
  <2>2. QED BY <1>1, <1>2, <1>9, <2>1 DEF AnswerStatus, quiet
<1>10. CASE Tick
  BY <1>2, <1>10 DEF Tick, UnlockTypeOK
<1>11. CASE UNCHANGED unlockVars
  BY <1>11 DEF unlockVars, UnlockTypeOK
<1>12. QED
  BY <1>4, <1>5, <1>6, <1>7, <1>8, <1>9, <1>10, <1>11, RequestTyped DEF UnlockNext

\* Every variable of the authorization keeps its type.
THEOREM TypeCorrect == UnlockSpec => []UnlockTypeOK
BY InitTyped, StepTyped, PTL DEF UnlockSpec

-----------------------------------------------------------------------------
(* The window *)

SameWindow ==
  /\ opened = Shut => lock.until = 0
  /\ opened # Shut => /\ opened.code = lock.code /\ opened.at # 0
                      /\ lock.until = opened.at + Window

\* What the last protected request was told.
Told ==
  LET r == request IN
  cfg.mode # "off" /\ cfg.token /\ r.bearer # "right" =>
    /\ r.allowed => r.peer = "loopback" /\ InWindow(r.opened, r.now)
    /\ r.peer = "loopback" /\ InWindow(r.opened, r.now) /\ r.free => r.allowed

\* The lock is open exactly in the window of the unlock in force.
LEMMA WindowIsLock ==
  ASSUME UnlockTypeOK, SameWindow
  PROVE  Unlocked <=> InWindow(opened, clock)
<1>1. clock \in Nat /\ lock.until \in Nat /\ opened.at \in Nat /\ Window \in Nat \ {0}
  BY UnlockConstantsAssumption DEF UnlockTypeOK
<1>2. QED BY <1>1 DEF SameWindow, Unlocked, InWindow

LEMMA StepSameWindow == UnlockTypeOK /\ SameWindow /\ [UnlockNext]_unlockVars => SameWindow'
<1> SUFFICES ASSUME UnlockTypeOK, SameWindow, [UnlockNext]_unlockVars PROVE SameWindow'
  OBVIOUS
<1>1. ASSUME lock' = lock, opened' = opened PROVE SameWindow'
  BY <1>1 DEF SameWindow
<1>2. ASSUME NEW c \in Callers, Unlock(c) PROVE SameWindow'
  <2>1. CASE handler[c].code = lock.code
    <3>1. lock' = [lock EXCEPT !.until = clock + Window] /\ opened' = [code |-> lock.code, at |-> clock]
      BY <1>2, <2>1 DEF Unlock
    <3>2. lock'.code = lock.code /\ lock'.until = clock + Window /\ clock # 0
      BY <3>1 DEF UnlockTypeOK
    <3>3. opened'.at # Shut.at
      BY <3>1, <3>2 DEF Shut
    <3>4. QED BY <3>1, <3>2, <3>3 DEF SameWindow
  <2>2. CASE handler[c].code # lock.code
    BY <1>1, <1>2, <2>2 DEF Unlock
  <2>3. QED BY <2>1, <2>2
<1>3. ASSUME NEW c \in Callers, Relock(c) PROVE SameWindow'
  <2>1. lock'.until = 0 /\ opened' = Shut
    BY <1>3 DEF Relock, UnlockTypeOK
  <2>2. QED BY <2>1 DEF SameWindow
<1>4. ASSUME NEW c \in Callers, CallAuth(c) \/ TakeWrite(c) \/ TakeRead(c) \/ AnswerStatus(c)
      PROVE  SameWindow'
  BY <1>1, <1>4 DEF CallAuth, TakeWrite, TakeRead, AnswerStatus
<1>5. ASSUME NEW peer \in Peers, NEW bearer \in Bearers, Request(peer, bearer) PROVE SameWindow'
  BY <1>1, <1>5 DEF Request
<1>6. CASE Tick
  BY <1>1, <1>6 DEF Tick
<1>7. CASE UNCHANGED unlockVars
  BY <1>1, <1>7 DEF unlockVars
<1>8. QED BY <1>2, <1>3, <1>4, <1>5, <1>6, <1>7 DEF UnlockNext

LEMMA StepTold == UnlockTypeOK /\ SameWindow /\ Told /\ [UnlockNext]_unlockVars => Told'
<1> SUFFICES ASSUME UnlockTypeOK, SameWindow, Told, [UnlockNext]_unlockVars PROVE Told'
  OBVIOUS
<1>1. ASSUME cfg' = cfg, request' = request PROVE Told'
  BY <1>1 DEF Told
<1>2. ASSUME NEW peer \in Peers, NEW bearer \in Bearers, Request(peer, bearer) PROVE Told'
  <2>1. SUFFICES ASSUME cfg.mode # "off", cfg.token, bearer # "right"
                 PROVE  /\ RequestAllowed(peer, bearer) => peer = "loopback" /\ InWindow(opened, clock)
                        /\ peer = "loopback" /\ InWindow(opened, clock) /\ CanTryRead
                             => RequestAllowed(peer, bearer)
    <3>1. /\ request'.peer = peer /\ request'.bearer = bearer /\ request'.now = clock
          /\ request'.opened = opened /\ cfg' = cfg
          /\ request'.allowed <=> RequestAllowed(peer, bearer)
          /\ request'.free <=> CanTryRead
      BY <1>2 DEF Request
    <3>2. QED BY <2>1, <3>1 DEF Told
  <2>2. ~Authorized(bearer)
    BY <2>1 DEF Authorized
  <2>3. QED BY <2>2, WindowIsLock DEF RequestAllowed
<1>3. ASSUME NEW c \in Callers,
             CallAuth(c) \/ TakeWrite(c) \/ Unlock(c) \/ Relock(c) \/ TakeRead(c) \/ AnswerStatus(c)
      PROVE  Told'
  BY <1>1, <1>3 DEF CallAuth, TakeWrite, Unlock, Relock, TakeRead, AnswerStatus, quiet
<1>4. CASE Tick
  BY <1>1, <1>4 DEF Tick
<1>5. CASE UNCHANGED unlockVars
  BY <1>1, <1>5 DEF unlockVars
<1>6. QED BY <1>2, <1>3, <1>4, <1>5 DEF UnlockNext

LEMMA InitWindow == UnlockInit => SameWindow /\ Told
<1> SUFFICES ASSUME UnlockInit PROVE SameWindow /\ Told
  OBVIOUS
<1>1. opened = Shut /\ lock.until = 0 /\ request.bearer = "right"
  BY DEF UnlockInit, Unasked
<1>2. QED BY <1>1 DEF SameWindow, Told

\* Where a token is needed, a request without it is served exactly to loopback
\* and within the window of the unlock in force, whatever the auth handlers and
\* the clock do in between.
THEOREM WindowAlwaysHonoured == UnlockSpec => []WindowHonoured
<1>1. UnlockTypeOK /\ SameWindow /\ Told => WindowHonoured
  BY DEF SameWindow, Told, WindowHonoured
<1>2. QED BY <1>1, InitTyped, StepTyped, InitWindow, StepSameWindow, StepTold, PTL DEF UnlockSpec

-----------------------------------------------------------------------------
(* Streams *)

StreamPlaces == {"off", "turn", "metrics", "send", "asleep", "ended"}
Worlds == [status : [Tunnels -> {Absent, "running", "stopped"}], routes : SUBSET RouteSet,
           current : Tunnels \cup {None}, running : SUBSET Tunnels, pending : SUBSET Tunnels]
Fields == {"kind", "tunnel", "at", "part", "calm", "event", "sound", "queue", "got",
           "client", "delay", "backoff"}

\* A stream of which the newest state that it may know of is the v-th: what it
\* still has to deliver is in order, between what its client has seen and what
\* it holds itself.
InOrder(r, v) ==
  /\ r.queue \in Seq(Nat) /\ Len(r.queue) <= Capacity
  /\ r.got \in Nat /\ r.event \in Nat /\ r.got <= v
  /\ \A i \in DOMAIN r.queue : r.got <= r.queue[i] /\ r.queue[i] <= v
  /\ \A i, j \in DOMAIN r.queue : i < j => r.queue[i] <= r.queue[j]
  /\ r.at = "send" => /\ r.event <= v /\ r.got <= r.event
                      /\ \A i \in DOMAIN r.queue : r.queue[i] <= r.event
  /\ r.at = "off" => r.queue = <<>>

StreamTyped(r) ==
  /\ DOMAIN r = Fields /\ r.at \in StreamPlaces /\ r.client \in {"there", "waiting", "gone"}
  /\ r.delay \in InitialDelay .. MaxDelay

\* A dashboard half built shows the tunnel as it is, if nothing has changed
\* since, and no dashboard that was sent disagrees with itself.
HalfBuilt(r) == r.at = "metrics" /\ r.calm => r.part = {DashboardPart(r.tunnel)}

Streaming ==
  /\ world \in Worlds /\ version \in 1 .. (MaxChanges + 1)
  /\ server \in {"serving", "shutting", "draining", "down"}
  /\ DOMAIN stream = Clients
  /\ \A c \in Clients : /\ StreamTyped(stream[c]) /\ InOrder(stream[c], version)
                        /\ HalfBuilt(stream[c]) /\ stream[c].sound

-----------------------------------------------------------------------------

LEMMA StreamingInit == StreamInit => Streaming
<1> SUFFICES ASSUME StreamInit PROVE Streaming
  OBVIOUS
<1>1. PICK routes \in {{}, {r \in RouteSet : r.id < 3}} :
        world = [status |-> [t \in Tunnels |-> IF t = Primary THEN "stopped" ELSE Absent],
                 routes |-> routes, current |-> None, running |-> {}, pending |-> {}]
  BY DEF StreamInit
<1>2. routes \subseteq RouteSet
  OBVIOUS
<1>3. world \in Worlds
  BY <1>1, <1>2 DEF Worlds, Absent
<1>4. StreamTyped(NoStream)
  BY StreamConstantsAssumption DEF StreamTyped, NoStream, Fields, StreamPlaces
<1>5. InOrder(NoStream, 1)
  <2>1. /\ NoStream.queue = <<>> /\ NoStream.at = "off" /\ NoStream.event = 0 /\ NoStream.got = 0
    BY DEF NoStream
  <2>2. <<>> \in Seq(Nat) /\ Len(<<>>) = 0 /\ DOMAIN <<>> = {}
    BY EmptySeq
  <2>3. QED BY <2>1, <2>2, StreamConstantsAssumption DEF InOrder
<1>6. HalfBuilt(NoStream) /\ NoStream.sound
  BY DEF HalfBuilt, NoStream
<1>7. version = 1 /\ version \in 1 .. (MaxChanges + 1) /\ server = "serving"
      /\ stream = [c \in Clients |-> NoStream]
  BY StreamConstantsAssumption DEF StreamInit
<1>8. QED BY <1>3, <1>4, <1>5, <1>6, <1>7 DEF Streaming

\* One stream goes on, and the state that is shown stays.
LEMMA StreamGoes ==
  ASSUME Streaming, NEW c \in Clients, NEW r, stream' = [stream EXCEPT ![c] = r],
         world' = world, version' = version, server' = server,
         StreamTyped(r), InOrder(r, version), HalfBuilt(r), r.sound
  PROVE  Streaming'
<1>1. DOMAIN stream' = Clients /\ \A d \in Clients : stream'[d] = IF d = c THEN r ELSE stream[d]
  BY DEF Streaming
<1>2. ASSUME NEW d \in Clients
      PROVE  /\ StreamTyped(stream'[d]) /\ InOrder(stream'[d], version')
             /\ stream'[d].sound
  BY <1>1 DEF Streaming
<1>3. ASSUME NEW d \in Clients PROVE HalfBuilt(stream[d])'
  BY <1>1 DEF Streaming, HalfBuilt, DashboardPart, StatusView, Resolved, RoutesOf
<1>4. QED BY <1>1, <1>2, <1>3 DEF Streaming

-----------------------------------------------------------------------------
(* The steps of a stream and of its client *)

LEMMA OneStream ==
  ASSUME Streaming, NEW c \in Clients
  PROVE  /\ StreamTyped(stream[c]) /\ InOrder(stream[c], version)
         /\ HalfBuilt(stream[c]) /\ stream[c].sound
         /\ version \in Nat /\ version \in 1 .. (MaxChanges + 1)
BY StreamConstantsAssumption DEF Streaming

\* What is in the queue stays, and the rest is nowhere that matters.
LEMMA PlaceGoes ==
  ASSUME Streaming, NEW c \in Clients, NEW r, stream' = [stream EXCEPT ![c] = r],
         world' = world, version' = version, server' = server, DOMAIN r = Fields,
         r.at \in StreamPlaces \ {"off", "metrics", "send"}, r.client \in {"there", "waiting", "gone"},
         r.delay \in InitialDelay .. MaxDelay, r.queue = stream[c].queue \/ r.queue = <<>>,
         r.got = stream[c].got, r.event \in Nat, r.sound
  PROVE  Streaming'
<1>1. StreamTyped(r)
  BY DEF StreamTyped
<1>2. InOrder(stream[c], version)
  BY OneStream
<1>3. InOrder(r, version)
  <2>1. CASE r.queue = stream[c].queue
    BY <1>2, <2>1 DEF InOrder
  <2>2. CASE r.queue = <<>>
    <3>1. <<>> \in Seq(Nat) /\ Len(<<>>) = 0 /\ DOMAIN <<>> = {}
      BY EmptySeq
    <3>2. QED BY <1>2, <2>2, <3>1, StreamConstantsAssumption DEF InOrder
  <2>3. QED BY <2>1, <2>2
<1>4. HalfBuilt(r)
  BY DEF HalfBuilt
<1>5. QED BY <1>1, <1>3, <1>4, StreamGoes

LEMMA OpenStep ==
  ASSUME Streaming, NEW c \in Clients, Open(c)
  PROVE  Streaming'
<1>1. PICK kind \in Kinds, q \in Tunnels \cup {None} :
        stream' = [stream EXCEPT ![c] =
          [stream[c] EXCEPT !.kind = kind, !.at = "turn", !.client = "there", !.tunnel = q]]
  BY DEF Open, Set
<1> DEFINE r == [stream[c] EXCEPT !.kind = kind, !.at = "turn", !.client = "there", !.tunnel = q]
<1>2. stream' = [stream EXCEPT ![c] = r]
  BY <1>1
<1>3. DOMAIN stream[c] = Fields
  BY OneStream DEF StreamTyped
<1>4. /\ DOMAIN r = Fields /\ r.at = "turn" /\ r.client = "there"
      /\ r.delay = stream[c].delay /\ r.queue = stream[c].queue /\ r.got = stream[c].got
      /\ r.event = stream[c].event /\ r.sound = stream[c].sound
  BY <1>3 DEF Fields
<1> HIDE DEF r
<1>5. world' = world /\ version' = version /\ server' = server
  BY DEF Open
<1>6. QED
  BY <1>2, <1>4, <1>5, OneStream, PlaceGoes DEF StreamTyped, InOrder, StreamPlaces

LEMMA LastTurnStep ==
  ASSUME Streaming, NEW c \in Clients, LastTurn(c) \/ Wake(c)
  PROVE  Streaming'
<1>1. PICK at \in {"ended", "turn"} : stream' = [stream EXCEPT ![c] = [stream[c] EXCEPT !.at = at]]
  BY DEF LastTurn, Wake, Set
<1> DEFINE r == [stream[c] EXCEPT !.at = at]
<1>2. stream' = [stream EXCEPT ![c] = r]
  BY <1>1
<1>3. DOMAIN stream[c] = Fields
  BY OneStream DEF StreamTyped
<1>4. /\ DOMAIN r = Fields /\ r.at = at /\ r.client = stream[c].client
      /\ r.delay = stream[c].delay /\ r.queue = stream[c].queue /\ r.got = stream[c].got
      /\ r.event = stream[c].event /\ r.sound = stream[c].sound
  BY <1>3 DEF Fields
<1> HIDE DEF r
<1>5. world' = world /\ version' = version /\ server' = server
  BY DEF LastTurn, Wake
<1>6. QED
  BY <1>2, <1>4, <1>5, OneStream, PlaceGoes DEF StreamTyped, InOrder, StreamPlaces

LEMMA EmitStep ==
  ASSUME Streaming, NEW c \in Clients, NEW sound, sound, Emit(c, sound),
         world' = world, version' = version, server' = server
  PROVE  Streaming'
<1> DEFINE r == [stream[c] EXCEPT !.at = "send", !.event = version, !.part = {}, !.sound = sound]
<1>1. stream' = [stream EXCEPT ![c] = r]
  BY DEF Emit, Set
<1>2. DOMAIN stream[c] = Fields
  BY OneStream DEF StreamTyped
<1>3. /\ DOMAIN r = Fields /\ r.at = "send" /\ r.client = stream[c].client
      /\ r.delay = stream[c].delay /\ r.queue = stream[c].queue /\ r.got = stream[c].got
      /\ r.event = version /\ r.sound = sound
  BY <1>2 DEF Fields
<1> HIDE DEF r
<1>4. StreamTyped(r)
  BY <1>3, OneStream DEF StreamTyped, StreamPlaces
<1>5. InOrder(r, version)
  BY <1>3, OneStream DEF InOrder
<1>6. HalfBuilt(r)
  BY <1>3 DEF HalfBuilt
<1>7. r.sound
  BY <1>3
<1>8. QED BY <1>1, <1>4, <1>5, <1>6, <1>7, StreamGoes

LEMMA TurnStep ==
  ASSUME Streaming, NEW c \in Clients,
         StatusTurn(c) \/ RoutesTurn(c) \/ UpstreamsTurn(c) \/ MetricsTurn(c)
  PROVE  Streaming'
<1>1. Emit(c, TRUE) /\ world' = world /\ version' = version /\ server' = server
  BY DEF StatusTurn, RoutesTurn, UpstreamsTurn, MetricsTurn, TurnOf
<1>2. QED BY <1>1, EmitStep

LEMMA DashboardTurnStep ==
  ASSUME Streaming, NEW c \in Clients, DashboardTurn(c)
  PROVE  Streaming'
<1>1. world' = world /\ version' = version /\ server' = server
  BY DEF DashboardTurn, TurnOf
<1>2. CASE Emit(c, TRUE)
  BY <1>1, <1>2, EmitStep
<1>3. CASE stream' = [stream EXCEPT ![c] = [stream[c] EXCEPT !.at = "metrics", !.calm = TRUE,
                                              !.part = {DashboardPart(stream[c].tunnel)}]]
  <2> DEFINE r == [stream[c] EXCEPT !.at = "metrics", !.calm = TRUE,
                                    !.part = {DashboardPart(stream[c].tunnel)}]
  <2>1. DOMAIN stream[c] = Fields
    BY OneStream DEF StreamTyped
  <2>2. /\ DOMAIN r = Fields /\ r.at = "metrics" /\ r.client = stream[c].client
        /\ r.delay = stream[c].delay /\ r.queue = stream[c].queue /\ r.got = stream[c].got
        /\ r.event = stream[c].event /\ r.sound = stream[c].sound
        /\ r.tunnel = stream[c].tunnel /\ r.part = {DashboardPart(stream[c].tunnel)}
    BY <2>1 DEF Fields
  <2>3. stream' = [stream EXCEPT ![c] = r]
    BY <1>3
  <2> HIDE DEF r
  <2>4. StreamTyped(r)
    BY <2>2, OneStream DEF StreamTyped, StreamPlaces
  <2>5. InOrder(r, version)
    BY <2>2, OneStream DEF InOrder
  <2>6. HalfBuilt(r) /\ r.sound
    BY <2>2, OneStream DEF HalfBuilt
  <2>7. QED BY <1>1, <2>3, <2>4, <2>5, <2>6, StreamGoes
<1>4. QED BY <1>2, <1>3 DEF DashboardTurn, Set

LEMMA DashboardMetricsStep ==
  ASSUME Streaming, NEW c \in Clients, DashboardMetrics(c)
  PROVE  Streaming'
<1> DEFINE part == CHOOSE p \in stream[c].part : TRUE
           agrees == DashboardAgrees(part, MetricsView(stream[c].tunnel))
           sound == stream[c].calm => agrees
<1>1. /\ stream[c].at = "metrics" /\ Emit(c, sound)
      /\ world' = world /\ version' = version /\ server' = server
  BY DEF DashboardMetrics
<1>2. sound
  <2> SUFFICES ASSUME stream[c].calm PROVE agrees
    OBVIOUS
  <2>1. stream[c].part = {DashboardPart(stream[c].tunnel)}
    BY <1>1, OneStream DEF HalfBuilt
  <2>2. part = DashboardPart(stream[c].tunnel)
    BY <2>1
  <2> HIDE DEF part
  <2> DEFINE m == MetricsView(stream[c].tunnel)
             rs == RoutesOf(Resolved(stream[c].tunnel))
  <2>3. part.state = StatusView(Resolved(stream[c].tunnel)) /\ part.routes = rs
    BY <2>2 DEF DashboardPart
  <2>4. /\ m.state = StatusView(Resolved(stream[c].tunnel)) /\ m.routes = Cardinality(rs)
        /\ m.enabled = Cardinality(Enabled(rs)) /\ m.upstreams = Cardinality(Upstreams(rs))
    BY DEF MetricsView
  <2> HIDE DEF m, rs
  <2>5. DashboardAgrees(part, m)
    BY <2>3, <2>4 DEF DashboardAgrees
  <2>6. QED BY <2>5 DEF m
<1> HIDE DEF sound
<1>3. QED BY <1>1, <1>2, EmitStep

LEMMA SendStep ==
  ASSUME Streaming, NEW c \in Clients, Send(c)
  PROVE  Streaming'
<1>1. world' = world /\ version' = version /\ server' = server /\ stream[c].at = "send"
  BY DEF Send
<1>2. DOMAIN stream[c] = Fields /\ StreamTyped(stream[c]) /\ InOrder(stream[c], version)
  BY OneStream DEF StreamTyped
<1>3. CASE stream' = [stream EXCEPT ![c] = [stream[c] EXCEPT !.at = "ended", !.queue = <<>>]]
  <2> DEFINE r == [stream[c] EXCEPT !.at = "ended", !.queue = <<>>]
  <2>1. stream' = [stream EXCEPT ![c] = r]
    BY <1>3
  <2>2. /\ DOMAIN r = Fields /\ r.at = "ended" /\ r.client = stream[c].client
        /\ r.delay = stream[c].delay /\ r.queue = <<>> /\ r.got = stream[c].got
        /\ r.event = stream[c].event /\ r.sound = stream[c].sound
    BY <1>2 DEF Fields
  <2> HIDE DEF r
  <2>3. QED
    BY <1>1, <2>1, <2>2, OneStream, PlaceGoes DEF StreamTyped, InOrder, StreamPlaces
<1>4. CASE /\ Len(stream[c].queue) < Capacity
           /\ stream' = [stream EXCEPT ![c] = [stream[c] EXCEPT !.at = "asleep",
                           !.queue = Append(stream[c].queue, stream[c].event)]]
  <2> DEFINE queue == Append(stream[c].queue, stream[c].event)
             r == [stream[c] EXCEPT !.at = "asleep", !.queue = queue]
  <2>1. stream' = [stream EXCEPT ![c] = r]
    BY <1>4
  <2>2. /\ DOMAIN r = Fields /\ r.at = "asleep" /\ r.client = stream[c].client
        /\ r.delay = stream[c].delay /\ r.queue = queue /\ r.got = stream[c].got
        /\ r.event = stream[c].event /\ r.sound = stream[c].sound
    BY <1>2 DEF Fields
  <2> HIDE DEF r
  <2> DEFINE n == Len(stream[c].queue)
  <2>3. /\ stream[c].queue \in Seq(Nat) /\ stream[c].event \in Nat /\ n \in Nat
        /\ DOMAIN stream[c].queue = 1 .. n
    BY <1>2, LenProperties DEF InOrder
  <2>4. /\ queue \in Seq(Nat) /\ Len(queue) = n + 1 /\ DOMAIN queue = 1 .. n + 1
        /\ \A i \in 1 .. n : queue[i] = stream[c].queue[i]
        /\ queue[n + 1] = stream[c].event
    BY <2>3, AppendProperties, LenProperties
  <2> HIDE DEF queue, n
  <2>5. \A i \in DOMAIN queue : stream[c].got <= queue[i] /\ queue[i] <= version
    <3> TAKE i \in DOMAIN queue
    <3>1. CASE i \in 1 .. n
      BY <1>2, <2>3, <2>4, <3>1 DEF InOrder
    <3>2. CASE i = n + 1
      BY <1>1, <1>2, <2>4, <3>2 DEF InOrder
    <3>3. i \in 1 .. n \/ i = n + 1
      BY <2>3, <2>4
    <3>4. QED BY <3>1, <3>2, <3>3
  <2>6. \A i, j \in DOMAIN queue : i < j => queue[i] <= queue[j]
    <3> SUFFICES ASSUME NEW i \in DOMAIN queue, NEW j \in DOMAIN queue, i < j
                 PROVE  queue[i] <= queue[j]
      OBVIOUS
    <3>1. i \in 1 .. n /\ (j \in 1 .. n \/ j = n + 1)
      BY <2>3, <2>4
    <3>2. CASE j \in 1 .. n
      BY <1>2, <2>3, <2>4, <3>1, <3>2 DEF InOrder
    <3>3. CASE j = n + 1
      BY <1>1, <1>2, <2>3, <2>4, <3>1, <3>3 DEF InOrder
    <3>4. QED BY <3>1, <3>2, <3>3
  <2>7. Len(queue) <= Capacity
    BY <1>4, <2>3, <2>4, StreamConstantsAssumption
  <2>8. InOrder(r, version)
    BY <1>2, <2>2, <2>4, <2>5, <2>6, <2>7 DEF InOrder
  <2>9. StreamTyped(r)
    BY <1>2, <2>2 DEF StreamTyped, StreamPlaces
  <2>10. HalfBuilt(r) /\ r.sound
    BY <2>2, OneStream DEF HalfBuilt
  <2>11. QED BY <1>1, <2>1, <2>8, <2>9, <2>10, StreamGoes
<1>5. QED BY <1>3, <1>4 DEF Send, Set

LEMMA ReceiveStep ==
  ASSUME Streaming, NEW c \in Clients, Receive(c)
  PROVE  Streaming'
<1> DEFINE queue == stream[c].queue
           rest == Tail(queue)
           r == [stream[c] EXCEPT !.queue = rest, !.got = Head(queue)]
<1>1. /\ world' = world /\ version' = version /\ server' = server /\ queue # <<>>
      /\ stream' = [stream EXCEPT ![c] = r]
  BY DEF Receive, Set
<1>2. DOMAIN stream[c] = Fields /\ StreamTyped(stream[c]) /\ InOrder(stream[c], version)
  BY OneStream DEF StreamTyped
<1>3. /\ DOMAIN r = Fields /\ r.at = stream[c].at /\ r.client = stream[c].client
      /\ r.delay = stream[c].delay /\ r.queue = rest /\ r.got = Head(queue)
      /\ r.event = stream[c].event /\ r.sound = stream[c].sound
      /\ r.calm = stream[c].calm /\ r.part = stream[c].part /\ r.tunnel = stream[c].tunnel
  BY <1>2 DEF Fields
<1> HIDE DEF r
<1>4. /\ queue \in Seq(Nat) /\ Len(queue) \in Nat /\ DOMAIN queue = 1 .. Len(queue)
      /\ Len(queue) # 0
  BY <1>1, <1>2, LenProperties, EmptySeq DEF InOrder
<1>5. /\ rest \in Seq(Nat) /\ Len(rest) = Len(queue) - 1 /\ DOMAIN rest = 1 .. Len(queue) - 1
      /\ \A i \in 1 .. Len(queue) - 1 : rest[i] = queue[i + 1]
  <2>1. /\ rest \in Seq(Nat) /\ Len(rest) = Len(queue) - 1
        /\ \A i \in 1 .. Len(rest) : rest[i] = queue[i + 1]
    BY <1>1, <1>4, HeadTailProperties
  <2>2. DOMAIN rest = 1 .. Len(rest)
    BY <2>1, LenProperties
  <2> HIDE DEF rest
  <2>3. QED BY <2>1, <2>2
<1>6. Head(queue) = queue[1] /\ queue[1] \in Nat
  <2>1. 1 \in 1 .. Len(queue)
    BY <1>4
  <2>2. queue[1] \in Nat
    BY <1>4, <2>1, ElementOfSeq
  <2>3. Head(queue) = queue[1]
    BY <1>4
  <2>4. QED BY <2>2, <2>3
<1> HIDE DEF rest
<1>7. \A i \in DOMAIN rest : i + 1 \in DOMAIN queue /\ 1 \in DOMAIN queue /\ 1 < i + 1
  BY <1>4, <1>5
<1>8. ASSUME NEW i \in DOMAIN rest PROVE queue[1] <= rest[i] /\ rest[i] <= version
  BY <1>2, <1>5, <1>7 DEF InOrder
<1>9. ASSUME NEW i \in DOMAIN rest, NEW j \in DOMAIN rest, i < j PROVE rest[i] <= rest[j]
  <2>1. i + 1 < j + 1
    BY <1>5, <1>9
  <2>2. QED BY <1>2, <1>5, <1>7, <2>1 DEF InOrder
<1>10. 1 \in DOMAIN queue /\ queue[1] <= version
  BY <1>2, <1>4 DEF InOrder
<1>11. Len(rest) <= Capacity
  BY <1>2, <1>4, <1>5, StreamConstantsAssumption DEF InOrder
<1>12. r.at = "send" => /\ r.event <= version /\ r.got <= r.event
                        /\ \A i \in DOMAIN rest : rest[i] <= r.event
  BY <1>2, <1>3, <1>5, <1>6, <1>7, <1>10 DEF InOrder
<1>13. r.at # "off"
  BY <1>1, <1>2, <1>3 DEF InOrder
<1>14. InOrder(r, version)
  BY <1>2, <1>3, <1>5, <1>6, <1>8, <1>9, <1>10, <1>11, <1>12, <1>13 DEF InOrder
<1>15. StreamTyped(r)
  BY <1>2, <1>3 DEF StreamTyped, StreamPlaces
<1>16. HalfBuilt(r) /\ r.sound
  BY <1>3, OneStream DEF HalfBuilt
<1>17. QED BY <1>1, <1>14, <1>15, <1>16, StreamGoes

\* The client gives up, or waits before it asks again.
LEMMA LeavesWith ==
  ASSUME Streaming, NEW c \in Clients, NEW r, stream' = [stream EXCEPT ![c] = r],
         world' = world, version' = version, server' = server, DOMAIN r = Fields,
         r.at = stream[c].at, r.client \in {"waiting", "gone"},
         r.delay \in {stream[c].delay, InitialDelay}, r.queue = <<>>, r.got = stream[c].got,
         r.event = stream[c].event, r.sound = stream[c].sound, r.calm = stream[c].calm,
         r.part = stream[c].part, r.tunnel = stream[c].tunnel
  PROVE  Streaming'
<1>1. StreamTyped(stream[c]) /\ InOrder(stream[c], version)
  BY OneStream
<1>2. <<>> \in Seq(Nat) /\ Len(<<>>) = 0 /\ DOMAIN <<>> = {}
  BY EmptySeq
<1>3. InOrder(r, version)
  BY <1>1, <1>2, StreamConstantsAssumption DEF InOrder
<1>4. StreamTyped(r)
  BY <1>1, StreamConstantsAssumption DEF StreamTyped
<1>5. HalfBuilt(r) /\ r.sound
  BY OneStream DEF HalfBuilt
<1>6. QED BY <1>3, <1>4, <1>5, StreamGoes

LEMMA LeaveStep ==
  ASSUME Streaming, NEW c \in Clients, EndOfStream(c) \/ BreaksOff(c) \/ Disconnect(c)
  PROVE  Streaming'
<1>1. /\ world' = world /\ version' = version /\ server' = server
  BY DEF EndOfStream, BreaksOff, Disconnect, Waits
<1>2. DOMAIN stream[c] = Fields
  BY OneStream DEF StreamTyped
<1>3. ASSUME NEW backoff, Waits(c, backoff) PROVE Streaming'
  <2> DEFINE delay == IF backoff THEN stream[c].delay ELSE InitialDelay
             r == [stream[c] EXCEPT !.client = "waiting", !.queue = <<>>,
                                    !.backoff = backoff, !.delay = delay]
  <2>1. stream' = [stream EXCEPT ![c] = r]
    BY <1>3 DEF Waits, Set
  <2>2. delay \in {stream[c].delay, InitialDelay}
    OBVIOUS
  <2> HIDE DEF delay
  <2>3. /\ DOMAIN r = Fields /\ r.at = stream[c].at /\ r.client = "waiting"
        /\ r.delay = delay /\ r.queue = <<>> /\ r.got = stream[c].got
        /\ r.event = stream[c].event /\ r.sound = stream[c].sound
        /\ r.calm = stream[c].calm /\ r.part = stream[c].part /\ r.tunnel = stream[c].tunnel
    BY <1>2 DEF Fields
  <2> HIDE DEF r
  <2>4. QED BY <1>1, <2>1, <2>2, <2>3, LeavesWith
<1>4. CASE Disconnect(c)
  <2> DEFINE r == [stream[c] EXCEPT !.client = "gone", !.queue = <<>>]
  <2>1. stream' = [stream EXCEPT ![c] = r]
    BY <1>4 DEF Disconnect, Set
  <2>2. /\ DOMAIN r = Fields /\ r.at = stream[c].at /\ r.client = "gone"
        /\ r.delay = stream[c].delay /\ r.queue = <<>> /\ r.got = stream[c].got
        /\ r.event = stream[c].event /\ r.sound = stream[c].sound
        /\ r.calm = stream[c].calm /\ r.part = stream[c].part /\ r.tunnel = stream[c].tunnel
    BY <1>2 DEF Fields
  <2> HIDE DEF r
  <2>3. QED BY <1>1, <2>1, <2>2, LeavesWith
<1>5. QED BY <1>3, <1>4 DEF EndOfStream, BreaksOff

LEMMA ReconnectStep ==
  ASSUME Streaming, NEW c \in Clients, Reconnect(c)
  PROVE  Streaming'
<1>1. world' = world /\ version' = version /\ server' = server
  BY DEF Reconnect
<1>2. /\ DOMAIN stream[c] = Fields /\ StreamTyped(stream[c]) /\ InOrder(stream[c], version)
      /\ HalfBuilt(stream[c]) /\ stream[c].sound
  BY OneStream DEF StreamTyped
<1>3. NextDelay(c) \in InitialDelay .. MaxDelay
  <2>1. stream[c].delay \in InitialDelay .. MaxDelay
    BY <1>2 DEF StreamTyped
  <2>2. QED BY <2>1, StreamConstantsAssumption DEF NextDelay
<1>4. CASE /\ stream[c].at = "ended"
           /\ stream' = [stream EXCEPT ![c] = [stream[c] EXCEPT !.client = "there", !.at = "turn",
                           !.delay = NextDelay(c), !.event = 0, !.sound = TRUE, !.part = {}]]
  <2> DEFINE r == [stream[c] EXCEPT !.client = "there", !.at = "turn",
                     !.delay = NextDelay(c), !.event = 0, !.sound = TRUE, !.part = {}]
  <2>1. stream' = [stream EXCEPT ![c] = r]
    BY <1>4
  <2>2. /\ DOMAIN r = Fields /\ r.at = "turn" /\ r.client = "there"
        /\ r.delay = NextDelay(c) /\ r.queue = stream[c].queue /\ r.got = stream[c].got
        /\ r.event = 0 /\ r.sound = TRUE
    BY <1>2 DEF Fields
  <2> HIDE DEF r
  <2>3. /\ r.at \in StreamPlaces \ {"off", "metrics", "send"} /\ r.event \in Nat /\ r.sound
        /\ r.client \in {"there", "waiting", "gone"}
    BY <2>2 DEF StreamPlaces
  <2>4. QED BY <1>1, <1>3, <2>1, <2>2, <2>3, PlaceGoes
<1>5. CASE stream' = [stream EXCEPT ![c] = [stream[c] EXCEPT !.backoff = TRUE, !.delay = NextDelay(c)]]
  <2> DEFINE r == [stream[c] EXCEPT !.backoff = TRUE, !.delay = NextDelay(c)]
  <2>1. stream' = [stream EXCEPT ![c] = r]
    BY <1>5
  <2>2. /\ DOMAIN r = Fields /\ r.at = stream[c].at /\ r.client = stream[c].client
        /\ r.delay = NextDelay(c) /\ r.queue = stream[c].queue /\ r.got = stream[c].got
        /\ r.event = stream[c].event /\ r.sound = stream[c].sound
        /\ r.calm = stream[c].calm /\ r.part = stream[c].part /\ r.tunnel = stream[c].tunnel
    BY <1>2 DEF Fields
  <2> HIDE DEF r
  <2>3. StreamTyped(r)
    BY <1>2, <1>3, <2>2 DEF StreamTyped
  <2>4. InOrder(r, version)
    BY <1>2, <2>2 DEF InOrder
  <2>5. HalfBuilt(r) /\ r.sound
    BY <1>2, <2>2 DEF HalfBuilt
  <2>6. QED BY <1>1, <2>1, <2>3, <2>4, <2>5, StreamGoes
<1>6. QED BY <1>4, <1>5 DEF Reconnect, Set

LEMMA WatchStep ==
  ASSUME Streaming, NEW c \in Clients, Watch(c)
  PROVE  Streaming'
<1> DEFINE r == [stream[c] EXCEPT !.got = version]
<1>1. /\ world' = world /\ version' = version /\ server' = server
      /\ stream[c].at = "off" /\ stream' = [stream EXCEPT ![c] = r]
  BY DEF Watch, Set
<1>2. /\ DOMAIN stream[c] = Fields /\ StreamTyped(stream[c]) /\ InOrder(stream[c], version)
      /\ HalfBuilt(stream[c]) /\ stream[c].sound /\ version \in Nat
  BY OneStream DEF StreamTyped
<1>3. /\ DOMAIN r = Fields /\ r.at = "off" /\ r.client = stream[c].client
      /\ r.delay = stream[c].delay /\ r.queue = stream[c].queue /\ r.got = version
      /\ r.event = stream[c].event /\ r.sound = stream[c].sound
  BY <1>1, <1>2 DEF Fields
<1> HIDE DEF r
<1>4. r.queue = <<>> /\ DOMAIN <<>> = {}
  BY <1>1, <1>2, <1>3 DEF InOrder
<1>5. InOrder(r, version)
  BY <1>2, <1>3, <1>4 DEF InOrder
<1>6. StreamTyped(r) /\ HalfBuilt(r) /\ r.sound
  BY <1>2, <1>3 DEF StreamTyped, HalfBuilt, StreamPlaces
<1>7. QED BY <1>1, <1>5, <1>6, StreamGoes

-----------------------------------------------------------------------------
(* The runtime state changes, and the daemon ends *)

LEMMA LaterOrder ==
  ASSUME NEW r, NEW v \in Nat, InOrder(r, v)
  PROVE  InOrder(r, v + 1)
<1>1. \A i \in DOMAIN r.queue : r.queue[i] \in Nat
  BY LenProperties, ElementOfSeq DEF InOrder
<1>2. QED BY <1>1 DEF InOrder

LEMMA NextVersion ==
  ASSUME Streaming, version <= MaxChanges
  PROVE  version + 1 \in 1 .. (MaxChanges + 1) /\ version \in Nat
BY StreamConstantsAssumption DEF Streaming

\* Every stream learns of a change, or ends with its daemon.
LEMMA AllStreamsGo ==
  ASSUME Streaming, version' = version + 1, version <= MaxChanges, world' \in Worlds,
         server' \in {"serving", "shutting", "draining", "down"},
         NEW to, \A c \in Clients : to[c] \in {stream[c].at, "ended"},
         \A c \in Clients : stream[c].at = "off" => to[c] = "off",
         stream' = [c \in Clients |-> [stream[c] EXCEPT !.at = to[c], !.calm = FALSE]]
  PROVE  Streaming'
<1>1. version' \in 1 .. (MaxChanges + 1) /\ version \in Nat
  BY NextVersion, Zenon
<1>2. ASSUME NEW c \in Clients
      PROVE  /\ StreamTyped(stream'[c]) /\ InOrder(stream'[c], version')
             /\ stream'[c].calm = FALSE /\ stream'[c].sound
  <2> DEFINE r == [stream[c] EXCEPT !.at = to[c], !.calm = FALSE]
  <2>1. /\ DOMAIN stream[c] = Fields /\ StreamTyped(stream[c]) /\ InOrder(stream[c], version)
        /\ stream[c].sound
    BY OneStream DEF StreamTyped
  <2>2. /\ DOMAIN r = Fields /\ r.at = to[c] /\ r.client = stream[c].client
        /\ r.delay = stream[c].delay /\ r.queue = stream[c].queue /\ r.got = stream[c].got
        /\ r.event = stream[c].event /\ r.sound = stream[c].sound /\ r.calm = FALSE
    BY <2>1 DEF Fields
  <2>3. stream'[c] = r
    OBVIOUS
  <2> HIDE DEF r
  <2>4. StreamTyped(r)
    BY <2>1, <2>2 DEF StreamTyped, StreamPlaces
  <2>5. InOrder(stream[c], version')
    BY <1>1, <2>1, LaterOrder
  <2>6. InOrder(r, version')
    BY <2>2, <2>5 DEF InOrder
  <2>7. QED BY <2>1, <2>2, <2>3, <2>4, <2>6
<1>3. \A c \in Clients : HalfBuilt(stream[c])'
  BY <1>2 DEF HalfBuilt
<1>4. DOMAIN stream' = Clients
  OBVIOUS
<1>5. QED BY <1>1, <1>2, <1>3, <1>4 DEF Streaming

LEMMA ChangeStep ==
  ASSUME Streaming, Change
  PROVE  Streaming'
<1>1. /\ version' = version + 1 /\ version <= MaxChanges /\ server' = server
      /\ server' \in {"serving", "shutting", "draining", "down"}
      /\ stream' = [c \in Clients |-> [stream[c] EXCEPT !.calm = FALSE]]
  BY DEF Change, Streaming
<1>2. world \in Worlds
  BY DEF Streaming
<1>3. world' \in Worlds
  <2>1. CASE \E t \in Tunnels, s \in {Absent, "running", "stopped"} :
               world' = [world EXCEPT !.status[t] = s]
    BY <1>2, <2>1 DEF Worlds
  <2>2. CASE \E r \in RouteSet : world' = [world EXCEPT !.routes = Toggle(world.routes, r)]
    <3>1. PICK r \in RouteSet : world' = [world EXCEPT !.routes = Toggle(world.routes, r)]
      BY <2>2
    <3>2. Toggle(world.routes, r) \in SUBSET RouteSet
      BY <1>2 DEF Worlds, Toggle
    <3>3. QED BY <1>2, <3>1, <3>2 DEF Worlds
  <2>3. CASE \E t \in Tunnels : \/ world' = [world EXCEPT !.running = Toggle(world.running, t)]
                                \/ world' = [world EXCEPT !.pending = Toggle(world.pending, t)]
    <3>1. PICK t \in Tunnels : \/ world' = [world EXCEPT !.running = Toggle(world.running, t)]
                               \/ world' = [world EXCEPT !.pending = Toggle(world.pending, t)]
      BY <2>3
    <3>2. Toggle(world.running, t) \in SUBSET Tunnels /\ Toggle(world.pending, t) \in SUBSET Tunnels
      BY <1>2 DEF Worlds, Toggle
    <3>3. QED BY <1>2, <3>1, <3>2 DEF Worlds
  <2>4. CASE \E q \in Tunnels \cup {None} : world' = [world EXCEPT !.current = q]
    BY <1>2, <2>4 DEF Worlds
  <2>5. QED BY <2>1, <2>2, <2>3, <2>4 DEF Change
<1> DEFINE to == [c \in Clients |-> stream[c].at]
<1>4. ASSUME NEW c \in Clients
      PROVE  [stream[c] EXCEPT !.calm = FALSE] = [stream[c] EXCEPT !.at = to[c], !.calm = FALSE]
  BY OneStream DEF StreamTyped, Fields
<1>5. stream' = [c \in Clients |-> [stream[c] EXCEPT !.at = to[c], !.calm = FALSE]]
  BY <1>1, <1>4
<1>6. \A c \in Clients : to[c] \in {stream[c].at, "ended"} /\ (stream[c].at = "off" => to[c] = "off")
  OBVIOUS
<1> HIDE DEF to
<1>7. QED BY <1>1, <1>3, <1>5, <1>6, AllStreamsGo

LEMMA StartAgainStep ==
  ASSUME Streaming, StartAgain
  PROVE  Streaming'
<1> DEFINE to == [c \in Clients |-> IF stream[c].at = "off" THEN "off" ELSE "ended"]
<1>1. /\ version' = version + 1 /\ version <= MaxChanges /\ server' = "serving"
      /\ world' = [world EXCEPT !.running = {}, !.pending = {}]
  BY DEF StartAgain
<1>2. world' \in Worlds
  BY <1>1 DEF Streaming, Worlds
<1>3. stream' = [c \in Clients |-> [stream[c] EXCEPT !.at = to[c], !.calm = FALSE]]
  BY DEF StartAgain
<1>4. \A c \in Clients : to[c] \in {stream[c].at, "ended"} /\ (stream[c].at = "off" => to[c] = "off")
  OBVIOUS
<1> HIDE DEF to
<1>5. QED BY <1>1, <1>2, <1>3, <1>4, AllStreamsGo

LEMMA ServerStep ==
  ASSUME Streaming, BeginShutdown \/ BeginDrain \/ EndServe \/ UNCHANGED streamVars
  PROVE  Streaming'
<1>1. /\ world' = world /\ version' = version /\ stream' = stream
      /\ server' = server \/ server' \in {"shutting", "draining", "down"}
  BY DEF BeginShutdown, BeginDrain, EndServe, streamVars
<1>2. \A c \in Clients : HalfBuilt(stream[c])'
  BY <1>1 DEF Streaming, HalfBuilt, DashboardPart, StatusView, Resolved, RoutesOf
<1>3. QED BY <1>1, <1>2 DEF Streaming

LEMMA StreamingStep == Streaming /\ [StreamNext]_streamVars => Streaming'
<1> SUFFICES ASSUME Streaming, [StreamNext]_streamVars PROVE Streaming'
  OBVIOUS
<1>1. ASSUME NEW c \in Clients,
             Open(c) \/ StreamStep(c) \/ Receive(c) \/ Disconnect(c)
             \/ EndOfStream(c) \/ BreaksOff(c) \/ Reconnect(c) \/ Watch(c)
      PROVE  Streaming'
  BY <1>1, OpenStep, LastTurnStep, TurnStep, DashboardTurnStep, DashboardMetricsStep, SendStep,
     ReceiveStep, LeaveStep, ReconnectStep, WatchStep DEF StreamStep
<1>2. CASE Change
  BY <1>2, ChangeStep
<1>3. CASE StartAgain
  BY <1>3, StartAgainStep
<1>4. CASE BeginShutdown \/ BeginDrain \/ EndServe \/ UNCHANGED streamVars
  BY <1>4, ServerStep
<1>5. QED BY <1>1, <1>2, <1>3, <1>4 DEF StreamNext

LEMMA StreamsKept == StreamSpec => []Streaming
BY StreamingInit, StreamingStep, PTL DEF StreamSpec

\* Every reachable state of the streams is well typed, and no channel holds more
\* than its capacity.
THEOREM StreamsTyped == StreamSpec => []StreamTypeOK
<1>1. Streaming => StreamTypeOK
  <2> SUFFICES ASSUME Streaming PROVE StreamTypeOK
    OBVIOUS
  <2>1. /\ world.status \in [Tunnels -> {Absent, "running", "stopped"}]
        /\ world.routes \subseteq RouteSet /\ world.current \in Tunnels \cup {None}
        /\ world.running \subseteq Tunnels /\ world.pending \subseteq Tunnels
    BY DEF Streaming, Worlds
  <2>2. QED BY <2>1 DEF Streaming, StreamTyped, StreamPlaces, InOrder, StreamTypeOK
<1>2. QED BY <1>1, StreamsKept, PTL

\* What a client has been shown, what is on its way to it and what it will be
\* shown next is in order, and no dashboard that was built without a change
\* in between disagrees with itself; the views of a state agree (api.rs).
THEOREM ViewsAlwaysAgree == StreamSpec => []ViewsAgree
<1>1. Streaming => ViewsAgree
  <2> SUFFICES ASSUME Streaming PROVE ViewsAgree
    OBVIOUS
  <2>1. ASSUME NEW t \in Tunnels
        PROVE  LET m == MetricsView(t)
                   d == DiagnosticsView(t)
               IN /\ <<m.state, m.pending, m.routes, m.enabled>>
                       = <<d.state, d.pending, d.routes, d.enabled>>
                  /\ m.state = StatusView(t) /\ m.routes = Cardinality(RoutesView(t))
                  /\ m.upstreams = Cardinality(UpstreamsView(t))
                  /\ \A w \in WorkspaceView.tunnels : w.id = t =>
                       <<w.state, w.routes, w.enabled>> = <<m.state, m.routes, m.enabled>>
    <3>1. t # None /\ Resolved(t) = t
      BY StreamConstantsAssumption DEF Resolved
    <3>2. /\ MetricsView(t).state = StatusView(t)
          /\ MetricsView(t).pending = (t \in world.pending)
          /\ MetricsView(t).routes = Cardinality(RoutesOf(t))
          /\ MetricsView(t).enabled = Cardinality(Enabled(RoutesOf(t)))
          /\ MetricsView(t).upstreams = Cardinality(Upstreams(RoutesOf(t)))
      BY <3>1 DEF MetricsView
    <3>3. QED BY <3>1, <3>2 DEF DiagnosticsView, RoutesView, UpstreamsView, WorkspaceView
  <2>2. ASSUME NEW c \in Clients
        PROVE  LET r == stream[c]
                   events == <<r.got>> \o r.queue \o <<IF r.at = "send" THEN r.event ELSE version>>
               IN /\ r.sound
                  /\ \A i, j \in DOMAIN events : i < j => events[i] <= events[j]
    <3> DEFINE r == stream[c]
               last == IF r.at = "send" THEN r.event ELSE version
               n == Len(r.queue)
               events == <<r.got>> \o r.queue \o <<last>>
    <3>1. InOrder(r, version) /\ r.sound /\ version \in Nat
      BY OneStream
    <3>2. /\ r.queue \in Seq(Nat) /\ n \in Nat /\ DOMAIN r.queue = 1 .. n
          /\ r.got \in Nat /\ last \in Nat
          /\ \A i \in 1 .. n : r.queue[i] \in Nat
      BY <3>1, LenProperties, ElementOfSeq DEF InOrder
    <3>3. /\ r.got <= last /\ \A i \in 1 .. n : r.got <= r.queue[i] /\ r.queue[i] <= last
          /\ \A i, j \in 1 .. n : i < j => r.queue[i] <= r.queue[j]
      BY <3>1, <3>2 DEF InOrder
    <3> HIDE DEF last
    <3> DEFINE front == <<r.got>> \o r.queue
    <3>12. /\ front \in Seq(Nat) /\ Len(front) = n + 1 /\ front[1] = r.got
           /\ \A i \in 1 .. n : front[i + 1] = r.queue[i]
      <4>1. <<r.got>> \in Seq(Nat) /\ Len(<<r.got>>) = 1 /\ <<r.got>>[1] = r.got
        BY <3>2
      <4>2. /\ front \in Seq(Nat) /\ Len(front) = 1 + n
            /\ \A i \in 1 .. 1 + n : front[i] = IF i <= 1 THEN <<r.got>>[i] ELSE r.queue[i - 1]
        BY <3>2, <4>1, ConcatProperties
      <4> HIDE DEF front, n
      <4>3. ASSUME NEW i \in 1 .. n PROVE front[i + 1] = r.queue[i]
        <5>1. i + 1 \in 1 .. 1 + n /\ ~(i + 1 <= 1) /\ (i + 1) - 1 = i
          BY <3>2
        <5>2. QED BY <4>2, <5>1
      <4>4. front[1] = r.got
        <5>1. 1 \in 1 .. 1 + n /\ 1 <= 1
          BY <3>2
        <5>2. QED BY <4>1, <4>2, <5>1
      <4>5. QED BY <3>2, <4>2, <4>3, <4>4
    <3>4. /\ events \in Seq(Nat) /\ Len(events) = n + 2 /\ events[1] = r.got
          /\ events[n + 2] = last /\ \A i \in 1 .. n : events[i + 1] = r.queue[i]
      <4>1. <<last>> \in Seq(Nat) /\ Len(<<last>>) = 1 /\ <<last>>[1] = last
        BY <3>2
      <4> HIDE DEF n
      <4>2. events = front \o <<last>>
        OBVIOUS
      <4> HIDE DEF front, events
      <4>3. /\ events \in Seq(Nat) /\ Len(events) = (n + 1) + 1
            /\ \A i \in 1 .. (n + 1) + 1 :
                 events[i] = IF i <= n + 1 THEN front[i] ELSE <<last>>[i - (n + 1)]
        BY <3>12, <4>1, <4>2, ConcatProperties
      <4>4. QED BY <3>2, <3>12, <4>1, <4>3
    <3>5. DOMAIN events = 1 .. n + 2
      BY <3>4, LenProperties
    <3> HIDE DEF events, n
    <3>6. ASSUME NEW i \in DOMAIN events, NEW j \in DOMAIN events, i < j
          PROVE  events[i] <= events[j]
      <4>1. CASE i = 1 /\ j = n + 2
        BY <3>3, <3>4, <4>1
      <4>2. CASE i = 1 /\ j - 1 \in 1 .. n
        <5>1. events[j] = r.queue[j - 1]
          BY <3>4, <4>2, <3>5
        <5>2. QED BY <3>3, <3>4, <4>2, <5>1
      <4>3. CASE i - 1 \in 1 .. n /\ j = n + 2
        <5>1. events[i] = r.queue[i - 1]
          BY <3>4, <4>3, <3>5
        <5>2. QED BY <3>3, <3>4, <4>3, <5>1
      <4>4. CASE i - 1 \in 1 .. n /\ j - 1 \in 1 .. n
        <5>1. events[i] = r.queue[i - 1] /\ events[j] = r.queue[j - 1] /\ i - 1 < j - 1
          BY <3>4, <4>4, <3>5, <3>6
        <5>2. QED BY <3>3, <4>4, <5>1
      <4>5. \/ i = 1 /\ j = n + 2
            \/ i = 1 /\ j - 1 \in 1 .. n
            \/ i - 1 \in 1 .. n /\ j = n + 2
            \/ i - 1 \in 1 .. n /\ j - 1 \in 1 .. n
        BY <3>2, <3>5, <3>6
      <4>6. QED BY <4>1, <4>2, <4>3, <4>4, <4>5
    <3>7. QED BY <3>1, <3>6 DEF events, last
  <2>3. QED BY <2>1, <2>2 DEF ViewsAgree
<1>2. QED BY <1>1, StreamsKept, PTL

-----------------------------------------------------------------------------
(* Commands *)

TaskFields == {"op", "at", "id", "body", "calm", "unsure", "blind", "form", "edits", "target",
               "flag", "wait", "seen", "known", "plan", "before"}

DaemonRecords ==
  [routes : [Ids -> (Bodies \ {Invalid}) \cup {NoRoute}],
   gates : [Ids -> [code : Codes \cup {Blank}, public : BOOLEAN, ttl : BOOLEAN]],
   default : [code : Codes \cup {Blank}, ttl : BOOLEAN],
   tunnel : [state : {"down", "starting", "up"}, target : Targets]]

\* A daemon, whose public routes have no code of their own.
Sound(d) ==
  /\ d \in DaemonRecords
  /\ \A i \in Ids : d.gates[i].public => d.gates[i].code = Blank /\ ~d.gates[i].ttl

\* What a command has in its hands.
TaskTyped(t) ==
  /\ DOMAIN t = TaskFields /\ t.calm \in BOOLEAN /\ t.unsure \in BOOLEAN
  /\ DOMAIN t.known = {"mode", "ttl"} /\ t.known.ttl \in BOOLEAN
  /\ t.op \in {"save", "expose", "unexpose"} => t.id \in Ids
  /\ t.op \in {"save", "expose"} => t.body \in Bodies
  /\ t.op = "save" => /\ t.form.code \in Codes \cup {Unset, Blank}
                      /\ t.seen \in (Bodies \ {Invalid}) \cup {NoRoute}
  /\ t.op = "default" => t.form.code \in Codes \cup {Blank}
  /\ t.op = "expose" => t.target \in Targets
  /\ \A b \in t.before : Sound(b)

\* GateAsSaved, of any daemon d.
GateKept(t, b, d) ==
  LET gate == d.gates[t.id] IN
  /\ t.form.mode = "inherit" => gate = NoGate
  /\ t.form.mode = "public" => gate.public
  /\ t.form.mode \notin {"inherit", "public"} =>
       /\ t.form.code \in Codes =>
            /\ gate.code = t.form.code /\ ~gate.public
            /\ t.form.mode = "custom" /\ b.gates[t.id].code # Blank /\ ~t.blind =>
                 EffectiveTtl(d, t.id) = EffectiveTtl(b, t.id)
       /\ t.form.code = Unset => gate = b.gates[t.id]
       /\ t.form.code = Blank => gate.code = Blank \/ gate = b.gates[t.id]

\* Nothing but the body of the route has changed.
OnlyRoute(t, b, d) ==
  /\ d.routes = [b.routes EXCEPT ![t.id] = t.body]
  /\ d.gates = b.gates /\ d.default = b.default /\ d.tunnel = b.tunnel

\* What each step of a command relies on, and what it has done so far, seen
\* from the daemon b it began with.
Saving(t, b, d) ==
  /\ t.at \in {"list", "write"} => d = b
  /\ t.at = "list" => t.edits
  /\ t.at = "write" => t.seen = IF t.edits THEN b.routes[t.id] ELSE NoRoute
  /\ t.at \in {"gate", "sync", "undo"} =>
       t.seen = b.routes[t.id] /\ t.body # Invalid /\ OnlyRoute(t, b, d)
  /\ t.at = "sync" => t.blind \/ b.gates[t.id].code = Blank \/ t.known.ttl = EffectiveTtl(b, t.id)
  /\ t.at \in {"show", "saved"} => d.routes[t.id] = t.body /\ GateKept(t, b, d)

Defaulting(t, b, d) ==
  /\ t.at \in {"gate", "sync"} => d = b
  /\ t.at = "sync" => t.known.ttl = b.default.ttl
  /\ t.at = "saved" => d.default = [code |-> t.form.code, ttl |-> b.default.ttl]

Exposing(t, b, d) ==
  /\ t.at \in {"list", "status", "write"} => d = b
  /\ t.at \in {"status", "write"} => t.seen = b.routes[t.id]
  /\ t.at = "write" => /\ t.plan \in {"start", "noop", "restart"}
                       /\ t.plan = TunnelAction(b.tunnel, t.target, t.flag)
  /\ t.at \in {"stop", "start", "starting", "ready"} => d.routes[t.id] = t.body
  /\ t.at = "start" => d.tunnel.state = "down"
  /\ t.at \in {"starting", "ready"} => /\ d.tunnel.state \in {"starting", "up"}
                                       /\ d.tunnel.target = t.target

Unexposing(t, b, d) ==
  LET stops == ~t.flag /\ (\A i \in Ids : b.routes[i] = NoRoute \/ i = t.id)
               /\ b.tunnel.state # "down"
  IN
  /\ t.at \in {"list", "status", "write"} => d = b
  /\ t.at \in {"status", "write"} => t.seen = {i \in Ids : b.routes[i] # NoRoute}
  /\ t.at = "write" => t.plan = IF stops THEN "stop" ELSE "none"
  /\ t.at = "stop" => stops /\ \A i \in Ids : d.routes[i] = NoRoute

Delivered(t, b, d) ==
  /\ t.at \in {"refused", "undone"} => Visible(d) = Visible(b)
  /\ t.at = "exposed" =>
       /\ d.routes[t.id] = t.body /\ d.tunnel.target = t.target
       /\ d.tunnel.state \in (IF t.wait THEN {"up"} ELSE {"up", "starting"})
  /\ t.at = "unexposed" =>
       /\ d.routes[t.id] = NoRoute
       /\ d.tunnel.state = IF ~t.flag /\ \A i \in Ids : d.routes[i] = NoRoute
                             THEN "down" ELSE b.tunnel.state

Kept(t, d) ==
  t.calm /\ ~t.unsure => \A b \in t.before :
    /\ t.op = "save" => Saving(t, b, d)
    /\ t.op = "default" => Defaulting(t, b, d)
    /\ t.op = "expose" => Exposing(t, b, d)
    /\ t.op = "unexpose" => Unexposing(t, b, d)
    /\ Delivered(t, b, d)

Delivering ==
  /\ Sound(daemon) /\ losses \in 0 .. MaxFailures /\ DOMAIN task = Users
  /\ \A u \in Users : TaskTyped(task[u]) /\ Kept(task[u], daemon)

-----------------------------------------------------------------------------
(* Tasks *)

\* Two tasks that have the same in their hands.
Alike(r, t) ==
  /\ DOMAIN r = DOMAIN t /\ r.op = t.op /\ r.id = t.id /\ r.body = t.body
  /\ r.unsure = t.unsure /\ r.blind = t.blind /\ r.form = t.form /\ r.edits = t.edits
  /\ r.target = t.target /\ r.flag = t.flag /\ r.wait = t.wait /\ r.seen = t.seen
  /\ r.known = t.known /\ r.plan = t.plan /\ r.before = t.before

LEMMA AlikeTyped ==
  ASSUME NEW t, NEW r, TaskTyped(t), Alike(r, t), r.calm \in BOOLEAN
  PROVE  TaskTyped(r)
BY DEF TaskTyped, Alike

LEMMA AlikeKept ==
  ASSUME NEW t, NEW r, NEW d, Alike(r, t), r.at = t.at, r.calm => t.calm, Kept(t, d)
  PROVE  Kept(r, d)
<1> SUFFICES ASSUME r.calm, ~r.unsure, NEW b \in r.before
             PROVE  /\ r.op = "save" => Saving(r, b, d)
                    /\ r.op = "default" => Defaulting(r, b, d)
                    /\ r.op = "expose" => Exposing(r, b, d)
                    /\ r.op = "unexpose" => Unexposing(r, b, d)
                    /\ Delivered(r, b, d)
  BY DEF Kept
<1>1. t.calm /\ ~t.unsure /\ b \in t.before
  BY DEF Alike
<1>2. ASSUME r.op = "save" PROVE Saving(r, b, d)
  <2>1. Saving(t, b, d)
    BY <1>1, <1>2 DEF Kept, Alike
  <2>2. GateKept(t, b, d) => GateKept(r, b, d)
    BY DEF GateKept, Alike
  <2>3. QED BY <2>1, <2>2 DEF Saving, OnlyRoute, Alike
<1>3. ASSUME r.op = "default" PROVE Defaulting(r, b, d)
  BY <1>1, <1>3 DEF Kept, Defaulting, Alike
<1>4. ASSUME r.op = "expose" PROVE Exposing(r, b, d)
  BY <1>1, <1>4 DEF Kept, Exposing, Alike
<1>5. ASSUME r.op = "unexpose" PROVE Unexposing(r, b, d)
  BY <1>1, <1>5 DEF Kept, Unexposing, Alike
<1>6. Delivered(r, b, d)
  BY <1>1 DEF Kept, Delivered, Alike
<1>7. QED BY <1>2, <1>3, <1>4, <1>5, <1>6

LEMMA GotoAlike ==
  ASSUME NEW u \in Users, TaskTyped(task[u]), NEW at, NEW r, r = Goto(u, at)
  PROVE  /\ r.at = at /\ r.calm = task[u].calm /\ Alike(r, task[u]) /\ TaskTyped(r)
<1>1. r.at = at /\ r.calm = task[u].calm /\ Alike(r, task[u])
  BY DEF Goto, Alike, TaskTyped, TaskFields
<1>2. QED BY <1>1, AlikeTyped DEF TaskTyped

LEMMA UnsureTyped ==
  ASSUME NEW t, TaskTyped(t), NEW r, r = [t EXCEPT !.unsure = TRUE]
  PROVE  TaskTyped(r) /\ r.unsure
BY DEF TaskTyped, TaskFields

LEMMA MoveKeeps ==
  ASSUME Delivering, NEW u \in Users, NEW t, Moves(u, t), TaskTyped(t),
         Sound(daemon'), Kept(t, daemon'), losses' \in 0 .. MaxFailures
  PROVE  Delivering'
<1>1. DOMAIN task' = Users /\ task'[u] = t
  BY DEF Moves
<1>2. ASSUME NEW x \in Users, x # u PROVE TaskTyped(task'[x]) /\ Kept(task'[x], daemon')
  <2> DEFINE r == task'[x]
  <2>1. r = [task[x] EXCEPT !.calm = task[x].calm /\ daemon' = daemon]
    BY <1>2 DEF Moves
  <2>2. TaskTyped(task[x]) /\ Kept(task[x], daemon)
    BY DEF Delivering
  <2>3. Alike(r, task[x]) /\ r.at = task[x].at
    BY <2>1, <2>2 DEF Alike, TaskTyped, TaskFields
  <2>4. r.calm = (task[x].calm /\ daemon' = daemon)
    BY <2>1, <2>2 DEF TaskTyped, TaskFields
  <2>5. TaskTyped(r)
    <3>1. r.calm \in BOOLEAN
      BY <2>2, <2>4 DEF TaskTyped
    <3>2. QED BY <2>2, <2>3, <3>1, AlikeTyped
  <2>6. CASE daemon' = daemon
    BY <2>2, <2>3, <2>4, <2>5, <2>6, AlikeKept
  <2>7. CASE daemon' # daemon
    BY <2>4, <2>5, <2>7 DEF Kept
  <2>8. QED BY <2>6, <2>7
<1>3. QED BY <1>1, <1>2 DEF Delivering

LEMMA ReadKeeps ==
  ASSUME Delivering, NEW u \in Users, NEW yes, NEW no, Read(u, yes, no),
         TaskTyped(yes), TaskTyped(no), Kept(yes, daemon), Kept(no, daemon)
  PROVE  Delivering'
<1>1. daemon' = daemon /\ losses' \in 0 .. MaxFailures /\ (Moves(u, yes) \/ Moves(u, no))
  BY RouteClientsAssumption DEF Read, Loss, Delivering
<1>2. Sound(daemon') /\ Kept(yes, daemon') /\ Kept(no, daemon')
  BY <1>1 DEF Delivering
<1>3. QED BY <1>1, <1>2, MoveKeeps

LEMMA WriteKeeps ==
  ASSUME Delivering, NEW u \in Users, NEW accepts, NEW result, NEW yes, NEW no,
         Write(u, accepts, result, yes, no), TaskTyped(yes), TaskTyped(no),
         accepts => Sound(result) /\ Kept(yes, result), Kept(no, daemon)
  PROVE  Delivering'
<1> DEFINE lost == [no EXCEPT !.unsure = TRUE]
<1>1. losses' \in 0 .. MaxFailures
  BY RouteClientsAssumption DEF Write, Loss, Delivering
<1>2. TaskTyped(lost) /\ lost.unsure
  BY UnsureTyped
<1>3. /\ \/ accepts /\ daemon' = result /\ Moves(u, yes)
         \/ daemon' = daemon /\ Moves(u, no)
         \/ accepts /\ daemon' = result /\ Moves(u, lost)
  BY DEF Write
<1> HIDE DEF lost
<1>4. CASE accepts /\ daemon' = result /\ Moves(u, yes)
  BY <1>1, <1>4, MoveKeeps
<1>5. CASE daemon' = daemon /\ Moves(u, no)
  <2>1. Sound(daemon') /\ Kept(no, daemon')
    BY <1>5 DEF Delivering
  <2>2. QED BY <1>1, <1>5, <2>1, MoveKeeps
<1>6. CASE accepts /\ daemon' = result /\ Moves(u, lost)
  <2>1. Kept(lost, daemon')
    BY <1>2 DEF Kept
  <2>2. QED BY <1>1, <1>2, <1>6, <2>1, MoveKeeps
<1>7. QED BY <1>3, <1>4, <1>5, <1>6

LEMMA StayKeeps ==
  ASSUME Delivering, NEW u \in Users, NEW t, Moves(u, t), UNCHANGED <<daemon, losses>>,
         TaskTyped(t), Kept(t, daemon)
  PROVE  Delivering'
<1>1. Sound(daemon') /\ Kept(t, daemon') /\ losses' \in 0 .. MaxFailures
  BY DEF Delivering
<1>2. QED BY <1>1, MoveKeeps

-----------------------------------------------------------------------------
(* What a command may say when it ends *)

\* It has failed and promises nothing.
LEMMA SaysNothing ==
  ASSUME NEW r, NEW d, r.at \in {"failed", "stuck", "done"}
  PROVE  Kept(r, d)
BY DEF Kept, Saving, Defaulting, Exposing, Unexposing, Delivered

\* It has been refused before it did anything.
LEMMA SaysRefused ==
  ASSUME NEW r, NEW d, r.at = "refused",
         r.calm /\ ~r.unsure => \A b \in r.before : d = b
  PROVE  Kept(r, d)
BY DEF Kept, Saving, Defaulting, Exposing, Unexposing, Delivered

\* The step a command is at, and what Kept says of it.
LEMMA Here ==
  ASSUME Delivering, NEW u \in Users
  PROVE  /\ TaskTyped(task[u]) /\ Kept(task[u], daemon)
         /\ Sound(daemon) /\ task[u].calm \in BOOLEAN
BY DEF Delivering, TaskTyped

-----------------------------------------------------------------------------
(* The daemon *)

LEMMA PutSound ==
  ASSUME Sound(daemon), NEW id \in Ids, NEW body \in (Bodies \ {Invalid}) \cup {NoRoute}
  PROVE  /\ Sound(Put(id, body)) /\ Put(id, body).routes = [daemon.routes EXCEPT ![id] = body]
         /\ Put(id, body).gates = daemon.gates /\ Put(id, body).default = daemon.default
         /\ Put(id, body).tunnel = daemon.tunnel
BY DEF Sound, DaemonRecords, Put

LEMMA NoGateTyped ==
  /\ NoGate \in [code : Codes \cup {Blank}, public : BOOLEAN, ttl : BOOLEAN]
  /\ ~NoGate.public /\ NoGate.code = Blank /\ ~NoGate.ttl
BY DEF NoGate

LEMMA SetGateSound ==
  ASSUME Sound(daemon), NEW id \in Ids,
         NEW gate \in [code : Codes \cup {Blank}, public : BOOLEAN, ttl : BOOLEAN],
         gate.public => gate.code = Blank /\ ~gate.ttl
  PROVE  /\ Sound(SetGate(id, gate)) /\ SetGate(id, gate).routes = daemon.routes
         /\ SetGate(id, gate).gates = [daemon.gates EXCEPT ![id] = gate]
         /\ SetGate(id, gate).default = daemon.default
BY DEF Sound, DaemonRecords, SetGate

LEMMA DeleteSound ==
  ASSUME Sound(daemon), NEW id \in Ids
  PROVE  /\ Sound(Delete(id)) /\ Delete(id).routes = [daemon.routes EXCEPT ![id] = NoRoute]
         /\ Delete(id).gates = [daemon.gates EXCEPT ![id] = NoGate]
         /\ Delete(id).default = daemon.default /\ Delete(id).tunnel = daemon.tunnel
BY NoGateTyped DEF Sound, DaemonRecords, Delete

LEMMA TunnelSound ==
  ASSUME Sound(daemon), NEW tunnel \in [state : {"down", "starting", "up"}, target : Targets],
         NEW d, d = [daemon EXCEPT !.tunnel = tunnel]
  PROVE  /\ Sound(d) /\ d.routes = daemon.routes /\ d.gates = daemon.gates
         /\ d.default = daemon.default /\ d.tunnel = tunnel
BY DEF Sound, DaemonRecords

LEMMA SetStateSound ==
  ASSUME Sound(daemon), NEW state \in {"down", "starting", "up"}
  PROVE  /\ Sound(SetState(state)) /\ SetState(state).routes = daemon.routes
         /\ SetState(state).tunnel.state = state
         /\ SetState(state).tunnel.target = daemon.tunnel.target
<1> DEFINE tunnel == [daemon.tunnel EXCEPT !.state = state]
<1>1. daemon.tunnel \in [state : {"down", "starting", "up"}, target : Targets]
  BY DEF Sound, DaemonRecords
<1>2. /\ tunnel \in [state : {"down", "starting", "up"}, target : Targets]
      /\ tunnel.state = state /\ tunnel.target = daemon.tunnel.target
  BY <1>1
<1>3. SetState(state) = [daemon EXCEPT !.tunnel = tunnel]
  BY DEF SetState
<1> HIDE DEF tunnel
<1>4. QED BY <1>2, <1>3, TunnelSound

LEMMA DefaultSound ==
  ASSUME Sound(daemon), NEW default \in [code : Codes \cup {Blank}, ttl : BOOLEAN],
         NEW d, d = [daemon EXCEPT !.default = default]
  PROVE  Sound(d) /\ d.default = default
BY DEF Sound, DaemonRecords

LEMMA RoutesSound ==
  ASSUME Sound(daemon), NEW routes \in [Ids -> (Bodies \ {Invalid}) \cup {NoRoute}],
         NEW d, d = [daemon EXCEPT !.routes = routes]
  PROVE  Sound(d)
BY DEF Sound, DaemonRecords

-----------------------------------------------------------------------------
(* The steps of save_route *)

LEMMA StartKeeps ==
  ASSUME Delivering, NEW u \in Users, NEW t, Starts(u, t), TaskTyped(t),
         \/ t.at = "list" /\ (t.op = "save" => t.edits)
         \/ t.op = "save" /\ t.at = "write" /\ t.seen = NoRoute /\ ~t.edits
         \/ t.op = "default" /\ t.at = "gate"
  PROVE  Delivering'
<1> DEFINE r == [t EXCEPT !.before = {daemon}]
<1>1. Moves(u, r) /\ UNCHANGED <<daemon, losses>>
  BY DEF Starts
<1>2. /\ DOMAIN r = DOMAIN t /\ r.op = t.op /\ r.id = t.id /\ r.body = t.body /\ r.at = t.at
      /\ r.calm = t.calm /\ r.unsure = t.unsure /\ r.form = t.form /\ r.edits = t.edits
      /\ r.target = t.target /\ r.seen = t.seen /\ r.known = t.known
      /\ r.before = {daemon}
  BY DEF TaskTyped, TaskFields
<1> HIDE DEF r
<1>3. TaskTyped(r)
  BY <1>2 DEF TaskTyped, Delivering
<1>4. Kept(r, daemon)
  BY <1>2 DEF Kept, Saving, Defaulting, Exposing, Unexposing, Delivered
<1>5. QED BY <1>1, <1>3, <1>4, StayKeeps

LEMMA FreshTask ==
  /\ DOMAIN Fresh = TaskFields /\ Fresh.calm = TRUE /\ Fresh.unsure = FALSE
  /\ DOMAIN Fresh.known = {"mode", "ttl"} /\ Fresh.known.ttl = FALSE
  /\ Fresh.op = "none" /\ Fresh.at = "new" /\ Fresh.before = {} /\ Fresh.seen = NoRoute
  /\ Fresh.form = [mode |-> Unset, code |-> Unset] /\ Fresh.edits = FALSE
BY DEF Fresh, TaskFields

LEMMA SaveRouteKeeps ==
  ASSUME Delivering, NEW u \in Users, SaveRoute(u)
  PROVE  Delivering'
<1>1. PICK id \in Ids, body \in Bodies, form \in Forms, edits \in BOOLEAN :
        Starts(u, [Fresh EXCEPT !.op = "save", !.at = IF edits THEN "list" ELSE "write",
                                !.id = id, !.body = body, !.form = form, !.edits = edits])
  BY DEF SaveRoute
<1> DEFINE t == [Fresh EXCEPT !.op = "save", !.at = IF edits THEN "list" ELSE "write",
                              !.id = id, !.body = body, !.form = form, !.edits = edits]
<1>2. /\ DOMAIN t = TaskFields /\ t.calm = TRUE /\ t.unsure = FALSE
      /\ DOMAIN t.known = {"mode", "ttl"} /\ t.known.ttl = FALSE
      /\ t.op = "save" /\ t.at = (IF edits THEN "list" ELSE "write") /\ t.id = id
      /\ t.body = body /\ t.form = form /\ t.edits = edits /\ t.before = {}
      /\ t.seen = NoRoute
  BY FreshTask DEF TaskFields
<1>3. form.code \in Codes \cup {Unset, Blank}
  BY RouteClientsAssumption
<1>4. Starts(u, t)
  BY <1>1
<1> HIDE DEF t
<1>5. TaskTyped(t)
  BY <1>2, <1>3 DEF TaskTyped
<1>6. QED BY <1>2, <1>4, <1>5, StartKeeps

LEMMA ListPreviousKeeps ==
  ASSUME Delivering, NEW u \in Users, ListPrevious(u)
  PROVE  Delivering'
<1> DEFINE t == task[u]
           seen == daemon.routes[t.id]
           goes == Goto(u, "write")
           yes == [goes EXCEPT !.seen = seen]
           no == Goto(u, "refused")
<1>1. t.op = "save" /\ t.at = "list" /\ Read(u, yes, no)
  BY DEF ListPrevious, Runs
<1>2. TaskTyped(t) /\ Kept(t, daemon) /\ Sound(daemon)
  BY Here
<1>3. seen \in (Bodies \ {Invalid}) \cup {NoRoute}
  BY <1>1, <1>2 DEF Sound, DaemonRecords, TaskTyped
<1>4. goes.at = "write" /\ goes.calm = t.calm /\ Alike(goes, t) /\ TaskTyped(goes)
  BY <1>2, GotoAlike
<1>5. no.at = "refused" /\ no.calm = t.calm /\ Alike(no, t) /\ TaskTyped(no)
  BY <1>2, GotoAlike
<1> HIDE DEF seen, goes, no
<1>6. ASSUME t.calm, ~t.unsure, NEW b \in t.before PROVE daemon = b
  BY <1>1, <1>2, <1>6 DEF Kept, Saving
<1>7. Kept(no, daemon)
  BY <1>5, <1>6, SaysRefused DEF Alike
<1>8. /\ DOMAIN yes = TaskFields /\ yes.seen = seen /\ yes.at = "write" /\ yes.op = t.op
      /\ yes.calm = t.calm /\ yes.unsure = t.unsure /\ yes.before = t.before /\ yes.id = t.id
      /\ yes.body = t.body /\ yes.form = t.form /\ yes.edits = t.edits /\ yes.known = t.known
  BY <1>4 DEF TaskTyped, TaskFields, Alike
<1> HIDE DEF yes
<1>9. TaskTyped(yes)
  BY <1>1, <1>2, <1>3, <1>8 DEF TaskTyped
<1>10. ASSUME yes.calm, ~yes.unsure, NEW b \in yes.before
       PROVE  Saving(yes, b, daemon) /\ Delivered(yes, b, daemon)
  <2>1. t.edits /\ yes.seen = b.routes[t.id]
    BY <1>1, <1>2, <1>6, <1>8, <1>10 DEF seen, Kept, Saving
  <2>2. QED BY <1>6, <1>8, <1>10, <2>1 DEF Saving, Delivered
<1>11. Kept(yes, daemon)
  BY <1>1, <1>8, <1>10 DEF Kept
<1>12. QED BY <1>1, <1>5, <1>7, <1>9, <1>11, ReadKeeps

LEMMA WriteRouteKeeps ==
  ASSUME Delivering, NEW u \in Users, WriteRoute(u)
  PROVE  Delivering'
<1> DEFINE t == task[u]
           yes == Goto(u, "gate")
           no == Goto(u, "refused")
           accepts == t.body # Invalid /\ (t.edits \/ ~Exists(t.id))
           after == Put(t.id, t.body)
<1>1. t.op = "save" /\ t.at = "write" /\ Write(u, accepts, after, yes, no)
  BY DEF WriteRoute, Runs
<1>2. TaskTyped(t) /\ Kept(t, daemon) /\ Sound(daemon)
  BY Here
<1>3. yes.at = "gate" /\ yes.calm = t.calm /\ Alike(yes, t) /\ TaskTyped(yes)
  BY <1>2, GotoAlike
<1>4. no.at = "refused" /\ no.calm = t.calm /\ Alike(no, t) /\ TaskTyped(no)
  BY <1>2, GotoAlike
<1> HIDE DEF yes, no
<1>5. ASSUME t.calm, ~t.unsure, NEW b \in t.before
      PROVE  daemon = b /\ t.seen = IF t.edits THEN b.routes[t.id] ELSE NoRoute
  BY <1>1, <1>2, <1>5 DEF Kept, Saving
<1>6. Kept(no, daemon)
  BY <1>4, <1>5, SaysRefused DEF Alike
<1>7. ASSUME accepts PROVE Sound(after) /\ Kept(yes, after)
  <2>1. /\ Sound(after) /\ after.routes = [daemon.routes EXCEPT ![t.id] = t.body]
        /\ after.gates = daemon.gates /\ after.default = daemon.default
        /\ after.tunnel = daemon.tunnel
    <3>1. t.id \in Ids /\ t.body \in (Bodies \ {Invalid}) \cup {NoRoute}
      BY <1>1, <1>2, <1>7 DEF TaskTyped
    <3>2. QED BY <1>2, <3>1, PutSound
  <2> HIDE DEF after
  <2>2. ASSUME yes.calm, ~yes.unsure, NEW b \in yes.before
        PROVE  Saving(yes, b, after) /\ Delivered(yes, b, after)
    <3>1. daemon = b /\ t.seen = IF t.edits THEN b.routes[t.id] ELSE NoRoute
      BY <1>3, <1>5, <2>2 DEF Alike
    <3>2. t.seen = b.routes[t.id] /\ t.body # Invalid
      BY <1>7, <3>1 DEF Exists
    <3>3. OnlyRoute(yes, b, after)
      BY <1>3, <2>1, <3>1 DEF OnlyRoute, Alike
    <3>4. QED BY <1>3, <3>2, <3>3 DEF Saving, Delivered, Alike
  <2>3. Kept(yes, after)
    BY <1>1, <1>3, <2>2 DEF Kept, Alike
  <2>4. QED BY <2>1, <2>3
<1> HIDE DEF accepts, after
<1>8. QED BY <1>1, <1>3, <1>4, <1>6, <1>7, WriteKeeps

LEMMA ReadGateKeeps ==
  ASSUME Delivering, NEW u \in Users, ReadGate(u)
  PROVE  Delivering'
<1> DEFINE t == task[u]
           goes == Goto(u, "sync")
           listed == Listed(t.id)
           yes == [goes EXCEPT !.known = listed]
           no == [goes EXCEPT !.blind = TRUE]
<1>1. t.op = "save" /\ t.at = "gate" /\ Read(u, yes, no)
  BY DEF ReadGate, Runs
<1>2. TaskTyped(t) /\ Kept(t, daemon) /\ Sound(daemon) /\ t.id \in Ids
  BY <1>1, Here DEF TaskTyped
<1>3. goes.at = "sync" /\ goes.calm = t.calm /\ Alike(goes, t) /\ TaskTyped(goes)
  BY <1>2, GotoAlike
<1>4. /\ DOMAIN listed = {"mode", "ttl"} /\ listed.ttl \in BOOLEAN
      /\ daemon.gates[t.id].code # Blank => listed.ttl = EffectiveTtl(daemon, t.id)
  <2>1. /\ daemon.gates[t.id] \in [code : Codes \cup {Blank}, public : BOOLEAN, ttl : BOOLEAN]
        /\ daemon.gates[t.id].public => daemon.gates[t.id].code = Blank
        /\ daemon.default.ttl \in BOOLEAN
    BY <1>2 DEF Sound, DaemonRecords
  <2>2. EffectiveTtl(daemon, t.id) \in BOOLEAN
    BY <2>1 DEF EffectiveTtl
  <2>3. CASE daemon.gates[t.id].public
    BY <2>1, <2>3 DEF Listed
  <2>4. CASE ~daemon.gates[t.id].public /\ daemon.gates[t.id].code # Blank
    BY <2>1, <2>2, <2>4 DEF Listed
  <2>5. CASE /\ ~daemon.gates[t.id].public /\ daemon.gates[t.id].code = Blank
             /\ daemon.default.code # Blank
    BY <2>1, <2>2, <2>5 DEF Listed
  <2>6. CASE /\ ~daemon.gates[t.id].public /\ daemon.gates[t.id].code = Blank
             /\ daemon.default.code = Blank
    BY <2>1, <2>2, <2>6 DEF Listed
  <2>7. QED BY <2>1, <2>3, <2>4, <2>5, <2>6
<1>5. ASSUME t.calm, ~t.unsure, NEW b \in t.before
      PROVE  t.seen = b.routes[t.id] /\ t.body # Invalid /\ OnlyRoute(t, b, daemon)
  BY <1>1, <1>2, <1>5 DEF Kept, Saving
<1>6. /\ DOMAIN yes = TaskFields /\ yes.known = listed /\ yes.at = "sync" /\ yes.op = t.op
      /\ yes.calm = t.calm /\ yes.unsure = t.unsure /\ yes.before = t.before /\ yes.id = t.id
      /\ yes.body = t.body /\ yes.form = t.form /\ yes.seen = t.seen
  BY <1>3 DEF TaskTyped, TaskFields, Alike
<1>7. /\ DOMAIN no = TaskFields /\ no.known = t.known /\ no.at = "sync" /\ no.op = t.op
      /\ no.calm = t.calm /\ no.unsure = t.unsure /\ no.before = t.before /\ no.id = t.id
      /\ no.body = t.body /\ no.form = t.form /\ no.seen = t.seen /\ no.blind
  BY <1>3 DEF TaskTyped, TaskFields, Alike
<1> HIDE DEF goes, listed, yes, no
<1>8. TaskTyped(yes) /\ TaskTyped(no)
  BY <1>1, <1>2, <1>4, <1>6, <1>7 DEF TaskTyped
<1>9. Kept(no, daemon)
  <2>1. ASSUME no.calm, ~no.unsure, NEW b \in no.before
        PROVE  Saving(no, b, daemon) /\ Delivered(no, b, daemon)
    <3>1. t.seen = b.routes[t.id] /\ t.body # Invalid /\ OnlyRoute(t, b, daemon)
      BY <1>5, <1>7, <2>1
    <3>2. OnlyRoute(no, b, daemon)
      BY <1>7, <3>1 DEF OnlyRoute
    <3>3. QED BY <1>7, <3>1, <3>2 DEF Saving, Delivered
  <2>2. QED BY <1>1, <1>7, <2>1 DEF Kept
<1>10. Kept(yes, daemon)
  <2>1. ASSUME yes.calm, ~yes.unsure, NEW b \in yes.before
        PROVE  Saving(yes, b, daemon) /\ Delivered(yes, b, daemon)
    <3>1. t.seen = b.routes[t.id] /\ t.body # Invalid /\ OnlyRoute(t, b, daemon)
      BY <1>5, <1>6, <2>1
    <3>2. OnlyRoute(yes, b, daemon)
      BY <1>6, <3>1 DEF OnlyRoute
    <3>3. b.gates[t.id].code = Blank \/ listed.ttl = EffectiveTtl(b, t.id)
      BY <1>4, <3>1 DEF OnlyRoute, EffectiveTtl
    <3>4. QED BY <1>6, <3>1, <3>2, <3>3 DEF Saving, Delivered
  <2>2. QED BY <1>1, <1>6, <2>1 DEF Kept
<1>11. QED BY <1>1, <1>8, <1>9, <1>10, ReadKeeps

\* The gate that a form asks for.
LEMMA AskedGateIs ==
  ASSUME NEW form, NEW known, form.code \in Codes \cup {Unset, Blank}, known.ttl \in BOOLEAN,
         NEW gate \in AskedGate(form, known)
  PROVE  /\ gate \in [code : Codes \cup {Blank}, public : BOOLEAN, ttl : BOOLEAN]
         /\ gate.public => gate.code = Blank /\ ~gate.ttl
         /\ form.mode = "public" => gate.public
         /\ form.mode = "inherit" => gate = NoGate
         /\ form.mode \notin {"public", "inherit"} =>
              /\ gate.code = form.code /\ ~gate.public
              /\ form.mode = "custom" => gate.ttl = known.ttl
<1>1. CASE form.mode = "public"
  BY <1>1 DEF AskedGate, NoGate, Unset, Blank
<1>2. CASE form.mode = "inherit"
  <2>1. gate = NoGate
    BY <1>2 DEF AskedGate, Unset
  <2>2. QED BY <1>2, <2>1, NoGateTyped
<1>3. CASE form.mode = "custom" /\ form.code \in Codes
  BY <1>3 DEF AskedGate, NoGate, Unset, Blank
<1>4. CASE form.mode = Unset /\ form.code # Unset
  BY <1>4 DEF AskedGate, NoGate, Unset, Blank
<1>5. CASE /\ form.mode \notin {"public", "inherit"}
           /\ ~(form.mode = "custom" /\ form.code \in Codes)
           /\ ~(form.mode = Unset /\ form.code # Unset)
  BY <1>5 DEF AskedGate, Unset
<1>6. QED BY <1>1, <1>2, <1>3, <1>4, <1>5

LEMMA GateSet ==
  ASSUME NEW t, NEW b, NEW d, NEW gate, t.form.code \in Codes \cup {Unset, Blank},
         d.gates[t.id] = gate, d.default = b.default,
         t.blind \/ b.gates[t.id].code = Blank \/ t.known.ttl = EffectiveTtl(b, t.id),
         t.form.mode = "public" => gate.public,
         t.form.mode = "inherit" => gate = NoGate,
         t.form.mode \notin {"public", "inherit"} =>
              /\ gate.code = t.form.code /\ ~gate.public
              /\ t.form.mode = "custom" => gate.ttl = t.known.ttl,
         gate.code \in Codes \cup {Blank}
  PROVE  GateKept(t, b, d)
<1>1. CASE t.form.mode = "inherit"
  BY <1>1 DEF GateKept
<1>2. CASE t.form.mode = "public"
  BY <1>2 DEF GateKept
<1>3. CASE t.form.mode \notin {"public", "inherit"} /\ t.form.code \in Codes
  <2>1. gate.code = t.form.code /\ ~gate.public /\ (t.form.mode = "custom" => gate.ttl = t.known.ttl)
    BY <1>3
  <2>2. t.form.mode = "custom" /\ b.gates[t.id].code # Blank /\ ~t.blind =>
              EffectiveTtl(d, t.id) = EffectiveTtl(b, t.id)
    BY <2>1 DEF EffectiveTtl
  <2>3. t.form.code # Unset /\ t.form.code # Blank
    BY <1>3, RouteClientsAssumption
  <2>4. QED BY <1>3, <2>1, <2>2, <2>3 DEF GateKept
<1>4. CASE t.form.mode \notin {"public", "inherit"} /\ t.form.code \notin Codes
  <2>1. t.form.code = Blank /\ gate.code = Blank
    BY <1>4, RouteClientsAssumption DEF Unset, Blank
  <2>2. t.form.code # Unset
    BY <2>1 DEF Unset, Blank
  <2>3. QED BY <1>4, <2>1, <2>2 DEF GateKept
<1>5. QED BY <1>1, <1>2, <1>3, <1>4

LEMMA SyncGateKeeps ==
  ASSUME Delivering, NEW u \in Users, SyncGate(u)
  PROVE  Delivering'
<1> DEFINE t == task[u]
           show == Goto(u, "show")
           undo == Goto(u, "undo")
<1>1. /\ t.op = "save" /\ t.at = "sync"
      /\ \/ \E gate \in AskedGate(t.form, t.known) :
              Write(u, Exists(t.id), SetGate(t.id, gate), show, undo)
         \/ /\ UNCHANGED <<daemon, losses>>
            /\ \/ Moves(u, show) /\ LeavesGate(t.form, t.known)
               \/ Moves(u, undo)
  BY DEF SyncGate, Runs
<1>2. TaskTyped(t) /\ Kept(t, daemon) /\ Sound(daemon) /\ t.id \in Ids
  BY <1>1, Here DEF TaskTyped
<1>3. show.at = "show" /\ show.calm = t.calm /\ Alike(show, t) /\ TaskTyped(show)
  BY <1>2, GotoAlike
<1>4. undo.at = "undo" /\ undo.calm = t.calm /\ Alike(undo, t) /\ TaskTyped(undo)
  BY <1>2, GotoAlike
<1> HIDE DEF show, undo
<1>5. ASSUME t.calm, ~t.unsure, NEW b \in t.before
      PROVE  /\ t.seen = b.routes[t.id] /\ t.body # Invalid /\ OnlyRoute(t, b, daemon)
             /\ t.blind \/ b.gates[t.id].code = Blank \/ t.known.ttl = EffectiveTtl(b, t.id)
             /\ Sound(b) /\ daemon.routes[t.id] = t.body
  <2>1. /\ t.seen = b.routes[t.id] /\ t.body # Invalid /\ OnlyRoute(t, b, daemon)
        /\ t.blind \/ b.gates[t.id].code = Blank \/ t.known.ttl = EffectiveTtl(b, t.id)
    BY <1>1, <1>2, <1>5 DEF Kept, Saving
  <2>2. Sound(b)
    BY <1>2, <1>5 DEF TaskTyped
  <2>3. QED BY <1>2, <2>1, <2>2 DEF OnlyRoute, Sound, DaemonRecords
<1>6. Kept(undo, daemon)
  <2>1. ASSUME undo.calm, ~undo.unsure, NEW b \in undo.before
        PROVE  Saving(undo, b, daemon) /\ Delivered(undo, b, daemon)
    <3>1. t.seen = b.routes[t.id] /\ t.body # Invalid /\ OnlyRoute(t, b, daemon)
      BY <1>4, <1>5, <2>1 DEF Alike
    <3>2. OnlyRoute(undo, b, daemon)
      BY <1>4, <3>1 DEF OnlyRoute, Alike
    <3>3. QED BY <1>4, <3>1, <3>2 DEF Saving, Delivered, Alike
  <2>2. QED BY <1>1, <1>4, <2>1 DEF Kept, Alike
<1>7. ASSUME NEW d, \A b \in t.before : t.calm /\ ~t.unsure =>
                      d.routes[t.id] = t.body /\ GateKept(t, b, d)
      PROVE  Kept(show, d)
  <2>1. ASSUME show.calm, ~show.unsure, NEW b \in show.before
        PROVE  Saving(show, b, d) /\ Delivered(show, b, d)
    <3>1. d.routes[t.id] = t.body /\ GateKept(t, b, d)
      BY <1>3, <1>7, <2>1 DEF Alike
    <3>2. GateKept(show, b, d)
      BY <1>3, <3>1 DEF GateKept, Alike
    <3>3. QED BY <1>3, <3>1, <3>2 DEF Saving, Delivered, Alike
  <2>2. QED BY <1>1, <1>3, <2>1 DEF Kept, Alike
<1>8. ASSUME NEW gate \in AskedGate(t.form, t.known),
             Write(u, Exists(t.id), SetGate(t.id, gate), show, undo)
      PROVE  Delivering'
  <2> DEFINE after == SetGate(t.id, gate)
  <2>1. /\ gate \in [code : Codes \cup {Blank}, public : BOOLEAN, ttl : BOOLEAN]
        /\ gate.public => gate.code = Blank /\ ~gate.ttl
        /\ t.form.mode = "public" => gate.public
        /\ t.form.mode = "inherit" => gate = NoGate
        /\ t.form.mode \notin {"public", "inherit"} =>
             /\ gate.code = t.form.code /\ ~gate.public
             /\ t.form.mode = "custom" => gate.ttl = t.known.ttl
        /\ t.form.code \in Codes \cup {Unset, Blank}
    <3>1. t.form.code \in Codes \cup {Unset, Blank} /\ t.known.ttl \in BOOLEAN
      BY <1>1, <1>2 DEF TaskTyped
    <3>2. QED BY <3>1, AskedGateIs
  <2>2. /\ Sound(after) /\ after.routes = daemon.routes
        /\ after.gates = [daemon.gates EXCEPT ![t.id] = gate] /\ after.default = daemon.default
    BY <1>2, <2>1, SetGateSound
  <2>3. after.gates[t.id] = gate
    BY <1>2, <2>2 DEF Sound, DaemonRecords
  <2> HIDE DEF after
  <2>4. ASSUME t.calm, ~t.unsure, NEW b \in t.before
        PROVE  after.routes[t.id] = t.body /\ GateKept(t, b, after)
    <3>1. /\ after.routes[t.id] = t.body /\ after.default = b.default
          /\ t.blind \/ b.gates[t.id].code = Blank \/ t.known.ttl = EffectiveTtl(b, t.id)
      BY <1>5, <2>2, <2>4 DEF OnlyRoute
    <3>2. gate.code \in Codes \cup {Blank}
      BY <2>1
    <3>3. GateKept(t, b, after)
      BY <2>1, <2>3, <3>1, <3>2, GateSet
    <3>4. QED BY <3>1, <3>3
  <2>5. Kept(show, after)
    BY <1>7, <2>4
  <2>6. Write(u, Exists(t.id), after, show, undo)
    BY <1>8 DEF after
  <2>7. QED BY <1>3, <1>4, <1>6, <2>2, <2>5, <2>6, WriteKeeps
<1>9. ASSUME UNCHANGED <<daemon, losses>>, Moves(u, show), LeavesGate(t.form, t.known)
      PROVE  Delivering'
  <2>1. ASSUME t.calm, ~t.unsure, NEW b \in t.before
        PROVE  daemon.routes[t.id] = t.body /\ GateKept(t, b, daemon)
    <3>1. daemon.routes[t.id] = t.body /\ daemon.gates = b.gates
      BY <1>5, <2>1 DEF OnlyRoute
    <3>2. t.form.mode \in {"custom", Unset} /\ t.form.code \notin Codes
      BY <1>9, RouteClientsAssumption DEF LeavesGate
    <3>3. QED BY <3>1, <3>2 DEF GateKept, Unset
  <2>2. Kept(show, daemon)
    BY <1>7, <2>1
  <2>3. QED BY <1>3, <1>9, <2>2, StayKeeps
<1>10. ASSUME UNCHANGED <<daemon, losses>>, Moves(u, undo) PROVE Delivering'
  BY <1>4, <1>6, <1>10, StayKeeps
<1>11. QED BY <1>1, <1>8, <1>9, <1>10

\* Two daemons that differ at most in gates that are left of routes that are gone.
LEMMA VisibleSame ==
  ASSUME NEW b, NEW d, Sound(b), Sound(d), d.routes = b.routes, d.default = b.default,
         d.tunnel = b.tunnel, \A i \in Ids : b.routes[i] # NoRoute => d.gates[i] = b.gates[i]
  PROVE  Visible(d) = Visible(b)
<1> DEFINE left(e) == [i \in Ids |-> IF e.routes[i] = NoRoute THEN NoGate ELSE e.gates[i]]
<1>1. left(d) = left(b)
  OBVIOUS
<1>2. Visible(d) = [d EXCEPT !.gates = left(d)] /\ Visible(b) = [b EXCEPT !.gates = left(b)]
  BY DEF Visible
<1> HIDE DEF left
<1>3. QED BY <1>1, <1>2 DEF Sound, DaemonRecords

LEMMA UndoRouteKeeps ==
  ASSUME Delivering, NEW u \in Users, UndoRoute(u)
  PROVE  Delivering'
<1> DEFINE t == task[u]
           yes == Goto(u, "undone")
           no == Goto(u, "stuck")
           after == IF t.seen # NoRoute THEN Put(t.id, t.seen) ELSE Delete(t.id)
<1>1. t.op = "save" /\ t.at = "undo" /\ Write(u, Exists(t.id), after, yes, no)
  BY DEF UndoRoute, Runs
<1>2. TaskTyped(t) /\ Kept(t, daemon) /\ Sound(daemon) /\ t.id \in Ids
  BY <1>1, Here DEF TaskTyped
<1>3. yes.at = "undone" /\ yes.calm = t.calm /\ Alike(yes, t) /\ TaskTyped(yes)
  BY <1>2, GotoAlike
<1>4. no.at = "stuck" /\ TaskTyped(no)
  BY <1>2, GotoAlike
<1> HIDE DEF yes, no
<1>5. Kept(no, daemon)
  BY <1>4, SaysNothing
<1>6. t.seen \in (Bodies \ {Invalid}) \cup {NoRoute}
  BY <1>1, <1>2 DEF TaskTyped
<1>7. /\ Sound(after) /\ after.routes = [daemon.routes EXCEPT ![t.id] = t.seen]
      /\ after.default = daemon.default /\ after.tunnel = daemon.tunnel
      /\ \A i \in Ids : i # t.id \/ t.seen # NoRoute => after.gates[i] = daemon.gates[i]
  <2>1. CASE t.seen # NoRoute
    BY <1>2, <1>6, <2>1, PutSound
  <2>2. CASE t.seen = NoRoute
    <3>1. after = Delete(t.id)
      BY <2>2
    <3> HIDE DEF after
    <3>2. after.gates = [daemon.gates EXCEPT ![t.id] = NoGate]
      BY <1>2, <3>1, DeleteSound
    <3>3. \A i \in Ids : i # t.id => after.gates[i] = daemon.gates[i]
      BY <1>2, <3>2 DEF Sound, DaemonRecords
    <3>4. QED BY <1>2, <2>2, <3>1, <3>3, DeleteSound
  <2>3. QED BY <2>1, <2>2
<1> HIDE DEF after
<1>8. ASSUME yes.calm, ~yes.unsure, NEW b \in yes.before PROVE Visible(after) = Visible(b)
  <2>1. t.seen = b.routes[t.id] /\ OnlyRoute(t, b, daemon) /\ Sound(b)
    BY <1>1, <1>2, <1>3, <1>8 DEF Kept, Saving, Alike, TaskTyped
  <2>2. after.routes = b.routes
    BY <1>2, <1>7, <2>1 DEF OnlyRoute, Sound, DaemonRecords
  <2>3. \A i \in Ids : b.routes[i] # NoRoute => after.gates[i] = b.gates[i]
    BY <1>7, <2>1 DEF OnlyRoute
  <2>4. after.default = b.default /\ after.tunnel = b.tunnel
    BY <1>7, <2>1 DEF OnlyRoute
  <2>5. QED BY <1>7, <2>1, <2>2, <2>3, <2>4, VisibleSame
<1>9. Kept(yes, after)
  BY <1>1, <1>3, <1>8 DEF Kept, Saving, Delivered, Alike
<1>10. QED BY <1>1, <1>3, <1>4, <1>5, <1>7, <1>9, WriteKeeps

LEMMA ShowRoutesKeeps ==
  ASSUME Delivering, NEW u \in Users, ShowRoutes(u)
  PROVE  Delivering'
<1> DEFINE t == task[u]
           yes == Goto(u, "saved")
           no == Goto(u, "stuck")
<1>1. t.op = "save" /\ t.at = "show" /\ Read(u, yes, no)
  BY DEF ShowRoutes, Runs
<1>2. TaskTyped(t) /\ Kept(t, daemon)
  BY Here
<1>3. yes.at = "saved" /\ yes.calm = t.calm /\ Alike(yes, t) /\ TaskTyped(yes)
  BY <1>2, GotoAlike
<1>4. no.at = "stuck" /\ TaskTyped(no)
  BY <1>2, GotoAlike
<1> HIDE DEF yes, no
<1>5. Kept(no, daemon)
  BY <1>4, SaysNothing
<1>6. ASSUME yes.calm, ~yes.unsure, NEW b \in yes.before
      PROVE  Saving(yes, b, daemon) /\ Delivered(yes, b, daemon)
  <2>1. daemon.routes[t.id] = t.body /\ GateKept(t, b, daemon)
    BY <1>1, <1>2, <1>3, <1>6 DEF Kept, Saving, Alike
  <2>2. GateKept(yes, b, daemon)
    BY <1>3, <2>1 DEF GateKept, Alike
  <2>3. QED BY <1>3, <2>1, <2>2 DEF Saving, Delivered, Alike
<1>7. Kept(yes, daemon)
  BY <1>1, <1>3, <1>6 DEF Kept, Alike
<1>8. QED BY <1>1, <1>3, <1>4, <1>5, <1>7, ReadKeeps

-----------------------------------------------------------------------------
(* The steps of set_default_route_access *)

LEMMA SaveDefaultKeeps ==
  ASSUME Delivering, NEW u \in Users, SaveDefault(u)
  PROVE  Delivering'
<1>1. PICK code \in Codes \cup {Blank} :
        Starts(u, [Fresh EXCEPT !.op = "default", !.at = "gate", !.form.code = code])
  BY DEF SaveDefault
<1> DEFINE t == [Fresh EXCEPT !.op = "default", !.at = "gate", !.form.code = code]
<1>2. /\ DOMAIN t = TaskFields /\ t.calm = TRUE /\ t.unsure = FALSE
      /\ DOMAIN t.known = {"mode", "ttl"} /\ t.known.ttl = FALSE
      /\ t.op = "default" /\ t.at = "gate" /\ t.form = [Fresh.form EXCEPT !.code = code]
      /\ t.before = {}
  BY FreshTask DEF TaskFields
<1>3. Starts(u, t)
  BY <1>1
<1> HIDE DEF t
<1>4. t.form.code = code
  BY <1>2, FreshTask
<1>5. TaskTyped(t)
  BY <1>2, <1>4 DEF TaskTyped
<1>6. QED BY <1>2, <1>3, <1>5, StartKeeps

LEMMA ReadDefaultKeeps ==
  ASSUME Delivering, NEW u \in Users, ReadDefault(u)
  PROVE  Delivering'
<1> DEFINE t == task[u]
           goes == Goto(u, "sync")
           ttl == daemon.default.ttl
           yes == [goes EXCEPT !.known.ttl = ttl]
           no == Goto(u, "refused")
<1>1. t.op = "default" /\ t.at = "gate" /\ Read(u, yes, no)
  BY DEF ReadDefault, Runs
<1>2. TaskTyped(t) /\ Kept(t, daemon) /\ Sound(daemon)
  BY Here
<1>3. goes.at = "sync" /\ goes.calm = t.calm /\ Alike(goes, t) /\ TaskTyped(goes)
  BY <1>2, GotoAlike
<1>4. no.at = "refused" /\ no.calm = t.calm /\ Alike(no, t) /\ TaskTyped(no)
  BY <1>2, GotoAlike
<1>5. ttl \in BOOLEAN
  BY <1>2 DEF Sound, DaemonRecords
<1> HIDE DEF goes, no
<1>6. /\ DOMAIN yes = TaskFields /\ yes.known = [goes.known EXCEPT !.ttl = ttl]
      /\ yes.at = "sync" /\ yes.op = t.op /\ yes.calm = t.calm /\ yes.unsure = t.unsure
      /\ yes.before = t.before /\ yes.id = t.id /\ yes.form = t.form
  BY <1>3 DEF TaskTyped, TaskFields, Alike
<1> HIDE DEF yes
<1>7. DOMAIN yes.known = {"mode", "ttl"} /\ yes.known.ttl = ttl
  BY <1>3, <1>6 DEF TaskTyped
<1> HIDE DEF ttl
<1>8. TaskTyped(yes)
  BY <1>1, <1>2, <1>5, <1>6, <1>7 DEF TaskTyped
<1>9. ASSUME t.calm, ~t.unsure, NEW b \in t.before PROVE daemon = b
  BY <1>1, <1>2, <1>9 DEF Kept, Defaulting
<1>10. Kept(no, daemon)
  BY <1>4, <1>9, SaysRefused DEF Alike
<1>11. ASSUME yes.calm, ~yes.unsure, NEW b \in yes.before
       PROVE  Defaulting(yes, b, daemon) /\ Delivered(yes, b, daemon)
  BY <1>6, <1>7, <1>9, <1>11 DEF Defaulting, Delivered, ttl
<1>12. Kept(yes, daemon)
  BY <1>1, <1>6, <1>11 DEF Kept
<1>13. QED BY <1>1, <1>4, <1>8, <1>10, <1>12, ReadKeeps

LEMMA WriteDefaultKeeps ==
  ASSUME Delivering, NEW u \in Users, WriteDefault(u)
  PROVE  Delivering'
<1> DEFINE t == task[u]
           yes == Goto(u, "saved")
           no == Goto(u, "stuck")
           default == [code |-> t.form.code, ttl |-> t.known.ttl]
           after == [daemon EXCEPT !.default = default]
<1>1. t.op = "default" /\ t.at = "sync" /\ Write(u, TRUE, after, yes, no)
  BY DEF WriteDefault, Runs
<1>2. TaskTyped(t) /\ Kept(t, daemon) /\ Sound(daemon)
  BY Here
<1>3. yes.at = "saved" /\ yes.calm = t.calm /\ Alike(yes, t) /\ TaskTyped(yes)
  BY <1>2, GotoAlike
<1>4. no.at = "stuck" /\ TaskTyped(no)
  BY <1>2, GotoAlike
<1> HIDE DEF yes, no
<1>5. Kept(no, daemon)
  BY <1>4, SaysNothing
<1>6. default \in [code : Codes \cup {Blank}, ttl : BOOLEAN]
  BY <1>1, <1>2 DEF TaskTyped
<1> HIDE DEF default
<1>7. Sound(after) /\ after.default = default
  BY <1>2, <1>6, DefaultSound
<1> HIDE DEF after
<1>8. ASSUME yes.calm, ~yes.unsure, NEW b \in yes.before
      PROVE  Defaulting(yes, b, after) /\ Delivered(yes, b, after)
  <2>1. t.known.ttl = b.default.ttl
    BY <1>1, <1>2, <1>3, <1>8 DEF Kept, Defaulting, Alike
  <2>2. QED BY <1>3, <1>7, <2>1 DEF Defaulting, Delivered, Alike, default
<1>9. Kept(yes, after)
  BY <1>1, <1>3, <1>8 DEF Kept, Alike
<1>10. QED BY <1>1, <1>3, <1>4, <1>5, <1>7, <1>9, WriteKeeps

-----------------------------------------------------------------------------
(* The steps of expose *)

LEMMA ExposeKeeps ==
  ASSUME Delivering, NEW u \in Users, Expose(u)
  PROVE  Delivering'
<1>1. PICK id \in Ids, body \in Bodies, target \in Targets, restart \in BOOLEAN, wait \in BOOLEAN :
        Starts(u, [Fresh EXCEPT !.op = "expose", !.at = "list", !.id = id, !.body = body,
                                !.target = target, !.flag = restart, !.wait = wait])
  BY DEF Expose
<1> DEFINE t == [Fresh EXCEPT !.op = "expose", !.at = "list", !.id = id, !.body = body,
                              !.target = target, !.flag = restart, !.wait = wait]
<1>2. /\ DOMAIN t = TaskFields /\ t.calm = TRUE /\ t.unsure = FALSE
      /\ DOMAIN t.known = {"mode", "ttl"} /\ t.known.ttl = FALSE
      /\ t.op = "expose" /\ t.at = "list" /\ t.id = id
      /\ t.body = body /\ t.target = target /\ t.before = {}
  BY FreshTask DEF TaskFields
<1>3. Starts(u, t)
  BY <1>1
<1> HIDE DEF t
<1>4. TaskTyped(t)
  BY <1>2 DEF TaskTyped
<1>5. QED BY <1>2, <1>3, <1>4, StartKeeps

LEMMA ListForExposeKeeps ==
  ASSUME Delivering, NEW u \in Users, ListForExpose(u)
  PROVE  Delivering'
<1> DEFINE t == task[u]
           seen == daemon.routes[t.id]
           goes == Goto(u, "status")
           yes == [goes EXCEPT !.seen = seen]
           no == Goto(u, "refused")
<1>1. t.op = "expose" /\ t.at = "list" /\ Read(u, yes, no)
  BY DEF ListForExpose, Runs
<1>2. TaskTyped(t) /\ Kept(t, daemon)
  BY Here
<1>3. goes.at = "status" /\ goes.calm = t.calm /\ Alike(goes, t) /\ TaskTyped(goes)
  BY <1>2, GotoAlike
<1>4. no.at = "refused" /\ no.calm = t.calm /\ Alike(no, t) /\ TaskTyped(no)
  BY <1>2, GotoAlike
<1> HIDE DEF goes, no
<1>5. /\ DOMAIN yes = TaskFields /\ yes.seen = seen /\ yes.at = "status" /\ yes.op = t.op
      /\ yes.calm = t.calm /\ yes.unsure = t.unsure /\ yes.before = t.before /\ yes.id = t.id
      /\ yes.body = t.body /\ yes.target = t.target /\ yes.known = t.known
  BY <1>3 DEF TaskTyped, TaskFields, Alike
<1> HIDE DEF seen, yes
<1>6. TaskTyped(yes)
  BY <1>1, <1>2, <1>5 DEF TaskTyped
<1>7. ASSUME t.calm, ~t.unsure, NEW b \in t.before PROVE daemon = b
  BY <1>1, <1>2, <1>7 DEF Kept, Exposing
<1>8. Kept(no, daemon)
  BY <1>4, <1>7, SaysRefused DEF Alike
<1>9. ASSUME yes.calm, ~yes.unsure, NEW b \in yes.before
      PROVE  Exposing(yes, b, daemon) /\ Delivered(yes, b, daemon)
  BY <1>5, <1>7, <1>9 DEF Exposing, Delivered, seen
<1>10. Kept(yes, daemon)
  BY <1>1, <1>5, <1>9 DEF Kept
<1>11. QED BY <1>1, <1>4, <1>6, <1>8, <1>10, ReadKeeps

LEMMA StatusForExposeKeeps ==
  ASSUME Delivering, NEW u \in Users, StatusForExpose(u)
  PROVE  Delivering'
<1> DEFINE t == task[u]
           action == TunnelAction(daemon.tunnel, t.target, t.flag)
           yes == [t EXCEPT !.plan = action,
                            !.at = IF action = "blocked" THEN "refused" ELSE "write"]
           no == Goto(u, "refused")
<1>1. t.op = "expose" /\ t.at = "status" /\ Read(u, yes, no)
  BY DEF StatusForExpose, Runs
<1>2. TaskTyped(t) /\ Kept(t, daemon)
  BY Here
<1>3. no.at = "refused" /\ no.calm = t.calm /\ Alike(no, t) /\ TaskTyped(no)
  BY <1>2, GotoAlike
<1>4. action \in {"start", "noop", "restart", "blocked"}
  BY DEF TunnelAction
<1> HIDE DEF no, action
<1>5. /\ DOMAIN yes = TaskFields /\ yes.plan = action /\ yes.op = t.op
      /\ yes.at = (IF action = "blocked" THEN "refused" ELSE "write")
      /\ yes.calm = t.calm /\ yes.unsure = t.unsure /\ yes.before = t.before /\ yes.id = t.id
      /\ yes.body = t.body /\ yes.target = t.target /\ yes.known = t.known
      /\ yes.seen = t.seen /\ yes.flag = t.flag
  BY <1>2 DEF TaskTyped, TaskFields
<1> HIDE DEF yes
<1>6. TaskTyped(yes)
  BY <1>1, <1>2, <1>5 DEF TaskTyped
<1>7. ASSUME t.calm, ~t.unsure, NEW b \in t.before PROVE daemon = b /\ t.seen = b.routes[t.id]
  BY <1>1, <1>2, <1>7 DEF Kept, Exposing
<1>8. Kept(no, daemon)
  BY <1>3, <1>7, SaysRefused DEF Alike
<1>9. CASE action = "blocked"
  <2>1. Kept(yes, daemon)
    BY <1>5, <1>7, <1>9, SaysRefused
  <2>2. QED BY <1>1, <1>3, <1>6, <1>8, <2>1, ReadKeeps
<1>10. CASE action # "blocked"
  <2>1. ASSUME yes.calm, ~yes.unsure, NEW b \in yes.before
        PROVE  Exposing(yes, b, daemon) /\ Delivered(yes, b, daemon)
    <3>1. daemon = b /\ t.seen = b.routes[t.id]
      BY <1>5, <1>7, <2>1
    <3>2. yes.plan \in {"start", "noop", "restart"}
      BY <1>4, <1>5, <1>10
    <3>3. yes.plan = TunnelAction(b.tunnel, yes.target, yes.flag)
      BY <1>5, <3>1 DEF action
    <3>4. QED BY <1>5, <1>10, <3>1, <3>2, <3>3 DEF Exposing, Delivered
  <2>2. Kept(yes, daemon)
    BY <1>1, <1>5, <2>1 DEF Kept
  <2>3. QED BY <1>1, <1>3, <1>6, <1>8, <2>2, ReadKeeps
<1>11. QED BY <1>9, <1>10

LEMMA ExposeRouteKeeps ==
  ASSUME Delivering, NEW u \in Users, ExposeRoute(u)
  PROVE  Delivering'
<1> DEFINE t == task[u]
           next == AfterRoute(t.plan)
           yes == Goto(u, next)
           no == Goto(u, "refused")
           after == Put(t.id, t.body)
<1>1. /\ t.op = "expose" /\ t.at = "write"
      /\ \/ t.seen = t.body /\ UNCHANGED <<daemon, losses>> /\ Moves(u, yes)
         \/ Write(u, t.body # Invalid, after, yes, no)
  BY DEF ExposeRoute, Runs
<1>2. TaskTyped(t) /\ Kept(t, daemon) /\ Sound(daemon) /\ t.id \in Ids /\ t.body \in Bodies
  BY <1>1, Here DEF TaskTyped
<1>3. yes.at = next /\ yes.calm = t.calm /\ Alike(yes, t) /\ TaskTyped(yes)
  BY <1>2, GotoAlike
<1>4. no.at = "refused" /\ no.calm = t.calm /\ Alike(no, t) /\ TaskTyped(no)
  BY <1>2, GotoAlike
<1> HIDE DEF yes, no
<1>5. ASSUME t.calm, ~t.unsure, NEW b \in t.before
      PROVE  /\ daemon = b /\ t.seen = b.routes[t.id] /\ t.plan \in {"start", "noop", "restart"}
             /\ t.plan = TunnelAction(daemon.tunnel, t.target, t.flag)
  BY <1>1, <1>2, <1>5 DEF Kept, Exposing
<1>6. ASSUME t.calm, ~t.unsure, NEW b \in t.before
      PROVE  /\ next \in {"start", "stop", "ready"}
             /\ next = "start" => daemon.tunnel.state = "down"
             /\ next = "ready" => /\ daemon.tunnel.state \in {"starting", "up"}
                                  /\ daemon.tunnel.target = t.target
  <2>1. daemon.tunnel.state \in {"down", "starting", "up"}
    BY <1>2 DEF Sound, DaemonRecords
  <2>2. CASE t.plan = "start"
    BY <1>5, <1>6, <2>2 DEF AfterRoute, TunnelAction
  <2>3. CASE t.plan = "restart"
    BY <2>3 DEF AfterRoute
  <2>4. CASE t.plan = "noop"
    <3>1. next = "ready"
      BY <2>4 DEF AfterRoute
    <3>2. daemon.tunnel.state # "down" /\ daemon.tunnel.target = t.target
      BY <1>5, <1>6, <2>4 DEF TunnelAction
    <3>3. QED BY <2>1, <3>1, <3>2
  <2>5. QED BY <1>5, <1>6, <2>2, <2>3, <2>4
<1> HIDE DEF next
<1>7. ASSUME NEW d, d.tunnel = daemon.tunnel,
             t.calm /\ ~t.unsure => \A b \in t.before : d.routes[t.id] = t.body
      PROVE  Kept(yes, d)
  <2>1. ASSUME yes.calm, ~yes.unsure, NEW b \in yes.before
        PROVE  Exposing(yes, b, d) /\ Delivered(yes, b, d)
    <3>1. /\ next \in {"start", "stop", "ready"}
          /\ next = "start" => d.tunnel.state = "down"
          /\ next = "ready" => /\ d.tunnel.state \in {"starting", "up"}
                               /\ d.tunnel.target = t.target
          /\ d.routes[t.id] = t.body
      BY <1>3, <1>6, <1>7, <2>1 DEF Alike
    <3>2. QED BY <1>3, <3>1 DEF Exposing, Delivered, Alike
  <2>2. QED BY <1>1, <1>3, <2>1 DEF Kept, Alike
<1>8. Kept(no, daemon)
  BY <1>4, <1>5, SaysRefused DEF Alike
<1>9. CASE t.seen = t.body /\ UNCHANGED <<daemon, losses>> /\ Moves(u, yes)
  <2>1. Kept(yes, daemon)
    BY <1>5, <1>7, <1>9
  <2>2. QED BY <1>3, <1>9, <2>1, StayKeeps
<1>10. CASE Write(u, t.body # Invalid, after, yes, no)
  <2>1. ASSUME t.body # Invalid PROVE Sound(after) /\ Kept(yes, after)
    <3>1. /\ Sound(after) /\ after.routes = [daemon.routes EXCEPT ![t.id] = t.body]
          /\ after.tunnel = daemon.tunnel
      BY <1>2, <2>1, PutSound
    <3> HIDE DEF after
    <3>2. after.routes[t.id] = t.body
      BY <1>2, <3>1 DEF Sound, DaemonRecords
    <3>3. QED BY <1>7, <3>1, <3>2
  <2> HIDE DEF after
  <2>2. QED BY <1>3, <1>4, <1>8, <1>10, <2>1, WriteKeeps
<1>11. QED BY <1>1, <1>9, <1>10

LEMMA ExposeStopKeeps ==
  ASSUME Delivering, NEW u \in Users, ExposeStop(u)
  PROVE  Delivering'
<1> DEFINE t == task[u]
           yes == Goto(u, "start")
           no == Goto(u, "failed")
           after == SetState("down")
<1>1. t.op = "expose" /\ t.at = "stop" /\ Write(u, TRUE, after, yes, no)
  BY DEF ExposeStop, Runs
<1>2. TaskTyped(t) /\ Kept(t, daemon) /\ Sound(daemon)
  BY Here
<1>3. yes.at = "start" /\ yes.calm = t.calm /\ Alike(yes, t) /\ TaskTyped(yes)
  BY <1>2, GotoAlike
<1>4. no.at = "failed" /\ TaskTyped(no)
  BY <1>2, GotoAlike
<1> HIDE DEF yes, no
<1>5. Kept(no, daemon)
  BY <1>4, SaysNothing
<1>6. Sound(after) /\ after.routes = daemon.routes /\ after.tunnel.state = "down"
  BY <1>2, SetStateSound
<1> HIDE DEF after
<1>7. ASSUME yes.calm, ~yes.unsure, NEW b \in yes.before
      PROVE  Exposing(yes, b, after) /\ Delivered(yes, b, after)
  <2>1. daemon.routes[t.id] = t.body
    BY <1>1, <1>2, <1>3, <1>7 DEF Kept, Exposing, Alike
  <2>2. QED BY <1>3, <1>6, <2>1 DEF Exposing, Delivered, Alike
<1>8. Kept(yes, after)
  BY <1>1, <1>3, <1>7 DEF Kept, Alike
<1>9. QED BY <1>1, <1>3, <1>4, <1>5, <1>6, <1>8, WriteKeeps

LEMMA BeginStartKeeps ==
  ASSUME Delivering, NEW u \in Users, BeginStart(u)
  PROVE  Delivering'
<1> DEFINE t == task[u]
           yes == Goto(u, "starting")
           no == Goto(u, "failed")
           tunnel == [state |-> "starting", target |-> t.target]
           after == [daemon EXCEPT !.tunnel = tunnel]
<1>1. /\ t.op = "expose" /\ t.at = "start"
      /\ Write(u, daemon.tunnel.state = "down", after, yes, no)
  BY DEF BeginStart, Runs
<1>2. TaskTyped(t) /\ Kept(t, daemon) /\ Sound(daemon)
  BY Here
<1>3. yes.at = "starting" /\ yes.calm = t.calm /\ Alike(yes, t) /\ TaskTyped(yes)
  BY <1>2, GotoAlike
<1>4. no.at = "failed" /\ TaskTyped(no)
  BY <1>2, GotoAlike
<1> HIDE DEF yes, no
<1>5. Kept(no, daemon)
  BY <1>4, SaysNothing
<1>6. /\ tunnel \in [state : {"down", "starting", "up"}, target : Targets]
      /\ tunnel.state = "starting" /\ tunnel.target = t.target
  BY <1>1, <1>2 DEF TaskTyped
<1> HIDE DEF tunnel
<1>7. Sound(after) /\ after.routes = daemon.routes /\ after.tunnel = tunnel
  BY <1>2, <1>6, TunnelSound
<1> HIDE DEF after
<1>8. ASSUME yes.calm, ~yes.unsure, NEW b \in yes.before
      PROVE  Exposing(yes, b, after) /\ Delivered(yes, b, after)
  <2>1. daemon.routes[t.id] = t.body
    BY <1>1, <1>2, <1>3, <1>8 DEF Kept, Exposing, Alike
  <2>2. QED BY <1>3, <1>6, <1>7, <2>1 DEF Exposing, Delivered, Alike
<1>9. Kept(yes, after)
  BY <1>1, <1>3, <1>8 DEF Kept, Alike
<1>10. QED BY <1>1, <1>3, <1>4, <1>5, <1>7, <1>9, WriteKeeps

LEMMA EndStartKeeps ==
  ASSUME Delivering, NEW u \in Users, EndStart(u)
  PROVE  Delivering'
<1> DEFINE t == task[u]
           yes == Goto(u, "ready")
           no == Goto(u, "failed")
           after == SetState("up")
<1>1. /\ t.op = "expose" /\ t.at = "starting" /\ losses' = losses
      /\ \/ daemon' = after /\ Moves(u, yes)
         \/ daemon' = SetState("down") /\ Moves(u, no)
  BY DEF EndStart, Runs
<1>2. TaskTyped(t) /\ Kept(t, daemon) /\ Sound(daemon) /\ losses' \in 0 .. MaxFailures
  BY <1>1, Here DEF Delivering
<1>3. yes.at = "ready" /\ yes.calm = t.calm /\ Alike(yes, t) /\ TaskTyped(yes)
  BY <1>2, GotoAlike
<1>4. no.at = "failed" /\ TaskTyped(no)
  BY <1>2, GotoAlike
<1> HIDE DEF yes, no
<1>5. CASE daemon' = SetState("down") /\ Moves(u, no)
  <2>1. Sound(daemon') /\ Kept(no, daemon')
    BY <1>2, <1>4, <1>5, SaysNothing, SetStateSound
  <2>2. QED BY <1>2, <1>4, <1>5, <2>1, MoveKeeps
<1>6. CASE daemon' = after /\ Moves(u, yes)
  <2>1. /\ Sound(after) /\ after.routes = daemon.routes /\ after.tunnel.state = "up"
        /\ after.tunnel.target = daemon.tunnel.target
    BY <1>2, SetStateSound
  <2> HIDE DEF after
  <2>2. ASSUME yes.calm, ~yes.unsure, NEW b \in yes.before
        PROVE  Exposing(yes, b, after) /\ Delivered(yes, b, after)
    <3>1. daemon.routes[t.id] = t.body /\ daemon.tunnel.target = t.target
      BY <1>1, <1>2, <1>3, <2>2 DEF Kept, Exposing, Alike
    <3>2. QED BY <1>3, <2>1, <3>1 DEF Exposing, Delivered, Alike
  <2>3. Kept(yes, after)
    BY <1>1, <1>3, <2>2 DEF Kept, Alike
  <2>4. QED BY <1>2, <1>3, <1>6, <2>1, <2>3, MoveKeeps
<1>7. QED BY <1>1, <1>5, <1>6

LEMMA AwaitReadyKeeps ==
  ASSUME Delivering, NEW u \in Users, AwaitReady(u)
  PROVE  Delivering'
<1> DEFINE t == task[u]
           yes == Goto(u, "exposed")
           no == Goto(u, "failed")
<1>1. /\ t.op = "expose" /\ t.at = "ready" /\ UNCHANGED <<daemon, losses>>
      /\ \/ (t.wait => daemon.tunnel.state = "up") /\ Moves(u, yes)
         \/ Moves(u, no)
  BY DEF AwaitReady, Runs
<1>2. TaskTyped(t) /\ Kept(t, daemon)
  BY Here
<1>3. yes.at = "exposed" /\ yes.calm = t.calm /\ Alike(yes, t) /\ TaskTyped(yes)
  BY <1>2, GotoAlike
<1>4. no.at = "failed" /\ TaskTyped(no)
  BY <1>2, GotoAlike
<1> HIDE DEF yes, no
<1>5. CASE Moves(u, no)
  BY <1>1, <1>4, <1>5, SaysNothing, StayKeeps
<1>6. CASE (t.wait => daemon.tunnel.state = "up") /\ Moves(u, yes)
  <2>1. ASSUME yes.calm, ~yes.unsure, NEW b \in yes.before
        PROVE  Exposing(yes, b, daemon) /\ Delivered(yes, b, daemon)
    <3>1. /\ daemon.routes[t.id] = t.body /\ daemon.tunnel.target = t.target
          /\ daemon.tunnel.state \in {"starting", "up"}
      BY <1>1, <1>2, <1>3, <2>1 DEF Kept, Exposing, Alike
    <3>2. QED BY <1>3, <1>6, <3>1 DEF Exposing, Delivered, Alike
  <2>2. Kept(yes, daemon)
    BY <1>1, <1>3, <2>1 DEF Kept, Alike
  <2>3. QED BY <1>1, <1>3, <1>6, <2>2, StayKeeps
<1>7. QED BY <1>1, <1>5, <1>6

-----------------------------------------------------------------------------
(* The steps of unexpose *)

LEMMA UnexposeKeeps ==
  ASSUME Delivering, NEW u \in Users, Unexpose(u)
  PROVE  Delivering'
<1>1. PICK id \in Ids, keep \in BOOLEAN, ignoreMissing \in BOOLEAN :
        Starts(u, [Fresh EXCEPT !.op = "unexpose", !.at = "list", !.id = id,
                                !.flag = keep, !.wait = ignoreMissing])
  BY DEF Unexpose
<1> DEFINE t == [Fresh EXCEPT !.op = "unexpose", !.at = "list", !.id = id,
                              !.flag = keep, !.wait = ignoreMissing]
<1>2. /\ DOMAIN t = TaskFields /\ t.calm = TRUE /\ t.unsure = FALSE
      /\ DOMAIN t.known = {"mode", "ttl"} /\ t.known.ttl = FALSE
      /\ t.op = "unexpose" /\ t.at = "list" /\ t.id = id /\ t.before = {}
  BY FreshTask DEF TaskFields
<1>3. Starts(u, t)
  BY <1>1
<1> HIDE DEF t
<1>4. TaskTyped(t)
  BY <1>2 DEF TaskTyped
<1>5. QED BY <1>2, <1>3, <1>4, StartKeeps

LEMMA ListForUnexposeKeeps ==
  ASSUME Delivering, NEW u \in Users, ListForUnexpose(u)
  PROVE  Delivering'
<1> DEFINE t == task[u]
           seen == {i \in Ids : Exists(i)}
           goes == IF Exists(t.id) \/ t.wait THEN "status" ELSE "refused"
           yes == [t EXCEPT !.at = goes, !.seen = seen]
           no == Goto(u, "refused")
<1>1. t.op = "unexpose" /\ t.at = "list" /\ Read(u, yes, no)
  BY DEF ListForUnexpose, Runs
<1>2. TaskTyped(t) /\ Kept(t, daemon)
  BY Here
<1>3. no.at = "refused" /\ no.calm = t.calm /\ Alike(no, t) /\ TaskTyped(no)
  BY <1>2, GotoAlike
<1>4. goes \in {"status", "refused"} /\ seen = {i \in Ids : daemon.routes[i] # NoRoute}
  BY DEF Exists
<1> HIDE DEF seen, goes, no
<1>5. /\ DOMAIN yes = TaskFields /\ yes.seen = seen /\ yes.at = goes /\ yes.op = t.op
      /\ yes.calm = t.calm /\ yes.unsure = t.unsure /\ yes.before = t.before /\ yes.id = t.id
      /\ yes.known = t.known
  BY <1>2 DEF TaskTyped, TaskFields
<1> HIDE DEF yes
<1>6. TaskTyped(yes)
  BY <1>1, <1>2, <1>5 DEF TaskTyped
<1>7. ASSUME t.calm, ~t.unsure, NEW b \in t.before PROVE daemon = b
  BY <1>1, <1>2, <1>7 DEF Kept, Unexposing
<1>8. Kept(no, daemon)
  BY <1>3, <1>7, SaysRefused DEF Alike
<1>9. CASE goes = "refused"
  <2>1. Kept(yes, daemon)
    BY <1>5, <1>7, <1>9, SaysRefused
  <2>2. QED BY <1>1, <1>3, <1>6, <1>8, <2>1, ReadKeeps
<1>10. CASE goes = "status"
  <2>1. ASSUME yes.calm, ~yes.unsure, NEW b \in yes.before
        PROVE  Unexposing(yes, b, daemon) /\ Delivered(yes, b, daemon)
    <3>1. daemon = b /\ yes.seen = {i \in Ids : b.routes[i] # NoRoute}
      BY <1>4, <1>5, <1>7, <2>1
    <3>2. QED BY <1>5, <1>10, <3>1 DEF Unexposing, Delivered
  <2>2. Kept(yes, daemon)
    BY <1>1, <1>5, <2>1 DEF Kept
  <2>3. QED BY <1>1, <1>3, <1>6, <1>8, <2>2, ReadKeeps
<1>11. QED BY <1>4, <1>9, <1>10

\* Nothing but the route of the command is left, and its tunnel is on.
StopsAll(t, b) ==
  ~t.flag /\ (\A i \in Ids : b.routes[i] = NoRoute \/ i = t.id) /\ b.tunnel.state # "down"

LEMMA StatusForUnexposeKeeps ==
  ASSUME Delivering, NEW u \in Users, StatusForUnexpose(u)
  PROVE  Delivering'
<1> DEFINE t == task[u]
           plan == IF StopsTunnel(t, daemon.tunnel.state) THEN "stop" ELSE "none"
           yes == [t EXCEPT !.plan = plan, !.at = "write"]
           no == Goto(u, "refused")
<1>1. t.op = "unexpose" /\ t.at = "status" /\ Read(u, yes, no)
  BY DEF StatusForUnexpose, Runs
<1>2. TaskTyped(t) /\ Kept(t, daemon) /\ Sound(daemon)
  BY Here
<1>3. no.at = "refused" /\ no.calm = t.calm /\ Alike(no, t) /\ TaskTyped(no)
  BY <1>2, GotoAlike
<1> HIDE DEF no
<1>4. ASSUME t.calm, ~t.unsure, NEW b \in t.before
      PROVE  daemon = b /\ t.seen = {i \in Ids : b.routes[i] # NoRoute}
  BY <1>1, <1>2, <1>4 DEF Kept, Unexposing
<1>5. ASSUME t.calm, ~t.unsure, NEW b \in t.before
      PROVE  plan = IF StopsAll(t, b) THEN "stop" ELSE "none"
  <2>1. daemon = b /\ t.seen = {i \in Ids : b.routes[i] # NoRoute}
    BY <1>4, <1>5
  <2>2. b.tunnel.state \in {"down", "starting", "up"}
    BY <1>2, <2>1 DEF Sound, DaemonRecords
  <2>3. t.seen \ {t.id} = {} <=> \A i \in Ids : b.routes[i] = NoRoute \/ i = t.id
    BY <2>1
  <2>4. StopsTunnel(t, daemon.tunnel.state) <=> StopsAll(t, b)
    BY <2>1, <2>2, <2>3 DEF StopsTunnel, StopsAll
  <2>5. QED BY <2>4
<1> HIDE DEF plan
<1>6. /\ DOMAIN yes = TaskFields /\ yes.plan = plan /\ yes.at = "write" /\ yes.op = t.op
      /\ yes.calm = t.calm /\ yes.unsure = t.unsure /\ yes.before = t.before /\ yes.id = t.id
      /\ yes.known = t.known /\ yes.seen = t.seen /\ yes.flag = t.flag
  BY <1>2 DEF TaskTyped, TaskFields
<1> HIDE DEF yes
<1>7. TaskTyped(yes)
  BY <1>1, <1>2, <1>6 DEF TaskTyped
<1>8. Kept(no, daemon)
  BY <1>3, <1>4, SaysRefused DEF Alike
<1>9. ASSUME yes.calm, ~yes.unsure, NEW b \in yes.before
      PROVE  Unexposing(yes, b, daemon) /\ Delivered(yes, b, daemon)
  <2>1. /\ daemon = b /\ yes.seen = {i \in Ids : b.routes[i] # NoRoute}
        /\ yes.plan = IF StopsAll(yes, b) THEN "stop" ELSE "none"
    BY <1>4, <1>5, <1>6, <1>9 DEF StopsAll
  <2>2. QED BY <1>6, <2>1 DEF Unexposing, Delivered, StopsAll
<1>10. Kept(yes, daemon)
  BY <1>1, <1>6, <1>9 DEF Kept
<1>11. QED BY <1>1, <1>3, <1>7, <1>8, <1>10, ReadKeeps

LEMMA UnexposeRouteKeeps ==
  ASSUME Delivering, NEW u \in Users, UnexposeRoute(u)
  PROVE  Delivering'
<1> DEFINE t == task[u]
           at == IF t.plan = "stop" THEN "stop" ELSE "unexposed"
           yes == Goto(u, at)
           no == Goto(u, "refused")
           after == Delete(t.id)
<1>1. /\ t.op = "unexpose" /\ t.at = "write"
      /\ \/ Write(u, Exists(t.id), after, yes, no)
         \/ ~Exists(t.id) /\ Read(u, yes, no)
  BY DEF UnexposeRoute, Runs
<1>2. TaskTyped(t) /\ Kept(t, daemon) /\ Sound(daemon) /\ t.id \in Ids
  BY <1>1, Here DEF TaskTyped
<1>3. yes.at = at /\ yes.calm = t.calm /\ Alike(yes, t) /\ TaskTyped(yes)
  BY <1>2, GotoAlike
<1>4. no.at = "refused" /\ no.calm = t.calm /\ Alike(no, t) /\ TaskTyped(no)
  BY <1>2, GotoAlike
<1> HIDE DEF yes, no
<1>5. ASSUME t.calm, ~t.unsure, NEW b \in t.before
      PROVE  daemon = b /\ t.plan = IF StopsAll(t, b) THEN "stop" ELSE "none"
  BY <1>1, <1>2, <1>5 DEF Kept, Unexposing, StopsAll
<1>6. Kept(no, daemon)
  BY <1>4, <1>5, SaysRefused DEF Alike
<1>7. ASSUME NEW d, d.tunnel = daemon.tunnel,
             \A i \in Ids : d.routes[i] = IF i = t.id THEN NoRoute ELSE daemon.routes[i]
      PROVE  Kept(yes, d)
  <2>1. ASSUME yes.calm, ~yes.unsure, NEW b \in yes.before
        PROVE  Unexposing(yes, b, d) /\ Delivered(yes, b, d)
    <3>1. daemon = b /\ t.plan = IF StopsAll(t, b) THEN "stop" ELSE "none"
      BY <1>3, <1>5, <2>1 DEF Alike
    <3>2. /\ d.tunnel = b.tunnel /\ d.routes[t.id] = NoRoute
          /\ \A i \in Ids : d.routes[i] = IF i = t.id THEN NoRoute ELSE b.routes[i]
      BY <1>2, <1>7, <3>1
    <3>3. CASE StopsAll(t, b)
      <4>1. yes.at = "stop" /\ \A i \in Ids : d.routes[i] = NoRoute
        BY <1>3, <3>1, <3>2, <3>3 DEF StopsAll
      <4>2. StopsAll(yes, b)
        BY <1>3, <3>3 DEF StopsAll, Alike
      <4>3. QED BY <4>1, <4>2 DEF Unexposing, Delivered, StopsAll
    <3>4. CASE ~StopsAll(t, b)
      <4>1. yes.at = "unexposed"
        BY <1>3, <3>1, <3>4
      <4>2. ~t.flag /\ (\A i \in Ids : d.routes[i] = NoRoute) => b.tunnel.state = "down"
        BY <3>2, <3>4 DEF StopsAll
      <4>3. QED BY <1>3, <3>2, <4>1, <4>2 DEF Unexposing, Delivered, Alike
    <3>5. QED BY <3>3, <3>4
  <2>2. QED BY <1>1, <1>3, <2>1 DEF Kept, Alike
<1> HIDE DEF at
<1>8. CASE Write(u, Exists(t.id), after, yes, no)
  <2>1. /\ Sound(after) /\ after.routes = [daemon.routes EXCEPT ![t.id] = NoRoute]
        /\ after.tunnel = daemon.tunnel
    BY <1>2, DeleteSound
  <2> HIDE DEF after
  <2>2. \A i \in Ids : after.routes[i] = IF i = t.id THEN NoRoute ELSE daemon.routes[i]
    BY <1>2, <2>1 DEF Sound, DaemonRecords
  <2>3. Kept(yes, after)
    BY <1>7, <2>1, <2>2
  <2>4. QED BY <1>3, <1>4, <1>6, <1>8, <2>1, <2>3, WriteKeeps
<1>9. CASE ~Exists(t.id) /\ Read(u, yes, no)
  <2>1. \A i \in Ids : daemon.routes[i] = IF i = t.id THEN NoRoute ELSE daemon.routes[i]
    BY <1>9 DEF Exists
  <2>2. Kept(yes, daemon)
    BY <1>7, <2>1
  <2>3. QED BY <1>3, <1>4, <1>6, <1>9, <2>2, ReadKeeps
<1>10. QED BY <1>1, <1>8, <1>9

LEMMA UnexposeStopKeeps ==
  ASSUME Delivering, NEW u \in Users, UnexposeStop(u)
  PROVE  Delivering'
<1> DEFINE t == task[u]
           yes == Goto(u, "unexposed")
           no == Goto(u, "failed")
           after == SetState("down")
<1>1. t.op = "unexpose" /\ t.at = "stop" /\ Write(u, TRUE, after, yes, no)
  BY DEF UnexposeStop, Runs
<1>2. TaskTyped(t) /\ Kept(t, daemon) /\ Sound(daemon) /\ t.id \in Ids
  BY <1>1, Here DEF TaskTyped
<1>3. yes.at = "unexposed" /\ yes.calm = t.calm /\ Alike(yes, t) /\ TaskTyped(yes)
  BY <1>2, GotoAlike
<1>4. no.at = "failed" /\ TaskTyped(no)
  BY <1>2, GotoAlike
<1> HIDE DEF yes, no
<1>5. Kept(no, daemon)
  BY <1>4, SaysNothing
<1>6. Sound(after) /\ after.routes = daemon.routes /\ after.tunnel.state = "down"
  BY <1>2, SetStateSound
<1> HIDE DEF after
<1>7. ASSUME yes.calm, ~yes.unsure, NEW b \in yes.before
      PROVE  Unexposing(yes, b, after) /\ Delivered(yes, b, after)
  <2>1. ~t.flag /\ \A i \in Ids : daemon.routes[i] = NoRoute
    BY <1>1, <1>2, <1>3, <1>7 DEF Kept, Unexposing, Alike
  <2>2. QED BY <1>2, <1>3, <1>6, <2>1 DEF Unexposing, Delivered, Alike
<1>8. Kept(yes, after)
  BY <1>1, <1>3, <1>7 DEF Kept, Alike
<1>9. QED BY <1>1, <1>3, <1>4, <1>5, <1>6, <1>8, WriteKeeps

-----------------------------------------------------------------------------
(* Commands of one request, and events of the daemon *)

LEMMA OneRequestKeeps ==
  ASSUME Delivering, NEW u \in Users, OneRequest(u)
  PROVE  Delivering'
<1> DEFINE done == [Fresh EXCEPT !.op = "once", !.at = "done"]
<1>1. PICK id \in Ids, body \in Bodies \ {Invalid} :
        \/ Write(u, ~Exists(id), Put(id, body), done, done)
        \/ \E upsert \in BOOLEAN : Write(u, upsert \/ Exists(id), Put(id, body), done, done)
        \/ Write(u, Exists(id), Delete(id), done, done)
        \/ Write(u, TRUE, [Replace(id, body) EXCEPT
                             !.gates = [i \in Ids |-> IF i = id THEN @[i] ELSE NoGate]], done, done)
        \/ Write(u, TRUE, Replace(id, body), done, done)
  BY DEF OneRequest
<1>2. /\ DOMAIN done = TaskFields /\ done.calm = TRUE /\ done.unsure = FALSE
      /\ DOMAIN done.known = {"mode", "ttl"} /\ done.known.ttl = FALSE
      /\ done.op = "once" /\ done.at = "done" /\ done.before = {}
  BY FreshTask DEF TaskFields
<1> HIDE DEF done
<1>3. TaskTyped(done)
  BY <1>2 DEF TaskTyped
<1>4. ASSUME NEW accepts, NEW result, Write(u, accepts, result, done, done), Sound(result)
      PROVE  Delivering'
  <2>1. Kept(done, result) /\ Kept(done, daemon)
    BY <1>2, SaysNothing
  <2>2. QED BY <1>3, <1>4, <2>1, WriteKeeps
<1>5. Sound(daemon)
  BY Here
<1>6. Sound(Put(id, body)) /\ Sound(Delete(id))
  BY <1>5, PutSound, DeleteSound
<1>7. Sound(Replace(id, body)) /\ Replace(id, body).gates = daemon.gates
  <2> DEFINE routes == [i \in Ids |-> IF i = id THEN body ELSE NoRoute]
  <2>1. routes \in [Ids -> (Bodies \ {Invalid}) \cup {NoRoute}]
    OBVIOUS
  <2>2. Replace(id, body) = [daemon EXCEPT !.routes = routes]
    BY DEF Replace
  <2> HIDE DEF routes
  <2>3. Replace(id, body).gates = daemon.gates
    BY <1>5, <2>2 DEF Sound, DaemonRecords
  <2>4. QED BY <1>5, <2>1, <2>2, <2>3, RoutesSound
<1>8. Sound([Replace(id, body) EXCEPT
               !.gates = [i \in Ids |-> IF i = id THEN @[i] ELSE NoGate]])
  <2> DEFINE gates == [i \in Ids |-> IF i = id THEN daemon.gates[i] ELSE NoGate]
             d == [Replace(id, body) EXCEPT !.gates = gates]
  <2>1. gates \in [Ids -> [code : Codes \cup {Blank}, public : BOOLEAN, ttl : BOOLEAN]]
    BY <1>5, NoGateTyped DEF Sound, DaemonRecords
  <2>2. \A i \in Ids : gates[i].public => gates[i].code = Blank /\ ~gates[i].ttl
    BY <1>5, NoGateTyped DEF Sound
  <2>3. d = [Replace(id, body) EXCEPT
               !.gates = [i \in Ids |-> IF i = id THEN @[i] ELSE NoGate]]
    BY <1>7
  <2> HIDE DEF gates
  <2>4. Sound(d)
    BY <1>7, <2>1, <2>2 DEF Sound, DaemonRecords
  <2>5. QED BY <2>3, <2>4
<1>9. QED BY <1>1, <1>4, <1>6, <1>7, <1>8

LEMMA NoticedKeeps ==
  ASSUME Delivering, Noticed, Sound(daemon'), losses' \in 0 .. MaxFailures
  PROVE  Delivering'
<1>1. DOMAIN task' = Users
  BY DEF Noticed
<1>2. ASSUME NEW x \in Users PROVE TaskTyped(task'[x]) /\ Kept(task'[x], daemon')
  <2> DEFINE r == task'[x]
  <2>1. r = [task[x] EXCEPT !.calm = FALSE]
    BY DEF Noticed
  <2>2. TaskTyped(task[x])
    BY DEF Delivering
  <2>3. Alike(r, task[x]) /\ r.calm = FALSE
    BY <2>1, <2>2 DEF Alike, TaskTyped, TaskFields
  <2> HIDE DEF r
  <2>4. TaskTyped(r) /\ Kept(r, daemon')
    BY <2>2, <2>3, AlikeTyped DEF Kept
  <2>5. QED BY <2>4 DEF r
<1>3. QED BY <1>1, <1>2 DEF Delivering

LEMMA EventKeeps ==
  ASSUME Delivering, DaemonEvent
  PROVE  Delivering'
<1>1. Noticed /\ losses' \in 0 .. MaxFailures
  BY RouteClientsAssumption DEF DaemonEvent, AbandonedStartEnds, ProviderDies, Loss, Delivering
<1>2. \E state \in {"down", "up"} : daemon' = SetState(state)
  BY DEF DaemonEvent, AbandonedStartEnds, ProviderDies
<1>3. Sound(daemon')
  BY <1>2, SetStateSound DEF Delivering
<1>4. QED BY <1>1, <1>3, NoticedKeeps

-----------------------------------------------------------------------------

LEMMA DeliveringInit == ClientInit => Delivering
<1> SUFFICES ASSUME ClientInit PROVE Delivering
  OBVIOUS
<1>1. Sound(daemon)
  BY DEF ClientInit, Daemons, Sound, DaemonRecords
<1>2. TaskTyped(Fresh) /\ Kept(Fresh, daemon)
  BY FreshTask DEF TaskTyped, Kept
<1>3. QED BY <1>1, <1>2, RouteClientsAssumption DEF ClientInit, Delivering

LEMMA DeliveringStep == Delivering /\ [ClientNext]_clientVars => Delivering'
<1> SUFFICES ASSUME Delivering, [ClientNext]_clientVars PROVE Delivering'
  OBVIOUS
<1>1. ASSUME NEW u \in Users, CommandStep(u) PROVE Delivering'
  BY <1>1, SaveRouteKeeps, ListPreviousKeeps, WriteRouteKeeps, ReadGateKeeps, SyncGateKeeps,
     UndoRouteKeeps, ShowRoutesKeeps, SaveDefaultKeeps, ReadDefaultKeeps, WriteDefaultKeeps,
     ExposeKeeps, ListForExposeKeeps, StatusForExposeKeeps, ExposeRouteKeeps, ExposeStopKeeps,
     BeginStartKeeps, EndStartKeeps, AwaitReadyKeeps, UnexposeKeeps, ListForUnexposeKeeps,
     StatusForUnexposeKeeps, UnexposeRouteKeeps, UnexposeStopKeeps DEF CommandStep
<1>2. ASSUME NEW u \in Users, OneRequest(u) PROVE Delivering'
  BY <1>2, OneRequestKeeps
<1>3. CASE DaemonEvent
  BY <1>3, EventKeeps
<1>4. CASE UNCHANGED clientVars
  BY <1>4 DEF clientVars, Delivering
<1>5. QED BY <1>1, <1>2, <1>3, <1>4 DEF ClientNext

LEMMA DeliveringKept == ClientSpec => []Delivering
BY DeliveringInit, DeliveringStep, PTL DEF ClientSpec

\* Every reachable state of the commands and of the daemon they talk to is well
\* typed.
THEOREM CommandsTyped == ClientSpec => []ClientTypeOK
<1>1. Delivering => ClientTypeOK
  BY RouteClientsAssumption DEF Delivering, Sound, DaemonRecords, TaskTyped, ClientTypeOK
<1>2. QED BY <1>1, DeliveringKept, PTL

\* A command of several requests (save_route, set_default_route_access, expose,
\* unexpose), between whose requests nobody has changed the daemon and of whose
\* requests none took effect and failed, has done all it says or nothing.
THEOREM CommandsAlwaysDeliver == ClientSpec => []CommandsDeliver
<1>1. Delivering => CommandsDeliver
  <2> SUFFICES ASSUME Delivering, NEW u \in Users, task[u].calm, ~task[u].unsure,
                      NEW b \in task[u].before
               PROVE  /\ task[u].op = "save" /\ task[u].at = "saved" =>
                           daemon.routes[task[u].id] = task[u].body /\ GateAsSaved(task[u], b)
                      /\ task[u].at \in {"refused", "undone"} => Visible(daemon) = Visible(b)
                      /\ task[u].op = "default" /\ task[u].at = "saved" =>
                           daemon.default = [code |-> task[u].form.code, ttl |-> b.default.ttl]
                      /\ task[u].at = "exposed" =>
                           /\ daemon.routes[task[u].id] = task[u].body
                           /\ daemon.tunnel.target = task[u].target
                           /\ daemon.tunnel.state \in
                                (IF task[u].wait THEN {"up"} ELSE {"up", "starting"})
                      /\ task[u].at = "unexposed" =>
                           /\ ~Exists(task[u].id)
                           /\ daemon.tunnel.state =
                                IF ~task[u].flag /\ \A i \in Ids : ~Exists(i)
                                  THEN "down" ELSE b.tunnel.state
    BY DEF CommandsDeliver
  <2>1. Kept(task[u], daemon)
    BY Here
  <2>2. Delivered(task[u], b, daemon)
    BY <2>1 DEF Kept
  <2>3. task[u].op = "save" => Saving(task[u], b, daemon)
    BY <2>1 DEF Kept
  <2>4. task[u].op = "default" => Defaulting(task[u], b, daemon)
    BY <2>1 DEF Kept
  <2>5. GateKept(task[u], b, daemon) => GateAsSaved(task[u], b)
    BY DEF GateKept, GateAsSaved
  <2>6. QED BY <2>2, <2>3, <2>4, <2>5 DEF Saving, Defaulting, Delivered, Exists
<1>2. QED BY <1>1, DeliveringKept, PTL
=============================================================================
