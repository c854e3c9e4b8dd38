----------------------------- MODULE GatewayProofs -----------------------------
(***************************************************************************)
(* Proofs about the gateway's data plane, for any requests, routes, gates, *)
(* upstreams, slots, rates and clock.                                      *)
(*                                                                         *)
(* What holds of a request is a condition on what the request itself has   *)
(* read and done, and on the gates: no other request and no other part of  *)
(* the state enters it. The limiter's promise is a condition on a bucket   *)
(* and on what its key was let through lately.                             *)
(***************************************************************************)
EXTENDS Gateway, FiniteSetTheorems, SequenceTheorems, TLAPS

Routes == UNION {{t[i] : i \in DOMAIN t} : t \in Tables}

AskedCodes == {Asks(g, r) : g \in Gatings, r \in Routes}

Messages ==
  [to : Upstreams, headers : SUBSET {"plain", "host", "upgrade", "authorization"},
   path : {JoinUpstreamPath(Slash, RewritePath(k.path, r.strip)) : k \in Kinds, r \in Routes}]

RequestStates ==
  [pc : Steps, kind : Kinds \cup {None}, route : Routes \cup {None},
   code : AskedCodes \cup {None}, targets : Seq(Upstreams), asked : AskedCodes \cup {None},
   seen5xx : BOOLEAN, sent : Seq(Messages), exposed : BOOLEAN, stale : BOOLEAN,
   answer : Answers]

-----------------------------------------------------------------------------
(* A request, next to the gates *)

\* Where it is, and what it has by then.
OnItsWay(q) ==
  /\ q \in RequestStates
  /\ q.answer = "pending" <=> q.pc # "done"
  /\ q.pc # "idle" => q.kind \in Kinds
  /\ q.pc \in {"matched", "coded", "passed", "trying"} => q.route \in Routes \ {None}
  /\ q.answer \in {"ok", "admitted"} => q.route \in Routes \ {None}
  /\ q.pc \in {"idle", "selecting", "matched", "coded", "passed"} => q.sent = <<>>

Forwarding(q) == q.pc \in {"passed", "trying"} \/ q.sent # <<>>

\* The gate is open to it no sooner than it is exposed; it is let through by then.
Gated(q, gates) ==
  /\ q.pc \in {"matched", "coded"} /\ OpenTo(gates, q.kind, q.route) => q.exposed
  /\ Forwarding(q) => q.exposed

\* The code it must not pass on is the one that the gate asks it for, or it is stale.
Coded(q, gates) ==
  /\ q.pc = "coded" => q.stale \/ q.code = Asks(gates, q.route)
  /\ Forwarding(q) => q.stale \/ q.code = q.asked
  /\ \A i \in DOMAIN q.sent : q.sent[i].headers = CopyHeaders(q.kind, q.route, q.code)

Tried(q) == {q.sent[i].to : i \in DOMAIN q.sent}

\* One upstream or two: those it was sent to are not among those that are left.
Targeted(q) ==
  /\ Len(q.sent) <= 2 /\ (Len(q.sent) = 2 => q.sent[1].to # q.sent[2].to)
  /\ q.pc = "trying" =>
       \/ /\ Len(q.targets) = 1 /\ q.sent = <<>> /\ UpstreamsOf(q.route) = {q.targets[1]}
       \/ /\ Len(q.targets) = 2 /\ q.sent = <<>> /\ q.targets[1] # q.targets[2]
          /\ UpstreamsOf(q.route) = {q.targets[1], q.targets[2]}
       \/ /\ Len(q.targets) = 1 /\ Len(q.sent) = 1 /\ q.sent[1].to # q.targets[1]
          /\ UpstreamsOf(q.route) = {q.sent[1].to, q.targets[1]}
  /\ q.answer \in {"failed", "error5xx"} => Tried(q) = UpstreamsOf(q.route)
  /\ q.answer = "failed" /\ ~q.kind.upgrade => ~q.seen5xx

Good(q, gates) == OnItsWay(q) /\ Gated(q, gates) /\ Coded(q, gates) /\ Targeted(q)

-----------------------------------------------------------------------------
(* The rest *)

Checks == Upstreams \X {HealthPath(r, p) : r \in Routes, p \in HealthPaths}
Verdicts == UNION {[S -> BOOLEAN] : S \in SUBSET Checks}

MonitorTyped ==
  /\ health \in Verdicts
  /\ monitor \in [pc : {"asleep", "settled", "probing"}, path : HealthPaths \cup {<<>>},
                  todo : SUBSET Checks, found : Verdicts]
  /\ monitor.pc # "asleep" => monitor.path \in HealthPaths

ConfigTyped ==
  /\ table \in Tables /\ gating \in Gatings /\ checkPath \in HealthPaths
  /\ serving \in [Upstreams -> Behaviours] /\ edits \in 0..MaxEdits

SlotsHeld == IsFiniteSet(InFlight) /\ Cardinality(InFlight) <= Slots

\* A bucket, and what its key was let through: less than the bucket's count since
\* the tick after it started, and the rest of a bucket besides before that.
Filling(bucket, recent, time) ==
  /\ bucket.started <= time /\ bucket.count \in 1..RateLimit
  /\ \A span \in 1..Window : span <= time - bucket.started => recent[span] <= bucket.count - 1
  /\ recent[Window] <= bucket.count + RateLimit - 1

Limited ==
  /\ now \in 0..MaxTime
  /\ DOMAIN buckets \subseteq Keys
  /\ buckets \in [DOMAIN buckets -> [started : Nat, count : Nat]]
  /\ admitted \in [Keys -> [1..Window -> Nat]]
  /\ \A k \in Keys, span \in 2..Window : admitted[k][span - 1] <= admitted[k][span]
  /\ \A k \in Keys : IF k \in DOMAIN buckets THEN Filling(buckets[k], admitted[k], now)
                     ELSE \A span \in 1..Window : admitted[k][span] = 0

Requesting == req \in [Requests -> RequestStates] /\ \A r \in Requests : Good(req[r], gating)

IInv == ConfigTyped /\ MonitorTyped /\ SlotsHeld /\ Limited /\ Requesting

-----------------------------------------------------------------------------
(* The rules of the gateway *)

LEMMA RouteUpstreams ==
  ASSUME NEW r \in Routes
  PROVE  r.upstream \in Upstreams \ {None} /\ r.fallback \in Upstreams \cup {None}
BY RoutesAssumption DEF Routes

LEMMA SelectsRoute ==
  ASSUME NEW t \in Tables, NEW tunnel, NEW host, NEW path
  PROVE  SelectRoute(t, OfTunnel(t, tunnel), host, path) \in Routes \cup {None}
<1> DEFINE candidates == {i \in OfTunnel(t, tunnel) : Matches(t[i], host, path)}
           best == {i \in candidates : \A j \in candidates :
                      /\ AtLeastAsSpecific(t[i], t[j])
                      /\ j > i => ~AtLeastAsSpecific(t[j], t[i])}
           route == IF best = {} THEN None ELSE t[CHOOSE i \in best : TRUE]
<1>1. best \subseteq DOMAIN t
  BY DEF OfTunnel
<1>2. best # {} => (CHOOSE i \in best : TRUE) \in best
  OBVIOUS
<1>3. \A i \in DOMAIN t : t[i] \in Routes
  BY DEF Routes
<1> DEFINE chosen == CHOOSE i \in best : TRUE
<1> HIDE DEF best
<1>4. CASE best = {}
  <2>1. route = None
    BY <1>4
  <2>2. QED BY <2>1 DEF SelectRoute, best
<1>5. CASE best # {}
  <2>1. chosen \in DOMAIN t
    BY <1>1, <1>2, <1>5
  <2>2. t[chosen] \in Routes
    BY <1>3, <2>1
  <2>3. route = t[chosen]
    BY <1>5
  <2>4. QED BY <2>2, <2>3 DEF SelectRoute, best
<1>6. QED BY <1>4, <1>5

LEMMA AskedTyped ==
  ASSUME NEW g \in Gatings, NEW r \in Routes
  PROVE  Asks(g, r) \in AskedCodes
BY DEF AskedCodes

LEMMA VerdictPasses ==
  ASSUME NEW kind, NEW code
  PROVE  /\ GateVerdict(kind, code) = "pass" <=> code = None \/ Credentialed(kind, code)
         /\ GateVerdict(kind, code) \in {"pass", "admitted", "page", "unauthorized"}
BY DEF GateVerdict

LEMMA OpenPasses ==
  ASSUME NEW gates, NEW kind, NEW route
  PROVE  GateVerdict(kind, Asks(gates, route)) = "pass" <=> OpenTo(gates, kind, route)
BY VerdictPasses DEF OpenTo

LEMMA OpenBoolean ==
  ASSUME NEW gates, NEW kind, NEW route
  PROVE  OpenTo(gates, kind, route) \in BOOLEAN
BY DEF OpenTo, Credentialed

LEMMA HeadersCopied ==
  ASSUME NEW kind, NEW route, NEW code
  PROVE  /\ CopyHeaders(kind, route, code) \in SUBSET {"plain", "host", "upgrade", "authorization"}
         /\ "authorization" \in CopyHeaders(kind, route, code) => kind.code # code
BY DEF CopyHeaders

LEMMA TargetsOrdered ==
  ASSUME NEW route \in Routes, NEW default, NEW verdicts
  PROVE  LET targets == OrderedTargets(route, default, verdicts)
         IN  /\ targets \in Seq(Upstreams)
             /\ \/ Len(targets) = 1 /\ UpstreamsOf(route) = {targets[1]}
                \/ /\ Len(targets) = 2 /\ targets[1] # targets[2]
                   /\ UpstreamsOf(route) = {targets[1], targets[2]}
<1> DEFINE u == route.upstream
           f == route.fallback
           targets == OrderedTargets(route, default, verdicts)
<1>1. u \in Upstreams \ {None} /\ f \in Upstreams \cup {None}
  BY RouteUpstreams
<1>2. UpstreamsOf(route) = {u, f} \ {None}
  BY DEF UpstreamsOf
<1>3. CASE f \in {None, u}
  <2>1. targets = <<u>>
    BY <1>3 DEF OrderedTargets
  <2>2. UpstreamsOf(route) = {u}
    BY <1>1, <1>2, <1>3
  <2> HIDE DEF targets
  <2>3. QED BY <1>1, <2>1, <2>2 DEF targets
<1>4. CASE f \notin {None, u}
  <2>1. targets \in {<<u, f>>, <<f, u>>}
    BY <1>4 DEF OrderedTargets
  <2>2. UpstreamsOf(route) = {u, f} /\ f \in Upstreams /\ u # f
    BY <1>1, <1>2, <1>4
  <2> HIDE DEF targets
  <2>3. CASE targets = <<u, f>>
    BY <1>1, <2>2, <2>3 DEF targets
  <2>4. CASE targets = <<f, u>>
    BY <1>1, <2>2, <2>4 DEF targets
  <2>5. QED BY <2>1, <2>3, <2>4
<1>5. QED BY <1>3, <1>4

-----------------------------------------------------------------------------
(* Paths. Concatenation, prefixes and suffixes are told place by place. *)

Characters == STRING \cup {"/"}

Paths == Seq(Characters)

LEMMA StringsArePaths == \A s \in Seq(STRING) : s \in Paths
<1>1. ASSUME NEW s \in Seq(STRING) PROVE s \in Paths
  <2>1. Len(s) \in Nat /\ s \in [1..Len(s) -> STRING]
    OBVIOUS
  <2>2. s \in [1..Len(s) -> Characters]
    BY <2>1 DEF Characters
  <2>3. QED BY <2>1, <2>2 DEF Paths
<1>2. QED BY <1>1

LEMMA PathParts ==
  ASSUME NEW s \in Paths
  PROVE  Len(s) \in Nat /\ DOMAIN s = 1..Len(s) /\ \A i \in 1..Len(s) : s[i] \in Characters
BY DEF Paths

LEMMA PathsEqual ==
  ASSUME NEW s \in Paths, NEW t \in Paths, Len(s) = Len(t), \A i \in 1..Len(s) : s[i] = t[i]
  PROVE  s = t
BY SeqEqual DEF Paths

LEMMA Joined ==
  ASSUME NEW s \in Paths, NEW t \in Paths
  PROVE  /\ s \o t \in Paths /\ Len(s \o t) = Len(s) + Len(t)
         /\ \A i \in 1..Len(s) : (s \o t)[i] = s[i]
         /\ \A i \in 1..Len(t) : (s \o t)[Len(s) + i] = t[i]
<1>1. s \in Seq(Characters) /\ t \in Seq(Characters) /\ Len(s) \in Nat /\ Len(t) \in Nat
  BY DEF Paths
<1>2. /\ s \o t \in Seq(Characters) /\ Len(s \o t) = Len(s) + Len(t)
      /\ \A i \in 1..Len(s) + Len(t) : (s \o t)[i] = IF i <= Len(s) THEN s[i] ELSE t[i - Len(s)]
  BY <1>1, ConcatProperties
<1>3. ASSUME NEW i \in 1..Len(s) PROVE (s \o t)[i] = s[i]
  BY <1>1, <1>2
<1>4. ASSUME NEW i \in 1..Len(t) PROVE (s \o t)[Len(s) + i] = t[i]
  <2>1. /\ Len(s) + i \in 1..Len(s) + Len(t) /\ ~(Len(s) + i <= Len(s))
        /\ (Len(s) + i) - Len(s) = i
    BY <1>1
  <2>2. QED BY <1>2, <2>1
<1>5. QED BY <1>2, <1>3, <1>4 DEF Paths

\* A piece of a path.
LEMMA Cut ==
  ASSUME NEW s \in Paths, NEW m \in 1..(Len(s) + 1), NEW n \in 0..Len(s), m <= n + 1
  PROVE  /\ SubSeq(s, m, n) \in Paths /\ Len(SubSeq(s, m, n)) = n - m + 1
         /\ \A i \in 1..(n - m + 1) : SubSeq(s, m, n)[i] = s[m + i - 1]
<1>1. Len(s) \in Nat /\ m \in Int /\ n \in Int /\ \A i \in m..n : s[i] \in Characters
  BY PathParts
<1>2. /\ SubSeq(s, m, n) \in Seq(Characters)
      /\ Len(SubSeq(s, m, n)) = IF m <= n THEN n - m + 1 ELSE 0
      /\ \A i \in 1..n - m + 1 : SubSeq(s, m, n)[i] = s[m + i - 1]
  BY <1>1, SubSeqProperties
<1>3. QED BY <1>1, <1>2 DEF Paths

LEMMA PrefixIs ==
  ASSUME NEW s \in Paths, NEW t \in Paths
  PROVE  IsPrefix(s, t) <=> Len(s) <= Len(t) /\ \A i \in 1..Len(s) : s[i] = t[i]
<1>0. Len(s) \in Nat /\ Len(t) \in Nat
  BY PathParts
<1>1. CASE Len(s) <= Len(t)
  <2>1. /\ SubSeq(s, 1, Len(s)) \in Paths /\ Len(SubSeq(s, 1, Len(s))) = Len(s)
        /\ \A i \in 1..Len(s) : SubSeq(s, 1, Len(s))[i] = s[i]
    <3>1. 1 \in 1..(Len(s) + 1) /\ Len(s) \in 0..Len(s) /\ 1 <= Len(s) + 1 /\ Len(s) - 1 + 1 = Len(s)
      BY <1>0
    <3>2. \A i \in 1..Len(s) : 1 + i - 1 = i
      BY <1>0
    <3>3. QED BY <3>1, <3>2, Cut
  <2>2. /\ SubSeq(t, 1, Len(s)) \in Paths /\ Len(SubSeq(t, 1, Len(s))) = Len(s)
        /\ \A i \in 1..Len(s) : SubSeq(t, 1, Len(s))[i] = t[i]
    <3>1. 1 \in 1..(Len(t) + 1) /\ Len(s) \in 0..Len(t) /\ 1 <= Len(s) + 1 /\ Len(s) - 1 + 1 = Len(s)
      BY <1>0, <1>1
    <3>2. \A i \in 1..Len(s) : 1 + i - 1 = i
      BY <1>0
    <3>3. QED BY <3>1, <3>2, Cut
  <2>3. SubSeq(s, 1, Len(s)) = SubSeq(t, 1, Len(s)) <=> \A i \in 1..Len(s) : s[i] = t[i]
    <3>1. ASSUME SubSeq(s, 1, Len(s)) = SubSeq(t, 1, Len(s)) PROVE \A i \in 1..Len(s) : s[i] = t[i]
      BY <2>1, <2>2, <3>1
    <3>2. ASSUME \A i \in 1..Len(s) : s[i] = t[i] PROVE SubSeq(s, 1, Len(s)) = SubSeq(t, 1, Len(s))
      <4>1. \A i \in 1..Len(s) : SubSeq(s, 1, Len(s))[i] = SubSeq(t, 1, Len(s))[i]
        BY <2>1, <2>2, <3>2
      <4>2. QED BY <2>1, <2>2, <4>1, PathsEqual
    <3>3. QED BY <3>1, <3>2
  <2>4. QED BY <1>1, <2>3 DEF IsPrefix
<1>2. CASE ~(Len(s) <= Len(t))
  BY <1>2 DEF IsPrefix
<1>3. QED BY <1>1, <1>2

LEMMA SlashIs == Slash \in Paths /\ Len(Slash) = 1 /\ Slash[1] = "/"
<1>1. "/" \in Characters
  BY DEF Characters
<1>2. Slash \in Seq(Characters)
  BY <1>1 DEF Slash
<1>3. Len(Slash) = 1 /\ Slash[1] = "/"
  BY DEF Slash
<1>4. QED BY <1>2, <1>3 DEF Paths

LEMMA SlashPrefix ==
  ASSUME NEW t \in Paths
  PROVE  IsPrefix(Slash, t) <=> 1 <= Len(t) /\ t[1] = "/"
BY SlashIs, PrefixIs

LEMMA SlashSuffix ==
  ASSUME NEW t \in Paths
  PROVE  IsSuffix(Slash, t) <=> 1 <= Len(t) /\ t[Len(t)] = "/"
<1>0. Len(t) \in Nat
  BY PathParts
<1>1. ASSUME NEW s \in Paths
      PROVE  /\ Reverse(s) \in Paths /\ Len(Reverse(s)) = Len(s)
             /\ 1 <= Len(s) => Reverse(s)[1] = s[Len(s)]
  <2>1. Len(s) \in Nat /\ \A i \in 1..Len(s) : s[i] \in Characters
    BY PathParts
  <2>2. \A i \in 1..Len(s) : (Len(s) - i) + 1 \in 1..Len(s)
    BY <2>1
  <2>3. \A i \in 1..Len(s) : s[(Len(s) - i) + 1] \in Characters
    BY <2>1, <2>2
  <2>4. [i \in 1..Len(s) |-> s[(Len(s) - i) + 1]] \in Seq(Characters)
    BY <2>1, <2>3
  <2>5. Reverse(s) \in Paths /\ DOMAIN Reverse(s) = 1..Len(s)
    BY <2>4 DEF Reverse, Paths
  <2>6. Len(Reverse(s)) = Len(s)
    BY <2>1, <2>5 DEF Paths
  <2>7. 1 <= Len(s) => 1 \in 1..Len(s) /\ (Len(s) - 1) + 1 = Len(s)
    BY <2>1
  <2>8. QED BY <2>5, <2>6, <2>7 DEF Reverse
<1>2. Reverse(Slash) \in Paths /\ Len(Reverse(Slash)) = 1 /\ Reverse(Slash)[1] = "/"
  BY <1>1, SlashIs
<1>3. IsPrefix(Reverse(Slash), Reverse(t)) <=> 1 <= Len(t) /\ Reverse(t)[1] = "/"
  BY <1>0, <1>1, <1>2, PrefixIs
<1>4. QED BY <1>1, <1>3 DEF IsSuffix

\* Below a path, or at it.
LEMMA BelowIs ==
  ASSUME NEW s \in Paths, NEW t \in Paths
  PROVE  Below(t, s) <=> /\ Len(t) > Len(s) /\ t[Len(s) + 1] = "/"
                         /\ \A i \in 1..Len(s) : s[i] = t[i]
<1>1. Len(s) \in Nat /\ Len(t) \in Nat
  BY PathParts
<1>2. Len(t) > Len(s) => Len(s) <= Len(t)
  BY <1>1
<1>3. QED BY <1>2, PrefixIs DEF Below

LEMMA UnderIsPrefix ==
  ASSUME NEW s \in Paths, NEW t \in Paths, PathHasPrefix(t, s)
  PROVE  IsPrefix(s, t)
<1>1. Len(s) \in Nat /\ s = t => IsPrefix(s, t)
  <2>1. Len(s) <= Len(s)
    BY PathParts
  <2>2. QED BY <2>1, PrefixIs
<1>2. QED BY <1>1, PathParts DEF PathHasPrefix, Below

\* Two paths moved under the same mount stand to each other as before.
LEMMA MovedUnder ==
  ASSUME NEW m \in Paths, NEW p \in Paths, NEW q \in Paths
  PROVE  /\ m \o p = m \o q <=> p = q
         /\ Below(m \o p, m \o q) <=> Below(p, q)
<1> DEFINE a == m \o p
           b == m \o q
<1>0. Len(m) \in Nat /\ Len(p) \in Nat /\ Len(q) \in Nat
  BY PathParts
<1>1. /\ a \in Paths /\ Len(a) = Len(m) + Len(p)
      /\ \A i \in 1..Len(m) : a[i] = m[i]
      /\ \A i \in 1..Len(p) : a[Len(m) + i] = p[i]
  BY Joined
<1>2. /\ b \in Paths /\ Len(b) = Len(m) + Len(q)
      /\ \A i \in 1..Len(m) : b[i] = m[i]
      /\ \A i \in 1..Len(q) : b[Len(m) + i] = q[i]
  BY Joined
<1> HIDE DEF a, b
<1>3. ASSUME a = b PROVE p = q
  <2>1. Len(p) = Len(q)
    BY <1>0, <1>1, <1>2, <1>3
  <2>2. \A i \in 1..Len(p) : p[i] = q[i]
    BY <1>1, <1>2, <1>3, <2>1
  <2>3. QED BY <2>1, <2>2, PathsEqual
<1>4. p = q => a = b
  BY DEF a, b
<1>5. Below(a, b) <=> /\ Len(a) > Len(b) /\ a[Len(b) + 1] = "/"
                      /\ \A i \in 1..Len(b) : b[i] = a[i]
  BY <1>1, <1>2, BelowIs
<1>6. Below(p, q) <=> /\ Len(p) > Len(q) /\ p[Len(q) + 1] = "/"
                      /\ \A i \in 1..Len(q) : q[i] = p[i]
  BY BelowIs
<1>7. CASE Len(p) > Len(q)
  <2>1. /\ Len(a) > Len(b) /\ Len(q) + 1 \in 1..Len(p)
        /\ Len(m) + (Len(q) + 1) = Len(b) + 1 /\ 1..Len(q) \subseteq 1..Len(p)
    BY <1>0, <1>1, <1>2, <1>7
  <2>2. a[Len(b) + 1] = p[Len(q) + 1]
    BY <1>1, <2>1
  <2>3. ASSUME \A i \in 1..Len(b) : b[i] = a[i], NEW i \in 1..Len(q) PROVE q[i] = p[i]
    <3>1. Len(m) + i \in 1..Len(b) /\ i \in 1..Len(p)
      BY <1>0, <1>2, <2>1
    <3>2. QED BY <1>1, <1>2, <2>3, <3>1
  <2>4. ASSUME \A i \in 1..Len(q) : q[i] = p[i], NEW i \in 1..Len(b) PROVE b[i] = a[i]
    <3>1. CASE i <= Len(m)
      <4>1. i \in 1..Len(m)
        BY <1>0, <1>2, <3>1
      <4>2. QED BY <1>1, <1>2, <4>1
    <3>2. CASE ~(i <= Len(m))
      <4>1. PICK j \in 1..Len(q) : i = Len(m) + j
        <5>1. i - Len(m) \in 1..Len(q) /\ i = Len(m) + (i - Len(m))
          BY <1>0, <1>2, <3>2
        <5>2. QED BY <5>1
      <4>2. j \in 1..Len(p)
        BY <2>1
      <4>3. b[i] = q[j] /\ a[i] = p[j]
        BY <1>1, <1>2, <4>1, <4>2
      <4>4. QED BY <2>4, <4>3
    <3>3. QED BY <3>1, <3>2
  <2>5. (\A i \in 1..Len(b) : b[i] = a[i]) <=> (\A i \in 1..Len(q) : q[i] = p[i])
    BY <2>3, <2>4
  <2>6. QED BY ONLY <1>3, <1>4, <1>5, <1>6, <1>7, <2>1, <2>2, <2>5 DEF a, b
<1>8. CASE ~(Len(p) > Len(q))
  <2>1. ~(Len(a) > Len(b))
    BY <1>0, <1>1, <1>2, <1>8
  <2>2. QED BY <1>3, <1>4, <1>5, <1>6, <1>8, <2>1 DEF a, b
<1>9. QED BY <1>7, <1>8

\* A path moved under a mount is at or below it, and comes back whole when the
\* mount is cut off.
LEMMA CutOff ==
  ASSUME NEW m \in Paths, NEW p \in Paths, IsPrefix(Slash, p)
  PROVE  /\ IsPrefix(m, m \o p) /\ Below(m \o p, m)
         /\ SubSeq(m \o p, Len(m) + 1, Len(m \o p)) = p
<1>0. Len(m) \in Nat /\ Len(p) \in Nat /\ 1 <= Len(p) /\ p[1] = "/"
  BY PathParts, SlashPrefix
<1>1. /\ m \o p \in Paths /\ Len(m \o p) = Len(m) + Len(p)
      /\ \A i \in 1..Len(m) : (m \o p)[i] = m[i]
      /\ \A i \in 1..Len(p) : (m \o p)[Len(m) + i] = p[i]
  BY Joined
<1>2. IsPrefix(m, m \o p)
  <2>1. Len(m) <= Len(m \o p)
    BY <1>0, <1>1
  <2>2. QED BY <1>1, <2>1, PrefixIs
<1>3. Below(m \o p, m)
  <2>1. Len(m \o p) > Len(m) /\ 1 \in 1..Len(p)
    BY <1>0, <1>1
  <2>2. (m \o p)[Len(m) + 1] = "/"
    BY <1>0, <1>1, <2>1
  <2>3. QED BY <1>1, <2>1, <2>2, BelowIs
<1>4. SubSeq(m \o p, Len(m) + 1, Len(m \o p)) = p
  <2> DEFINE a == m \o p
             c == SubSeq(a, Len(m) + 1, Len(a))
  <2>1. /\ Len(m) + 1 \in 1..(Len(a) + 1) /\ Len(a) \in 0..Len(a) /\ Len(m) + 1 <= Len(a) + 1
        /\ Len(a) - (Len(m) + 1) + 1 = Len(p)
    BY <1>0, <1>1
  <2>2. /\ c \in Paths /\ Len(c) = Len(p)
        /\ \A i \in 1..Len(p) : c[i] = a[(Len(m) + 1) + i - 1]
    BY <1>1, <2>1, Cut
  <2>3. ASSUME NEW i \in 1..Len(p) PROVE c[i] = p[i]
    <3>1. (Len(m) + 1) + i - 1 = Len(m) + i
      BY <1>0
    <3>2. QED BY <1>1, <2>2, <3>1
  <2> HIDE DEF c
  <2>4. c = p
    BY <2>2, <2>3, PathsEqual
  <2>5. QED BY <2>4 DEF c
<1>5. QED BY <1>2, <1>3, <1>4

-----------------------------------------------------------------------------
(* What is handed to a browser comes back *)

\* A path under a mount that is not at or below a namespace is not, either: a
\* namespace has one segment, and the second one of the path begins after the mount.
LEMMA NamespaceMissed ==
  ASSUME NEW m \in Paths, m # <<>>, NEW p \in Paths, IsPrefix(Slash, p),
         NEW n \in Namespaces, ~PathHasPrefix(m, n)
  PROVE  ~PathHasPrefix(m \o p, n)
<1> DEFINE a == m \o p
<1>0. /\ n \in Paths /\ Len(n) > 1 /\ n # Slash
      /\ \A i \in 2..Len(n) : n[i] # "/"
  BY NamespacesAssumption, StringsArePaths, SlashIs
<1>1. Len(m) \in Nat \ {0} /\ Len(p) \in Nat \ {0} /\ Len(n) \in Nat /\ p[1] = "/"
  <2>1. Len(m) \in Nat /\ Len(p) \in Nat /\ Len(n) \in Nat
    BY <1>0, PathParts
  <2>2. Len(m) # 0
    BY DEF Paths
  <2>3. QED BY <2>1, <2>2, SlashPrefix
<1>2. /\ a \in Paths /\ Len(a) = Len(m) + Len(p)
      /\ \A i \in 1..Len(m) : a[i] = m[i]
      /\ \A i \in 1..Len(p) : a[Len(m) + i] = p[i]
  BY Joined
<1> HIDE DEF a
<1>3. SUFFICES ASSUME PathHasPrefix(a, n) PROVE FALSE
  BY DEF a
<1>4. Len(n) <= Len(a) /\ \A i \in 1..Len(n) : n[i] = a[i]
  BY <1>0, <1>2, <1>3, UnderIsPrefix, PrefixIs
<1>5. CASE Len(n) > Len(m)
  <2>1. Len(m) + 1 \in 2..Len(n) /\ Len(m) + 1 \in 1..Len(n) /\ 1 \in 1..Len(p)
    BY <1>1, <1>5
  <2>2. n[Len(m) + 1] = p[1]
    BY <1>2, <1>4, <2>1
  <2>3. QED BY <1>0, <1>1, <2>1, <2>2
<1>6. CASE Len(n) <= Len(m)
  <2>1. \A i \in 1..Len(n) : n[i] = m[i]
    <3>1. \A i \in 1..Len(n) : i \in 1..Len(m)
      BY <1>1, <1>6
    <3>2. QED BY <1>2, <1>4, <3>1
  <2>2. CASE Len(n) = Len(m)
    <3>1. m = n
      BY <1>0, <2>1, <2>2, PathsEqual
    <3>2. QED BY <1>0, <3>1 DEF PathHasPrefix
  <2>3. CASE Len(n) # Len(m)
    <3>1. a # n /\ Len(n) + 1 \in 1..Len(m) /\ Len(m) > Len(n)
      BY <1>1, <1>2, <1>6, <2>3
    <3>2. Below(a, n)
      BY <1>0, <1>3, <3>1 DEF PathHasPrefix
    <3>3. a[Len(n) + 1] = "/"
      BY <1>0, <1>2, <3>2, BelowIs
    <3>4. m[Len(n) + 1] = "/"
      BY <1>2, <3>1, <3>3
    <3>5. Below(m, n)
      BY <1>0, <2>1, <3>1, <3>4, BelowIs
    <3>6. QED BY <1>0, <3>5 DEF PathHasPrefix
  <2>4. QED BY <2>2, <2>3
<1>7. QED BY <1>1, <1>5, <1>6

\* A reference or a Location is moved under such a mount, once.
LEMMA MovedOnce ==
  ASSUME NEW m \in Paths, m # <<>>, ~IsSuffix(Slash, m),
         ~\E n \in Namespaces : PathHasPrefix(m, n),
         NEW p \in Paths, RootRelative(p), ~IsPrefix(m, p)
  PROVE  /\ Normalized(m) = m /\ m # Slash
         /\ RewriteReference("attr", p, m) = m \o p
         /\ RewriteLocation(p, m) = m \o p
<1>1. Normalized(m) = m /\ m # Slash
  <2>1. IsSuffix(Slash, Slash)
    BY SlashIs, SlashSuffix
  <2>2. QED BY <2>1 DEF Normalized, WithoutLastSlash
<1>2. IsPrefix(Slash, p) /\ ~IsPrefix(Slash \o Slash, p)
  BY DEF RootRelative
<1>3. \A n \in Namespaces : ~PathHasPrefix(m \o p, n)
  BY <1>2, NamespaceMissed
<1>4. RewriteReference("attr", p, m) = m \o p
  BY <1>2, <1>3 DEF RewriteReference
<1>5. ~PathHasPrefix(p, m)
  BY UnderIsPrefix
<1>6. RewriteLocation(p, m) = m \o p
  BY <1>1, <1>2, <1>5 DEF RewriteLocation
<1>7. QED BY <1>1, <1>4, <1>6

\* Where the mount is stripped, the upstream is asked for what was named.
LEMMA ComesBack ==
  ASSUME NEW m \in Paths, m # <<>>, NEW p \in Paths, IsPrefix(Slash, p)
  PROVE  JoinUpstreamPath(Slash, RewritePath(m \o p, m)) = p
<1>1. RewritePath(m \o p, m) = p
  <2>1. IsPrefix(m, m \o p) /\ SubSeq(m \o p, Len(m) + 1, Len(m \o p)) = p
    BY CutOff
  <2>2. Absolute(p) = p
    BY DEF Absolute
  <2>3. QED BY <2>1, <2>2 DEF RewritePath
<1>2. WithoutLastSlash(Slash) \in Paths /\ Len(WithoutLastSlash(Slash)) = 0
  <2>1. IsSuffix(Slash, Slash) /\ Slash \in Paths /\ Len(Slash) = 1
    BY SlashIs, SlashSuffix
  <2>2. 1 \in 1..(Len(Slash) + 1) /\ 0 \in 0..Len(Slash) /\ 1 <= 0 + 1 /\ 0 - 1 + 1 = 0
        /\ Len(Slash) - 1 = 0
    BY <2>1
  <2>3. SubSeq(Slash, 1, 0) \in Paths /\ Len(SubSeq(Slash, 1, 0)) = 0
    BY <2>1, <2>2, Cut
  <2>4. WithoutLastSlash(Slash) = SubSeq(Slash, 1, 0)
    BY <2>1, <2>2 DEF WithoutLastSlash
  <2>5. QED BY <2>3, <2>4
<1>3. WithoutLastSlash(Slash) \o p = p
  <2> DEFINE w == WithoutLastSlash(Slash)
  <2>1. w \in Paths /\ Len(w) = 0
    BY <1>2
  <2> HIDE DEF w
  <2>2. Len(p) \in Nat
    BY PathParts
  <2>3. w \o p \in Paths /\ Len(w \o p) = Len(p) /\ \A i \in 1..Len(p) : (w \o p)[i] = p[i]
    BY <2>1, <2>2, Joined
  <2>4. w \o p = p
    BY <2>3, PathsEqual
  <2>5. QED BY <2>4 DEF w
<1>4. QED BY <1>1, <1>3 DEF JoinUpstreamPath

\* A cookie's path covers what it covered before the move.
LEMMA StillCovered ==
  ASSUME NEW m \in Paths, m # <<>>, m # Slash, Normalized(m) = m,
         NEW p \in Paths, IsPrefix(Slash, p),
         NEW q \in Paths, IsPrefix(Slash, q), ~IsPrefix(m, q)
  PROVE  PathHasPrefix(p, q) <=> PathHasPrefix(m \o p, RewriteCookiePath(q, m))
<1>1. ~PathHasPrefix(q, m)
  BY UnderIsPrefix
<1>2. CASE q = Slash
  <2>1. RewriteCookiePath(q, m) = m
    BY <1>1, <1>2 DEF RewriteCookiePath
  <2>2. PathHasPrefix(m \o p, m)
    BY CutOff DEF PathHasPrefix
  <2>3. PathHasPrefix(p, q)
    BY <1>2 DEF PathHasPrefix
  <2>4. QED BY <2>1, <2>2, <2>3
<1>3. CASE q # Slash
  <2>1. RewriteCookiePath(q, m) = m \o q
    BY <1>1, <1>3 DEF RewriteCookiePath
  <2>2. m \o q # Slash
    <3>1. Len(m) \in Nat /\ Len(m) # 0 /\ Len(q) \in Nat /\ 1 <= Len(q)
      BY PathParts, SlashPrefix DEF Paths
    <3>2. Len(m \o q) = Len(m) + Len(q)
      BY Joined
    <3>3. QED BY <3>1, <3>2, SlashIs
  <2>3. /\ PathHasPrefix(m \o p, m \o q) <=> m \o p = m \o q \/ Below(m \o p, m \o q)
        /\ PathHasPrefix(p, q) <=> p = q \/ Below(p, q)
    BY <1>3, <2>2 DEF PathHasPrefix
  <2>4. QED BY <2>1, <2>3, MovedUnder
<1>4. QED BY <1>2, <1>3

LEMMA RoutePaths ==
  /\ \A route \in Routes : route.prefix \in Paths
  /\ \A kind \in Kinds : kind.path \in Paths
BY PathsAssumption, StringsArePaths DEF Routes

LEMMA AllMovedBack ==
  ASSUME NEW route \in Routes, Moves(route)
  PROVE  MovedBack(route)
<1> DEFINE m == MountOf(route)
           named == {p \in {k.path : k \in Kinds} : RootRelative(p) /\ ~IsPrefix(m, p)}
<1>1. /\ m # <<>> /\ ~IsSuffix(Slash, m) /\ route.strip = m
      /\ ~\E n \in Namespaces : PathHasPrefix(m, n)
  BY DEF Moves
<1>2. m \in Paths
  BY <1>1, RoutePaths DEF MountOf
<1>3. \A p \in named : p \in Paths /\ RootRelative(p) /\ IsPrefix(Slash, p) /\ ~IsPrefix(m, p)
  BY RoutePaths DEF RootRelative
<1> HIDE DEF m
<1>4. ASSUME NEW p \in named
      PROVE  /\ JoinUpstreamPath(Slash, RewritePath(RewriteReference("attr", p, m), m)) = p
             /\ JoinUpstreamPath(Slash, RewritePath(RewriteLocation(p, m), m)) = p
             /\ RewriteLocation(p, m) = m \o p /\ Normalized(m) = m /\ m # Slash
  <2>1. p \in Paths /\ RootRelative(p) /\ IsPrefix(Slash, p) /\ ~IsPrefix(m, p)
    BY <1>3
  <2> HIDE DEF named
  <2>2. /\ RewriteReference("attr", p, m) = m \o p /\ RewriteLocation(p, m) = m \o p
        /\ Normalized(m) = m /\ m # Slash
    BY <1>1, <1>2, <2>1, MovedOnce
  <2>3. JoinUpstreamPath(Slash, RewritePath(m \o p, m)) = p
    BY <1>1, <1>2, <2>1, ComesBack
  <2>4. QED BY <2>2, <2>3
<1>5. ASSUME NEW p \in named, NEW q \in named
      PROVE  PathHasPrefix(p, q) <=> PathHasPrefix(RewriteLocation(p, m), RewriteCookiePath(q, m))
  <2>1. /\ p \in Paths /\ IsPrefix(Slash, p)
        /\ q \in Paths /\ IsPrefix(Slash, q) /\ ~IsPrefix(m, q)
    BY <1>3
  <2>2. RewriteLocation(p, m) = m \o p /\ Normalized(m) = m /\ m # Slash
    BY <1>4
  <2> HIDE DEF named
  <2>3. PathHasPrefix(p, q) <=> PathHasPrefix(m \o p, RewriteCookiePath(q, m))
    BY <1>1, <1>2, <2>1, <2>2, StillCovered
  <2>4. QED BY <2>2, <2>3
<1>6. QED BY <1>1, <1>4, <1>5 DEF MovedBack, m

\* The path of a gate's cookie covers what the route matches.
LEMMA CookieCovers ==
  ASSUME NEW route \in Routes, NEW code, NEW kind \in Kinds, IsPrefix(Slash, kind.path),
         Matches(route, kind.host, kind.path)
  PROVE  Covers(GateCookie(route, code), kind.path)
<1> DEFINE s == route.prefix
           t == kind.path
           c == CookiePath(route)
<1>1. s \in Paths /\ t \in Paths
  BY RoutePaths
<1>2. s = <<>> \/ PathHasPrefix(t, s)
  BY DEF Matches
<1>3. GateCookie(route, code).path = c
  BY DEF GateCookie
<1>4. CASE s = <<>> \/ s = Slash
  <2>1. c = Slash
    BY <1>4 DEF CookiePath, Normalized
  <2>2. IsSuffix(Slash, Slash)
    BY SlashIs, SlashSuffix
  <2>3. QED BY <1>3, <2>1, <2>2 DEF Covers
<1>5. CASE s # <<>> /\ s # Slash
  <2>1. c = WithoutLastSlash(s)
    BY <1>5 DEF CookiePath, Normalized
  <2>2. t = s \/ Below(t, s)
    BY <1>2, <1>5 DEF PathHasPrefix
  <2>3. CASE ~IsSuffix(Slash, s)
    <3>1. c = s
      BY <2>1, <2>3 DEF WithoutLastSlash
    <3>2. QED BY <1>3, <2>2, <3>1 DEF Covers, Below
  <2>4. CASE IsSuffix(Slash, s)
    <3>1. /\ Len(s) \in Nat /\ Len(t) \in Nat /\ 1 <= Len(s) /\ s[Len(s)] = "/"
      BY <1>1, <2>4, PathParts, SlashSuffix
    <3>2. Len(s) <= Len(t) /\ \A i \in 1..Len(s) : s[i] = t[i]
      BY <1>1, <1>2, <1>5, UnderIsPrefix, PrefixIs
    <3>3. c = SubSeq(s, 1, Len(s) - 1)
      BY <2>1, <2>4 DEF WithoutLastSlash
    <3>4. /\ c \in Paths /\ Len(c) = Len(s) - 1
          /\ \A i \in 1..Len(s) - 1 : c[i] = s[i]
      <4>1. /\ 1 \in 1..(Len(s) + 1) /\ Len(s) - 1 \in 0..Len(s) /\ 1 <= (Len(s) - 1) + 1
            /\ (Len(s) - 1) - 1 + 1 = Len(s) - 1
        BY <3>1
      <4>2. \A i \in 1..Len(s) - 1 : 1 + i - 1 = i
        BY <3>1
      <4> HIDE DEF c
      <4>3. QED BY <1>1, <3>3, <4>1, <4>2, Cut
    <3> HIDE DEF c
    <3>5. Len(t) > Len(c) /\ Len(c) + 1 = Len(s) /\ Len(s) \in 1..Len(s)
      BY <3>1, <3>2, <3>4
    <3>6. t[Len(c) + 1] = "/"
      BY <3>1, <3>2, <3>5
    <3>7. \A i \in 1..Len(c) : c[i] = t[i]
      <4>1. ASSUME NEW i \in 1..Len(c) PROVE i \in 1..Len(s) - 1 /\ i \in 1..Len(s)
        BY <3>1, <3>4
      <4>2. QED BY <3>2, <3>4, <4>1
    <3>8. Below(t, c)
      BY <1>1, <3>4, <3>5, <3>6, <3>7, BelowIs
    <3>9. QED BY <1>3, <3>8 DEF Covers, Below
  <2>5. QED BY <2>3, <2>4
<1>6. QED BY <1>4, <1>5

LEMMA AllLetBackIn ==
  ASSUME NEW route \in Routes, NEW code
  PROVE  LetBackIn(route, code)
<1> DEFINE cookie == GateCookie(route, code)
<1>1. ASSUME NEW kind \in Kinds, IsPrefix(Slash, kind.path), Matches(route, kind.host, kind.path)
      PROVE  GateVerdict(WithCookie(kind, cookie, route), code) = "pass"
  <2>1. Covers(cookie, kind.path)
    BY <1>1, CookieCovers
  <2>2. cookie.name = route.id /\ cookie.code = code
    BY DEF GateCookie
  <2> HIDE DEF cookie
  <2>3. WithCookie(kind, cookie, route) = [kind EXCEPT !.via = "cookie", !.code = code]
    BY <2>1, <2>2 DEF WithCookie
  <2>4. "via" \in DOMAIN kind /\ "code" \in DOMAIN kind
    BY PathsAssumption
  <2>5. Credentialed(WithCookie(kind, cookie, route), code)
    BY <2>3, <2>4 DEF Credentialed
  <2>6. QED BY <2>5, VerdictPasses
<1>2. QED BY <1>1 DEF LetBackIn

-----------------------------------------------------------------------------
(* What a request does is good *)

LEMMA NobodyGood == \A gates : Good(Nobody, gates)
<1>1. Nobody \in RequestStates
  BY DEF Nobody, RequestStates, Steps, Answers
<1>2. OnItsWay(Nobody)
  BY <1>1 DEF OnItsWay, Nobody
<1>3. Targeted(Nobody)
  BY DEF Targeted, Nobody
<1>4. ~Forwarding(Nobody) /\ \A i \in DOMAIN Nobody.sent : FALSE
  BY DEF Forwarding, Nobody
<1>5. \A gates : Gated(Nobody, gates) /\ Coded(Nobody, gates)
  BY <1>4 DEF Gated, Coded, Nobody
<1>6. QED BY <1>2, <1>3, <1>5 DEF Good

LEMMA FinishGood ==
  ASSUME NEW q, NEW gates, Good(q, gates), q.pc # "idle",
         NEW answer \in Answers \ {"pending", "failed", "error5xx"},
         answer \in {"ok", "admitted"} => q.route \in Routes \ {None}
  PROVE  Good([q EXCEPT !.pc = "done", !.answer = answer], gates)
<1> DEFINE n == [q EXCEPT !.pc = "done", !.answer = answer]
<1>1. q \in RequestStates
  BY DEF Good, OnItsWay
<1>2. /\ n \in RequestStates /\ n.pc = "done" /\ n.answer = answer
      /\ n.kind = q.kind /\ n.route = q.route /\ n.code = q.code /\ n.asked = q.asked
      /\ n.seen5xx = q.seen5xx /\ n.sent = q.sent /\ n.exposed = q.exposed /\ n.stale = q.stale
  BY <1>1 DEF RequestStates, Steps
<1> HIDE DEF n
<1>3. OnItsWay(n)
  BY <1>2 DEF Good, OnItsWay
<1>4. Gated(n, gates) /\ Coded(n, gates)
  BY <1>2 DEF Good, Gated, Coded, Forwarding
<1>5. Targeted(n)
  BY <1>2 DEF Good, Targeted
<1>6. QED BY <1>3, <1>4, <1>5 DEF Good, n

LEMMA ArriveGood ==
  ASSUME NEW gates, NEW kind \in Kinds, NEW pc \in {"selecting", "done"}, NEW answer \in Answers,
         answer = "pending" <=> pc = "selecting", answer \notin {"failed", "error5xx", "ok", "admitted"}
  PROVE  Good([Nobody EXCEPT !.pc = pc, !.answer = answer, !.kind = kind], gates)
<1> DEFINE n == [Nobody EXCEPT !.pc = pc, !.answer = answer, !.kind = kind]
<1>1. Nobody \in RequestStates /\ Nobody.sent = <<>>
  BY DEF Nobody, RequestStates, Steps, Answers
<1>2. n \in RequestStates /\ n.pc = pc /\ n.answer = answer /\ n.kind = kind /\ n.sent = <<>>
  BY <1>1 DEF RequestStates, Steps
<1> HIDE DEF n
<1>3. OnItsWay(n)
  BY <1>2 DEF OnItsWay
<1>4. ~Forwarding(n) /\ \A i \in DOMAIN n.sent : FALSE
  BY <1>2 DEF Forwarding
<1>5. Gated(n, gates) /\ Coded(n, gates)
  BY <1>2, <1>4 DEF Gated, Coded
<1>6. Targeted(n)
  BY <1>2 DEF Targeted
<1>7. QED BY <1>3, <1>5, <1>6 DEF Good, n

LEMMA MatchGood ==
  ASSUME NEW q, NEW gates, Good(q, gates), q.pc = "selecting", NEW route \in Routes \ {None}
  PROVE  Good([q EXCEPT !.pc = "matched", !.route = route,
                        !.exposed = OpenTo(gates, q.kind, route)], gates)
<1> DEFINE n == [q EXCEPT !.pc = "matched", !.route = route,
                          !.exposed = OpenTo(gates, q.kind, route)]
<1>1. q \in RequestStates /\ OpenTo(gates, q.kind, route) \in BOOLEAN
  BY OpenBoolean DEF Good, OnItsWay
<1>2. /\ n \in RequestStates /\ n.pc = "matched" /\ n.answer = q.answer /\ n.kind = q.kind
      /\ n.route = route /\ n.sent = q.sent /\ n.exposed = OpenTo(gates, q.kind, route)
  BY <1>1 DEF RequestStates, Steps
<1> HIDE DEF n
<1>3. OnItsWay(n) /\ n.sent = <<>>
  BY <1>2 DEF Good, OnItsWay
<1>4. Gated(n, gates) /\ Coded(n, gates)
  BY <1>2, <1>3 DEF Gated, Coded, Forwarding
<1>5. Targeted(n)
  BY <1>2, <1>3 DEF Targeted, OnItsWay
<1>6. QED BY <1>3, <1>4, <1>5 DEF Good, n

LEMMA ReadCodeGood ==
  ASSUME NEW q, NEW gates \in Gatings, Good(q, gates), q.pc = "matched"
  PROVE  Good([q EXCEPT !.pc = "coded", !.code = Asks(gates, q.route)], gates)
<1> DEFINE n == [q EXCEPT !.pc = "coded", !.code = Asks(gates, q.route)]
<1>1. q \in RequestStates /\ Asks(gates, q.route) \in AskedCodes
  BY AskedTyped DEF Good, OnItsWay
<1>2. /\ n \in RequestStates /\ n.pc = "coded" /\ n.answer = q.answer /\ n.kind = q.kind
      /\ n.route = q.route /\ n.sent = q.sent /\ n.exposed = q.exposed
      /\ n.code = Asks(gates, q.route)
  BY <1>1 DEF RequestStates, Steps
<1> HIDE DEF n
<1>3. OnItsWay(n) /\ n.sent = <<>>
  BY <1>2 DEF Good, OnItsWay
<1>4. Gated(n, gates) /\ Coded(n, gates)
  BY <1>2, <1>3 DEF Good, Gated, Coded, Forwarding
<1>5. Targeted(n)
  BY <1>2, <1>3 DEF Targeted, OnItsWay
<1>6. QED BY <1>3, <1>4, <1>5 DEF Good, n

LEMMA PassGood ==
  ASSUME NEW q, NEW gates \in Gatings, Good(q, gates), q.pc = "coded",
         OpenTo(gates, q.kind, q.route)
  PROVE  Good([q EXCEPT !.pc = "passed", !.asked = Asks(gates, q.route)], gates)
<1> DEFINE n == [q EXCEPT !.pc = "passed", !.asked = Asks(gates, q.route)]
<1>1. q \in RequestStates /\ Asks(gates, q.route) \in AskedCodes
  BY AskedTyped DEF Good, OnItsWay
<1>2. /\ n \in RequestStates /\ n.pc = "passed" /\ n.answer = q.answer /\ n.kind = q.kind
      /\ n.route = q.route /\ n.sent = q.sent /\ n.exposed = q.exposed
      /\ n.code = q.code /\ n.stale = q.stale /\ n.asked = Asks(gates, q.route)
  BY <1>1 DEF RequestStates, Steps
<1> HIDE DEF n
<1>3. OnItsWay(n) /\ n.sent = <<>>
  BY <1>2 DEF Good, OnItsWay
<1>4. Gated(n, gates)
  BY <1>2, <1>3 DEF Good, Gated
<1>5. Coded(n, gates)
  BY <1>2, <1>3 DEF Good, Coded
<1>6. Targeted(n)
  BY <1>2, <1>3 DEF Targeted, OnItsWay
<1>7. QED BY <1>3, <1>4, <1>5, <1>6 DEF Good, n

LEMMA OrderGood ==
  ASSUME NEW q, NEW gates, Good(q, gates), q.pc = "passed", NEW default, NEW verdicts
  PROVE  Good([q EXCEPT !.pc = "trying", !.targets = OrderedTargets(q.route, default, verdicts)], gates)
<1> DEFINE targets == OrderedTargets(q.route, default, verdicts)
           n == [q EXCEPT !.pc = "trying", !.targets = targets]
<1>1. q \in RequestStates /\ q.route \in Routes
  BY DEF Good, OnItsWay
<1>2. /\ targets \in Seq(Upstreams)
      /\ \/ Len(targets) = 1 /\ UpstreamsOf(q.route) = {targets[1]}
         \/ /\ Len(targets) = 2 /\ targets[1] # targets[2]
            /\ UpstreamsOf(q.route) = {targets[1], targets[2]}
  BY <1>1, TargetsOrdered
<1> HIDE DEF targets
<1>3. /\ n \in RequestStates /\ n.pc = "trying" /\ n.answer = q.answer /\ n.kind = q.kind
      /\ n.route = q.route /\ n.sent = q.sent /\ n.exposed = q.exposed
      /\ n.code = q.code /\ n.stale = q.stale /\ n.asked = q.asked /\ n.targets = targets
  BY <1>1, <1>2 DEF RequestStates, Steps
<1> HIDE DEF n
<1>4. OnItsWay(n) /\ n.sent = <<>>
  BY <1>3 DEF Good, OnItsWay
<1>5. Gated(n, gates) /\ Coded(n, gates)
  BY <1>3, <1>4 DEF Good, Gated, Coded, Forwarding
<1>6. Targeted(n)
  BY <1>2, <1>3, <1>4 DEF Targeted, OnItsWay
<1>7. QED BY <1>4, <1>5, <1>6 DEF Good, n, targets

\* What an attempt adds: one more message, to the first of the targets.
LEMMA SentTyped ==
  ASSUME NEW q \in RequestStates, NEW m \in Messages, Len(q.sent) <= 1
  PROVE  /\ Append(q.sent, m) \in Seq(Messages)
         /\ Len(Append(q.sent, m)) = Len(q.sent) + 1
         /\ Append(q.sent, m)[Len(q.sent) + 1] = m
         /\ \A i \in DOMAIN q.sent : Append(q.sent, m)[i] = q.sent[i]
         /\ DOMAIN q.sent = 1..Len(q.sent)
         /\ DOMAIN Append(q.sent, m) = 1..(Len(q.sent) + 1)
         /\ Len(q.sent) \in Nat
<1> DEFINE s == q.sent
<1>1. s \in Seq(Messages)
  BY DEF RequestStates
<1> HIDE DEF s
<1>2. /\ Append(s, m) \in Seq(Messages) /\ Len(Append(s, m)) = Len(s) + 1
      /\ Append(s, m)[Len(s) + 1] = m
      /\ \A i \in DOMAIN s : Append(s, m)[i] = s[i]
      /\ DOMAIN s = 1..Len(s) /\ DOMAIN Append(s, m) = 1..(Len(s) + 1) /\ Len(s) \in Nat
  BY <1>1
<1>3. QED BY <1>2 DEF s

LEMMA AnsweredGood ==
  ASSUME NEW q, NEW gates, Good(q, gates), q.pc = "trying",
         NEW m \in Messages, m.to = q.targets[1],
         m.headers = CopyHeaders(q.kind, q.route, q.code),
         NEW answer \in Answers \ {"pending"},
         answer \in {"failed", "error5xx"} => Len(q.targets) = 1,
         answer = "failed" /\ ~q.kind.upgrade => ~q.seen5xx
  PROVE  Good([q EXCEPT !.pc = "done", !.sent = Append(q.sent, m), !.answer = answer], gates)
<1> DEFINE sent == Append(q.sent, m)
           n == [q EXCEPT !.pc = "done", !.sent = sent, !.answer = answer]
<1>1. q \in RequestStates /\ Len(q.sent) <= 1
  <2>1. q \in RequestStates
    BY DEF Good, OnItsWay
  <2>2. Len(<<>>) = 0
    OBVIOUS
  <2>3. QED BY <2>1, <2>2 DEF Good, Targeted
<1>2. /\ sent \in Seq(Messages) /\ Len(sent) = Len(q.sent) + 1 /\ sent[Len(q.sent) + 1] = m
      /\ \A i \in DOMAIN q.sent : sent[i] = q.sent[i]
      /\ DOMAIN q.sent = 1..Len(q.sent) /\ DOMAIN sent = 1..(Len(q.sent) + 1)
      /\ Len(q.sent) \in Nat
  BY <1>1, SentTyped
<1> HIDE DEF sent
<1>3. /\ n \in RequestStates /\ n.pc = "done" /\ n.answer = answer /\ n.kind = q.kind
      /\ n.route = q.route /\ n.sent = sent /\ n.exposed = q.exposed /\ n.seen5xx = q.seen5xx
      /\ n.code = q.code /\ n.stale = q.stale /\ n.asked = q.asked /\ n.targets = q.targets
  BY <1>1, <1>2 DEF RequestStates, Steps
<1> HIDE DEF n
<1>4. OnItsWay(n)
  BY <1>3 DEF Good, OnItsWay
<1>5. Gated(n, gates)
  BY <1>3 DEF Good, Gated, Forwarding
<1>6. Coded(n, gates)
  <2>1. n.stale \/ n.code = n.asked
    BY <1>3 DEF Good, Coded, Forwarding
  <2>2. ASSUME NEW i \in DOMAIN n.sent
        PROVE  n.sent[i].headers = CopyHeaders(n.kind, n.route, n.code)
    <3>1. CASE i \in DOMAIN q.sent
      BY <1>2, <1>3, <3>1 DEF Good, Coded
    <3>2. CASE i = Len(q.sent) + 1
      BY <1>2, <1>3, <3>2
    <3>3. QED BY <1>2, <1>3, <2>2, <3>1, <3>2
  <2>3. QED BY <1>3, <2>1, <2>2 DEF Coded
<1>7. Targeted(n)
  <2>1. CASE q.sent = <<>>
    <3>1. DOMAIN sent = {1} /\ Len(sent) = 1 /\ sent[1] = m
      BY <1>2, <2>1
    <3>2. Tried(n) = {m.to}
      BY <1>3, <3>1 DEF Tried
    <3>3. answer \in {"failed", "error5xx"} => UpstreamsOf(q.route) = {m.to}
      BY <2>1 DEF Good, Targeted
    <3>4. QED BY <1>3, <3>1, <3>2, <3>3 DEF Targeted
  <2>2. CASE Len(q.sent) = 1
    <3>1. DOMAIN sent = {1, 2} /\ Len(sent) = 2 /\ sent[1] = q.sent[1] /\ sent[2] = m
      BY <1>2, <2>2
    <3>2. Tried(n) = {q.sent[1].to, m.to}
      BY <1>3, <3>1 DEF Tried
    <3>3. q.sent[1].to # m.to /\ UpstreamsOf(q.route) = {q.sent[1].to, m.to}
      BY <2>2 DEF Good, Targeted
    <3>4. QED BY <1>3, <3>1, <3>2, <3>3 DEF Targeted
  <2>3. QED BY <2>1, <2>2 DEF Good, Targeted
<1>8. QED BY <1>4, <1>5, <1>6, <1>7 DEF Good, n, sent

LEMMA RetriedGood ==
  ASSUME NEW q, NEW gates, Good(q, gates), q.pc = "trying", Len(q.targets) # 1,
         NEW m \in Messages, m.to = q.targets[1],
         m.headers = CopyHeaders(q.kind, q.route, q.code), NEW seen \in BOOLEAN
  PROVE  Good([q EXCEPT !.targets = Tail(q.targets), !.sent = Append(q.sent, m),
                        !.seen5xx = seen], gates)
<1> DEFINE sent == Append(q.sent, m)
           left == Tail(q.targets)
           n == [q EXCEPT !.targets = left, !.sent = sent, !.seen5xx = seen]
<1>1. /\ q \in RequestStates /\ q.sent = <<>> /\ Len(q.targets) = 2
      /\ q.targets[1] # q.targets[2] /\ UpstreamsOf(q.route) = {q.targets[1], q.targets[2]}
  BY DEF Good, OnItsWay, Targeted
<1>2. sent \in Seq(Messages) /\ DOMAIN sent = {1} /\ Len(sent) = 1 /\ sent[1] = m
  BY <1>1, SentTyped
<1>3. left \in Seq(Upstreams) /\ Len(left) = 1 /\ left[1] = q.targets[2]
  BY <1>1 DEF RequestStates
<1> HIDE DEF sent, left
<1>4. /\ n \in RequestStates /\ n.pc = "trying" /\ n.answer = q.answer /\ n.kind = q.kind
      /\ n.route = q.route /\ n.sent = sent /\ n.exposed = q.exposed
      /\ n.code = q.code /\ n.stale = q.stale /\ n.asked = q.asked /\ n.targets = left
  BY <1>1, <1>2, <1>3 DEF RequestStates, Steps
<1> HIDE DEF n
<1>5. OnItsWay(n)
  BY <1>4 DEF Good, OnItsWay
<1>6. Gated(n, gates)
  BY <1>4 DEF Good, Gated, Forwarding
<1>7. Coded(n, gates)
  BY <1>2, <1>4 DEF Good, Coded, Forwarding
<1>8. Targeted(n)
  <2>1. n.answer = "pending"
    BY <1>4 DEF Good, OnItsWay
  <2>2. n.sent[1].to = q.targets[1] /\ n.targets[1] = q.targets[2]
    BY <1>2, <1>3, <1>4
  <2>3. /\ Len(n.targets) = 1 /\ Len(n.sent) = 1 /\ n.sent[1].to # n.targets[1]
        /\ UpstreamsOf(n.route) = {n.sent[1].to, n.targets[1]}
    BY <1>1, <1>2, <1>3, <1>4, <2>2
  <2>4. QED BY <2>1, <2>3 DEF Targeted
<1>9. QED BY <1>5, <1>6, <1>7, <1>8 DEF Good, n, sent, left

\* An edit of the gates, for a request that has its route and for one that has not.
LEMMA EditGood ==
  ASSUME NEW q, NEW old, NEW gates, Good(q, old)
  PROVE  Good([q EXCEPT !.exposed = q.exposed \/ OpenTo(gates, q.kind, q.route),
                        !.stale = q.stale \/ q.pc = "coded"], gates)
<1> DEFINE exposed == q.exposed \/ OpenTo(gates, q.kind, q.route)
           stale == q.stale \/ q.pc = "coded"
           n == [q EXCEPT !.exposed = exposed, !.stale = stale]
<1>1. q \in RequestStates /\ exposed \in BOOLEAN /\ stale \in BOOLEAN
  BY OpenBoolean DEF Good, OnItsWay, RequestStates
<1>2. (q.exposed => exposed) /\ (OpenTo(gates, q.kind, q.route) => exposed)
      /\ (q.stale => stale) /\ (q.pc = "coded" => stale)
  OBVIOUS
<1> HIDE DEF exposed, stale
<1>3. /\ n \in RequestStates /\ n.pc = q.pc /\ n.answer = q.answer /\ n.kind = q.kind
      /\ n.route = q.route /\ n.sent = q.sent /\ n.seen5xx = q.seen5xx
      /\ n.code = q.code /\ n.asked = q.asked /\ n.targets = q.targets
  BY <1>1 DEF RequestStates
<1>4. n.exposed = exposed /\ n.stale = stale
  BY <1>1 DEF RequestStates
<1> HIDE DEF n
<1>5. OnItsWay(n)
  BY <1>3 DEF Good, OnItsWay
<1>6. Gated(n, gates)
  BY <1>2, <1>3, <1>4 DEF Good, Gated, Forwarding
<1>7. Coded(n, gates)
  BY <1>2, <1>3, <1>4 DEF Good, Coded, Forwarding
<1>8. Targeted(n)
  BY <1>3 DEF Good, Targeted, Tried
<1>9. QED BY <1>5, <1>6, <1>7, <1>8 DEF Good, n, exposed, stale

LEMMA EditAparted ==
  ASSUME NEW q, NEW old, NEW gates, Good(q, old), q.pc \in {"idle", "done"} \/ q.route = None
  PROVE  Good(q, gates)
<1>1. OnItsWay(q) /\ Targeted(q) /\ q.pc \notin {"matched", "coded"}
  BY DEF Good, OnItsWay
<1>2. Gated(q, gates) /\ Coded(q, gates)
  BY <1>1 DEF Good, Gated, Coded
<1>3. QED BY <1>1, <1>2 DEF Good

-----------------------------------------------------------------------------
(* The limiter *)

Buckets == [started : Nat, count : Nat]
Histories == [1..Window -> Nat]
Monotone(recent) == \A span \in 2..Window : recent[span - 1] <= recent[span]

\* A key that is let through: into the bucket it has, or into a new one after an
\* expired one (or the first).
LEMMA FilledOnce ==
  ASSUME NEW time \in Nat, NEW recent \in Histories, NEW b \in Buckets,
         Filling(b, recent, time), b.count < RateLimit
  PROVE  Filling([started |-> b.started, count |-> b.count + 1],
                 [span \in 1..Window |-> recent[span] + 1], time)
<1> DEFINE more == [span \in 1..Window |-> recent[span] + 1]
           c == [started |-> b.started, count |-> b.count + 1]
<1>1. \A span \in 1..Window : recent[span] \in Nat /\ more[span] = recent[span] + 1
  BY DEF Histories
<1>2. Window \in 1..Window /\ RateLimit \in Nat
  BY BoundsAssumption
<1>3. c.started = b.started /\ c.count = b.count + 1 /\ b.started \in Nat /\ b.count \in Nat
  BY DEF Buckets
<1> HIDE DEF more, c
<1>4. c.started <= time /\ c.count \in 1..RateLimit
  BY <1>2, <1>3 DEF Filling
<1>5. \A span \in 1..Window : span <= time - c.started => more[span] <= c.count - 1
  BY <1>1, <1>3 DEF Filling
<1>6. more[Window] <= c.count + RateLimit - 1
  BY <1>1, <1>2, <1>3 DEF Filling
<1>7. Filling(c, more, time)
  BY <1>4, <1>5, <1>6 DEF Filling
<1>8. QED BY <1>7 DEF c, more

LEMMA FilledAnew ==
  ASSUME NEW time \in Nat, NEW recent \in Histories, NEW b \in Buckets,
         Filling(b, recent, time), time - b.started >= Window
  PROVE  Filling([started |-> time, count |-> 1],
                 [span \in 1..Window |-> recent[span] + 1], time)
<1>1. recent[Window] <= b.count - 1 /\ recent[Window] \in Nat
  BY BoundsAssumption DEF Filling, Histories, Buckets
<1>2. QED BY <1>1, BoundsAssumption DEF Filling, Histories, Buckets

LEMMA FilledFirst ==
  ASSUME NEW time \in Nat, NEW recent \in Histories, \A span \in 1..Window : recent[span] = 0
  PROVE  Filling([started |-> time, count |-> 1],
                 [span \in 1..Window |-> recent[span] + 1], time)
BY BoundsAssumption DEF Filling, Histories

\* A tick forgets what is older than the window.
Shifted(recent) == [span \in 1..Window |-> IF span = 1 THEN 0 ELSE recent[span - 1]]

LEMMA FilledTick ==
  ASSUME NEW time \in Nat, NEW recent \in Histories, Monotone(recent), NEW b \in Buckets,
         Filling(b, recent, time)
  PROVE  Filling(b, Shifted(recent), time + 1)
<1>1. ASSUME NEW span \in 1..Window, span <= time + 1 - b.started
      PROVE  Shifted(recent)[span] <= b.count - 1
  BY <1>1, BoundsAssumption DEF Filling, Shifted, Buckets, Histories
<1>2. Shifted(recent)[Window] <= recent[Window]
  BY BoundsAssumption DEF Shifted, Monotone, Histories
<1>3. Shifted(recent)[Window] \in Nat /\ recent[Window] \in Nat
  BY BoundsAssumption DEF Shifted, Histories
<1>4. QED BY <1>1, <1>2, <1>3, BoundsAssumption DEF Filling, Buckets

LEMMA TickMonotone ==
  ASSUME NEW recent \in Histories, Monotone(recent)
  PROVE  Shifted(recent) \in Histories /\ Monotone(Shifted(recent))
BY BoundsAssumption DEF Shifted, Histories, Monotone

LEMMA OnceMonotone ==
  ASSUME NEW recent \in Histories, Monotone(recent)
  PROVE  LET more == [span \in 1..Window |-> recent[span] + 1]
         IN  more \in Histories /\ Monotone(more)
<1> DEFINE more == [span \in 1..Window |-> recent[span] + 1]
<1>1. \A span \in 1..Window : recent[span] \in Nat /\ more[span] = recent[span] + 1
  BY DEF Histories
<1>2. \A span \in 2..Window : span - 1 \in 1..Window /\ span \in 1..Window
  BY BoundsAssumption
<1>3. more \in Histories
  BY <1>1 DEF Histories
<1> HIDE DEF more
<1>4. Monotone(more)
  BY <1>1, <1>2 DEF Monotone
<1>5. QED BY <1>3, <1>4 DEF more

LEMMA LimitedParts ==
  ASSUME Limited
  PROVE  /\ now \in Nat
         /\ \A k \in Keys : admitted[k] \in Histories /\ Monotone(admitted[k])
         /\ \A k \in DOMAIN buckets : k \in Keys /\ buckets[k] \in Buckets
                                     /\ Filling(buckets[k], admitted[k], now)
         /\ \A k \in Keys \ DOMAIN buckets : \A span \in 1..Window : admitted[k][span] = 0
BY BoundsAssumption DEF Limited, Histories, Monotone, Buckets

LEMMA TickLimited == Limited /\ Tick => Limited'
<1> SUFFICES ASSUME Limited, Tick PROVE Limited'
  OBVIOUS
<1>1. now' = now + 1 /\ now' \in 0..MaxTime /\ buckets' = buckets
  BY BoundsAssumption DEF Limited, Tick
<1>2. admitted' = [k \in Keys |-> Shifted(admitted[k])]
  BY DEF Tick, Shifted
<1>3. \A k \in Keys : admitted'[k] = Shifted(admitted[k])
  BY <1>2
<1>4. \A k \in Keys : admitted'[k] \in Histories /\ Monotone(admitted'[k])
  BY <1>3, LimitedParts, TickMonotone
<1>5. \A k \in DOMAIN buckets : Filling(buckets'[k], admitted'[k], now')
  <2> TAKE k \in DOMAIN buckets
  <2>1. /\ k \in Keys /\ buckets[k] \in Buckets /\ admitted[k] \in Histories
        /\ Monotone(admitted[k]) /\ Filling(buckets[k], admitted[k], now) /\ now \in Nat
    BY LimitedParts
  <2>2. Filling(buckets[k], Shifted(admitted[k]), now + 1)
    BY <2>1, FilledTick
  <2>3. QED BY <1>1, <1>3, <2>1, <2>2
<1>6. \A k \in Keys \ DOMAIN buckets : \A span \in 1..Window : admitted'[k][span] = 0
  <2> SUFFICES ASSUME NEW k \in Keys \ DOMAIN buckets, NEW span \in 1..Window
               PROVE  admitted'[k][span] = 0
    OBVIOUS
  <2>1. span # 1 => span - 1 \in 1..Window
    BY BoundsAssumption
  <2>2. span # 1 => admitted[k][span - 1] = 0
    BY <2>1, LimitedParts
  <2>3. Shifted(admitted[k])[span] = 0
    BY <2>2 DEF Shifted
  <2>4. k \in Keys
    OBVIOUS
  <2>5. QED BY <1>3, <2>3, <2>4
<1>7. admitted' \in [Keys -> [1..Window -> Nat]]
  BY <1>2, <1>4 DEF Histories
<1>8. QED BY <1>1, <1>4, <1>5, <1>6, <1>7 DEF Limited, Monotone

LEMMA CountLimited ==
  ASSUME NEW key \in Keys, Limited, Count(key)
  PROVE  Limited'
<1> DEFINE b == Bucket(key)
           more == [span \in 1..Window |-> admitted[key][span] + 1]
<1>1. now' = now /\ now \in 0..MaxTime /\ now \in Nat
  BY BoundsAssumption DEF Limited, Count
<1>2. CASE ~Allow(key)
  <2>1. key \in DOMAIN buckets /\ b = buckets[key]
    BY <1>2, BoundsAssumption DEF Allow, Bucket
  <2>2. b \in Buckets
    BY <2>1, LimitedParts
  <2> HIDE DEF b
  <2>3. buckets' = [k \in DOMAIN buckets \cup {key} |->
                      IF k = key THEN [b EXCEPT !.count = b.count] ELSE buckets[k]]
    BY <1>2 DEF Count, b
  <2>4. [b EXCEPT !.count = b.count] = b
    BY <2>2 DEF Buckets
  <2>5. DOMAIN buckets' = DOMAIN buckets /\ \A k \in DOMAIN buckets : buckets'[k] = buckets[k]
    BY <2>1, <2>3, <2>4
  <2>6. admitted' = admitted
    BY <1>2 DEF Count
  <2>7. buckets' \in [DOMAIN buckets' -> [started : Nat, count : Nat]]
    BY <2>3, <2>5 DEF Limited
  <2>8. QED BY <1>1, <2>5, <2>6, <2>7 DEF Limited
<1>3. CASE Allow(key)
  <2>1. admitted' = [admitted EXCEPT ![key] = more]
    BY <1>3 DEF Count
  <2>2. \A k \in Keys : admitted'[k] = IF k = key THEN more ELSE admitted[k]
    BY <2>1 DEF Limited
  <2>3. \A k \in Keys : admitted'[k] \in Histories /\ Monotone(admitted'[k])
    BY <2>2, LimitedParts, OnceMonotone
  <2>4. admitted' \in [Keys -> [1..Window -> Nat]]
    BY <2>1, <2>2, <2>3 DEF Limited, Histories
  <2>5. b \in Buckets /\ b.count < RateLimit
    BY <1>1, <1>3, LimitedParts DEF Allow, Bucket, Buckets
  <2> DEFINE filled == [started |-> b.started, count |-> b.count + 1]
  <2>6. Filling(filled, more, now)
    <3>1. CASE key \notin DOMAIN buckets
      <4>1. filled = [started |-> now, count |-> 1]
        BY <3>1 DEF Bucket
      <4>2. QED BY <1>1, <3>1, <4>1, LimitedParts, FilledFirst
    <3>2. CASE key \in DOMAIN buckets /\ Expired(buckets[key])
      <4>1. filled = [started |-> now, count |-> 1]
        BY <3>2 DEF Bucket
      <4>2. now - buckets[key].started >= Window
        BY <3>2 DEF Expired
      <4>3. QED BY <1>1, <3>2, <4>1, <4>2, LimitedParts, FilledAnew
    <3>3. CASE key \in DOMAIN buckets /\ ~Expired(buckets[key])
      <4>1. b = buckets[key]
        BY <3>3 DEF Bucket
      <4> HIDE DEF b
      <4>2. QED BY <1>1, <2>5, <3>3, <4>1, LimitedParts, FilledOnce
    <3>4. QED BY <3>1, <3>2, <3>3
  <2> HIDE DEF b
  <2>7. [b EXCEPT !.count = b.count + 1] = filled /\ filled \in Buckets
    BY <2>5 DEF Buckets
  <2> HIDE DEF filled
  <2>8. buckets' = [k \in DOMAIN buckets \cup {key} |->
                      IF k = key THEN filled ELSE buckets[k]]
    BY <1>3, <2>7 DEF Count, b
  <2>9. /\ DOMAIN buckets' = DOMAIN buckets \cup {key} /\ buckets'[key] = filled
        /\ \A k \in DOMAIN buckets \ {key} : buckets'[k] = buckets[k]
    BY <2>8
  <2>10. \A k \in DOMAIN buckets' : buckets'[k] \in Buckets /\ k \in Keys
    BY <2>7, <2>9, LimitedParts
  <2>11. buckets' \in [DOMAIN buckets' -> [started : Nat, count : Nat]]
    BY <2>8, <2>9, <2>10 DEF Buckets
  <2>12. \A k \in DOMAIN buckets' : Filling(buckets'[k], admitted'[k], now')
    BY <1>1, <2>2, <2>6, <2>9, LimitedParts
  <2>13. \A k \in Keys \ DOMAIN buckets' : \A span \in 1..Window : admitted'[k][span] = 0
    BY <2>2, <2>9, LimitedParts
  <2>14. QED BY <1>1, <2>3, <2>4, <2>10, <2>11, <2>12, <2>13 DEF Limited, Monotone
<1>4. QED BY <1>2, <1>3

-----------------------------------------------------------------------------
(* What an action does to one request *)

\* A request comes to a good state, and holds a slot only if it had one or there
\* was one to have.
Moved(r) ==
  \E q : /\ Good(q, gating) /\ req' = [req EXCEPT ![r] = q]
         /\ q.pc = "done" \/ r \in InFlight \/ ~Full

LEMMA MovedGood ==
  ASSUME Requesting, NEW r \in Requests, Moved(r), gating' = gating
  PROVE  Requesting'
<1> PICK q : Good(q, gating) /\ req' = [req EXCEPT ![r] = q]
  BY DEF Moved
<1>1. q \in RequestStates
  BY DEF Good, OnItsWay
<1>2. \A p \in Requests : req'[p] = IF p = r THEN q ELSE req[p]
  BY DEF Requesting
<1>3. req' \in [Requests -> RequestStates]
  BY <1>1 DEF Requesting
<1>4. \A p \in Requests : Good(req'[p], gating')
  BY <1>2 DEF Requesting
<1>5. QED BY <1>3, <1>4 DEF Requesting

LEMMA MovedSlots ==
  ASSUME Requesting, SlotsHeld, NEW r \in Requests, Moved(r)
  PROVE  SlotsHeld'
<1> PICK q : /\ req' = [req EXCEPT ![r] = q]
             /\ q.pc = "done" \/ r \in InFlight \/ ~Full
  BY DEF Moved
<1>1. \A p \in Requests : req'[p] = IF p = r THEN q ELSE req[p]
  BY DEF Requesting
<1>2. CASE q.pc = "done" \/ r \in InFlight
  <2>1. InFlight' \subseteq InFlight
    BY <1>1, <1>2 DEF InFlight
  <2>2. IsFiniteSet(InFlight') /\ Cardinality(InFlight') <= Cardinality(InFlight)
    BY <2>1, FS_Subset DEF SlotsHeld
  <2>3. Cardinality(InFlight') \in Nat /\ Cardinality(InFlight) \in Nat
    BY <2>2, FS_CardinalityType DEF SlotsHeld
  <2>4. QED BY <2>2, <2>3, BoundsAssumption DEF SlotsHeld
<1>3. CASE ~Full
  <2>1. InFlight' \subseteq InFlight \cup {r}
    BY <1>1 DEF InFlight
  <2>2. /\ IsFiniteSet(InFlight \cup {r})
        /\ Cardinality(InFlight \cup {r}) <= Cardinality(InFlight) + 1
        /\ Cardinality(InFlight) \in Nat /\ Cardinality(InFlight \cup {r}) \in Nat
    <3>1. IsFiniteSet(InFlight) /\ Cardinality(InFlight) \in Nat
      BY FS_CardinalityType DEF SlotsHeld
    <3>2. /\ IsFiniteSet(InFlight \cup {r})
          /\ \/ Cardinality(InFlight \cup {r}) = Cardinality(InFlight)
             \/ Cardinality(InFlight \cup {r}) = Cardinality(InFlight) + 1
      BY <3>1, FS_AddElement
    <3>3. QED BY <3>1, <3>2
  <2>3. IsFiniteSet(InFlight') /\ Cardinality(InFlight') <= Cardinality(InFlight \cup {r})
    BY <2>1, <2>2, FS_Subset
  <2>4. Cardinality(InFlight') \in Nat
    BY <2>3, FS_CardinalityType
  <2>5. Cardinality(InFlight) < Slots
    BY <1>3, <2>2, BoundsAssumption DEF Full
  <2>6. QED BY <2>2, <2>3, <2>4, <2>5, BoundsAssumption DEF SlotsHeld
<1>4. QED BY <1>2, <1>3

LEMMA FinishMoves ==
  ASSUME Requesting, NEW r \in Requests, r \in InFlight,
         NEW answer \in Answers \ {"pending", "failed", "error5xx"}, Finish(r, answer),
         answer \in {"ok", "admitted"} => req[r].route \in Routes \ {None}
  PROVE  Moved(r)
<1> DEFINE q == [req[r] EXCEPT !.pc = "done", !.answer = answer]
<1>1. Good(req[r], gating) /\ req[r] \in RequestStates /\ req[r].pc # "idle"
  BY DEF Requesting, InFlight
<1>2. Good(q, gating)
  BY <1>1, FinishGood
<1>3. req' = [req EXCEPT ![r] = q]
  BY <1>1 DEF Finish, Requesting
<1>4. QED BY <1>2, <1>3 DEF Moved

LEMMA ArriveMoves ==
  ASSUME NEW r \in Requests, NEW kind \in Kinds, Arrive(r, kind)
  PROVE  Moved(r)
<1> DEFINE allowed == Allow(<<"ip", "unknown">>)
           q == [Nobody EXCEPT !.pc = IF allowed THEN "selecting" ELSE "done",
                               !.answer = IF allowed THEN "pending" ELSE "limited",
                               !.kind = kind]
           refused == [Nobody EXCEPT !.pc = "done", !.kind = kind, !.answer = "unavailable"]
<1>1. CASE Full
  <2>1. req' = [req EXCEPT ![r] = refused]
    BY <1>1 DEF Arrive
  <2>2. refused = [Nobody EXCEPT !.pc = "done", !.answer = "unavailable", !.kind = kind]
    BY DEF Nobody
  <2>3. Good(refused, gating)
    BY <2>2, ArriveGood DEF Answers
  <2>4. refused.pc = "done"
    BY DEF Nobody
  <2>5. QED BY <2>1, <2>3, <2>4 DEF Moved
<1>2. CASE ~Full
  <2>1. req' = [req EXCEPT ![r] = q]
    BY <1>2 DEF Arrive
  <2>2. Good(q, gating)
    BY ArriveGood DEF Answers
  <2>3. QED BY <1>2, <2>1, <2>2 DEF Moved
<1>3. QED BY <1>1, <1>2

LEMMA SelectMoves ==
  ASSUME Requesting, table \in Tables, NEW r \in Requests, Select(r)
  PROVE  Moved(r)
<1> DEFINE kind == req[r].kind
           own == OfTunnel(table, kind.tunnel)
           route == SelectRoute(table, own, kind.host, kind.path)
           q == [req[r] EXCEPT !.pc = "matched", !.route = route,
                               !.exposed = OpenTo(gating, kind, route)]
<1>1. Good(req[r], gating) /\ req[r] \in RequestStates /\ req[r].pc = "selecting"
  BY DEF Requesting, Select
<1>2. r \in InFlight
  BY <1>1 DEF InFlight
<1>3. CASE route = None
  <2>1. Finish(r, "welcome") \/ Finish(r, "not_found")
    BY <1>3 DEF Select
  <2>2. QED BY <1>2, <2>1, FinishMoves DEF Answers
<1>4. CASE route # None
  <2>1. req' = [req EXCEPT ![r].pc = "matched", ![r].route = route,
                           ![r].exposed = OpenTo(gating, kind, route)]
    BY <1>4 DEF Select
  <2>2. route \in Routes \ {None}
    BY <1>4, SelectsRoute
  <2> HIDE DEF route
  <2>3. req' = [req EXCEPT ![r] = q]
    BY <1>1, <2>1 DEF Requesting
  <2>4. Good(q, gating)
    BY <1>1, <2>2, MatchGood
  <2>5. QED BY <1>2, <2>3, <2>4 DEF Moved
<1>5. QED BY <1>3, <1>4

LEMMA ReadCodeMoves ==
  ASSUME Requesting, gating \in Gatings, NEW r \in Requests, ReadCode(r)
  PROVE  Moved(r)
<1> DEFINE route == req[r].route
           key == <<"route", "unknown", route.id>>
           q == [req[r] EXCEPT !.pc = "coded", !.code = Asks(gating, route)]
<1>1. Good(req[r], gating) /\ req[r] \in RequestStates /\ req[r].pc = "matched"
  BY DEF Requesting, ReadCode
<1>2. r \in InFlight
  BY <1>1 DEF InFlight
<1>3. CASE ~Allow(key)
  <2>1. Finish(r, "limited")
    BY <1>3 DEF ReadCode
  <2>2. QED BY <1>2, <2>1, FinishMoves DEF Answers
<1>4. CASE Allow(key)
  <2>1. req' = [req EXCEPT ![r].pc = "coded", ![r].code = Asks(gating, route)]
    BY <1>4 DEF ReadCode
  <2>2. req' = [req EXCEPT ![r] = q]
    BY <1>1, <2>1 DEF Requesting
  <2>3. Good(q, gating)
    BY <1>1, ReadCodeGood
  <2>4. QED BY <1>2, <2>2, <2>3 DEF Moved
<1>5. QED BY <1>3, <1>4

LEMMA PassGateMoves ==
  ASSUME Requesting, gating \in Gatings, NEW r \in Requests, PassGate(r)
  PROVE  Moved(r)
<1> DEFINE verdict == GateVerdict(req[r].kind, Asks(gating, req[r].route))
           q == [req[r] EXCEPT !.pc = "passed", !.asked = Asks(gating, req[r].route)]
<1>1. Good(req[r], gating) /\ req[r] \in RequestStates /\ req[r].pc = "coded"
  BY DEF Requesting, PassGate
<1>2. r \in InFlight
  BY <1>1 DEF InFlight
<1>3. CASE Finish(r, "too_large")
  BY <1>2, <1>3, FinishMoves DEF Answers
<1>4. CASE verdict # "pass" /\ Finish(r, verdict)
  <2>1. verdict \in Answers \ {"pending", "failed", "error5xx"}
    BY <1>4, VerdictPasses DEF Answers
  <2>2. req[r].route \in Routes \ {None}
    BY <1>1 DEF Good, OnItsWay
  <2>3. QED BY <1>2, <1>4, <2>1, <2>2, FinishMoves
<1>5. CASE /\ verdict = "pass"
           /\ req' = [req EXCEPT ![r].pc = "passed", ![r].asked = Asks(gating, req[r].route)]
  <2>1. OpenTo(gating, req[r].kind, req[r].route)
    BY <1>5, OpenPasses
  <2>2. req' = [req EXCEPT ![r] = q]
    BY <1>1, <1>5 DEF Requesting
  <2>3. Good(q, gating)
    BY <1>1, <2>1, PassGood
  <2>4. QED BY <1>2, <2>2, <2>3 DEF Moved
<1>6. QED BY <1>3, <1>4, <1>5 DEF PassGate

LEMMA OrderMoves ==
  ASSUME Requesting, NEW r \in Requests, Order(r)
  PROVE  Moved(r)
<1> DEFINE targets == OrderedTargets(req[r].route, checkPath, health)
           q == [req[r] EXCEPT !.pc = "trying", !.targets = targets]
<1>1. Good(req[r], gating) /\ req[r] \in RequestStates /\ req[r].pc = "passed"
  BY DEF Requesting, Order
<1>2. r \in InFlight
  BY <1>1 DEF InFlight
<1>3. Good(q, gating)
  BY <1>1, OrderGood
<1>4. req' = [req EXCEPT ![r].pc = "trying", ![r].targets = targets]
  BY DEF Order
<1> HIDE DEF targets
<1>5. req' = [req EXCEPT ![r] = q]
  BY <1>1, <1>4 DEF Requesting
<1>6. QED BY <1>2, <1>3, <1>5 DEF Moved

LEMMA Outcomes ==
  ASSUME NEW r, NEW behaviour \in Behaviours
  PROVE  /\ Outcome(r, behaviour) \in Answers \ {"pending"}
         /\ Outcome(r, behaviour) \in {"failed", "error5xx"} => ~Healthy(behaviour)
         /\ Outcome(r, behaviour) = "failed" /\ ~req[r].kind.upgrade => ~req[r].seen5xx
<1>1. CASE behaviour = "ok"
  <2>1. HttpOutcome(r, behaviour) = "ok" /\ UpgradeOutcome(behaviour) = "ok"
    BY <1>1 DEF HttpOutcome, UpgradeOutcome
  <2>2. QED BY <1>1, <2>1 DEF Outcome, Healthy, Answers
<1>2. CASE behaviour = "broken"
  <2>1. HttpOutcome(r, behaviour) \in {"bad_gateway", "ok"} /\ UpgradeOutcome(behaviour) = "bad_gateway"
    BY <1>2 DEF HttpOutcome, UpgradeOutcome
  <2>2. QED BY <1>2, <2>1 DEF Outcome, Healthy, Answers
<1>3. CASE behaviour = "error5xx"
  <2>1. HttpOutcome(r, behaviour) = "error5xx" /\ UpgradeOutcome(behaviour) = "error5xx"
    BY <1>3 DEF HttpOutcome, UpgradeOutcome
  <2>2. QED BY <1>3, <2>1 DEF Outcome, Healthy, Answers
<1>4. CASE behaviour = "down"
  <2>1. /\ HttpOutcome(r, behaviour) = IF req[r].seen5xx THEN "error5xx" ELSE "failed"
        /\ UpgradeOutcome(behaviour) = "failed"
    BY <1>4 DEF HttpOutcome, UpgradeOutcome
  <2>2. QED BY <1>4, <2>1 DEF Outcome, Healthy, Answers
<1>5. QED BY <1>1, <1>2, <1>3, <1>4 DEF Behaviours

LEMMA TryMoves ==
  ASSUME Requesting, serving \in [Upstreams -> Behaviours], NEW r \in Requests, Try(r)
  PROVE  Moved(r)
<1> DEFINE q == req[r]
           upstream == Head(q.targets)
           behaviour == serving[upstream]
           m == Message(r, upstream)
           sent == Append(q.sent, m)
           answer == Outcome(r, behaviour)
           answered == [q EXCEPT !.pc = "done", !.sent = sent, !.answer = answer]
           seen == q.seen5xx \/ behaviour = "error5xx"
           retried == [q EXCEPT !.targets = Tail(q.targets), !.sent = sent, !.seen5xx = seen]
<1>1. Good(q, gating) /\ q \in RequestStates /\ q.pc = "trying"
  BY DEF Requesting, Try
<1>2. r \in InFlight
  BY <1>1 DEF InFlight
<1>3. q.kind \in Kinds /\ q.route \in Routes /\ Len(q.targets) \in {1, 2}
  BY <1>1 DEF Good, OnItsWay, Targeted
<1>4. upstream = q.targets[1] /\ upstream \in Upstreams
  BY <1>1, <1>3 DEF RequestStates
<1>5. behaviour \in Behaviours
  BY <1>4
<1>6. /\ m.to = q.targets[1] /\ m.headers = CopyHeaders(q.kind, q.route, q.code)
      /\ m \in Messages
  <2>1. m.headers \in SUBSET {"plain", "host", "upgrade", "authorization"}
    BY HeadersCopied DEF Message
  <2>2. m.path \in {JoinUpstreamPath(Slash, RewritePath(k.path, x.strip)) : k \in Kinds, x \in Routes}
    BY <1>3 DEF Message
  <2>3. QED BY <1>4, <2>1, <2>2 DEF Message, Messages
<1>7. CASE Healthy(behaviour) \/ Exhausted(r)
  <2>1. req' = [req EXCEPT ![r].pc = "done", ![r].sent = sent, ![r].answer = answer]
    BY <1>7 DEF Try
  <2>2. answer \in Answers \ {"pending"}
    BY <1>5, Outcomes
  <2>3. answer \in {"failed", "error5xx"} => Len(q.targets) = 1
    BY <1>5, <1>7, Outcomes DEF Exhausted
  <2>4. answer = "failed" /\ ~q.kind.upgrade => ~q.seen5xx
    BY <1>5, Outcomes
  <2> HIDE DEF answer, m
  <2>5. Good(answered, gating)
    BY <1>1, <1>6, <2>2, <2>3, <2>4, AnsweredGood
  <2> HIDE DEF sent
  <2>6. req' = [req EXCEPT ![r] = answered]
    BY <1>1, <2>1 DEF Requesting
  <2>7. answered.pc = "done"
    BY <1>1 DEF RequestStates
  <2>8. QED BY <2>5, <2>6, <2>7 DEF Moved
<1>8. CASE ~(Healthy(behaviour) \/ Exhausted(r))
  <2>1. req' = [req EXCEPT ![r].targets = Tail(q.targets), ![r].sent = sent, ![r].seen5xx = seen]
    BY <1>8 DEF Try
  <2>2. Len(q.targets) # 1
    BY <1>8 DEF Exhausted
  <2>3. seen \in BOOLEAN
    BY <1>1 DEF RequestStates
  <2> HIDE DEF seen, m
  <2>4. Good(retried, gating)
    BY <1>1, <1>6, <2>2, <2>3, RetriedGood
  <2> HIDE DEF sent
  <2>5. req' = [req EXCEPT ![r] = retried]
    BY <1>1, <2>1 DEF Requesting
  <2>6. QED BY <1>2, <2>4, <2>5 DEF Moved
<1>9. QED BY <1>7, <1>8

LEMMA StepMoves ==
  ASSUME ConfigTyped, Requesting, NEW r \in Requests, Step(r)
  PROVE  Moved(r)
BY SelectMoves, ReadCodeMoves, PassGateMoves, OrderMoves, TryMoves DEF Step, ConfigTyped

LEMMA DisconnectMoves ==
  ASSUME Requesting, NEW r \in Requests, Disconnect(r)
  PROVE  Moved(r)
<1>1. r \in InFlight /\ Finish(r, "gone")
  BY DEF Disconnect
<1>2. QED BY <1>1, FinishMoves DEF Answers

-----------------------------------------------------------------------------
(* Every step keeps every part *)

LEMMA IpKey == <<"ip", "unknown">> \in Keys
BY DEF Keys

LEMMA RouteKey == \A route \in Routes : <<"route", "unknown", route.id>> \in Keys
<1>1. \A route \in Routes : route.id \in RouteIds
  BY DEF Routes, RouteIds, ToSet
<1>2. QED BY <1>1 DEF Keys

LEMMA LimitedKept ==
  ASSUME Limited, UNCHANGED limiter
  PROVE  Limited'
<1>1. buckets' = buckets /\ now' = now /\ admitted' = admitted
  BY DEF limiter
<1>2. QED BY <1>1 DEF Limited

LEMMA ArriveLimited ==
  ASSUME Limited, NEW r \in Requests, NEW kind \in Kinds, Arrive(r, kind)
  PROVE  Limited'
<1>1. CASE Full
  BY <1>1, LimitedKept DEF Arrive
<1>2. CASE ~Full
  BY <1>2, IpKey, CountLimited DEF Arrive
<1>3. QED BY <1>1, <1>2

LEMMA StepLimited ==
  ASSUME Limited, Requesting, NEW r \in Requests, Step(r)
  PROVE  Limited'
<1>1. CASE ReadCode(r)
  <2>1. req[r].route \in Routes
    BY <1>1 DEF Requesting, Good, OnItsWay, ReadCode
  <2>2. <<"route", "unknown", req[r].route.id>> \in Keys
    BY <2>1, RouteKey
  <2>3. QED BY <1>1, <2>2, CountLimited DEF ReadCode
<1>2. CASE Select(r)
  BY <1>2, LimitedKept DEF Select
<1>3. CASE PassGate(r)
  BY <1>3, LimitedKept DEF PassGate
<1>4. CASE Order(r)
  BY <1>4, LimitedKept DEF Order
<1>5. CASE Try(r)
  BY <1>5, LimitedKept DEF Try
<1>6. QED BY <1>1, <1>2, <1>3, <1>4, <1>5 DEF Step

\* A step of a request leaves the monitor and the configuration alone.
LEMMA StepElsewhere ==
  ASSUME NEW r, Step(r) \/ Disconnect(r) \/ \E k \in Kinds : Arrive(r, k)
  PROVE  UNCHANGED <<config, health, monitor, serving, edits>>
BY DEF Step, Select, ReadCode, PassGate, Order, Try, Disconnect, Arrive

LEMMA ConfigKept ==
  ASSUME ConfigTyped, UNCHANGED <<config, serving, edits>>
  PROVE  ConfigTyped'
BY DEF ConfigTyped, config

LEMMA MonitorKept ==
  ASSUME MonitorTyped, UNCHANGED <<health, monitor>>
  PROVE  MonitorTyped'
BY DEF MonitorTyped

LEMMA RequestsKept ==
  ASSUME Requesting, SlotsHeld, UNCHANGED <<req, gating>>
  PROVE  Requesting' /\ SlotsHeld'
<1>1. InFlight' = InFlight
  BY DEF InFlight
<1>2. Requesting'
  BY DEF Requesting
<1>3. QED BY <1>1, <1>2 DEF SlotsHeld

\* The limiter, the requests and the configuration, when the monitor moves.
LEMMA RestKept ==
  ASSUME IInv, UNCHANGED <<config, limiter, serving, req, edits>>
  PROVE  ConfigTyped' /\ SlotsHeld' /\ Limited' /\ Requesting'
BY ConfigKept, LimitedKept, RequestsKept DEF IInv, config

LEMMA RequestSteps ==
  ASSUME IInv, NEW r \in Requests,
         Step(r) \/ Disconnect(r) \/ \E k \in Kinds : Arrive(r, k)
  PROVE  IInv'
<1>1. Moved(r)
  BY StepMoves, DisconnectMoves, ArriveMoves DEF IInv
<1>2. UNCHANGED <<config, health, monitor, serving, edits>>
  BY StepElsewhere
<1>3. Requesting' /\ SlotsHeld'
  BY <1>1, <1>2, MovedGood, MovedSlots DEF IInv, config
<1>4. ConfigTyped' /\ MonitorTyped'
  BY <1>2, ConfigKept, MonitorKept DEF IInv
<1>5. Limited'
  <2>1. CASE Disconnect(r)
    BY <2>1, LimitedKept DEF IInv, Disconnect
  <2>2. CASE Step(r)
    BY <2>2, StepLimited DEF IInv
  <2>3. CASE \E k \in Kinds : Arrive(r, k)
    BY <2>3, ArriveLimited DEF IInv
  <2>4. QED BY <2>1, <2>2, <2>3
<1>6. QED BY <1>3, <1>4, <1>5 DEF IInv

LEMMA KeysChecked ==
  ASSUME NEW t \in Tables, NEW path \in HealthPaths
  PROVE  HealthKeys(t, path) \subseteq Checks
<1> SUFFICES ASSUME NEW r \in ToSet(t)
             PROVE  UpstreamsOf(r) \X {HealthPath(r, path)} \subseteq Checks
  BY DEF HealthKeys
<1>1. r \in Routes
  BY DEF Routes, ToSet
<1>2. UpstreamsOf(r) \subseteq Upstreams
  BY <1>1, RouteUpstreams DEF UpstreamsOf
<1>3. HealthPath(r, path) \in {HealthPath(x, p) : x \in Routes, p \in HealthPaths}
  BY <1>1
<1>4. QED BY <1>2, <1>3 DEF Checks

LEMMA VerdictAdded ==
  ASSUME NEW found \in Verdicts, NEW key \in Checks, NEW v \in BOOLEAN
  PROVE  With(found, key, v) \in Verdicts
<1> PICK S \in SUBSET Checks : found \in [S -> BOOLEAN]
  BY DEF Verdicts
<1> DEFINE more == With(found, key, v)
<1>1. more = [k \in S \cup {key} |-> IF k = key THEN v ELSE found[k]]
  BY DEF With
<1>2. more \in [S \cup {key} -> BOOLEAN]
  BY <1>1
<1>3. S \cup {key} \in SUBSET Checks
  OBVIOUS
<1>4. QED BY <1>2, <1>3 DEF Verdicts

LEMMA MonitorSteps ==
  ASSUME IInv, Monitor
  PROVE  IInv'
<1>1. MonitorTyped'
  <2> DEFINE M == [pc : {"asleep", "settled", "probing"}, path : HealthPaths \cup {<<>>},
                   todo : SUBSET Checks, found : Verdicts]
  <2>1. health \in Verdicts /\ monitor \in M /\ (monitor.pc # "asleep" => monitor.path \in HealthPaths)
    BY DEF IInv, MonitorTyped
  <2>2. CASE RoundStart
    <3>1. monitor' \in M /\ monitor'.path \in HealthPaths
      BY <2>1, <2>2 DEF RoundStart, IInv, ConfigTyped
    <3>2. QED BY <2>1, <2>2, <3>1 DEF RoundStart, MonitorTyped
  <2>3. CASE ReadRoutes
    <3>1. HealthKeys(table, monitor.path) \subseteq Checks
      BY <2>1, <2>3, KeysChecked DEF ReadRoutes, IInv, ConfigTyped
    <3>2. monitor' \in M /\ monitor'.path \in HealthPaths
      BY <2>1, <2>3, <3>1 DEF ReadRoutes
    <3>3. QED BY <2>1, <2>3, <3>2 DEF ReadRoutes, MonitorTyped
  <2>4. CASE RoundEnd
    <3>1. {} \in SUBSET Checks /\ <<>> \in [{} -> BOOLEAN]
      OBVIOUS
    <3>2. <<>> \in Verdicts
      BY <3>1 DEF Verdicts
    <3>3. Asleep \in M /\ Asleep.pc = "asleep"
      BY <3>2 DEF Asleep
    <3>4. QED BY <2>1, <2>4, <3>3 DEF RoundEnd, MonitorTyped
  <2>5. ASSUME NEW key \in monitor.todo, Probe(key)
        PROVE  MonitorTyped'
    <3> DEFINE v == Healthy(serving[key[1]])
               more == With(monitor.found, key, v)
    <3>1. key \in Checks /\ v \in BOOLEAN
      BY <2>1 DEF Healthy
    <3>2. more \in Verdicts
      BY <2>1, <3>1, VerdictAdded
    <3>3. monitor' = [monitor EXCEPT !.todo = monitor.todo \ {key}, !.found = more]
      BY <2>5 DEF Probe
    <3> HIDE DEF more
    <3>4. monitor' \in M /\ monitor'.pc = monitor.pc /\ monitor'.path = monitor.path
      BY <2>1, <3>2, <3>3
    <3>5. QED BY <2>1, <2>5, <3>4 DEF Probe, MonitorTyped
  <2>6. QED BY <2>2, <2>3, <2>4, <2>5 DEF Monitor
<1>2. UNCHANGED <<config, limiter, serving, req, edits>>
  BY DEF Monitor, RoundStart, ReadRoutes, RoundEnd, Probe
<1>3. ConfigTyped' /\ SlotsHeld' /\ Limited' /\ Requesting'
  BY <1>2, RestKept
<1>4. QED BY <1>1, <1>3 DEF IInv

LEMMA TickSteps ==
  ASSUME IInv, Tick
  PROVE  IInv'
<1>1. Limited'
  BY TickLimited DEF IInv
<1>2. UNCHANGED <<config, health, monitor, serving, req, edits>>
  BY DEF Tick
<1>3. ConfigTyped' /\ MonitorTyped' /\ Requesting' /\ SlotsHeld'
  BY <1>2, ConfigKept, MonitorKept, RequestsKept DEF IInv, config
<1>4. QED BY <1>1, <1>3 DEF IInv

LEMMA EditTyped ==
  ASSUME ConfigTyped, Edit
  PROVE  edits' \in 0..MaxEdits
BY BoundsAssumption DEF ConfigTyped, Edit

LEMMA GateEdits ==
  ASSUME IInv, NEW g \in Gatings, EditGates(g)
  PROVE  IInv'
<1>1. ConfigTyped'
  BY EditTyped DEF IInv, EditGates, ConfigTyped
<1>2. MonitorTyped' /\ Limited'
  BY MonitorKept, LimitedKept DEF IInv, EditGates
<1>3. gating' = g
  BY DEF EditGates
<1>4. ASSUME NEW r \in Requests
      PROVE  Good(req'[r], g) /\ req'[r].pc = req[r].pc
  <2> DEFINE q == req[r]
             n == [q EXCEPT !.exposed = q.exposed \/ OpenTo(g, q.kind, q.route),
                            !.stale = q.stale \/ q.pc = "coded"]
  <2>1. Good(q, gating) /\ q \in RequestStates
    BY DEF IInv, Requesting, Good, OnItsWay
  <2>2. CASE r \in InFlight /\ q.route # None
    <3>1. req'[r] = n
      BY <2>2 DEF EditGates
    <3>2. Good(n, g)
      BY <2>1, EditGood
    <3>3. n.pc = q.pc
      BY <2>1 DEF RequestStates
    <3>4. QED BY <3>1, <3>2, <3>3
  <2>3. CASE ~(r \in InFlight /\ q.route # None)
    <3>1. req'[r] = q
      BY <2>3 DEF EditGates
    <3>2. q.pc \in {"idle", "done"} \/ q.route = None
      BY <2>3 DEF InFlight
    <3>3. Good(q, g)
      BY <2>1, <3>2, EditAparted
    <3>4. QED BY <3>1, <3>3
  <2>4. QED BY <2>2, <2>3
<1>5. Requesting'
  <2>1. \A r \in Requests : Good(req'[r], gating') /\ req'[r] \in RequestStates
    BY <1>3, <1>4 DEF Good, OnItsWay
  <2>2. req' = [r \in Requests |-> req'[r]]
    BY DEF EditGates
  <2>3. req' \in [Requests -> RequestStates]
    BY <2>1, <2>2
  <2>4. QED BY <2>1, <2>3 DEF Requesting
<1>6. SlotsHeld'
  <2>1. InFlight' = InFlight
    BY <1>4 DEF InFlight
  <2>2. QED BY <2>1 DEF IInv, SlotsHeld
<1>7. QED BY <1>1, <1>2, <1>5, <1>6 DEF IInv

\* The other edits, and an upstream that comes or goes.
LEMMA OtherEdits ==
  ASSUME IInv,
         \/ \E t \in Tables : EditRoutes(t)
         \/ \E p \in HealthPaths : EditHealthPath(p)
         \/ \E u \in Upstreams, b \in Behaviours : Turn(u, b)
  PROVE  IInv'
<1>1. UNCHANGED <<gating, limiter, health, monitor, req>> /\ Edit
  BY DEF EditRoutes, EditHealthPath, Turn, config
<1>2. MonitorTyped' /\ Limited' /\ Requesting' /\ SlotsHeld'
  BY <1>1, MonitorKept, LimitedKept, RequestsKept DEF IInv
<1>3. ConfigTyped'
  <2>1. edits' \in 0..MaxEdits
    BY <1>1, EditTyped DEF IInv
  <2>2. CASE \E t \in Tables : EditRoutes(t)
    BY <2>1, <2>2 DEF IInv, EditRoutes, ConfigTyped
  <2>3. CASE \E p \in HealthPaths : EditHealthPath(p)
    BY <2>1, <2>3 DEF IInv, EditHealthPath, ConfigTyped
  <2>4. CASE \E u \in Upstreams, b \in Behaviours : Turn(u, b)
    BY <2>1, <2>4 DEF IInv, Turn, ConfigTyped, config
  <2>5. QED BY <2>2, <2>3, <2>4
<1>4. QED BY <1>2, <1>3 DEF IInv

LEMMA InitInvariant == Init => IInv
<1> SUFFICES ASSUME Init PROVE IInv
  OBVIOUS
<1>1. ConfigTyped
  BY BoundsAssumption DEF Init, ConfigTyped
<1>2. MonitorTyped
  <2>1. {} \in SUBSET Checks /\ <<>> \in [{} -> BOOLEAN]
    OBVIOUS
  <2>2. <<>> \in Verdicts
    BY <2>1 DEF Verdicts
  <2>3. QED BY <2>2 DEF Init, MonitorTyped, Asleep
<1>3. \A r \in Requests : req[r] = Nobody
  BY DEF Init
<1>4. Nobody.pc = "idle"
  BY DEF Nobody
<1>5. InFlight = {}
  BY <1>3, <1>4 DEF InFlight
<1>6. SlotsHeld
  BY <1>5, FS_EmptySet, BoundsAssumption DEF SlotsHeld
<1>7. Limited
  <2>1. DOMAIN buckets = {} /\ now = 0 /\ admitted = [k \in Keys |-> [span \in 1..Window |-> 0]]
    BY DEF Init
  <2>2. buckets \in [DOMAIN buckets -> [started : Nat, count : Nat]]
    BY DEF Init
  <2>3. \A k \in Keys : \A span \in 1..Window : admitted[k][span] = 0
    BY <2>1
  <2>4. \A k \in Keys, span \in 2..Window : admitted[k][span - 1] <= admitted[k][span]
    BY <2>3, BoundsAssumption
  <2>5. admitted \in [Keys -> [1..Window -> Nat]]
    BY <2>1
  <2>6. QED BY <2>1, <2>2, <2>3, <2>4, <2>5, BoundsAssumption DEF Limited
<1>8. Requesting
  <2>1. \A r \in Requests : Good(req[r], gating)
    BY <1>3, NobodyGood
  <2>2. Nobody \in RequestStates
    BY NobodyGood DEF Good, OnItsWay
  <2>3. QED BY <2>1, <2>2 DEF Init, Requesting
<1>9. QED BY <1>1, <1>2, <1>6, <1>7, <1>8 DEF IInv

LEMMA NextInvariant == IInv /\ [Next]_vars => IInv'
<1> SUFFICES ASSUME IInv, [Next]_vars PROVE IInv'
  OBVIOUS
<1>1. CASE UNCHANGED vars
  <2>1. UNCHANGED <<config, limiter, serving, req, edits>> /\ UNCHANGED <<health, monitor>>
    BY <1>1 DEF vars, config, limiter
  <2>2. QED BY <2>1, RestKept, MonitorKept DEF IInv
<1>2. CASE Next
  BY <1>2, RequestSteps, MonitorSteps, TickSteps, GateEdits, OtherEdits DEF Next
<1>3. QED BY <1>1, <1>2

\* The inductive invariant holds of the gateway.
LEMMA Invariant == Spec => []IInv
<1>1. Init => IInv
  BY InitInvariant
<1>2. IInv /\ [Next]_vars => IInv'
  BY NextInvariant
<1>3. QED BY <1>1, <1>2, PTL DEF Spec

-----------------------------------------------------------------------------
(* The theorems *)

\* Every variable keeps its type, a request that is still under way has no answer,
\* and no more requests are served at once than there are slots: a permit is given
\* back by every way out of the handler, and never twice (proxy_request_for_tunnel).
THEOREM TypeCorrect == Spec => []TypeOK
<1>1. IInv => TypeOK
  <2> SUFFICES ASSUME IInv PROVE TypeOK
    OBVIOUS
  <2>1. \A k \in DOMAIN health : k[1] \in Upstreams /\ health[k] \in BOOLEAN
    <3>1. PICK S \in SUBSET Checks : health \in [S -> BOOLEAN]
      BY DEF IInv, MonitorTyped, Verdicts
    <3>2. \A k \in S : k \in Checks /\ health[k] \in BOOLEAN
      BY <3>1
    <3>3. \A k \in Checks : k[1] \in Upstreams
      BY DEF Checks
    <3>4. QED BY <3>1, <3>2, <3>3
  <2>2. monitor.pc \in {"asleep", "settled", "probing"}
    BY DEF IInv, MonitorTyped
  <2>3. ASSUME NEW r \in Requests
        PROVE  /\ req[r].pc \in Steps
               /\ req[r].answer \in IF req[r].pc = "done" THEN Answers \ {"pending"}
                                                         ELSE {"pending"}
    BY DEF IInv, Requesting, Good, OnItsWay, RequestStates
  <2>4. Cardinality({r \in Requests : req[r].pc \notin {"idle", "done"}}) <= Slots
    BY DEF IInv, SlotsHeld, InFlight
  <2>5. /\ table \in Tables /\ gating \in Gatings /\ checkPath \in HealthPaths
        /\ serving \in [Upstreams -> Behaviours] /\ edits \in 0..MaxEdits
    BY DEF IInv, ConfigTyped
  <2>6. now \in 0..MaxTime /\ DOMAIN buckets \subseteq Keys
    BY DEF IInv, Limited
  <2>7. QED BY <2>1, <2>2, <2>3, <2>4, <2>5, <2>6, Zenon DEF TypeOK
<1>2. QED BY <1>1, Invariant, PTL

\* Nothing is forwarded for a request that its route's gate was never open to, for
\* any gates, routes and edits of them (proxy_request_for_tunnel asks the gate after
\* it has read the code, and again nothing after that).
THEOREM NeverPast == Spec => []NeverPastGate
<1>1. IInv => NeverPastGate
  BY DEF IInv, Requesting, Good, Gated, Forwarding, NeverPastGate
<1>2. QED BY <1>1, Invariant, PTL

\* A code that opens the gate does not reach the upstream as a bearer token, whatever
\* the codes and the headers of the requests, unless the gates were edited between
\* the two times that they are read (copy_headers_to_upstream).
THEOREM CodeStays == Spec => []CodeStaysHere
<1>1. IInv => CodeStaysHere
  <2> SUFFICES ASSUME IInv, NEW r \in Requests, NEW i \in DOMAIN req[r].sent,
                      "authorization" \in req[r].sent[i].headers,
                      req[r].kind.code = req[r].asked
               PROVE  req[r].stale
    BY DEF CodeStaysHere
  <2>1. Coded(req[r], gating) /\ req[r].sent # <<>>
    BY DEF IInv, Requesting, Good
  <2>2. "authorization" \in CopyHeaders(req[r].kind, req[r].route, req[r].code)
    BY <2>1 DEF Coded
  <2>3. req[r].kind.code # req[r].code
    BY <2>2, HeadersCopied
  <2>4. req[r].stale \/ req[r].code = req[r].asked
    BY <2>1 DEF Coded, Forwarding
  <2>5. QED BY <2>3, <2>4
<1>2. QED BY <1>1, Invariant, PTL

\* A request is sent to an upstream at most once, fails only after every upstream of
\* its route was tried, and shows a 5xx only if none did better, whatever the verdicts
\* of the monitor were when the targets were put in order (ordered_proxy_targets).
THEOREM Failover == Spec => []FailoverFaithful
<1>1. IInv => FailoverFaithful
  <2> SUFFICES ASSUME IInv, NEW r \in Requests
               PROVE  /\ Cardinality(Tried(req[r])) = Len(req[r].sent)
                      /\ req[r].answer \in {"failed", "error5xx"} =>
                           Tried(req[r]) = UpstreamsOf(req[r].route)
                      /\ req[r].answer = "failed" /\ ~req[r].kind.upgrade => ~req[r].seen5xx
    BY DEF FailoverFaithful, Tried
  <2> DEFINE q == req[r]
  <2>1. Targeted(q) /\ q.sent \in Seq(Messages)
    BY DEF IInv, Requesting, Good, OnItsWay, RequestStates
  <2>2. Len(q.sent) \in 0..2 /\ DOMAIN q.sent = 1..Len(q.sent)
    <3>1. Len(q.sent) <= 2
      BY <2>1 DEF Targeted
    <3>2. Len(q.sent) \in Nat /\ DOMAIN q.sent = 1..Len(q.sent)
      BY <2>1
    <3>3. \A n \in Nat : n <= 2 => n \in 0..2
      OBVIOUS
    <3> HIDE DEF q
    <3>4. Len(q.sent) \in 0..2
      BY <3>1, <3>2, <3>3
    <3>5. QED BY <3>2, <3>4
  <2>3. Cardinality(Tried(q)) = Len(q.sent)
    <3>1. CASE Len(q.sent) = 0
      <4>1. Tried(q) = {}
        BY <2>2, <3>1 DEF Tried
      <4>2. QED BY <3>1, <4>1, FS_EmptySet
    <3>2. CASE Len(q.sent) = 1
      <4>1. Tried(q) = {q.sent[1].to}
        BY <2>2, <3>2 DEF Tried
      <4>2. QED BY <3>2, <4>1, FS_Singleton
    <3>3. CASE Len(q.sent) = 2
      <4>1. Tried(q) = {q.sent[1].to} \cup {q.sent[2].to} /\ q.sent[1].to # q.sent[2].to
        BY <2>1, <2>2, <3>3 DEF Tried, Targeted
      <4>2. /\ IsFiniteSet({q.sent[1].to}) /\ Cardinality({q.sent[1].to}) = 1
            /\ q.sent[2].to \notin {q.sent[1].to}
        BY <4>1, FS_Singleton
      <4>3. Cardinality({q.sent[1].to} \cup {q.sent[2].to}) = 1 + 1
        BY <4>2, FS_AddElement
      <4>4. QED BY <3>3, <4>1, <4>3
    <3>4. QED BY <2>2, <3>1, <3>2, <3>3
  <2>4. QED BY <2>1, <2>3 DEF Targeted
<1>2. QED BY <1>1, Invariant, PTL

\* In any span as long as the window a key is let through at most twice the limit less
\* one, whatever the limit, the window and the arrivals (GatewayRateLimiter::allow).
THEOREM Bursts == Spec => []BurstBound
<1>1. IInv => BurstBound
  <2> SUFFICES ASSUME IInv, NEW k \in Keys
               PROVE  admitted[k][Window] <= 2 * RateLimit - 1
    BY DEF BurstBound
  <2>1. RateLimit \in Nat \ {0} /\ Window \in 1..Window
    BY BoundsAssumption
  <2>2. admitted[k] \in Histories
    BY LimitedParts DEF IInv
  <2>3. admitted[k][Window] \in Nat
    BY <2>1, <2>2 DEF Histories
  <2>4. CASE k \in DOMAIN buckets
    <3>1. /\ buckets[k].count \in 1..RateLimit
          /\ admitted[k][Window] <= buckets[k].count + RateLimit - 1
      BY <2>4, LimitedParts DEF IInv, Filling
    <3>2. QED BY <2>1, <2>3, <3>1
  <2>5. CASE k \notin DOMAIN buckets
    BY <2>1, <2>5, LimitedParts DEF IInv
  <2>6. QED BY <2>4, <2>5
<1>2. QED BY <1>1, Invariant, PTL

\* What the gateway hands to a browser comes back as it was meant, for any mount,
\* namespaces, paths, routes and codes: a reference or a Location is moved under the
\* mount of the route once and the upstream is asked for what it named
\* (rewrite_root_paths, rewrite_root_location, rewrite_path), a cookie covers the moved
\* paths it covered before (rewrite_cookie_path), and the cookie of a gate opens it on
\* every path of the route (route_access_cookie_path).
THEOREM Followed == Spec => []FollowedBack
<1>1. IInv => FollowedBack
  <2> SUFFICES ASSUME IInv, NEW r \in Requests, req[r].answer \in {"ok", "admitted"}
               PROVE  /\ Moves(req[r].route) => MovedBack(req[r].route)
                      /\ LetBackIn(req[r].route, req[r].kind.code)
    BY DEF FollowedBack
  <2>1. req[r].route \in Routes
    BY DEF IInv, Requesting, Good, OnItsWay
  <2>2. QED BY <2>1, AllMovedBack, AllLetBackIn
<1>2. QED BY <1>1, Invariant, PTL
=============================================================================
