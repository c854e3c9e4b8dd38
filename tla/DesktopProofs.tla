---------------------------- MODULE DesktopProofs ----------------------------
(***************************************************************************)
(* Proofs about the desktop app, for any number of callers, profiles,      *)
(* tools and updates. Daemons: as long as attempts do not overlap, there   *)
(* is one starter at most, and each point of its way fixes whose every     *)
(* daemon is. Profiles: a command that is past an entry of the keyring has *)
(* there a secret of the profile in its copy, and so has the file, until   *)
(* another profile is about to be put in its place. Executables: a         *)
(* download has one job, and what a job has verified is what it moves.     *)
(***************************************************************************)
EXTENDS DesktopDaemon, DesktopProfiles, Installers, FiniteSetTheorems, TLAPS

(* Daemons *)

Nobody == [at : Where \ {"replacing", "opening", "started"}, holds : {NoDaemon}, looks : 0 .. Polls]
Holder == [at : {"replacing", "opening", "started"}, holds : Embeddeds, looks : 0 .. Polls]

\* The types that the ownership needs.
Typed ==
  /\ desk \in [connection : {"unavailable", "external", "embedded"},
               embedded : Embeddeds \union {NoDaemon}, bootstrapping : BOOLEAN]
  /\ hosted \in [Embeddeds -> Stages]
  /\ ensure \in [Windows -> Nobody \cup Holder]

Starting(c) == ensure[c].at \in Starter

Owners ==
  /\ \A c, d \in Windows : Starting(c) /\ Starting(d) => c = d
  /\ desk.embedded # NoDaemon => hosted[desk.embedded] = "serving"
  /\ \A c \in Windows : Starting(c) /\ ensure[c].at # "taking" => desk.embedded = NoDaemon
  /\ \A c \in Windows :
       /\ ensure[c].at \in {"replacing", "started"} => hosted[ensure[c].holds] = "serving"
       /\ ensure[c].at = "opening" => hosted[ensure[c].holds] = "bound"
  /\ \A n \in Embeddeds : hosted[n] \in {"bound", "serving", "abandoned"} =>
       desk.embedded = n \/ \E c \in Windows : ensure[c].holds = n

Owned == app.is = "running" /\ ~overlapped => Owners

\* Two starters at once are more than one.
LEMMA OneStarter ==
  ASSUME NEW S \in SUBSET Windows, ~(Cardinality(S) > 1), NEW c \in S, NEW d \in S
  PROVE  c = d
<1> SUFFICES ASSUME c # d PROVE FALSE
  OBVIOUS
<1>1. IsFiniteSet(S)
  BY DesktopAssumption, FS_Subset
<1>2. IsFiniteSet({c}) /\ Cardinality({c}) = 1
  BY FS_Singleton
<1>3. Cardinality({c} \cup {d}) = 2
  <2>1. d \notin {c}
    OBVIOUS
  <2>2. Cardinality({c} \cup {d}) = Cardinality({c}) + 1
    BY <1>2, <2>1, FS_AddElement
  <2>3. QED BY <1>2, <2>2
<1>4. Cardinality({c} \cup {d}) <= Cardinality(S)
  BY <1>1, FS_Subset
<1>5. Cardinality(S) \in Nat
  BY <1>1, FS_CardinalityType
<1>6. QED BY <1>3, <1>4, <1>5

LEMMA Shapes ==
  ASSUME Typed, NEW c \in Windows
  PROVE  /\ ensure[c].at \in {"replacing", "opening", "started"} => ensure[c] \in Holder
         /\ ensure[c].at \notin {"replacing", "opening", "started"} => ensure[c] \in Nobody
<1>1. ensure[c] \in Nobody \/ ensure[c] \in Holder
  BY DEF Typed
<1>2. QED BY <1>1 DEF Nobody, Holder

LEMMA InitOwned == DeskInit => Typed /\ Owned
<1> SUFFICES ASSUME DeskInit PROVE Typed /\ Owned
  OBVIOUS
<1>1. \A c \in Windows : ensure[c] = Idle
  BY DEF DeskInit
<1>2. Idle \in Nobody
  BY DesktopAssumption DEF Idle, Nobody, Where
<1>3. Typed
  BY <1>2 DEF DeskInit, Typed, Stages
<1>4. desk.embedded = NoDaemon /\ \A n \in Embeddeds : hosted[n] = "unborn"
  BY DEF DeskInit
<1>5. Idle.at = "idle"
  BY DEF Idle
<1>6. Owners
  BY <1>1, <1>4, <1>5 DEF Owners, Starting, Starter
<1>7. QED BY <1>3, <1>6 DEF Owned

\* A caller that goes from one place to another.
Moves(c, place) ==
  /\ place \in Nobody \cup Holder
  /\ ensure' = [ensure EXCEPT ![c] = place]

LEMMA MovesTyped ==
  ASSUME Typed, NEW c \in Windows, NEW place, Moves(c, place)
  PROVE  /\ ensure' \in [Windows -> Nobody \cup Holder]
         /\ ensure'[c] = place
         /\ \A d \in Windows \ {c} : ensure'[d] = ensure[d]
BY DEF Typed, Moves

LEMMA GoesMoves ==
  ASSUME Typed, NEW c \in Windows, NEW at, Goes(c, at),
         \/ ensure[c] \in Nobody /\ at \in Where \ {"replacing", "opening", "started"}
         \/ ensure[c] \in Holder /\ at \in {"replacing", "opening", "started"}
  PROVE  \E place : Moves(c, place) /\ place.at = at /\ place.holds = ensure[c].holds
<1> DEFINE place == [ensure[c] EXCEPT !.at = at]
<1>1. place \in Nobody \cup Holder /\ place.at = at /\ place.holds = ensure[c].holds
  BY DEF Nobody, Holder
<1>2. ensure' = [ensure EXCEPT ![c] = place]
  BY DEF Goes
<1>3. QED BY <1>1, <1>2 DEF Moves

LEMMA IdleMoves ==
  ASSUME Typed, NEW c \in Windows, ensure' = [ensure EXCEPT ![c] = Idle]
  PROVE  Moves(c, Idle) /\ Idle.at = "idle" /\ Idle.holds = NoDaemon
BY DesktopAssumption DEF Moves, Idle, Nobody, Where

LEMMA StepOwned == Typed /\ Owned /\ [DeskNext]_deskVars => Typed' /\ Owned'
<1> SUFFICES ASSUME Typed, Owned, [DeskNext]_deskVars PROVE Typed' /\ Owned'
  OBVIOUS
<1>1. ASSUME NEW c \in Windows, Probe(c) \/ ProbeFails(c) PROVE Typed' /\ Owned'
  <2>1. ensure[c].at \in {"idle", "probing"} /\ ensure[c] \in Nobody
    BY <1>1, Shapes DEF Probe, ProbeFails
  <2>2. PICK place : Moves(c, place) /\ place.at \in {"probing", "claim"} /\ place.holds = ensure[c].holds
    BY <1>1, <2>1, GoesMoves DEF Probe, ProbeFails, Where
  <2>3. Typed'
    BY <1>1, <2>2, MovesTyped DEF Probe, ProbeFails, Typed
  <2>4. ASSUME Owners PROVE Owners'
    BY <1>1, <2>1, <2>2, <2>4, MovesTyped DEF Probe, ProbeFails, Owners, Starting, Starter
  <2>5. QED BY <1>1, <2>3, <2>4 DEF Probe, ProbeFails, Owned
<1>2. ASSUME NEW c \in Windows, Adopt(c) PROVE Typed' /\ Owned'
  <2>1. ensure[c].at = "probing" /\ ensure[c] \in Nobody /\ ensure[c].holds = NoDaemon
    BY <1>2, Shapes DEF Adopt, Nobody
  <2>2. Moves(c, Idle) /\ Idle.at = "idle" /\ Idle.holds = NoDaemon
    BY <1>2, IdleMoves DEF Adopt
  <2>3. Typed' /\ desk'.embedded = desk.embedded
    BY <1>2, <2>2, MovesTyped DEF Adopt, Typed
  <2>4. ASSUME Owners PROVE Owners'
    BY <1>2, <2>1, <2>2, <2>3, <2>4, MovesTyped DEF Adopt, Owners, Starting, Starter
  <2>5. QED BY <1>2, <2>3, <2>4 DEF Adopt, Owned
<1>3. ASSUME NEW c \in Windows, Claim(c) PROVE Typed' /\ Owned'
  <2>1. ensure[c].at = "claim" /\ ensure[c] \in Nobody
    BY <1>3, Shapes DEF Claim
  <2>2. PICK place : Moves(c, place) /\ place.at \in {"waiting", "taking"} /\ place.holds = ensure[c].holds
    <3>1. Goes(c, "waiting") \/ Goes(c, "taking")
      BY <1>3 DEF Claim
    <3>2. "waiting" \in Where \ {"replacing", "opening", "started"}
      BY DEF Where, Starter
    <3>3. "taking" \in Where \ {"replacing", "opening", "started"}
      BY DEF Where, Starter
    <3>4. ASSUME NEW at \in {"waiting", "taking"}, Goes(c, at)
          PROVE  \E place : Moves(c, place) /\ place.at = at /\ place.holds = ensure[c].holds
      BY <2>1, <3>2, <3>3, <3>4, GoesMoves
    <3>5. QED BY <3>1, <3>4
  <2>3. Typed' /\ desk'.embedded = desk.embedded /\ hosted' = hosted
    <3>1. hosted' = hosted
      BY <1>3 DEF Claim
    <3>2. desk' = desk \/ desk' = [desk EXCEPT !.bootstrapping = TRUE, !.connection = "unavailable"]
      BY <1>3 DEF Claim
    <3>3. ensure' \in [Windows -> Nobody \cup Holder]
      BY <2>2, MovesTyped
    <3>4. QED BY <3>1, <3>2, <3>3 DEF Typed
  <2>4. ASSUME Owners, ~overlapped' PROVE Owners'
    <3> DEFINE S == {w \in Windows : ensure'[w].at \in Starter}
    <3>1. ~(Cardinality(S) > 1)
      BY <1>3, <2>4 DEF Claim
    <3>2. \A a, b \in S : a = b
      BY <3>1, OneStarter
    <3>3. \A a, b \in Windows : Starting(a)' /\ Starting(b)' => a = b
      BY <3>2 DEF Starting
    <3>4. QED BY <2>1, <2>2, <2>3, <2>4, <3>3, MovesTyped DEF Owners, Starting, Starter
  <2>5. QED BY <1>3, <2>3, <2>4 DEF Claim, Owned
<1>4. ASSUME NEW c \in Windows, Look(c) PROVE Typed' /\ Owned'
  <2>1. ensure[c].at = "waiting" /\ ensure[c] \in Nobody
    BY <1>4, Shapes DEF Look
  <2>2. \E place : Moves(c, place) /\ place.at \in {"waiting", "idle"} /\ place.holds = NoDaemon
    <3>1. CASE desk.bootstrapping /\ ensure[c].looks + 1 < Polls
      <4> DEFINE place == [ensure[c] EXCEPT !.looks = @ + 1]
      <4>1. ensure[c].looks + 1 \in 0 .. Polls
        BY <2>1, <3>1, DesktopAssumption DEF Nobody
      <4>2. place \in Nobody /\ place.at = "waiting" /\ place.holds = NoDaemon
        BY <2>1, <4>1 DEF Nobody
      <4>3. ensure' = [ensure EXCEPT ![c] = place]
        BY <1>4, <3>1 DEF Look
      <4>4. QED BY <4>2, <4>3 DEF Moves
    <3>2. CASE ~(desk.bootstrapping /\ ensure[c].looks + 1 < Polls)
      BY <1>4, <3>2, IdleMoves DEF Look
    <3>3. QED BY <3>1, <3>2
  <2>3. PICK place : Moves(c, place) /\ place.at \in {"waiting", "idle"} /\ place.holds = NoDaemon
    BY <2>2
  <2>4. Typed' /\ ensure[c].holds = NoDaemon
    BY <1>4, <2>1, <2>3, MovesTyped DEF Look, Typed, Nobody
  <2>5. ASSUME Owners PROVE Owners'
    BY <1>4, <2>1, <2>3, <2>4, <2>5, MovesTyped DEF Look, Owners, Starting, Starter
  <2>6. QED BY <1>4, <2>4, <2>5 DEF Look, Owned
<1>5. ASSUME NEW c \in Windows, TakePrevious(c) PROVE Typed' /\ Owned'
  <2> DEFINE place == [ensure[c] EXCEPT !.holds = desk.embedded,
                         !.at = IF desk.embedded = NoDaemon THEN "binding" ELSE "replacing"]
  <2>1. ensure[c].at = "taking" /\ ensure[c] \in Nobody /\ ensure[c].holds = NoDaemon
    BY <1>5, Shapes DEF TakePrevious, Nobody
  <2>2. /\ place \in Nobody \cup Holder /\ place.holds = desk.embedded
        /\ place.at = IF desk.embedded = NoDaemon THEN "binding" ELSE "replacing"
    BY <2>1 DEF Typed, Nobody, Holder, Where, Starter
  <2>3. Moves(c, place)
    BY <1>5, <2>2 DEF TakePrevious, Moves
  <2> HIDE DEF place
  <2>4. Typed' /\ desk'.embedded = NoDaemon /\ hosted' = hosted
    BY <1>5, <2>3, MovesTyped DEF TakePrevious, Typed
  <2>5. ASSUME Owners PROVE Owners'
    BY <2>1, <2>2, <2>3, <2>4, <2>5, MovesTyped DEF Owners, Starting, Starter
  <2>6. QED BY <1>5, <2>4, <2>5 DEF TakePrevious, Owned
<1>6. ASSUME NEW c \in Windows, StopPrevious(c) PROVE Typed' /\ Owned'
  <2> DEFINE place == [ensure[c] EXCEPT !.holds = NoDaemon, !.at = "binding"]
  <2>1. ensure[c].at = "replacing" /\ ensure[c] \in Holder /\ ensure[c].holds \in Embeddeds
    BY <1>6, Shapes DEF StopPrevious, Holder
  <2>2. place \in Nobody /\ place.holds = NoDaemon /\ place.at = "binding"
    BY <2>1 DEF Nobody, Holder, Where, Starter
  <2>3. Moves(c, place)
    BY <1>6, <2>2 DEF StopPrevious, Moves
  <2> HIDE DEF place
  <2>4. hosted' \in [Embeddeds -> Stages] /\ hosted'[ensure[c].holds] = "stopped"
        /\ \A n \in Embeddeds \ {ensure[c].holds} : hosted'[n] = hosted[n]
    BY <1>6, <2>1 DEF StopPrevious, Typed, Stages
  <2>5. Typed' /\ desk' = desk
    BY <1>6, <2>3, <2>4, MovesTyped DEF StopPrevious, Typed
  <2>6. ASSUME Owners PROVE Owners'
    <3>1. desk.embedded = NoDaemon /\ ensure'[c] = place
          /\ \A d \in Windows \ {c} : ensure'[d] = ensure[d] /\ ~Starting(d)
      BY <2>1, <2>3, <2>6, MovesTyped DEF Owners, Starting, Starter
    <3>2. \A n \in Embeddeds : hosted'[n] \in {"bound", "serving", "abandoned"} =>
            n # ensure[c].holds /\ \E d \in Windows \ {c} : ensure[d].holds = n
      BY <2>4, <2>6, <3>1, DesktopAssumption DEF Owners, Embeddeds
    <3>3. \A n \in Embeddeds : hosted'[n] \in {"bound", "serving", "abandoned"} =>
            \E d \in Windows : ensure'[d].holds = n
      BY <3>1, <3>2
    <3>4. \A d \in Windows : Starting(d)' => d = c
      BY <3>1 DEF Starting
    <3>5. ensure'[c].at = "binding" /\ desk'.embedded = NoDaemon
      BY <2>2, <2>5, <3>1
    <3>6. QED BY <3>3, <3>4, <3>5 DEF Owners, Starting, Starter
  <2>7. QED BY <1>6, <2>5, <2>6 DEF StopPrevious, Owned
<1>7. ASSUME NEW c \in Windows, Bind(c) PROVE Typed' /\ Owned'
  <2>1. ensure[c].at = "binding" /\ ensure[c] \in Nobody /\ ensure[c].holds = NoDaemon
    BY <1>7, Shapes DEF Bind, Nobody
  <2>2. CASE ControlPortTaken
    <3>1. PICK place : Moves(c, place) /\ place.at = "failed" /\ place.holds = NoDaemon
      BY <1>7, <2>1, <2>2, GoesMoves DEF Bind, Where, Starter
    <3>2. Typed' /\ desk' = desk /\ hosted' = hosted
      BY <1>7, <2>2, <3>1, MovesTyped DEF Bind, Typed
    <3>3. ASSUME Owners PROVE Owners'
      BY <2>1, <3>1, <3>2, <3>3, MovesTyped DEF Owners, Starting, Starter
    <3>4. QED BY <1>7, <3>2, <3>3 DEF Bind, Owned
  <2>3. CASE ~ControlPortTaken
    <3>1. PICK n \in Embeddeds :
            /\ hosted[n] = "unborn" /\ hosted' = [hosted EXCEPT ![n] = "bound"]
            /\ ensure' = [ensure EXCEPT ![c].holds = n, ![c].at = "opening"]
      BY <1>7, <2>3 DEF Bind
    <3> DEFINE place == [ensure[c] EXCEPT !.holds = n, !.at = "opening"]
    <3>2. place \in Holder /\ place.holds = n /\ place.at = "opening"
      BY <2>1 DEF Nobody, Holder
    <3>3. Moves(c, place)
      BY <3>1, <3>2 DEF Moves
    <3> HIDE DEF place
    <3>4. hosted' \in [Embeddeds -> Stages] /\ hosted'[n] = "bound"
          /\ \A m \in Embeddeds \ {n} : hosted'[m] = hosted[m]
      BY <3>1 DEF Typed, Stages
    <3>5. Typed' /\ desk' = desk
      BY <1>7, <3>3, <3>4, MovesTyped DEF Bind, Typed
    <3>6. ASSUME Owners PROVE Owners'
      BY <2>1, <3>1, <3>2, <3>3, <3>4, <3>5, <3>6, MovesTyped, DesktopAssumption
         DEF Owners, Starting, Starter, Typed, Embeddeds
    <3>7. QED BY <1>7, <3>5, <3>6 DEF Bind, Owned
  <2>4. QED BY <2>2, <2>3
<1>8. ASSUME NEW c \in Windows, OpenGateway(c) PROVE Typed' /\ Owned'
  <2>1. ensure[c].at = "opening" /\ ensure[c] \in Holder /\ ensure[c].holds \in Embeddeds
    BY <1>8, Shapes DEF OpenGateway, Holder
  <2> DEFINE Fails == ensure' = [ensure EXCEPT ![c].holds = NoDaemon, ![c].at = "failed"]
  <2>2. PICK stage \in {"stopped", "listening", "serving"} :
          /\ hosted' = [hosted EXCEPT ![ensure[c].holds] = stage]
          /\ IF stage = "serving" THEN Goes(c, "started") ELSE Fails
    <3>1. CASE GatewayPortTaken
      BY <1>8, <3>1 DEF OpenGateway
    <3>2. CASE ~GatewayPortTaken
      BY <1>8, <3>2 DEF OpenGateway
    <3>3. QED BY <3>1, <3>2
  <2>3. hosted' \in [Embeddeds -> Stages] /\ hosted'[ensure[c].holds] = stage
        /\ \A n \in Embeddeds \ {ensure[c].holds} : hosted'[n] = hosted[n]
    BY <2>1, <2>2 DEF Typed, Stages
  <2>4. \E place : /\ Moves(c, place)
                   /\ \/ stage # "serving" /\ place.at = "failed" /\ place.holds = NoDaemon
                      \/ stage = "serving" /\ place.at = "started" /\ place.holds = ensure[c].holds
    <3>1. CASE stage # "serving"
      <4> DEFINE place == [ensure[c] EXCEPT !.holds = NoDaemon, !.at = "failed"]
      <4>1. place \in Nobody /\ place.at = "failed" /\ place.holds = NoDaemon
        BY <2>1 DEF Nobody, Holder, Where, Starter
      <4>2. ensure' = [ensure EXCEPT ![c] = place]
        BY <2>2, <3>1
      <4>3. QED BY <2>2, <3>1, <4>1, <4>2 DEF Moves
    <3>2. CASE stage = "serving"
      BY <2>1, <2>2, <3>2, GoesMoves, DesktopAssumption DEF Where, Starter
    <3>3. QED BY <3>1, <3>2
  <2>5. PICK place : /\ Moves(c, place)
                     /\ \/ stage # "serving" /\ place.at = "failed" /\ place.holds = NoDaemon
                        \/ stage = "serving" /\ place.at = "started" /\ place.holds = ensure[c].holds
    BY <2>4
  <2>6. Typed' /\ desk' = desk
    BY <1>8, <2>3, <2>5, MovesTyped DEF OpenGateway, Typed
  <2>7. ASSUME Owners PROVE Owners'
    <3> DEFINE held == ensure[c].holds
    <3>1. /\ ensure'[c] = place /\ \A d \in Windows \ {c} : ensure'[d] = ensure[d]
          /\ place.at \in {"failed", "started"}
      BY <2>5, MovesTyped
    <3>2. Starting(c) /\ (\A d \in Windows \ {c} : ~Starting(d)) /\ desk.embedded = NoDaemon
      BY <2>1, <2>7 DEF Owners, Starting, Starter
    <3>3. \A d \in Windows \ {c} : ~Starting(d)' /\ ensure'[d].at \notin {"replacing", "opening", "started"}
      BY <3>1, <3>2 DEF Starting, Starter
    <3>4. \A d \in Windows : /\ ensure'[d].at \in {"replacing", "started"} => hosted'[ensure'[d].holds] = "serving"
                             /\ ensure'[d].at = "opening" => hosted'[ensure'[d].holds] = "bound"
      BY <2>3, <2>5, <3>1, <3>3
    <3>5. \A n \in Embeddeds : hosted'[n] \in {"bound", "serving", "abandoned"} =>
            \E d \in Windows : ensure'[d].holds = n
      <4> TAKE n \in Embeddeds
      <4> HAVE hosted'[n] \in {"bound", "serving", "abandoned"}
      <4>1. CASE n = held
        BY <2>3, <2>5, <3>1, <4>1
      <4>2. CASE n # held
        <5>1. hosted'[n] = hosted[n] /\ n # NoDaemon
          BY <2>3, <4>2, DesktopAssumption DEF Embeddeds
        <5>2. PICK d \in Windows : ensure[d].holds = n
          BY <2>7, <3>2, <5>1 DEF Owners
        <5>3. d # c
          BY <4>2, <5>2
        <5>4. QED BY <3>1, <5>2, <5>3
      <4>3. QED BY <4>1, <4>2
    <3>6. QED
      BY <2>6, <3>2, <3>3, <3>4, <3>5 DEF Owners
  <2>8. QED BY <1>8, <2>6, <2>7 DEF OpenGateway, Owned
<1>9. ASSUME NEW c \in Windows, Finish(c) PROVE Typed' /\ Owned'
  <2>1. ensure[c].at \in {"started", "failed"}
    BY <1>9 DEF Finish
  <2>2. /\ ensure[c].at = "started" => ensure[c].holds \in Embeddeds
        /\ ensure[c].at = "failed" => ensure[c].holds = NoDaemon
    BY Shapes DEF Nobody, Holder
  <2>3. Moves(c, Idle) /\ Idle.at = "idle" /\ Idle.holds = NoDaemon
    BY <1>9, IdleMoves DEF Finish
  <2>4. hosted' \in [Embeddeds -> Stages] /\ (desk.embedded = NoDaemon => hosted' = hosted)
    BY <1>9 DEF Finish, Dropped, Typed, Stages
  <2>5. Typed' /\ desk'.embedded = ensure[c].holds
    BY <1>9, <2>1, <2>2, <2>3, <2>4, MovesTyped DEF Finish, Typed
  <2>6. ASSUME Owners PROVE Owners'
    <3>1. desk.embedded = NoDaemon /\ hosted' = hosted
      BY <2>1, <2>4, <2>6 DEF Owners, Starting, Starter
    <3>2. QED
      BY <2>1, <2>2, <2>3, <2>5, <2>6, <3>1, MovesTyped, DesktopAssumption
         DEF Owners, Starting, Starter, Typed, Embeddeds
  <2>7. QED BY <1>9, <2>5, <2>6 DEF Finish, Owned
<1>10. CASE Exit
  <2>1. app'.is = "exiting"
    BY <1>10 DEF Exit
  <2>2. QED BY <1>10, <2>1 DEF Exit, Owned, Typed
<1>11. CASE ExitDone
  <2>1. app'.is = "gone" /\ hosted' \in [Embeddeds -> Stages]
    BY <1>11 DEF ExitDone, Stages
  <2>2. Idle \in Nobody
    BY DesktopAssumption DEF Idle, Nobody, Where
  <2>3. QED BY <1>11, <2>1, <2>2 DEF ExitDone, Owned, Typed
<1>12. CASE TheyStart \/ TheyStop \/ UNCHANGED deskVars
  BY <1>12 DEF TheyStart, TheyStop, deskVars, Owned, Owners, Starting, Typed
<1>13. QED
  BY <1>1, <1>2, <1>3, <1>4, <1>5, <1>6, <1>7, <1>8, <1>9, <1>10, <1>11, <1>12
     DEF DeskNext, EnsureStep

\* Unless two attempts overlap, no daemon of the app is left to itself while it
\* holds a port: it is the one of the runtime state, or a caller's.
THEOREM NoDaemonStrays == DeskSpec => []NoStrayDaemon
<1>1. Typed /\ Owned => NoStrayDaemon
  <2>1. SUFFICES ASSUME Typed, Owners, NEW n \in Embeddeds,
                        hosted[n] \in {"bound", "serving", "abandoned"}
                 PROVE  \/ desk.embedded = n /\ hosted[n] = "serving"
                        \/ \E c \in Windows : ensure[c].holds = n
    BY DEF NoStrayDaemon, Owned
  <2>2. n # NoDaemon
    BY DesktopAssumption DEF Embeddeds
  <2>3. QED BY <2>1, <2>2 DEF Owners
<1>2. QED BY <1>1, InitOwned, StepOwned, PTL DEF DeskSpec

\* What the ownership does not speak of.
Aside ==
  /\ theirs \in [up : BOOLEAN, starts : 0 .. Outside]
  /\ overlapped \in BOOLEAN
  /\ app \in [is : {"running", "exiting", "gone"}, holds : Embeddeds \union {NoDaemon}]

LEMMA StepAside == Typed /\ Aside /\ [DeskNext]_deskVars => Aside'
<1> SUFFICES ASSUME Typed, Aside, [DeskNext]_deskVars PROVE Aside'
  OBVIOUS
<1>1. ASSUME NEW c \in Windows, Probe(c) \/ EnsureStep(c) PROVE Aside'
  <2>1. CASE Claim(c)
    BY <2>1 DEF Claim, Aside
  <2>2. CASE ~Claim(c)
    <3>1. UNCHANGED <<app, overlapped, theirs>>
      BY <1>1, <2>2 DEF Probe, EnsureStep, Adopt, ProbeFails, Look, TakePrevious,
                        StopPrevious, Bind, OpenGateway, Finish
    <3>2. QED BY <3>1 DEF Aside
  <2>3. QED BY <2>1, <2>2
<1>2. CASE Exit
  <2>1. desk.embedded \in Embeddeds \union {NoDaemon}
    BY DEF Typed
  <2>2. UNCHANGED <<theirs, overlapped>> /\ app' = [is |-> "exiting", holds |-> desk.embedded]
    BY <1>2 DEF Exit
  <2>3. QED BY <2>1, <2>2 DEF Aside
<1>3. CASE ExitDone
  BY <1>3 DEF ExitDone, Aside
<1>4. CASE TheyStart \/ TheyStop
  <2>1. theirs.starts \in 0 .. Outside /\ (theirs.starts > 0 => theirs.starts - 1 \in 0 .. Outside)
    BY DesktopAssumption DEF Aside
  <2>2. UNCHANGED <<app, overlapped>>
    BY <1>4 DEF TheyStart, TheyStop
  <2>3. CASE TheyStart
    <3>1. theirs' = [up |-> TRUE, starts |-> theirs.starts - 1] /\ theirs.starts > 0
      BY <2>3 DEF TheyStart
    <3>2. QED BY <2>1, <2>2, <3>1 DEF Aside
  <2>4. CASE TheyStop
    <3>1. theirs' = [theirs EXCEPT !.up = FALSE]
      BY <2>4 DEF TheyStop
    <3>2. QED BY <2>2, <3>1 DEF Aside
  <2>5. QED BY <1>4, <2>3, <2>4
<1>5. CASE UNCHANGED deskVars
  BY <1>5 DEF deskVars, Aside
<1>6. QED BY <1>1, <1>2, <1>3, <1>4, <1>5 DEF DeskNext

\* The runtime state of the app, its daemons, its callers and its exit are always
\* well typed: whatever overtakes an attempt to start, the exit of the app included,
\* leaves each caller in one of its places and with one of the app's daemons or none
\* (ensure_local_daemon, shutdown_embedded_daemon).
THEOREM DesktopTyped == DeskSpec => []DeskTypeOK
<1>1. DeskInit => Typed /\ Owned /\ Aside
  <2>1. ASSUME DeskInit PROVE Aside
    <3>1. {Outside} \subseteq 0 .. Outside
      BY DesktopAssumption
    <3>2. theirs \in [up : BOOLEAN, starts : 0 .. Outside]
      BY <2>1, <3>1 DEF DeskInit
    <3>3. QED BY <2>1, <3>2 DEF DeskInit, Aside
  <2>2. QED BY <2>1, InitOwned
<1>2. Typed /\ Owned /\ Aside /\ [DeskNext]_deskVars => Typed' /\ Owned' /\ Aside'
  BY StepOwned, StepAside
<1>3. Typed /\ Aside => DeskTypeOK
  <2> SUFFICES ASSUME Typed, Aside PROVE DeskTypeOK
    OBVIOUS
  <2> DEFINE Callers == [at : Where, holds : Embeddeds \union {NoDaemon}, looks : 0 .. Polls]
  <2>1. {"replacing", "opening", "started"} \subseteq Where
    BY DEF Where, Starter
  <2>2. Nobody \subseteq Callers
    BY DEF Nobody
  <2>3. Holder \subseteq Callers
    BY <2>1 DEF Holder
  <2>4. ensure \in [Windows -> Nobody \cup Holder]
    BY DEF Typed
  <2> HIDE DEF Callers
  <2>5. ensure \in [Windows -> Callers]
    BY <2>2, <2>3, <2>4
  <2>6. QED BY <2>5 DEF Typed, Aside, DeskTypeOK, Callers
<1>4. QED BY <1>1, <1>2, <1>3, PTL DEF DeskSpec

-----------------------------------------------------------------------------
(* Profiles *)

Settings == [Slots -> Profiles]
Forms == [id : Slots \union {0}, made : 0 .. MaxMade, secret : Secrets]
Deeds == {"look", "save", "select", "ask", "delete", "edit", "settings", "reconnect", "boot"}
Tasks ==
  [at : {"idle", "again", "load", "wait", "store"}, does : Deeds, form : Forms,
   copy : Settings, todo : SUBSET Slots, missing : SUBSET Slots, tidy : BOOLEAN]

\* The entries of the keyring that a command has still to reach are of profiles it has.
Reached(r) == r.todo \subseteq ProfileIds(r.copy) /\ r.missing \subseteq ProfileIds(r.copy)

Kinds ==
  /\ stored \in Settings /\ window \in Settings /\ keyring \in [Slots -> Secrets]
  /\ command \in [Threads -> Tasks] /\ \A c \in Threads : Reached(command[c])
  /\ troubles \in 0 .. MaxTroubles /\ made \in 0 .. MaxMade /\ mixed \in BOOLEAN
  /\ entered \in [1 .. MaxMade -> SUBSET Secrets]

\* A secret of the profile that was created m-th, if there was one.
OwnOf(secret, m, secrets) == m # 0 => secret \in secrets[m] \union {NoSecret}
OwnIn(s, secrets) == \A id \in Slots : OwnOf(s[id].secret, s[id].made, secrets)

\* The command has come past an entry of the keyring.
Past(r, id) == r.at = "load" \/ (r.at = "store" /\ id \notin r.todo)

\* It has written that entry for another profile than the file has there.
Displacing(r, id, file) ==
  /\ r.at = "store" /\ id \notin r.todo
  /\ r.copy[id].made # 0 /\ file[id].made # 0 /\ file[id].made # r.copy[id].made

OwnTask(r, file, keys, secrets) ==
  /\ OwnIn(r.copy, secrets)
  /\ r.does = "save" => OwnOf(r.form.secret, r.form.made, secrets)
  /\ \A id \in Slots : Past(r, id) => OwnOf(keys[id], r.copy[id].made, secrets)
  /\ r.at = "load" => \A id \in Slots :
       r.copy[id].made # 0 /\ file[id].made # 0 => file[id].made = r.copy[id].made

\* What the keyring has for a profile of the file was entered for it, or written by
\* a command that is about to put another one in its place.
OwnKeyring ==
  \A id \in Slots : \/ OwnOf(keyring[id], stored[id].made, entered)
                    \/ \E c \in Threads : Displacing(command[c], id, stored)

Separate ==
  /\ OwnIn(stored, entered) /\ OwnIn(window, entered)
  /\ \A c \in Threads : OwnTask(command[c], stored, keyring, entered)
  /\ OwnKeyring /\ ~Clash(command)

Profiling == Kinds /\ (~mixed => Separate)

LEMMA TaskTypes ==
  /\ NoForm \in Forms /\ NoSettings \in Settings /\ AtRest \in Tasks
  /\ AtRest.copy = NoSettings /\ ProfileIds(NoSettings) = {} /\ Reached(AtRest)
  /\ AtRest.does = "look" /\ AtRest.at = "idle"
BY ProfilesAssumption
   DEF NoForm, Forms, NoSettings, Settings, NoProfile, Profiles, AtRest, Tasks, Deeds, Secrets,
       ProfileIds, Reached

LEMMA FileTypes ==
  ASSUME NEW s \in Settings
  PROVE  /\ \A id \in Slots : s[id].made \in 0 .. MaxMade /\ s[id].secret \in Secrets
         /\ Sanitized(s) \in Settings /\ ProfileIds(s) \subseteq Slots
         /\ \A id \in Slots : Sanitized(s)[id].made = s[id].made
                              /\ Sanitized(s)[id].secret = NoSecret
BY DEF Settings, Profiles, Sanitized, ProfileIds, Secrets

\* One command moves on, the others stay where they are.
LEMMA OneSteps ==
  ASSUME Kinds, NEW c \in Threads, NEW r \in Tasks, Reached(r), NEW displaced \in BOOLEAN,
         Steps(c, r, displaced)
  PROVE  /\ command' \in [Threads -> Tasks] /\ \A d \in Threads : Reached(command'[d])
         /\ command'[c] = r /\ \A d \in Threads : d # c => command'[d] = command[d]
         /\ mixed' \in BOOLEAN
         /\ ~mixed' => ~mixed /\ ~displaced /\ ~Clash(command')
<1>1. command' = [command EXCEPT ![c] = r] /\ mixed' = (mixed \/ displaced \/ Clash(command'))
  BY DEF Steps
<1>2. command' \in [Threads -> Tasks] /\ command'[c] = r
      /\ \A d \in Threads : d # c => command'[d] = command[d]
  BY <1>1 DEF Kinds
<1>3. \A d \in Threads : Reached(command'[d])
  BY <1>2 DEF Kinds
<1>4. Clash(command') \in BOOLEAN
  BY DEF Clash
<1>5. mixed' \in BOOLEAN /\ (~mixed' => ~mixed /\ ~displaced /\ ~Clash(command'))
  BY <1>1, <1>4, Zenon DEF Kinds
<1>6. QED BY <1>2, <1>3, <1>5

\* Two commands at the file and the keyring have the same profile at an id.
LEMMA SameProfile ==
  ASSUME NEW cs, ~Clash(cs), NEW c \in Threads, NEW d \in Threads, NEW id \in Slots,
         Accessing(cs[c]), Accessing(cs[d]), cs[c].copy[id].made # 0, cs[d].copy[id].made # 0
  PROVE  cs[c].copy[id].made = cs[d].copy[id].made
BY DEF Clash

\* Histories only grow.
Grows == \A m \in 1 .. MaxMade : entered[m] \subseteq entered'[m]

LEMMA StillOwn ==
  ASSUME Grows, NEW m \in 0 .. MaxMade, NEW secret, OwnOf(secret, m, entered)
  PROVE  OwnOf(secret, m, entered')
BY ProfilesAssumption DEF Grows, OwnOf

LEMMA StillIn ==
  ASSUME Grows, NEW s \in Settings, OwnIn(s, entered)
  PROVE  OwnIn(s, entered')
BY StillOwn, FileTypes DEF OwnIn

LEMMA StillTask ==
  ASSUME Grows, NEW r \in Tasks, NEW file, NEW next, NEW keys, OwnTask(r, file, keys, entered),
         \A id \in Slots : next[id].made = file[id].made
  PROVE  OwnTask(r, next, keys, entered')
<1>1. r.copy \in Settings /\ r.form.made \in 0 .. MaxMade
  BY DEF Tasks, Forms
<1>2. OwnIn(r.copy, entered')
  BY <1>1, StillIn DEF OwnTask
<1>3. r.does = "save" => OwnOf(r.form.secret, r.form.made, entered')
  BY <1>1, StillOwn DEF OwnTask
<1>4. \A id \in Slots : Past(r, id) => OwnOf(keys[id], r.copy[id].made, entered')
  BY <1>1, StillOwn, FileTypes DEF OwnTask
<1>5. QED BY <1>2, <1>3, <1>4 DEF OwnTask

\* A step of a command that has written no entry for another profile, and that
\* leaves the keyring alone.
LEMMA KeysStay ==
  ASSUME Profiling, ~mixed', NEW c \in Threads, NEW r \in Tasks, Reached(r),
         NEW displaced \in BOOLEAN, Steps(c, r, displaced), keyring' = keyring, Grows,
         stored' \in Settings, \A id \in Slots : stored'[id].made = stored[id].made,
         OwnIn(stored', entered'), OwnIn(window', entered'),
         OwnTask(r, stored, keyring, entered'),
         \A id \in Slots : ~Displacing(command[c], id, stored)
  PROVE  Separate'
<1>1. /\ command'[c] = r /\ \A d \in Threads : d # c => command'[d] = command[d]
      /\ ~mixed /\ ~Clash(command') /\ command' \in [Threads -> Tasks]
  BY OneSteps DEF Profiling
<1>2. ASSUME NEW d \in Threads
      PROVE  OwnTask(command'[d], stored', keyring', entered')
  <2>1. CASE d = c
    BY <1>1, <2>1 DEF OwnTask
  <2>2. CASE d # c
    <3>1. OwnTask(command[d], stored, keyring, entered) /\ command[d] \in Tasks
      BY <1>1 DEF Profiling, Separate, Kinds
    <3>2. OwnTask(command[d], stored', keyring, entered')
      BY <3>1, StillTask
    <3>3. QED BY <1>1, <2>2, <3>2
  <2>3. QED BY <2>1, <2>2
<1>3. ASSUME NEW id \in Slots
      PROVE  \/ OwnOf(keyring'[id], stored'[id].made, entered')
             \/ \E d \in Threads : Displacing(command'[d], id, stored')
  <2>1. CASE OwnOf(keyring[id], stored[id].made, entered)
    BY <2>1, StillOwn, FileTypes DEF Profiling, Kinds
  <2>2. CASE \E d \in Threads : Displacing(command[d], id, stored)
    <3>1. PICK d \in Threads : Displacing(command[d], id, stored)
      BY <2>2
    <3>2. d # c
      BY <3>1
    <3>3. Displacing(command'[d], id, stored')
      BY <1>1, <3>1, <3>2 DEF Displacing
    <3>4. QED BY <3>3
  <2>3. QED BY <1>1, <2>1, <2>2 DEF Profiling, Separate, OwnKeyring
<1>4. QED BY <1>1, <1>2, <1>3 DEF Separate, OwnKeyring

LEMMA AwayFromFiles ==
  ASSUME NEW r, r.at # "store"
  PROVE  \A id : ~Displacing(r, id, stored)
BY DEF Displacing

\* The file has been read.
LEMMA LoadKeeps ==
  ASSUME Profiling, ~mixed', NEW c \in Threads, NEW does \in Deeds, NEW form \in Forms,
         Load(c, does, form), command[c].at # "store", Grows,
         does = "save" => OwnOf(form.secret, form.made, entered'),
         keyring' = keyring, stored' = stored, window' = window
  PROVE  Separate'
<1> DEFINE r == [at |-> "load", does |-> does, form |-> form, copy |-> stored,
                 todo |-> ProfileIds(stored), missing |-> {}, tidy |-> HasPlaintext(stored)]
<1>1. r \in Tasks /\ Reached(r) /\ Steps(c, r, FALSE)
  BY FileTypes DEF Load, Tasks, Deeds, Profiling, Kinds, HasPlaintext, Reached
<1>2. r.at = "load" /\ r.does = does /\ r.form = form /\ r.copy = stored
  OBVIOUS
<1> HIDE DEF r
<1>3. /\ command'[c] = r /\ \A d \in Threads : d # c => command'[d] = command[d]
      /\ ~mixed /\ ~Clash(command')
  BY <1>1, OneSteps DEF Profiling
<1>4. stored \in Settings /\ window \in Settings /\ OwnIn(stored, entered') /\ OwnIn(window, entered')
  BY <1>3, StillIn DEF Profiling, Separate, Kinds
<1>5. ASSUME NEW id \in Slots PROVE OwnOf(keyring[id], stored[id].made, entered')
  <2>1. CASE OwnOf(keyring[id], stored[id].made, entered)
    BY <2>1, <1>4, StillOwn, FileTypes
  <2>2. CASE \E d \in Threads : Displacing(command[d], id, stored)
    <3>1. PICK d \in Threads : Displacing(command[d], id, stored)
      BY <2>2
    <3>2. d # c
      BY <3>1 DEF Displacing
    <3>3. Accessing(command'[d]) /\ Accessing(command'[c])
      BY <1>2, <1>3, <3>1, <3>2 DEF Displacing, Accessing
    <3>4. stored[id].made # 0 => command'[d].copy[id].made = command'[c].copy[id].made
      BY <1>2, <1>3, <3>1, <3>2, <3>3, SameProfile DEF Displacing
    <3>5. stored[id].made = 0
      BY <1>2, <1>3, <3>1, <3>2, <3>4 DEF Displacing
    <3>6. QED BY <3>5 DEF OwnOf
  <2>3. QED BY <1>3, <2>1, <2>2 DEF Profiling, Separate, OwnKeyring
<1>6. OwnTask(r, stored, keyring, entered')
  BY <1>2, <1>4, <1>5 DEF OwnTask
<1>7. QED BY <1>1, <1>4, <1>6, AwayFromFiles, KeysStay

\* A save begins.
LEMMA StoreKeeps ==
  ASSUME Profiling, ~mixed', NEW c \in Threads, NEW does \in Deeds, NEW s \in Settings,
         Store(c, does, s), does # "save", command[c].at # "store", OwnIn(s, entered),
         UNCHANGED <<keyring, stored, window, entered>>
  PROVE  Separate'
<1> DEFINE r == [AtRest EXCEPT !.at = "store", !.does = does, !.copy = s, !.todo = ProfileIds(s)]
<1>1. r \in Tasks /\ Reached(r) /\ Steps(c, r, FALSE)
  BY TaskTypes, FileTypes DEF Store, AtRest, Tasks, Reached
<1>2. r.at = "store" /\ r.does = does /\ r.copy = s /\ r.todo = ProfileIds(s)
  BY DEF AtRest
<1> HIDE DEF r
<1>3. ~mixed /\ Grows
  BY <1>1, OneSteps DEF Profiling, Grows
<1>4. \A id \in Slots : Past(r, id) => s[id].made = 0
  BY <1>2 DEF Past, ProfileIds
<1>5. OwnTask(r, stored, keyring, entered)
  BY <1>2, <1>4 DEF OwnTask, OwnOf
<1>6. stored \in Settings /\ OwnIn(stored, entered) /\ OwnIn(window, entered)
  BY <1>3 DEF Profiling, Separate, Kinds
<1>7. QED BY <1>1, <1>3, <1>5, <1>6, AwayFromFiles, KeysStay

\* A command ends, or waits, away from the files.
LEMMA AsideKeeps ==
  ASSUME Profiling, ~mixed', NEW c \in Threads, NEW r \in Tasks, Reached(r),
         NEW displaced \in BOOLEAN, Steps(c, r, displaced),
         r.at \notin {"load", "store"}, r.does # "save", OwnIn(r.copy, entered),
         \A id \in Slots : ~Displacing(command[c], id, stored),
         UNCHANGED <<keyring, stored, entered>>, OwnIn(window', entered)
  PROVE  Separate'
<1>1. ~mixed /\ Grows
  BY OneSteps DEF Profiling, Grows
<1>2. OwnTask(r, stored, keyring, entered)
  BY DEF OwnTask, Past
<1>3. stored \in Settings /\ OwnIn(stored, entered)
  BY <1>1 DEF Profiling, Separate, Kinds
<1>4. QED BY <1>1, <1>2, <1>3, KeysStay

\* An entry of the keyring is written.
LEMMA EntryKeeps ==
  ASSUME Profiling, ~mixed', NEW c \in Threads, NEW r \in Tasks, Reached(r), Steps(c, r, FALSE),
         NEW id \in Slots, NEW secret \in Secrets,
         keyring' = [keyring EXCEPT ![id] = secret], UNCHANGED <<stored, window, entered>>,
         r.at = command[c].at, r.does = command[c].does, r.form = command[c].form,
         r.copy = command[c].copy, r.at \in {"load", "store"},
         command[c].todo \subseteq r.todo \union {id}, r.todo \subseteq command[c].todo,
         r.at = "store" => id \notin r.todo,
         r.copy[id].made # 0, OwnOf(secret, r.copy[id].made, entered)
  PROVE  Separate'
<1>1. /\ command'[c] = r /\ \A d \in Threads : d # c => command'[d] = command[d]
      /\ ~mixed /\ ~Clash(command')
  BY OneSteps DEF Profiling
<1>2. keyring'[id] = secret /\ \A other \in Slots : other # id => keyring'[other] = keyring[other]
  BY DEF Profiling, Kinds
<1>3. Accessing(command'[c])
  BY <1>1 DEF Accessing
<1>4. ASSUME NEW d \in Threads
      PROVE  OwnTask(command'[d], stored, keyring', entered)
  <2>1. OwnTask(command[d], stored, keyring, entered)
    BY <1>1 DEF Profiling, Separate
  <2>2. /\ command'[d].copy = command[d].copy /\ command'[d].at = command[d].at
        /\ command'[d].does = command[d].does /\ command'[d].form = command[d].form
        /\ d # c => command'[d] = command[d]
    BY <1>1
  <2>3. ASSUME NEW other \in Slots, Past(command'[d], other)
        PROVE  OwnOf(keyring'[other], command'[d].copy[other].made, entered)
    <3>1. CASE other # id
      <4>1. Past(command[d], other)
        BY <1>1, <2>2, <2>3, <3>1 DEF Past
      <4>2. QED BY <1>2, <2>1, <2>2, <3>1, <4>1 DEF OwnTask
    <3>2. CASE other = id
      <4>1. Accessing(command'[d])
        BY <2>3 DEF Past, Accessing
      <4>2. command'[d].copy[id].made # 0 => command'[d].copy[id].made = r.copy[id].made
        BY <1>1, <1>3, <4>1, SameProfile
      <4>3. QED BY <1>2, <3>2, <4>2 DEF OwnOf
    <3>3. QED BY <3>1, <3>2
  <2>4. QED BY <2>1, <2>2, <2>3 DEF OwnTask
<1>5. ASSUME NEW other \in Slots
      PROVE  \/ OwnOf(keyring'[other], stored[other].made, entered)
             \/ \E d \in Threads : Displacing(command'[d], other, stored)
  <2>1. CASE other = id
    <3>1. CASE r.at = "store"
      <4>1. stored[id].made \notin {0, r.copy[id].made} => Displacing(command'[c], id, stored)
        BY <1>1, <3>1 DEF Displacing
      <4>2. stored[id].made \in {0, r.copy[id].made} =>
              OwnOf(keyring'[id], stored[id].made, entered)
        BY <1>2 DEF OwnOf
      <4>3. QED BY <2>1, <4>1, <4>2
    <3>2. CASE r.at = "load"
      <4>1. OwnTask(command'[c], stored, keyring', entered)
        BY <1>4
      <4>2. stored[id].made # 0 => stored[id].made = r.copy[id].made
        BY <1>1, <3>2, <4>1 DEF OwnTask
      <4>3. QED BY <1>2, <2>1, <4>2 DEF OwnOf
    <3>3. QED BY <3>1, <3>2
  <2>2. CASE other # id
    <3>1. CASE OwnOf(keyring[other], stored[other].made, entered)
      BY <1>2, <2>2, <3>1
    <3>2. CASE \E d \in Threads : Displacing(command[d], other, stored)
      <4>1. PICK d \in Threads : Displacing(command[d], other, stored)
        BY <3>2
      <4>2. Displacing(command'[d], other, stored)
        BY <1>1, <4>1 DEF Displacing
      <4>3. QED BY <4>2
    <3>3. QED BY <1>1, <3>1, <3>2 DEF Profiling, Separate, OwnKeyring
  <2>3. QED BY <2>1, <2>2
<1>6. stored' = stored /\ window' = window /\ entered' = entered
  OBVIOUS
<1>7. OwnIn(stored, entered) /\ OwnIn(window, entered)
  BY <1>1 DEF Profiling, Separate
<1>8. QED BY <1>1, <1>4, <1>5, <1>6, <1>7 DEF Separate, OwnKeyring

\* The file is replaced.
LEMMA FileKeeps ==
  ASSUME Profiling, ~mixed', NEW c \in Threads, NEW r \in Tasks, Reached(r), Steps(c, r, FALSE),
         stored' = Sanitized(command[c].copy), UNCHANGED <<keyring, entered>>,
         OwnIn(window', entered), Accessing(command[c]), command[c].todo = {},
         OwnTask(r, stored', keyring, entered)
  PROVE  Separate'
<1>1. /\ command'[c] = r /\ \A d \in Threads : d # c => command'[d] = command[d]
      /\ ~mixed /\ ~Clash(command')
  BY OneSteps DEF Profiling
<1>2. ~Clash(command) /\ \A d \in Threads : OwnTask(command[d], stored, keyring, entered)
  BY <1>1 DEF Profiling, Separate
<1>3. command[c] \in Tasks /\ command[c].copy \in Settings
  BY DEF Profiling, Kinds, Tasks
<1>4. \A id \in Slots : /\ stored'[id].made = command[c].copy[id].made
                        /\ stored'[id].secret = NoSecret
  BY <1>3, FileTypes
<1>5. ASSUME NEW d \in Threads
      PROVE  OwnTask(command'[d], stored', keyring, entered)
  <2>1. CASE d = c
    BY <1>1, <2>1
  <2>2. CASE d # c
    <3>1. ASSUME command[d].at = "load", NEW id \in Slots,
                 command[d].copy[id].made # 0, stored'[id].made # 0
          PROVE  stored'[id].made = command[d].copy[id].made
      <4>1. Accessing(command[d])
        BY <3>1 DEF Accessing
      <4>2. QED BY <1>2, <1>4, <3>1, <4>1, SameProfile
    <3>2. OwnTask(command[d], stored', keyring, entered)
      BY <1>2, <3>1 DEF OwnTask
    <3>3. QED BY <1>1, <2>2, <3>2
  <2>3. QED BY <2>1, <2>2
<1>6. ASSUME NEW id \in Slots PROVE OwnOf(keyring[id], stored'[id].made, entered)
  <2>1. Past(command[c], id)
    BY DEF Accessing, Past
  <2>2. QED BY <1>2, <1>4, <2>1 DEF OwnTask
<1>7. OwnIn(stored', entered)
  BY <1>4 DEF OwnIn, OwnOf
<1>8. keyring' = keyring /\ entered' = entered
  OBVIOUS
<1>9. QED BY <1>1, <1>5, <1>6, <1>7, <1>8 DEF Separate, OwnKeyring


-----------------------------------------------------------------------------
(* What a command has loaded is its own. *)

LEMMA TaskOf ==
  ASSUME Profiling, NEW c \in Threads
  PROVE  /\ command[c] \in Tasks /\ command[c].copy \in Settings /\ Reached(command[c])
         /\ command[c].form \in Forms /\ command[c].does \in Deeds
         /\ ~mixed => OwnTask(command[c], stored, keyring, entered) /\ OwnIn(command[c].copy, entered)
BY DEF Profiling, Kinds, Tasks, Separate, OwnTask

LEMMA RestKeeps ==
  ASSUME Profiling, NEW c \in Threads, NEW displaced \in BOOLEAN, Steps(c, AtRest, displaced),
         \A id \in Slots : ~Displacing(command[c], id, stored) \/ displaced,
         UNCHANGED <<keyring, stored, entered, made>>, troubles' \in 0 .. MaxTroubles,
         window' \in {window, command[c].copy}
  PROVE  Profiling'
<1>1. /\ command' \in [Threads -> Tasks] /\ \A d \in Threads : Reached(command'[d])
      /\ mixed' \in BOOLEAN /\ (~mixed' => ~mixed /\ ~displaced)
  BY OneSteps, TaskTypes DEF Profiling
<1>2. Kinds'
  BY <1>1, TaskOf DEF Profiling, Kinds
<1>3. OwnIn(NoSettings, entered)
  BY DEF OwnIn, OwnOf, NoSettings, NoProfile
<1>4. ASSUME ~mixed' PROVE Separate'
  <2>1. OwnIn(window, entered) /\ OwnIn(command[c].copy, entered)
    BY <1>1, <1>4, TaskOf DEF Profiling, Separate
  <2>2. OwnIn(window', entered)
    BY <2>1
  <2>3. \A id \in Slots : ~Displacing(command[c], id, stored)
    BY <1>1, <1>4
  <2>4. QED BY <1>3, <1>4, <2>2, <2>3, TaskTypes, AsideKeeps
<1>5. QED BY <1>2, <1>4 DEF Profiling

\* The types, when the file has been read or a save begun.
LEMMA LoadKinds ==
  ASSUME Kinds, NEW c \in Threads, NEW does \in Deeds, NEW form \in Forms, Load(c, does, form)
  PROVE  /\ command' \in [Threads -> Tasks] /\ \A d \in Threads : Reached(command'[d])
         /\ mixed' \in BOOLEAN
<1> DEFINE r == [at |-> "load", does |-> does, form |-> form, copy |-> stored,
                 todo |-> ProfileIds(stored), missing |-> {}, tidy |-> HasPlaintext(stored)]
<1>1. r \in Tasks /\ Reached(r) /\ Steps(c, r, FALSE)
  BY FileTypes DEF Load, Tasks, Deeds, Kinds, HasPlaintext, Reached
<1> HIDE DEF r
<1>2. QED BY <1>1, OneSteps

LEMMA StoreKinds ==
  ASSUME Kinds, NEW c \in Threads, NEW does \in Deeds, NEW s \in Settings, Store(c, does, s)
  PROVE  /\ command' \in [Threads -> Tasks] /\ \A d \in Threads : Reached(command'[d])
         /\ mixed' \in BOOLEAN /\ (~mixed' => ~mixed)
<1> DEFINE r == [AtRest EXCEPT !.at = "store", !.does = does, !.copy = s, !.todo = ProfileIds(s)]
<1>1. r \in Tasks /\ Reached(r) /\ Steps(c, r, FALSE)
  BY TaskTypes, FileTypes DEF Store, AtRest, Tasks, Reached
<1> HIDE DEF r
<1>2. QED BY <1>1, OneSteps

LEMMA LoadStep ==
  ASSUME Profiling, NEW c \in Threads, NEW does \in Deeds, NEW form \in Forms,
         Load(c, does, form), command[c].at # "store", Grows,
         does = "save" => (~mixed => OwnOf(form.secret, form.made, entered')),
         UNCHANGED <<keyring, stored, window, troubles>>,
         made' \in 0 .. MaxMade, entered' \in [1 .. MaxMade -> SUBSET Secrets]
  PROVE  Profiling'
<1>1. Kinds'
  BY LoadKinds DEF Profiling, Kinds
<1>2. ~mixed' => ~mixed
  BY Zenon DEF Load, Steps
<1>3. ~mixed' => Separate'
  BY <1>2, LoadKeeps
<1>4. QED BY <1>1, <1>3 DEF Profiling

LEMMA StoreStep ==
  ASSUME Profiling, NEW c \in Threads, NEW does \in Deeds, NEW s \in Settings,
         Store(c, does, s), does # "save", command[c].at # "store", ~mixed => OwnIn(s, entered),
         UNCHANGED <<keyring, stored, window, troubles, made, entered>>
  PROVE  Profiling'
<1>1. Kinds'
  BY StoreKinds DEF Profiling, Kinds
<1>2. ~mixed' => Separate'
  BY StoreKinds, StoreKeeps DEF Profiling
<1>3. QED BY <1>1, <1>2 DEF Profiling

-----------------------------------------------------------------------------
(* settings.rs *)

LEMMA LookUpStep ==
  ASSUME Profiling, NEW c \in Threads, NEW id \in Slots, LookUp(c, id)
  PROVE  Profiling'
<1> DEFINE was == command[c]
           found == [was EXCEPT !.todo = @ \ {id}, !.copy[id].secret = keyring[id]]
           kept == [was EXCEPT !.todo = @ \ {id},
                      !.missing = IF keyring[id] = NoSecret THEN {id} ELSE {}]
<1>1. /\ was \in Tasks /\ was.copy \in Settings /\ Reached(was)
      /\ ~mixed => OwnTask(was, stored, keyring, entered) /\ OwnIn(was.copy, entered)
  BY TaskOf
<1>2. was.at = "load" /\ id \in was.todo /\ was.missing = {} /\ keyring[id] \in Secrets
      /\ was.copy[id].made # 0
  BY <1>1 DEF LookUp, Profiling, Kinds, Reached, ProfileIds
<1>3. ASSUME NEW r \in Tasks, Reached(r), Steps(c, r, FALSE), r.at = "load",
             r.does = was.does, r.form = was.form,
             \A n \in Slots : r.copy[n].made = was.copy[n].made,
             ~mixed => OwnIn(r.copy, entered)
      PROVE  Profiling'
  <2>1. UNCHANGED <<stored, keyring, window, troubles, made, entered>>
    BY DEF LookUp
  <2>2. /\ command' \in [Threads -> Tasks] /\ \A d \in Threads : Reached(command'[d])
        /\ mixed' \in BOOLEAN /\ (~mixed' => ~mixed)
    BY <1>3, OneSteps DEF Profiling
  <2>3. Kinds'
    BY <2>1, <2>2 DEF Profiling, Kinds
  <2>4. ASSUME ~mixed' PROVE Separate'
    <3>1. OwnTask(r, stored, keyring, entered)
      BY <1>1, <1>2, <1>3, <2>2, <2>4 DEF OwnTask, Past
    <3>2. Grows /\ stored' \in Settings /\ OwnIn(stored', entered') /\ OwnIn(window', entered')
      BY <2>1, <2>2, <2>4 DEF Grows, Profiling, Kinds, Separate
    <3>3. \A n \in Slots : ~Displacing(command[c], n, stored)
      BY <1>2 DEF Displacing
    <3>4. QED BY <1>3, <2>1, <2>4, <3>1, <3>2, <3>3, KeysStay
  <2>5. QED BY <2>3, <2>4 DEF Profiling
<1>4. CASE was.copy[id].secret = NoSecret
  <2>1. found \in Tasks /\ found.at = "load" /\ found.does = was.does /\ found.form = was.form
        /\ found.todo = was.todo \ {id} /\ found.missing = {}
        /\ found.copy = [was.copy EXCEPT ![id].secret = keyring[id]]
    BY <1>1, <1>2 DEF Tasks, Settings, Profiles
  <2>2. /\ \A n \in Slots : found.copy[n].made = was.copy[n].made
        /\ \A n \in Slots : n # id => found.copy[n] = was.copy[n]
        /\ found.copy[id].secret = keyring[id]
    BY <1>1, <2>1 DEF Settings, Profiles
  <2>3. Reached(found)
    BY <1>1, <2>1, <2>2 DEF Reached, ProfileIds
  <2>4. Steps(c, found, FALSE)
    BY <1>4 DEF LookUp
  <2>5. ASSUME ~mixed PROVE OwnIn(found.copy, entered)
    <3>1. OwnOf(keyring[id], was.copy[id].made, entered)
      BY <1>1, <1>2, <2>5 DEF OwnTask, Past
    <3>2. \A n \in Slots : OwnOf(was.copy[n].secret, was.copy[n].made, entered)
      BY <1>1, <2>5 DEF OwnIn
    <3> HIDE DEF found, was
    <3>3. ASSUME NEW n \in Slots
          PROVE  OwnOf(found.copy[n].secret, found.copy[n].made, entered)
      BY <2>2, <3>1, <3>2
    <3>4. QED BY <3>3 DEF OwnIn
  <2> HIDE DEF found
  <2>6. QED BY <1>3, <2>1, <2>2, <2>3, <2>4, <2>5
<1>5. CASE was.copy[id].secret # NoSecret
  <2>1. kept \in Tasks /\ kept.at = "load" /\ kept.does = was.does /\ kept.form = was.form
        /\ kept.todo = was.todo \ {id} /\ kept.missing \subseteq {id} /\ kept.copy = was.copy
    BY <1>1, <1>2 DEF Tasks
  <2>2. Reached(kept)
    BY <1>1, <1>2, <2>1 DEF Reached, ProfileIds
  <2>3. Steps(c, kept, FALSE)
    BY <1>5 DEF LookUp
  <2> HIDE DEF kept
  <2>4. QED BY <1>1, <1>3, <2>1, <2>2, <2>3
<1>6. QED BY <1>4, <1>5

LEMMA EntryStep ==
  ASSUME Profiling, NEW c \in Threads, NEW r \in Tasks, Reached(r), Steps(c, r, FALSE),
         NEW id \in Slots, NEW secret \in Secrets,
         keyring' = [keyring EXCEPT ![id] = secret],
         UNCHANGED <<stored, window, troubles, made, entered>>,
         r.at = command[c].at, r.does = command[c].does, r.form = command[c].form,
         r.copy = command[c].copy, r.at \in {"load", "store"},
         command[c].todo \subseteq r.todo \union {id}, r.todo \subseteq command[c].todo,
         r.at = "store" => id \notin r.todo, r.copy[id].made # 0,
         ~mixed => OwnOf(secret, r.copy[id].made, entered)
  PROVE  Profiling'
<1>1. /\ command' \in [Threads -> Tasks] /\ \A d \in Threads : Reached(command'[d])
      /\ mixed' \in BOOLEAN /\ (~mixed' => ~mixed)
  BY OneSteps DEF Profiling
<1>2. keyring' \in [Slots -> Secrets]
  BY DEF Profiling, Kinds
<1>3. Kinds'
  BY <1>1, <1>2 DEF Profiling, Kinds
<1>4. ~mixed' => Separate'
  BY <1>1, EntryKeeps
<1>5. QED BY <1>3, <1>4 DEF Profiling

LEMMA KeepSecretStep ==
  ASSUME Profiling, NEW c \in Threads, NEW id \in Slots, KeepSecret(c, id)
  PROVE  Profiling'
<1> DEFINE was == command[c]
           next == [was EXCEPT !.missing = {}]
<1>1. /\ was \in Tasks /\ was.copy \in Settings /\ Reached(was)
      /\ ~mixed => OwnTask(was, stored, keyring, entered) /\ OwnIn(was.copy, entered)
  BY TaskOf
<1>2. was.at = "load" /\ was.copy[id].made # 0 /\ was.copy[id].secret \in Secrets
  BY <1>1, FileTypes DEF KeepSecret, Reached, ProfileIds
<1>3. /\ next \in Tasks /\ next.at = was.at /\ next.does = was.does /\ next.form = was.form
      /\ next.copy = was.copy /\ next.todo = was.todo /\ next.missing = {}
  BY <1>1 DEF Tasks
<1>4. Reached(next)
  BY <1>1, <1>3 DEF Reached
<1>5. ~mixed => OwnOf(was.copy[id].secret, was.copy[id].made, entered)
  BY <1>1 DEF OwnIn
<1>6. /\ Steps(c, next, FALSE) /\ keyring' = [keyring EXCEPT ![id] = was.copy[id].secret]
      /\ UNCHANGED <<stored, window, troubles, made, entered>>
  BY DEF KeepSecret
<1> HIDE DEF next
<1>7. QED BY <1>2, <1>3, <1>4, <1>5, <1>6, EntryStep

LEMMA StoreSecretStep ==
  ASSUME Profiling, NEW c \in Threads, NEW id \in Slots, StoreSecret(c, id)
  PROVE  Profiling'
<1> DEFINE was == command[c]
           next == [was EXCEPT !.todo = @ \ {id}]
<1>1. /\ was \in Tasks /\ was.copy \in Settings /\ Reached(was)
      /\ ~mixed => OwnTask(was, stored, keyring, entered) /\ OwnIn(was.copy, entered)
  BY TaskOf
<1>2. /\ was.at = "store" /\ id \in was.todo /\ was.copy[id].made # 0
      /\ was.copy[id].secret \in Secrets
  BY <1>1, FileTypes DEF StoreSecret, Reached, ProfileIds
<1>3. /\ next \in Tasks /\ next.at = was.at /\ next.does = was.does /\ next.form = was.form
      /\ next.copy = was.copy /\ next.todo = was.todo \ {id} /\ next.missing = was.missing
  BY <1>1 DEF Tasks
<1>4. Reached(next)
  BY <1>1, <1>3 DEF Reached
<1>5. ~mixed => OwnOf(was.copy[id].secret, was.copy[id].made, entered)
  BY <1>1 DEF OwnIn
<1>6. /\ Steps(c, next, FALSE) /\ keyring' = [keyring EXCEPT ![id] = was.copy[id].secret]
      /\ UNCHANGED <<stored, window, troubles, made, entered>>
  BY DEF StoreSecret, KeptOnSave
<1> HIDE DEF next
<1>7. QED BY <1>2, <1>3, <1>4, <1>5, <1>6, EntryStep

\* The file is written, with what a command has loaded or is about to keep.
LEMMA FileStep ==
  ASSUME Profiling, NEW c \in Threads, NEW r \in Tasks, Reached(r), Steps(c, r, FALSE),
         stored' = Sanitized(command[c].copy), UNCHANGED <<keyring, troubles, made, entered>>,
         window' \in {window, command[c].copy},
         Accessing(command[c]), command[c].todo = {},
         ~mixed => OwnTask(r, stored', keyring, entered)
  PROVE  Profiling'
<1>1. /\ command' \in [Threads -> Tasks] /\ \A d \in Threads : Reached(command'[d])
      /\ mixed' \in BOOLEAN /\ (~mixed' => ~mixed)
  BY OneSteps DEF Profiling
<1>2. stored' \in Settings /\ window' \in Settings
  BY TaskOf, FileTypes DEF Profiling, Kinds
<1>3. Kinds'
  BY <1>1, <1>2 DEF Profiling, Kinds
<1>4. ASSUME ~mixed' PROVE Separate'
  <2>1. OwnIn(window, entered) /\ OwnIn(command[c].copy, entered)
    BY <1>1, <1>4, TaskOf DEF Profiling, Separate
  <2>2. OwnIn(window', entered)
    BY <2>1
  <2>3. QED BY <1>1, <1>4, <2>2, FileKeeps
<1>5. QED BY <1>3, <1>4 DEF Profiling

LEMMA TidyStep ==
  ASSUME Profiling, NEW c \in Threads, Tidy(c)
  PROVE  Profiling'
<1> DEFINE was == command[c]
           next == [was EXCEPT !.tidy = FALSE]
<1>1. /\ was \in Tasks /\ was.copy \in Settings /\ Reached(was)
      /\ ~mixed => OwnTask(was, stored, keyring, entered)
  BY TaskOf
<1>2. /\ next \in Tasks /\ next.at = was.at /\ next.does = was.does /\ next.form = was.form
      /\ next.copy = was.copy /\ next.todo = was.todo /\ next.missing = was.missing
  BY <1>1 DEF Tasks
<1>3. was.at = "load" /\ was.todo = {} /\ stored' = Sanitized(was.copy) /\ Steps(c, next, FALSE)
      /\ UNCHANGED <<keyring, window, troubles, made, entered>>
  BY DEF Tidy
<1>4. \A id \in Slots : stored'[id].made = was.copy[id].made
  BY <1>1, <1>3, FileTypes
<1> HIDE DEF next
<1>5. ~mixed => OwnTask(next, stored', keyring, entered)
  BY <1>1, <1>2, <1>3, <1>4 DEF OwnTask, Past
<1>6. Reached(next) /\ Accessing(was)
  BY <1>1, <1>2, <1>3 DEF Reached, Accessing
<1>7. QED BY <1>2, <1>3, <1>5, <1>6, FileStep

LEMMA WriteFileStep ==
  ASSUME Profiling, NEW c \in Threads, WriteFile(c)
  PROVE  Profiling'
<1> DEFINE next == Written(command[c].does)
<1>1. next.at \in {"idle", "again"} /\ next.does \in {"look", "reconnect"} /\ next.copy = NoSettings
      /\ next.todo = {} /\ next.missing = {} /\ next \in Tasks
  BY TaskTypes DEF Written, AtRest, Tasks, Deeds
<1>2. /\ command[c].at = "store" /\ command[c].todo = {} /\ stored' = Sanitized(command[c].copy)
      /\ Steps(c, next, FALSE) /\ UNCHANGED <<keyring, troubles, made, entered>>
      /\ window' \in {window, command[c].copy}
  BY DEF WriteFile
<1> HIDE DEF next
<1>3. Reached(next) /\ Accessing(command[c])
  BY <1>1, <1>2 DEF Reached, Accessing
<1>4. OwnTask(next, stored', keyring, entered)
  BY <1>1 DEF OwnTask, Past, OwnIn, OwnOf, NoSettings, NoProfile
<1>5. QED BY <1>1, <1>2, <1>3, <1>4, FileStep

LEMMA FailsStep ==
  ASSUME Profiling, NEW c \in Threads, AccessFails(c)
  PROVE  Profiling'
<1>1. /\ Steps(c, AtRest, Displaces(command[c])) /\ UNCHANGED <<keyring, stored, entered, made>>
      /\ window' \in {window, command[c].copy} /\ Fault
  BY DEF AccessFails
<1>2. troubles' \in 0 .. MaxTroubles
  BY <1>1, ProfilesAssumption DEF Fault, Profiling, Kinds
<1>3. Displaces(command[c]) \in BOOLEAN
  BY DEF Displaces
<1>4. \A id \in Slots : ~Displacing(command[c], id, stored) \/ Displaces(command[c])
  BY DEF Displacing, Displaces
<1>5. QED BY <1>1, <1>2, <1>3, <1>4, RestKeeps

-----------------------------------------------------------------------------
(* commands.rs *)

LEMMA NoFormGiven == NoForm \in Forms /\ \A id \in Slots : [NoForm EXCEPT !.id = id] \in Forms
BY ProfilesAssumption DEF NoForm, Forms, Secrets

LEMMA LoadingStep ==
  ASSUME Profiling, NEW c \in Threads, NEW does \in Deeds \ {"save"}, NEW form \in Forms,
         Load(c, does, form), command[c].at # "store",
         UNCHANGED <<keyring, stored, window, troubles, made, entered>>
  PROVE  Profiling'
<1>1. Grows /\ made' \in 0 .. MaxMade /\ entered' \in [1 .. MaxMade -> SUBSET Secrets]
  BY DEF Grows, Profiling, Kinds
<1>2. QED BY <1>1, LoadStep

LEMMA LoadAgainStep ==
  ASSUME Profiling, NEW c \in Threads, LoadAgain(c)
  PROVE  Profiling'
<1>1. /\ command[c].at = "again" /\ Load(c, command[c].does, NoForm)
      /\ UNCHANGED <<stored, keyring, window, troubles, made, entered>>
  BY DEF LoadAgain
<1>2. NoForm \in Forms /\ OwnOf(NoForm.secret, NoForm.made, entered')
  BY TaskTypes DEF NoForm, OwnOf
<1>3. /\ Grows /\ made' \in 0 .. MaxMade /\ entered' \in [1 .. MaxMade -> SUBSET Secrets]
      /\ command[c].does \in Deeds
  BY <1>1, TaskOf DEF Grows, Profiling, Kinds
<1>4. QED BY <1>1, <1>2, <1>3, LoadStep

LEMMA ShowStep ==
  ASSUME Profiling, NEW c \in Threads, Show(c)
  PROVE  Profiling'
<1>1. /\ Steps(c, AtRest, FALSE) /\ UNCHANGED <<keyring, stored, entered, made, troubles>>
      /\ window' \in {window, command[c].copy} /\ command[c].at = "load"
  BY DEF Show, Loaded, otherVars
<1>2. \A id \in Slots : ~Displacing(command[c], id, stored)
  BY <1>1 DEF Displacing
<1>3. troubles' \in 0 .. MaxTroubles
  BY <1>1 DEF Profiling, Kinds
<1>4. QED BY <1>1, <1>2, <1>3, RestKeeps

LEMMA CreateProfileStep ==
  ASSUME Profiling, NEW id \in Slots, NEW secret \in Secrets, CreateProfile(id, secret)
  PROVE  Profiling'
<1> DEFINE form == [id |-> id, made |-> made + 1, secret |-> secret]
<1>1. /\ command[MainThread].at = "idle" /\ made < MaxMade /\ made' = made + 1
      /\ Load(MainThread, "save", form)
      /\ entered' = [entered EXCEPT ![made + 1] = @ \union {secret}]
      /\ UNCHANGED <<stored, keyring, window, troubles>>
  BY DEF CreateProfile
<1>2. made \in 0 .. MaxMade /\ MaxMade \in Nat /\ entered \in [1 .. MaxMade -> SUBSET Secrets]
  BY ProfilesAssumption DEF Profiling, Kinds
<1>3. made + 1 \in 1 .. MaxMade
  BY <1>1, <1>2
<1>4. /\ made' \in 0 .. MaxMade /\ entered' \in [1 .. MaxMade -> SUBSET Secrets]
      /\ Grows /\ secret \in entered'[made + 1]
  BY <1>1, <1>2, <1>3 DEF Grows
<1>5. form \in Forms /\ form.secret = secret /\ form.made = made + 1
  BY <1>3 DEF Forms
<1> HIDE DEF form
<1>6. OwnOf(form.secret, form.made, entered')
  BY <1>4, <1>5 DEF OwnOf
<1>7. MainThread \in Threads /\ "save" \in Deeds
  BY DEF Threads, Deeds
<1>8. QED BY <1>1, <1>4, <1>5, <1>6, <1>7, LoadStep

LEMMA EditProfileStep ==
  ASSUME Profiling, NEW id \in Slots, NEW secret \in Secrets, EditProfile(id, secret)
  PROVE  Profiling'
<1> DEFINE form == [id |-> id, made |-> window[id].made, secret |-> secret]
<1>1. /\ command[MainThread].at = "idle" /\ window[id].made # 0
      /\ Load(MainThread, "save", form)
      /\ entered' = IF secret = window[id].secret THEN entered
                    ELSE [entered EXCEPT ![window[id].made] = @ \union {secret}]
      /\ UNCHANGED <<stored, keyring, window, troubles, made>>
  BY DEF EditProfile, ProfileIds
<1>2. /\ window[id].made \in 0 .. MaxMade /\ MaxMade \in Nat /\ made' \in 0 .. MaxMade
      /\ entered \in [1 .. MaxMade -> SUBSET Secrets]
  BY <1>1, FileTypes, ProfilesAssumption DEF Profiling, Kinds
<1>3. window[id].made \in 1 .. MaxMade
  BY <1>1, <1>2
<1>4. form \in Forms /\ form.secret = secret /\ form.made = window[id].made
  BY <1>3 DEF Forms
<1> HIDE DEF form
<1>5. entered' \in [1 .. MaxMade -> SUBSET Secrets] /\ Grows
  BY <1>1, <1>2, <1>3 DEF Grows
<1>6. ASSUME ~mixed PROVE OwnOf(form.secret, form.made, entered')
  <2>1. CASE secret = window[id].secret
    <3>1. OwnOf(window[id].secret, window[id].made, entered)
      BY <1>6 DEF Profiling, Separate, OwnIn
    <3>2. QED BY <1>1, <1>4, <2>1, <3>1
  <2>2. CASE secret # window[id].secret
    <3>1. secret \in entered'[window[id].made]
      BY <1>1, <1>2, <1>3, <2>2
    <3>2. QED BY <1>4, <3>1 DEF OwnOf
  <2>3. QED BY <2>1, <2>2
<1>7. MainThread \in Threads /\ "save" \in Deeds
  BY DEF Threads, Deeds
<1>8. QED BY <1>1, <1>2, <1>4, <1>5, <1>6, <1>7, LoadStep

\* The commands that begin with a load.
LEMMA BeginSteps ==
  ASSUME Profiling,
         NEW c \in Threads, LoadSettings(c) \/ Bootstrap(c) \/ \E id \in Slots : DeleteProfile(c, id)
  PROVE  Profiling'
<1>1. \E does \in {"look", "boot", "ask"}, form \in Forms :
        /\ Load(c, does, form) /\ command[c].at = "idle"
        /\ UNCHANGED <<keyring, stored, window, troubles, made, entered>>
  <2>1. CASE LoadSettings(c)
    BY <2>1, NoFormGiven DEF LoadSettings, otherVars
  <2>2. CASE Bootstrap(c)
    BY <2>2, NoFormGiven DEF Bootstrap, otherVars
  <2>3. CASE \E id \in Slots : DeleteProfile(c, id)
    BY <2>3, NoFormGiven DEF DeleteProfile, otherVars
  <2>4. QED BY <2>1, <2>2, <2>3
<1>2. {"look", "boot", "ask"} \subseteq Deeds \ {"save"}
  BY DEF Deeds
<1>3. QED BY <1>1, <1>2, LoadingStep

LEMMA SelectProfileStep ==
  ASSUME Profiling, NEW id \in Slots, SelectProfile(id)
  PROVE  Profiling'
<1>1. /\ Load(MainThread, "select", [NoForm EXCEPT !.id = id]) /\ command[MainThread].at = "idle"
      /\ UNCHANGED <<keyring, stored, window, troubles, made, entered>>
  BY DEF SelectProfile, otherVars
<1>2. MainThread \in Threads /\ "select" \in Deeds \ {"save"} /\ [NoForm EXCEPT !.id = id] \in Forms
  BY NoFormGiven DEF Threads, Deeds
<1>3. QED BY <1>1, <1>2, LoadingStep

LEMMA ChangeProfilesStep ==
  ASSUME Profiling, NEW c \in Threads, ChangeProfiles(c)
  PROVE  Profiling'
<1> DEFINE was == command[c]
           given == [made |-> was.form.made, secret |-> was.form.secret]
<1>1. /\ was \in Tasks /\ was.copy \in Settings /\ was.form \in Forms
      /\ ~mixed => OwnTask(was, stored, keyring, entered) /\ OwnIn(was.copy, entered)
  BY TaskOf
<1>2. was.at = "load" /\ UNCHANGED <<keyring, stored, window, troubles, made, entered>>
  BY DEF ChangeProfiles, Loaded, otherVars
<1>3. given \in Profiles /\ NoProfile \in Profiles
  BY <1>1, ProfilesAssumption DEF Forms, Profiles, NoProfile, Secrets
<1>4. ASSUME NEW s \in Settings, Store(c, "edit", s), ~mixed => OwnIn(s, entered)
      PROVE  Profiling'
  <2>1. "edit" \in Deeds /\ was.at # "store"
    BY <1>2 DEF Deeds
  <2>2. QED BY <1>2, <1>4, <2>1, StoreStep
<1>5. CASE was.does = "save" /\ Store(c, "edit", [was.copy EXCEPT ![was.form.id] = given])
  <2> DEFINE s == [was.copy EXCEPT ![was.form.id] = given]
  <2>1. s \in Settings /\ \A id \in Slots : s[id] \in {was.copy[id], given}
    BY <1>1, <1>3 DEF Settings
  <2>2. ASSUME ~mixed PROVE OwnIn(s, entered)
    <3>1. OwnOf(was.form.secret, was.form.made, entered)
      BY <1>1, <1>5, <2>2 DEF OwnTask
    <3>2. \A id \in Slots : OwnOf(was.copy[id].secret, was.copy[id].made, entered)
      BY <1>1, <2>2 DEF OwnIn
    <3>3. given.secret = was.form.secret /\ given.made = was.form.made
      OBVIOUS
    <3> HIDE DEF s, given
    <3>4. QED BY <2>1, <3>1, <3>2, <3>3 DEF OwnIn
  <2>3. Store(c, "edit", s)
    BY <1>5
  <2> HIDE DEF s
  <2>4. QED BY <1>4, <2>1, <2>2, <2>3
<1>6. CASE was.does = "select" /\ Store(c, "edit", was.copy)
  BY <1>1, <1>4, <1>6
<1>7. CASE was.does = "delete" /\ Store(c, "edit", [was.copy EXCEPT ![was.form.id] = NoProfile])
  <2> DEFINE s == [was.copy EXCEPT ![was.form.id] = NoProfile]
  <2>1. s \in Settings /\ \A id \in Slots : s[id] \in {was.copy[id], NoProfile}
    BY <1>1, <1>3 DEF Settings
  <2>2. ASSUME ~mixed PROVE OwnIn(s, entered)
    <3>1. \A id \in Slots : OwnOf(was.copy[id].secret, was.copy[id].made, entered)
      BY <1>1, <2>2 DEF OwnIn
    <3>2. OwnOf(NoProfile.secret, NoProfile.made, entered)
      BY DEF OwnOf, NoProfile
    <3> HIDE DEF s
    <3>3. QED BY <2>1, <3>1, <3>2 DEF OwnIn
  <2>3. Store(c, "edit", s)
    BY <1>7
  <2> HIDE DEF s
  <2>4. QED BY <1>4, <2>1, <2>2, <2>3
<1>8. CASE Steps(c, AtRest, FALSE)
  <2>1. troubles' \in 0 .. MaxTroubles /\ window' \in {window, was.copy}
    BY <1>2 DEF Profiling, Kinds
  <2>2. \A id \in Slots : ~Displacing(was, id, stored)
    BY <1>2 DEF Displacing
  <2>3. QED BY <1>2, <1>8, <2>1, <2>2, RestKeeps
<1>9. QED BY <1>5, <1>6, <1>7, <1>8 DEF ChangeProfiles

LEMMA SaveSettingsStep ==
  ASSUME Profiling, NEW c \in Threads, SaveSettings(c)
  PROVE  Profiling'
<1>1. /\ command[c].at = "idle" /\ Store(c, "settings", window)
      /\ UNCHANGED <<keyring, stored, window, troubles, made, entered>>
  BY DEF SaveSettings, otherVars
<1>2. window \in Settings /\ "settings" \in Deeds /\ (~mixed => OwnIn(window, entered))
  BY DEF Profiling, Kinds, Separate, Deeds
<1>3. QED BY <1>1, <1>2, StoreStep

LEMMA AskDaemonStep ==
  ASSUME Profiling, NEW c \in Threads, AskDaemon(c)
  PROVE  Profiling'
<1> DEFINE was == command[c]
           next == [was EXCEPT !.at = "wait"]
<1>1. /\ was \in Tasks /\ was.copy \in Settings /\ Reached(was)
      /\ ~mixed => OwnTask(was, stored, keyring, entered) /\ OwnIn(was.copy, entered)
  BY TaskOf
<1>2. /\ was.at = "load" /\ was.does # "save" /\ Steps(c, next, FALSE)
      /\ UNCHANGED <<keyring, stored, window, troubles, made, entered>>
  BY DEF AskDaemon, Loaded, otherVars
<1>3. /\ next \in Tasks /\ next.at = "wait" /\ next.does = was.does /\ next.copy = was.copy
      /\ next.todo = was.todo /\ next.missing = was.missing
  BY <1>1 DEF Tasks
<1>4. Reached(next)
  BY <1>1, <1>3 DEF Reached
<1> HIDE DEF next
<1>5. /\ command' \in [Threads -> Tasks] /\ \A d \in Threads : Reached(command'[d])
      /\ mixed' \in BOOLEAN /\ (~mixed' => ~mixed)
  BY <1>2, <1>3, <1>4, OneSteps DEF Profiling
<1>6. Kinds'
  BY <1>2, <1>5 DEF Profiling, Kinds
<1>7. ASSUME ~mixed' PROVE Separate'
  <2>1. OwnIn(window', entered) /\ OwnIn(next.copy, entered)
    BY <1>1, <1>2, <1>3, <1>5, <1>7 DEF Profiling, Separate
  <2>2. \A id \in Slots : ~Displacing(was, id, stored)
    BY <1>2 DEF Displacing
  <2>3. next.at \notin {"load", "store"} /\ next.does # "save"
    BY <1>2, <1>3
  <2>4. QED BY <1>2, <1>3, <1>4, <1>7, <2>1, <2>2, <2>3, AsideKeeps
<1>8. QED BY <1>6, <1>7 DEF Profiling

LEMMA DaemonAnswersStep ==
  ASSUME Profiling, NEW c \in Threads, DaemonAnswers(c)
  PROVE  Profiling'
<1>1. /\ command[c].at = "wait" /\ UNCHANGED <<keyring, stored, troubles, made, entered>>
  BY DEF DaemonAnswers, otherVars
<1>2. /\ command[c] \in Tasks /\ command[c].copy \in Settings /\ command[c].form \in Forms
      /\ command[c].does \in Deeds
      /\ ~mixed => OwnTask(command[c], stored, keyring, entered) /\ OwnIn(command[c].copy, entered)
  BY TaskOf
<1>3. CASE Load(c, "delete", command[c].form) /\ UNCHANGED window
  BY <1>1, <1>2, <1>3, LoadingStep DEF Deeds
<1>4. CASE /\ command[c].does \in {"boot", "reconnect"} /\ UNCHANGED window
           /\ Store(c, command[c].does, command[c].copy)
  BY <1>1, <1>2, <1>4, StoreStep
<1>5. CASE /\ Steps(c, AtRest, FALSE)
           /\ window' = IF command[c].does = "reconnect" THEN command[c].copy ELSE window
  <2>1. troubles' \in 0 .. MaxTroubles /\ window' \in {window, command[c].copy}
    BY <1>1, <1>5 DEF Profiling, Kinds
  <2>2. \A id \in Slots : ~Displacing(command[c], id, stored)
    BY <1>1 DEF Displacing
  <2>3. QED BY <1>1, <1>5, <2>1, <2>2, RestKeeps
<1>6. QED BY <1>3, <1>4, <1>5 DEF DaemonAnswers

LEMMA EditFileStep ==
  ASSUME Profiling, NEW id \in Slots, NEW secret \in Passwords, EditFile(id, secret)
  PROVE  Profiling'
<1>1. /\ stored[id].made # 0 /\ stored' = [stored EXCEPT ![id].secret = secret]
      /\ entered' = [entered EXCEPT ![stored[id].made] = @ \union {secret}]
      /\ UNCHANGED <<keyring, window, command, troubles, made, mixed>>
  BY DEF EditFile, ProfileIds
<1>2. /\ stored \in Settings /\ stored[id].made \in 1 .. MaxMade /\ secret \in Secrets
      /\ entered \in [1 .. MaxMade -> SUBSET Secrets] /\ command \in [Threads -> Tasks]
  BY <1>1, FileTypes, ProfilesAssumption DEF Profiling, Kinds, Secrets
<1>3. /\ stored' \in Settings /\ \A n \in Slots : stored'[n].made = stored[n].made
      /\ \A n \in Slots : n # id => stored'[n] = stored[n]
      /\ stored'[id].secret = secret
  BY <1>1, <1>2 DEF Settings, Profiles
<1>4. /\ entered' \in [1 .. MaxMade -> SUBSET Secrets] /\ Grows
      /\ secret \in entered'[stored[id].made]
  BY <1>1, <1>2 DEF Grows
<1>5. Kinds'
  BY <1>1, <1>3, <1>4 DEF Profiling, Kinds
<1>6. ASSUME ~mixed PROVE Separate'
  <2>1. Separate /\ window \in Settings /\ \A n \in Slots : stored[n].made \in 0 .. MaxMade
    BY <1>2, <1>6, FileTypes DEF Profiling, Kinds
  <2>2. OwnIn(stored', entered')
    <3>1. \A n \in Slots : n # id => OwnOf(stored'[n].secret, stored'[n].made, entered')
      BY <1>3, <1>4, <2>1, StillOwn DEF Separate, OwnIn
    <3>2. OwnOf(stored'[id].secret, stored'[id].made, entered')
      BY <1>3, <1>4 DEF OwnOf
    <3>3. QED BY <3>1, <3>2 DEF OwnIn
  <2>3. OwnIn(window', entered')
    BY <1>1, <1>4, <2>1, StillIn DEF Separate
  <2>4. ASSUME NEW c \in Threads PROVE OwnTask(command'[c], stored', keyring', entered')
    BY <1>1, <1>2, <1>3, <1>4, <2>1, StillTask DEF Separate
  <2>5. ASSUME NEW n \in Slots
        PROVE  \/ OwnOf(keyring'[n], stored'[n].made, entered')
               \/ \E c \in Threads : Displacing(command'[c], n, stored')
    <3>1. CASE OwnOf(keyring[n], stored[n].made, entered)
      BY <1>1, <1>3, <1>4, <2>1, <3>1, StillOwn
    <3>2. CASE \E c \in Threads : Displacing(command[c], n, stored)
      BY <1>1, <1>3, <3>2 DEF Displacing
    <3>3. QED BY <2>1, <3>1, <3>2 DEF Separate, OwnKeyring
  <2>6. ~Clash(command')
    BY <1>1, <2>1 DEF Separate
  <2>7. QED BY <2>2, <2>3, <2>4, <2>5, <2>6 DEF Separate, OwnKeyring
<1>7. QED BY <1>1, <1>5, <1>6 DEF Profiling

LEMMA ProfilesStep == Profiling /\ [ProfilesNext]_profileVars => Profiling'
<1> SUFFICES ASSUME Profiling, [ProfilesNext]_profileVars PROVE Profiling'
  OBVIOUS
<1>1. ASSUME NEW c \in Threads,
             \/ LoadSettings(c) \/ Show(c) \/ ChangeProfiles(c) \/ AskDaemon(c)
             \/ Tidy(c) \/ WriteFile(c) \/ LoadAgain(c) \/ AccessFails(c)
      PROVE  Profiling'
  BY <1>1, BeginSteps, ShowStep, ChangeProfilesStep, AskDaemonStep, TidyStep, WriteFileStep,
     LoadAgainStep, FailsStep
<1>2. ASSUME NEW c \in Threads, NEW id \in Slots, LookUp(c, id) \/ KeepSecret(c, id) \/ StoreSecret(c, id)
      PROVE  Profiling'
  BY <1>2, LookUpStep, KeepSecretStep, StoreSecretStep
<1>3. ASSUME NEW id \in Slots, NEW secret \in Secrets, CreateProfile(id, secret) \/ EditProfile(id, secret)
      PROVE  Profiling'
  BY <1>3, CreateProfileStep, EditProfileStep
<1>4. ASSUME NEW id \in Slots, SelectProfile(id) PROVE Profiling'
  BY <1>4, SelectProfileStep
<1>5. ASSUME NEW c \in Workers,
             \/ SaveSettings(c) \/ Bootstrap(c) \/ DaemonAnswers(c)
             \/ \E id \in Slots : DeleteProfile(c, id)
      PROVE  Profiling'
  <2>1. c \in Threads
    BY DEF Threads
  <2>2. QED BY <1>5, <2>1, BeginSteps, SaveSettingsStep, DaemonAnswersStep
<1>6. ASSUME NEW id \in Slots, NEW secret \in Passwords, EditFile(id, secret) PROVE Profiling'
  BY <1>6, EditFileStep
<1>7. CASE UNCHANGED profileVars
  <2>1. Kinds'
    BY <1>7, Zenon DEF Profiling, Kinds, profileVars, Reached
  <2>2. UNCHANGED <<stored, keyring, window, command, mixed, entered>>
    BY <1>7 DEF profileVars
  <2>3. Separate => Separate'
    BY <2>2 DEF Separate, OwnKeyring
  <2>4. QED BY <2>1, <2>2, <2>3 DEF Profiling
<1>8. QED BY <1>1, <1>2, <1>3, <1>4, <1>5, <1>6, <1>7 DEF ProfilesNext

LEMMA ProfilingInit == ProfilesInit => Profiling
<1> SUFFICES ASSUME ProfilesInit PROVE Profiling
  OBVIOUS
<1>1. /\ stored = NoSettings /\ window = NoSettings /\ NoSettings \in Settings
      /\ \A c \in Threads : command[c] = AtRest
  BY TaskTypes DEF ProfilesInit
<1>2. Kinds
  <2>1. command \in [Threads -> Tasks]
    BY TaskTypes DEF ProfilesInit
  <2>2. keyring \in [Slots -> Secrets] /\ entered \in [1 .. MaxMade -> SUBSET Secrets]
    BY DEF ProfilesInit, Secrets
  <2>3. troubles \in 0 .. MaxTroubles /\ made \in 0 .. MaxMade
    BY ProfilesAssumption DEF ProfilesInit
  <2>4. \A c \in Threads : Reached(command[c])
    BY <1>1, TaskTypes
  <2>5. mixed \in BOOLEAN
    BY DEF ProfilesInit
  <2>6. QED BY <1>1, <2>1, <2>2, <2>3, <2>4, <2>5 DEF Kinds
<1>3. \A id \in Slots : NoSettings[id].made = 0
  BY DEF NoSettings, NoProfile
<1>4. OwnIn(NoSettings, entered) /\ OwnKeyring
  BY <1>1, <1>3 DEF OwnIn, OwnOf, OwnKeyring
<1>5. \A c \in Threads : OwnTask(command[c], stored, keyring, entered)
  BY <1>1, <1>4, TaskTypes DEF OwnTask, Past
<1>6. ~Clash(command)
  BY <1>1, TaskTypes DEF Clash, Accessing
<1>7. QED BY <1>1, <1>2, <1>4, <1>5, <1>6 DEF Profiling, Separate

(* The app's own copies of the settings never have the secret of another   *)
(* profile, with any number of threads, ids and failures (settings.rs,     *)
(* secret_store.rs): as long as no id stands for two profiles at once, an  *)
(* entry of the keyring belongs to the profile the file has there.         *)
THEOREM SecretsStayOwn == ProfilesSpec => []NoInheritedSecret
<1>1. Profiling => NoInheritedSecret
  <2> SUFFICES ASSUME Profiling, ~mixed PROVE NoInheritedSecret
    BY DEF NoInheritedSecret
  <2>1. ASSUME NEW s, OwnIn(s, entered) PROVE OwnSecrets(s)
    BY <2>1 DEF OwnIn, OwnOf, OwnSecrets, ProfileIds
  <2>2. OwnIn(window, entered) /\ \A c \in Threads : OwnIn(command[c].copy, entered)
    BY DEF Profiling, Separate, OwnTask
  <2>3. QED BY <2>1, <2>2 DEF NoInheritedSecret
<1>2. QED BY <1>1, ProfilingInit, ProfilesStep, PTL DEF ProfilesSpec

(* Types of the profiles: the entries of the keyring that a command is     *)
(* still to read or write are of profiles in its copy.                     *)
THEOREM ProfilesTyped == ProfilesSpec => []ProfilesTypeOK
<1>1. Profiling => ProfilesTypeOK
  <2> SUFFICES ASSUME Profiling PROVE ProfilesTypeOK
    OBVIOUS
  <2>1. \A c \in Threads : command[c] \in Tasks /\ Reached(command[c])
    BY DEF Profiling, Kinds
  <2>2. \A c \in Threads :
          /\ command[c].at \in {"idle", "again", "load", "wait", "store"}
          /\ command[c].copy \in [Slots -> Profiles]
          /\ command[c].todo \subseteq ProfileIds(command[c].copy)
    BY <2>1 DEF Tasks, Settings, Reached
  <2>3. mixed \in BOOLEAN
    BY DEF Profiling, Kinds
  <2>4. \A m \in 1 .. MaxMade : entered[m] \subseteq Secrets
    BY DEF Profiling, Kinds
  <2>5. QED BY <2>2, <2>3, <2>4, Zenon DEF ProfilesTypeOK, Profiling, Kinds, Settings
<1>2. QED BY <1>1, ProfilingInit, ProfilesStep, PTL DEF ProfilesSpec

-----------------------------------------------------------------------------
(* Executables *)

JobPlaces == {"idle", "shown", "asked", "claimed", "download", "downloaded", "extracted",
              "promoted", "copying", "copied", "removed", "ended", "noted", "reread"}
JobRecords == [at : JobPlaces, tool : Tools \union {""}, read : [Tools -> States],
               good : BOOLEAN, ends : {"installed", "failed"}]
ToolFiles == [stable : Files, tmp : Files, version : Files]
UpdatePlaces == {"idle", "offered", "unpacking", "staging", "staged", "next", "copying",
                 "copied", "backed up"}
UpdateRecords == [at : UpdatePlaces, done : SUBSET Binaries, binary : Binaries \union {""},
                  payload : {"new", "partial"}]
OwnFiles == [place : Files, fresh : Files, backup : Files]

InstallsTyped ==
  /\ live \in [Tools -> States] /\ saved \in [Tools -> States]
  /\ tools \in [Tools -> ToolFiles] /\ unsaved \subseteq Tools
  /\ jobs \in [Jobs -> JobRecords]
  /\ \A j \in Jobs : jobs[j].at \notin {"idle", "shown"} => jobs[j].tool \in Tools

UpdatesTyped ==
  /\ own \in [Binaries -> OwnFiles] /\ unpacked \in {"new", "partial"}
  /\ cut \subseteq Binaries /\ overlap \in BOOLEAN
  /\ update \in [Updates -> UpdateRecords] /\ system \in {"unix", "windows"}
  /\ \A w \in Updates :
       /\ update[w].at \in {"copying", "copied", "backed up"} => update[w].binary \in Binaries
       /\ update[w].at \in {"staging", "staged", "backed up"} => system = "windows"

AppTyped == up \in BOOLEAN /\ system \in Systems /\ mishaps \in 0 .. MaxMishaps

Working(j) == jobs[j].at \in {"claimed", "download", "downloaded", "extracted", "promoted",
                              "copying", "copied", "removed", "ended"}

\* A tool that is being downloaded is that of one job, or has no job any more.
Claimed ==
  /\ \A j \in Jobs : Working(j) => live[jobs[j].tool] = "downloading"
  /\ \A i, j \in Jobs : Working(i) /\ Working(j) /\ jobs[i].tool = jobs[j].tool => i = j
  /\ \A t \in Tools : live[t] = "downloading" =>
       t \in unsaved \/ \E j \in Jobs : Working(j) /\ jobs[j].tool = t

\* What a job is about to pass on.
Verified(j) ==
  /\ jobs[j].at = "extracted" => jobs[j].good
  /\ jobs[j].at \in {"promoted", "copying"} => tools[jobs[j].tool].version = "good"
  /\ jobs[j].at \in {"copied", "removed"} => tools[jobs[j].tool].tmp = "good"

ToolsGood ==
  /\ \A j \in Jobs : Verified(j)
  /\ \A t \in Tools : tools[t].stable \in {Gone, "good"}

Installing == InstallsTyped /\ Claimed /\ ToolsGood

-----------------------------------------------------------------------------

LEMMA JobMoves ==
  ASSUME InstallsTyped, NEW j \in Jobs, NEW place \in JobPlaces, JobGoes(j, place)
  PROVE  /\ jobs' \in [Jobs -> JobRecords]
         /\ jobs'[j].at = place /\ jobs'[j].tool = jobs[j].tool /\ jobs'[j].good = jobs[j].good
         /\ \A i \in Jobs \ {j} : jobs'[i] = jobs[i]
BY DEF InstallsTyped, JobGoes, JobRecords

LEMMA JobBecomes ==
  ASSUME InstallsTyped, NEW j \in Jobs, NEW r \in JobRecords, jobs' = [jobs EXCEPT ![j] = r]
  PROVE  jobs' \in [Jobs -> JobRecords] /\ jobs'[j] = r /\ \A i \in Jobs \ {j} : jobs'[i] = jobs[i]
BY DEF InstallsTyped

LEMMA JobStops ==
  ASSUME InstallsTyped, NEW j \in Jobs, NEW as \in {"installed", "failed"}, JobEnds(j, as)
  PROVE  /\ jobs' \in [Jobs -> JobRecords]
         /\ jobs'[j].at = "ended" /\ jobs'[j].tool = jobs[j].tool
         /\ \A i \in Jobs \ {j} : jobs'[i] = jobs[i]
<1> DEFINE r == [jobs[j] EXCEPT !.at = "ended", !.ends = as]
<1>1. jobs[j] \in JobRecords
  BY DEF InstallsTyped
<1>2. r \in JobRecords /\ r.at = "ended" /\ r.tool = jobs[j].tool
  BY <1>1 DEF JobRecords, JobPlaces
<1>3. jobs' = [jobs EXCEPT ![j] = r]
  BY DEF JobEnds
<1> HIDE DEF r
<1>4. QED BY <1>2, <1>3, JobBecomes

\* A step of j that leaves the statuses alone.
LEMMA StillClaimed ==
  ASSUME Claimed, NEW j \in Jobs, \A i \in Jobs \ {j} : jobs'[i] = jobs[i],
         live' = live, unsaved' = unsaved,
         \/ Working(j) /\ Working(j)' /\ jobs'[j].tool = jobs[j].tool
         \/ ~Working(j) /\ ~Working(j)'
  PROVE  Claimed'
<1>1. \A i \in Jobs : Working(i)' => Working(i) /\ jobs'[i].tool = jobs[i].tool
  BY DEF Working
<1>2. \A i \in Jobs : Working(i) => Working(i)' /\ jobs'[i].tool = jobs[i].tool
  BY DEF Working
<1>3. QED BY <1>1, <1>2 DEF Claimed

\* A step of j that leaves the files of other tools alone.
LEMMA OthersVerified ==
  ASSUME InstallsTyped, Claimed, ToolsGood, NEW j \in Jobs, Working(j),
         \A i \in Jobs \ {j} : jobs'[i] = jobs[i],
         \A t \in Tools \ {jobs[j].tool} : tools'[t] = tools[t]
  PROVE  /\ \A i \in Jobs \ {j} : Verified(i)'
         /\ \A t \in Tools \ {jobs[j].tool} : tools'[t].stable \in {Gone, "good"}
<1>1. ASSUME NEW i \in Jobs \ {j} PROVE Verified(i)'
  <2>1. CASE Working(i)
    <3>1. jobs[i].tool \in Tools \ {jobs[j].tool}
      BY <2>1 DEF InstallsTyped, Claimed, Working
    <3>2. tools'[jobs[i].tool] = tools[jobs[i].tool] /\ jobs'[i] = jobs[i]
      BY <3>1
    <3>3. QED BY <3>2 DEF ToolsGood, Verified
  <2>2. CASE ~Working(i)
    BY <2>2 DEF Verified, Working
  <2>3. QED BY <2>1, <2>2
<1>2. QED BY <1>1 DEF ToolsGood

\* A job at work that changes nothing but where it is.
LEMMA PassesOn ==
  ASSUME Installing, NEW j \in Jobs, Working(j), Working(j)',
         jobs' \in [Jobs -> JobRecords], \A i \in Jobs \ {j} : jobs'[i] = jobs[i],
         jobs'[j].tool = jobs[j].tool, UNCHANGED <<live, unsaved>>, saved' \in [Tools -> States],
         tools' \in [Tools -> ToolFiles],
         \A t \in Tools \ {jobs[j].tool} : tools'[t] = tools[t],
         tools'[jobs[j].tool].stable \in {Gone, "good"}, Verified(j)'
  PROVE  Installing'
<1>1. Claimed'
  BY StillClaimed DEF Installing
<1>2. ToolsGood'
  <2>1. jobs[j].tool \in Tools
    BY DEF Installing, InstallsTyped, Working
  <2>2. QED BY <2>1, OthersVerified DEF Installing, ToolsGood
<1>3. InstallsTyped'
  BY DEF Installing, InstallsTyped, Working
<1>4. QED BY <1>1, <1>2, <1>3 DEF Installing

LEMMA ToolSet ==
  ASSUME InstallsTyped, NEW t \in Tools, NEW file \in Files
  PROVE  /\ SetTool(t, "stable", file) =>
              /\ tools' \in [Tools -> ToolFiles] /\ \A s \in Tools \ {t} : tools'[s] = tools[s]
              /\ tools'[t].stable = file
              /\ tools'[t].tmp = tools[t].tmp /\ tools'[t].version = tools[t].version
         /\ SetTool(t, "tmp", file) =>
              /\ tools' \in [Tools -> ToolFiles] /\ \A s \in Tools \ {t} : tools'[s] = tools[s]
              /\ tools'[t].tmp = file
              /\ tools'[t].stable = tools[t].stable /\ tools'[t].version = tools[t].version
         /\ SetTool(t, "version", file) =>
              /\ tools' \in [Tools -> ToolFiles] /\ \A s \in Tools \ {t} : tools'[s] = tools[s]
              /\ tools'[t].version = file
              /\ tools'[t].stable = tools[t].stable /\ tools'[t].tmp = tools[t].tmp
BY DEF InstallsTyped, SetTool, ToolFiles

LEMMA StatusShown ==
  ASSUME NEW t, NEW statuses
  PROVE  NormalizedStatus(t, statuses) \in {"none", "failed"}
BY DEF NormalizedStatus

\* A job that is not at work, before and after.
LEMMA NotAtWork ==
  ASSUME Installing, NEW j \in Jobs, ~Working(j), ~Working(j)', UNCHANGED <<live, unsaved, tools>>,
         jobs' \in [Jobs -> JobRecords], \A i \in Jobs \ {j} : jobs'[i] = jobs[i],
         jobs'[j].at \notin {"idle", "shown"} => jobs'[j].tool \in Tools,
         saved' \in [Tools -> States]
  PROVE  Installing'
<1>1. Claimed'
  BY StillClaimed DEF Installing
<1>2. ToolsGood'
  BY DEF Installing, ToolsGood, Verified, Working
<1>3. InstallsTyped'
  BY DEF Installing, InstallsTyped
<1>4. QED BY <1>1, <1>2, <1>3 DEF Installing

LEMMA StatusesSaved ==
  ASSUME InstallsTyped, NEW statuses \in [Tools -> States], SaveStatuses(statuses)
  PROVE  saved' \in [Tools -> States]
BY DEF InstallsTyped, SaveStatuses

LEMMA LooksKeep ==
  ASSUME Installing, NEW j \in Jobs,
         ShowTools(j) \/ WriteShown(j) \/ \E t \in Tools : InstallAsk(j, t)
  PROVE  Installing'
<1>1. CASE ShowTools(j)
  <2>1. jobs' = [jobs EXCEPT ![j] = [jobs[j] EXCEPT !.at = "shown", !.read = saved]]
    BY <1>1 DEF ShowTools
  <2>2. /\ jobs' \in [Jobs -> JobRecords] /\ jobs'[j].at = "shown"
        /\ \A i \in Jobs \ {j} : jobs'[i] = jobs[i]
    <3> DEFINE r == [jobs[j] EXCEPT !.at = "shown", !.read = saved]
    <3>1. jobs[j] \in JobRecords /\ saved \in [Tools -> States] /\ InstallsTyped
      BY DEF Installing, InstallsTyped
    <3>2. r \in JobRecords /\ r.at = "shown"
      BY <3>1 DEF JobRecords, JobPlaces
    <3> HIDE DEF r
    <3>3. jobs' = [jobs EXCEPT ![j] = r]
      BY <2>1 DEF r
    <3>4. QED BY <3>1, <3>2, <3>3, JobBecomes
  <2>3. QED BY <1>1, <2>2, NotAtWork DEF ShowTools, JobAt, Working, Installing, InstallsTyped
<1>2. CASE WriteShown(j)
  <2>1. [t \in Tools |-> NormalizedStatus(t, jobs[j].read)] \in [Tools -> States]
    BY StatusShown DEF States
  <2>2. saved' \in [Tools -> States]
    BY <1>2, <2>1, StatusesSaved DEF WriteShown, Installing
  <2>3. /\ jobs' \in [Jobs -> JobRecords] /\ jobs'[j].at = "idle"
        /\ \A i \in Jobs \ {j} : jobs'[i] = jobs[i]
    BY <1>2, JobMoves DEF WriteShown, Installing, JobPlaces
  <2>4. QED BY <1>2, <2>2, <2>3, NotAtWork DEF WriteShown, JobAt, Working
<1>3. ASSUME NEW t \in Tools, InstallAsk(j, t) PROVE Installing'
  <2> DEFINE r == [NoJob EXCEPT !.at = "asked", !.tool = t, !.read = saved]
  <2>1. r \in JobRecords /\ r.at = "asked" /\ r.tool = t
    BY DEF NoJob, JobRecords, JobPlaces, Installing, InstallsTyped
  <2>2. jobs' = [jobs EXCEPT ![j] = r]
    BY <1>3 DEF InstallAsk
  <2> HIDE DEF r
  <2>3. /\ jobs' \in [Jobs -> JobRecords] /\ jobs'[j].at = "asked" /\ jobs'[j].tool = t
        /\ \A i \in Jobs \ {j} : jobs'[i] = jobs[i]
    BY <2>1, <2>2 DEF Installing, InstallsTyped
  <2>4. /\ jobs[j].at = "idle" /\ UNCHANGED <<live, unsaved, tools>> /\ saved' = saved
    BY <1>3 DEF InstallAsk, JobAt
  <2>5. ~Working(j) /\ ~Working(j)' /\ saved' \in [Tools -> States]
    BY <2>3, <2>4 DEF Working, Installing, InstallsTyped
  <2>6. QED BY <2>3, <2>4, <2>5, NotAtWork
<1>4. QED BY <1>1, <1>2, <1>3

LEMMA ClaimKeeps ==
  ASSUME Installing, NEW j \in Jobs, InstallClaim(j)
  PROVE  Installing'
<1> DEFINE t == jobs[j].tool
<1>0. jobs[j].at = "asked" /\ t \in Tools /\ ~Working(j)
  BY DEF InstallClaim, JobAt, Installing, InstallsTyped, Working
<1>1. CASE live[t] = "downloading"
  <2>1. /\ jobs' \in [Jobs -> JobRecords] /\ jobs'[j].at = "idle"
        /\ \A i \in Jobs \ {j} : jobs'[i] = jobs[i]
    BY <1>1, JobMoves DEF InstallClaim, Installing, JobPlaces
  <2>2. QED BY <1>0, <1>1, <2>1, NotAtWork
    DEF InstallClaim, Working, Installing, InstallsTyped
<1>2. CASE live[t] # "downloading"
  <2>1. /\ jobs' \in [Jobs -> JobRecords] /\ jobs'[j].at = "claimed" /\ jobs'[j].tool = t
        /\ \A i \in Jobs \ {j} : jobs'[i] = jobs[i]
    BY <1>2, JobMoves DEF InstallClaim, Installing, JobPlaces
  <2>2. /\ live' \in [Tools -> States] /\ live'[t] = "downloading"
        /\ \A s \in Tools \ {t} : live'[s] = live[s]
    BY <1>0, <1>2 DEF InstallClaim, Installing, InstallsTyped, States
  <2>3. \A i \in Jobs \ {j} : Working(i) => jobs[i].tool \in Tools \ {t}
    BY <1>2 DEF Installing, Claimed, InstallsTyped, Working
  <2>4. \A i \in Jobs \ {j} : /\ Working(i)' <=> Working(i)
                              /\ jobs'[i].tool = jobs[i].tool /\ jobs'[i].at = jobs[i].at
    BY <2>1 DEF Working
  <2>5. Working(j)'
    BY <2>1 DEF Working
  <2>6. Claimed'
    <3>1. \A i \in Jobs : Working(i)' => live'[jobs'[i].tool] = "downloading"
      BY <2>1, <2>2, <2>3, <2>4 DEF Installing, Claimed
    <3>2. \A i, k \in Jobs : Working(i)' /\ Working(k)' /\ jobs'[i].tool = jobs'[k].tool => i = k
      BY <2>1, <2>3, <2>4 DEF Installing, Claimed
    <3>3. \A s \in Tools : live'[s] = "downloading" =>
            s \in unsaved' \/ \E i \in Jobs : Working(i)' /\ jobs'[i].tool = s
      <4>1. TAKE s \in Tools
      <4>2. CASE s = t
        BY <2>1, <2>5, <4>2
      <4>3. CASE s # t /\ live'[s] = "downloading"
        <5>1. s \in unsaved \/ \E i \in Jobs : Working(i) /\ jobs[i].tool = s
          BY <2>2, <4>3 DEF Installing, Claimed
        <5>2. unsaved' = unsaved
          BY DEF InstallClaim
        <5>3. \A i \in Jobs : Working(i) => i \in Jobs \ {j}
          BY <1>0
        <5>4. QED BY <2>4, <5>1, <5>2, <5>3
      <4>4. QED BY <4>2, <4>3
    <3>4. QED BY <3>1, <3>2, <3>3 DEF Claimed
  <2>7. ToolsGood'
    BY <2>1 DEF Installing, ToolsGood, Verified, InstallClaim
  <2>8. InstallsTyped'
    BY <1>0, <2>1, <2>2 DEF Installing, InstallsTyped, InstallClaim
  <2>9. QED BY <2>6, <2>7, <2>8 DEF Installing
<1>3. QED BY <1>1, <1>2

LEMMA SaveKeeps ==
  ASSUME Installing, NEW j \in Jobs, InstallSave(j)
  PROVE  Installing'
<1> DEFINE t == jobs[j].tool
<1>0. jobs[j].at = "claimed" /\ t \in Tools /\ Working(j)
  BY DEF InstallSave, JobAt, Installing, InstallsTyped, Working
<1>1. CASE saved' = [jobs[j].read EXCEPT ![t] = "downloading"] /\ JobGoes(j, "download") /\ unsaved' = unsaved
  <2>1. /\ jobs' \in [Jobs -> JobRecords] /\ jobs'[j].at = "download" /\ jobs'[j].tool = t
        /\ \A i \in Jobs \ {j} : jobs'[i] = jobs[i]
    BY <1>1, JobMoves DEF Installing, JobPlaces
  <2>2. saved' \in [Tools -> States]
    BY <1>1 DEF Installing, InstallsTyped, JobRecords, States
  <2>3. Working(j)' /\ Verified(j)'
    BY <2>1 DEF Working, Verified
  <2>4. QED BY <1>0, <1>1, <2>1, <2>2, <2>3, PassesOn
    DEF InstallSave, Installing, InstallsTyped, ToolsGood
<1>2. CASE unsaved' = unsaved \union {t} /\ JobGoes(j, "idle") /\ saved' = saved
  <2>1. /\ jobs' \in [Jobs -> JobRecords] /\ jobs'[j].at = "idle"
        /\ \A i \in Jobs \ {j} : jobs'[i] = jobs[i]
    BY <1>2, JobMoves DEF Installing, JobPlaces
  <2>2. /\ ~Working(j)'
        /\ \A i \in Jobs \ {j} : (Working(i)' <=> Working(i)) /\ jobs'[i].tool = jobs[i].tool
    BY <2>1 DEF Working
  <2>3. Claimed'
    <3>1. live' = live
      BY DEF InstallSave
    <3>2. \A s \in Tools : live[s] = "downloading" =>
            s \in unsaved' \/ \E i \in Jobs : Working(i)' /\ jobs'[i].tool = s
      BY <1>2, <2>2 DEF Installing, Claimed
    <3>3. QED BY <2>2, <3>1, <3>2 DEF Installing, Claimed
  <2>4. ToolsGood'
    BY <2>1 DEF Installing, ToolsGood, Verified, InstallSave
  <2>5. InstallsTyped'
    BY <1>0, <1>2, <2>1 DEF Installing, InstallsTyped, InstallSave
  <2>6. QED BY <2>3, <2>4, <2>5 DEF Installing
<1>3. QED BY <1>1, <1>2 DEF InstallSave

\* A job that gives up.
LEMMA GivesUp ==
  ASSUME Installing, NEW j \in Jobs, Working(j), JobEnds(j, "failed"),
         UNCHANGED <<live, saved, unsaved>>, tools' \in [Tools -> ToolFiles],
         \A t \in Tools \ {jobs[j].tool} : tools'[t] = tools[t],
         tools'[jobs[j].tool].stable \in {Gone, "good"}
  PROVE  Installing'
<1>1. /\ jobs' \in [Jobs -> JobRecords]
      /\ jobs'[j].at = "ended" /\ jobs'[j].tool = jobs[j].tool
      /\ \A i \in Jobs \ {j} : jobs'[i] = jobs[i]
  BY JobStops DEF Installing
<1>2. Working(j)' /\ Verified(j)'
  BY <1>1 DEF Working, Verified
<1>3. QED BY <1>1, <1>2, PassesOn DEF Installing, InstallsTyped

LEMMA DownloadKeeps ==
  ASSUME Installing, NEW j \in Jobs, InstallDownload(j) \/ InstallExtract(j)
  PROVE  Installing'
<1>0. Working(j) /\ jobs[j].tool \in Tools /\ tools' = tools
  BY DEF InstallDownload, InstallExtract, JobAt, Working, Installing, InstallsTyped
<1>1. CASE JobEnds(j, "failed")
  BY <1>0, <1>1, GivesUp DEF InstallDownload, InstallExtract, Installing, InstallsTyped, ToolsGood
<1>2. CASE ~JobEnds(j, "failed")
  <2>1. /\ jobs' \in [Jobs -> JobRecords] /\ jobs'[j].tool = jobs[j].tool
        /\ \/ jobs'[j].at = "downloaded"
           \/ jobs'[j].at = "extracted" /\ jobs'[j].good
        /\ \A i \in Jobs \ {j} : jobs'[i] = jobs[i]
    <3>1. CASE JobGoes(j, "downloaded")
      BY <3>1, JobMoves DEF Installing, JobPlaces
    <3>2. CASE jobs' = [jobs EXCEPT ![j].at = "downloaded", ![j].good = FALSE]
      <4> DEFINE r == [jobs[j] EXCEPT !.at = "downloaded", !.good = FALSE]
      <4>1. jobs[j] \in JobRecords /\ InstallsTyped
        BY DEF Installing, InstallsTyped
      <4>2. r \in JobRecords /\ r.at = "downloaded" /\ r.tool = jobs[j].tool
        BY <4>1 DEF JobRecords, JobPlaces
      <4>3. jobs' = [jobs EXCEPT ![j] = r]
        BY <3>2
      <4> HIDE DEF r
      <4>4. QED BY <4>1, <4>2, <4>3, JobBecomes
    <3>3. CASE jobs[j].good /\ JobGoes(j, "extracted")
      BY <3>3, JobMoves DEF Installing, JobPlaces
    <3>4. QED BY <1>2, <3>1, <3>2, <3>3 DEF InstallDownload, InstallExtract, JobFails
  <2>2. Working(j)' /\ Verified(j)'
    BY <2>1 DEF Working, Verified
  <2>3. QED BY <1>0, <2>1, <2>2, PassesOn
    DEF InstallDownload, InstallExtract, Installing, InstallsTyped, ToolsGood
<1>3. QED BY <1>1, <1>2

LEMMA PromoteKeeps ==
  ASSUME Installing, NEW j \in Jobs, InstallPromote(j)
  PROVE  Installing'
<1> DEFINE t == jobs[j].tool
<1>0. Working(j) /\ t \in Tools /\ jobs[j].good /\ tools[t].stable \in {Gone, "good"}
  BY DEF InstallPromote, JobAt, Working, Installing, InstallsTyped, ToolsGood, Verified
<1>1. CASE SetTool(t, "version", "good") /\ JobGoes(j, "promoted")
  <2>1. /\ tools' \in [Tools -> ToolFiles] /\ \A s \in Tools \ {t} : tools'[s] = tools[s]
        /\ tools'[t].version = "good" /\ tools'[t].stable = tools[t].stable
    BY <1>0, <1>1, ToolSet DEF Installing, Files
  <2>2. /\ jobs' \in [Jobs -> JobRecords] /\ jobs'[j].at = "promoted" /\ jobs'[j].tool = t
        /\ \A i \in Jobs \ {j} : jobs'[i] = jobs[i]
    BY <1>1, JobMoves DEF Installing, JobPlaces
  <2>3. Working(j)' /\ Verified(j)'
    BY <2>1, <2>2 DEF Working, Verified
  <2>4. QED BY <1>0, <2>1, <2>2, <2>3, PassesOn DEF InstallPromote, Installing, InstallsTyped
<1>2. CASE SetTool(t, "version", Gone) /\ JobEnds(j, "failed")
  <2>1. /\ tools' \in [Tools -> ToolFiles] /\ \A s \in Tools \ {t} : tools'[s] = tools[s]
        /\ tools'[t].stable = tools[t].stable
    BY <1>0, <1>2, ToolSet DEF Installing, Files
  <2>2. QED BY <1>0, <1>2, <2>1, GivesUp DEF InstallPromote
<1>3. QED BY <1>0, <1>1, <1>2 DEF InstallPromote, JobFails

LEMMA CopyKeeps ==
  ASSUME Installing, NEW j \in Jobs, InstallCopy(j) \/ InstallCopied(j)
  PROVE  Installing'
<1> DEFINE t == jobs[j].tool
<1>0. /\ Working(j) /\ t \in Tools /\ tools[t].stable \in {Gone, "good"}
      /\ tools[t].version = "good" /\ UNCHANGED <<live, saved, unsaved>>
  BY DEF InstallCopy, InstallCopied, JobAt, Working, Installing, InstallsTyped, ToolsGood, Verified
<1>1. CASE SetTool(t, "tmp", "partial") /\ JobGoes(j, "copying")
  <2>1. /\ tools' \in [Tools -> ToolFiles] /\ \A s \in Tools \ {t} : tools'[s] = tools[s]
        /\ tools'[t].version = "good" /\ tools'[t].stable = tools[t].stable
    BY <1>0, <1>1, ToolSet DEF Installing, Files
  <2>2. /\ jobs' \in [Jobs -> JobRecords] /\ jobs'[j].at = "copying" /\ jobs'[j].tool = t
        /\ \A i \in Jobs \ {j} : jobs'[i] = jobs[i]
    BY <1>1, JobMoves DEF Installing, JobPlaces
  <2>3. Working(j)' /\ Verified(j)'
    BY <2>1, <2>2 DEF Working, Verified
  <2>4. QED BY <1>0, <2>1, <2>2, <2>3, PassesOn DEF Installing, InstallsTyped
<1>2. CASE SetTool(t, "tmp", tools[t].version) /\ JobGoes(j, "copied")
  <2>1. /\ tools' \in [Tools -> ToolFiles] /\ \A s \in Tools \ {t} : tools'[s] = tools[s]
        /\ tools'[t].tmp = "good" /\ tools'[t].stable = tools[t].stable
    BY <1>0, <1>2, ToolSet DEF Installing, Files
  <2>2. /\ jobs' \in [Jobs -> JobRecords] /\ jobs'[j].at = "copied" /\ jobs'[j].tool = t
        /\ \A i \in Jobs \ {j} : jobs'[i] = jobs[i]
    BY <1>2, JobMoves DEF Installing, JobPlaces
  <2>3. Working(j)' /\ Verified(j)'
    BY <2>1, <2>2 DEF Working, Verified
  <2>4. QED BY <1>0, <2>1, <2>2, <2>3, PassesOn DEF Installing, InstallsTyped
<1>3. CASE JobEnds(j, "failed") /\ tools' = tools
  BY <1>0, <1>3, GivesUp DEF Installing, InstallsTyped
<1>4. QED BY <1>1, <1>2, <1>3 DEF InstallCopy, InstallCopied, JobFails

LEMMA PutKeeps ==
  ASSUME Installing, NEW j \in Jobs, InstallRemove(j) \/ InstallPut(j)
  PROVE  Installing'
<1> DEFINE t == jobs[j].tool
<1>0. /\ Working(j) /\ t \in Tools /\ tools[t].stable \in {Gone, "good"}
      /\ tools[t].tmp = "good" /\ UNCHANGED <<live, saved, unsaved>>
  BY DEF InstallRemove, InstallPut, JobAt, Working, Installing, InstallsTyped, ToolsGood, Verified
<1>1. CASE SetTool(t, "stable", Gone) /\ JobGoes(j, "removed")
  <2>1. /\ tools' \in [Tools -> ToolFiles] /\ \A s \in Tools \ {t} : tools'[s] = tools[s]
        /\ tools'[t].tmp = "good" /\ tools'[t].stable = Gone
    BY <1>0, <1>1, ToolSet DEF Installing, Files
  <2>2. /\ jobs' \in [Jobs -> JobRecords] /\ jobs'[j].at = "removed" /\ jobs'[j].tool = t
        /\ \A i \in Jobs \ {j} : jobs'[i] = jobs[i]
    BY <1>1, JobMoves DEF Installing, JobPlaces
  <2>3. Working(j)' /\ Verified(j)'
    BY <2>1, <2>2 DEF Working, Verified
  <2>4. QED BY <1>0, <2>1, <2>2, <2>3, PassesOn DEF Installing, InstallsTyped
<1>2. CASE tools' = [tools EXCEPT ![t].stable = tools[t].tmp, ![t].tmp = Gone] /\ JobEnds(j, "installed")
  <2>1. /\ tools' \in [Tools -> ToolFiles] /\ \A s \in Tools \ {t} : tools'[s] = tools[s]
        /\ tools'[t].stable = "good"
    BY <1>0, <1>2 DEF Installing, InstallsTyped, ToolFiles, Files
  <2>2. /\ jobs' \in [Jobs -> JobRecords] /\ jobs'[j].at = "ended" /\ jobs'[j].tool = t
        /\ \A i \in Jobs \ {j} : jobs'[i] = jobs[i]
    BY <1>2, JobStops DEF Installing
  <2>3. Working(j)' /\ Verified(j)'
    BY <2>2 DEF Working, Verified
  <2>4. QED BY <1>0, <2>1, <2>2, <2>3, PassesOn DEF Installing, InstallsTyped
<1>3. CASE JobEnds(j, "failed") /\ tools' = tools
  BY <1>0, <1>3, GivesUp DEF Installing, InstallsTyped
<1>4. QED BY <1>1, <1>2, <1>3 DEF InstallRemove, InstallPut, JobFails

LEMMA NoteKeeps ==
  ASSUME Installing, NEW j \in Jobs, InstallNote(j)
  PROVE  Installing'
<1> DEFINE t == jobs[j].tool
<1>0. Working(j) /\ t \in Tools /\ jobs[j].ends \in {"installed", "failed"}
  BY DEF InstallNote, JobAt, Working, Installing, InstallsTyped, JobRecords
<1>1. /\ jobs' \in [Jobs -> JobRecords] /\ jobs'[j].at = "noted" /\ jobs'[j].tool = t
      /\ \A i \in Jobs \ {j} : jobs'[i] = jobs[i]
  BY JobMoves DEF InstallNote, Installing, JobPlaces
<1>2. /\ live' \in [Tools -> States] /\ live'[t] # "downloading"
      /\ \A s \in Tools \ {t} : live'[s] = live[s]
  BY <1>0 DEF InstallNote, Installing, InstallsTyped, States
<1>3. \A i \in Jobs \ {j} : Working(i) => jobs[i].tool \in Tools \ {t}
  BY <1>0 DEF Installing, Claimed, InstallsTyped, Working
<1>4. /\ ~Working(j)'
      /\ \A i \in Jobs \ {j} : (Working(i)' <=> Working(i)) /\ jobs'[i].tool = jobs[i].tool
  BY <1>1 DEF Working
<1>5. Claimed'
  <2>1. \A i \in Jobs : Working(i)' => live'[jobs'[i].tool] = "downloading"
    BY <1>2, <1>3, <1>4 DEF Installing, Claimed
  <2>2. \A i, k \in Jobs : Working(i)' /\ Working(k)' /\ jobs'[i].tool = jobs'[k].tool => i = k
    BY <1>4 DEF Installing, Claimed
  <2>3. \A s \in Tools : live'[s] = "downloading" =>
          s \in unsaved' \/ \E i \in Jobs : Working(i)' /\ jobs'[i].tool = s
    BY <1>2, <1>4 DEF Installing, Claimed, InstallNote
  <2>4. QED BY <2>1, <2>2, <2>3 DEF Claimed
<1>6. ToolsGood'
  BY <1>1 DEF Installing, ToolsGood, Verified, InstallNote
<1>7. InstallsTyped'
  BY <1>0, <1>1, <1>2 DEF Installing, InstallsTyped, InstallNote
<1>8. QED BY <1>5, <1>6, <1>7 DEF Installing

LEMMA WriteKeeps ==
  ASSUME Installing, NEW j \in Jobs, InstallReread(j) \/ InstallWrite(j)
  PROVE  Installing'
<1>1. CASE InstallReread(j)
  <2>1. jobs' = [jobs EXCEPT ![j] = [jobs[j] EXCEPT !.at = "reread", !.read = saved]]
    BY <1>1 DEF InstallReread
  <2>2. /\ jobs' \in [Jobs -> JobRecords] /\ jobs'[j].at = "reread" /\ jobs'[j].tool = jobs[j].tool
        /\ \A i \in Jobs \ {j} : jobs'[i] = jobs[i]
    <3> DEFINE r == [jobs[j] EXCEPT !.at = "reread", !.read = saved]
    <3>1. jobs[j] \in JobRecords /\ saved \in [Tools -> States] /\ InstallsTyped
      BY DEF Installing, InstallsTyped
    <3>2. r \in JobRecords /\ r.at = "reread" /\ r.tool = jobs[j].tool
      BY <3>1 DEF JobRecords, JobPlaces
    <3> HIDE DEF r
    <3>3. jobs' = [jobs EXCEPT ![j] = r]
      BY <2>1 DEF r
    <3>4. QED BY <3>1, <3>2, <3>3, JobBecomes
  <2>3. QED BY <1>1, <2>2, NotAtWork DEF InstallReread, JobAt, Working, Installing, InstallsTyped
<1>2. CASE InstallWrite(j)
  <2> DEFINE end == IF jobs[j].ends = "installed" THEN "none" ELSE "failed"
  <2>1. [jobs[j].read EXCEPT ![jobs[j].tool] = end] \in [Tools -> States]
    BY DEF States, Installing, InstallsTyped, JobRecords
  <2>2. saved' \in [Tools -> States]
    BY <1>2, <2>1, StatusesSaved DEF InstallWrite, Installing
  <2>3. /\ jobs' \in [Jobs -> JobRecords] /\ jobs'[j].at = "idle"
        /\ \A i \in Jobs \ {j} : jobs'[i] = jobs[i]
    BY <1>2, JobMoves DEF InstallWrite, Installing, JobPlaces
  <2>4. QED BY <1>2, <2>2, <2>3, NotAtWork DEF InstallWrite, JobAt, Working
<1>3. QED BY <1>1, <1>2

-----------------------------------------------------------------------------
(* Updates *)

AtUpdate(w) == update[w].at \notin {"idle", "offered"}

\* What an update that nothing interferes with has read and written.
Underway(w) ==
  /\ update[w].payload = "new"
  /\ update[w].at \in {"next", "copying", "copied"} /\ system = "unix" => unpacked = "new"
  /\ update[w].at = "staging" => unpacked = "new"
  /\ update[w].at = "copying" => own[update[w].binary].fresh # Gone
  /\ update[w].at \in {"copied", "backed up"} => own[update[w].binary].fresh = "new"
  /\ update[w].at = "backed up" =>
       own[update[w].binary].backup # Gone \/ update[w].binary \in cut

Swapping(b) == \E w \in Updates : update[w].at = "backed up" /\ update[w].binary = b

OwnWhole(b) ==
  /\ own[b].place \in {Gone, "old", "new"} /\ own[b].backup \in {Gone, "old", "new"}
  /\ own[b].place = Gone => b \in cut \/ Swapping(b)

Alone ==
  /\ \A v, w \in Updates : AtUpdate(v) /\ AtUpdate(w) => v = w
  /\ \A w \in Updates : Underway(w)
  /\ \A b \in Binaries : OwnWhole(b)

Updating == UpdatesTyped /\ (overlap \/ Alone)

LEMMA UpdateMoves ==
  ASSUME UpdatesTyped, NEW w \in Updates, NEW place \in UpdatePlaces, UpdateGoes(w, place)
  PROVE  /\ update' \in [Updates -> UpdateRecords]
         /\ update'[w].at = place /\ update'[w].binary = update[w].binary
         /\ update'[w].payload = update[w].payload
         /\ \A v \in Updates \ {w} : update'[v] = update[v]
BY DEF UpdatesTyped, UpdateGoes, UpdateRecords

LEMMA UpdateStops ==
  ASSUME UpdatesTyped, NEW w \in Updates, UpdateEnds(w)
  PROVE  /\ update' \in [Updates -> UpdateRecords]
         /\ update'[w].at = "idle" /\ update'[w].payload = "new"
         /\ \A v \in Updates \ {w} : update'[v] = update[v]
BY DEF UpdatesTyped, UpdateEnds, UpdateRecords, NoUpdate, UpdatePlaces

LEMMA OthersIdle ==
  ASSUME Alone, NEW w \in Updates, AtUpdate(w), NEW v \in Updates \ {w}
  PROVE  update[v].at \in {"idle", "offered"} /\ update[v].payload = "new"
BY DEF Alone, AtUpdate, Underway

\* The binaries that a step of w does not touch.
LEMMA StaysWhole ==
  ASSUME Alone, NEW w \in Updates, AtUpdate(w), NEW b \in Binaries,
         update[w].at = "backed up" => update[w].binary # b,
         own'[b] = own[b], cut \subseteq cut'
  PROVE  OwnWhole(b)'
<1>1. ~Swapping(b)
  BY OthersIdle DEF Swapping
<1>2. QED BY <1>1 DEF Alone, OwnWhole

LEMMA UpdateKept ==
  ASSUME Updating, NEW w \in Updates, AtUpdate(w),
         update' \in [Updates -> UpdateRecords],
         \A v \in Updates \ {w} : update'[v] = update[v],
         update'[w].at \in {"copying", "copied", "backed up"} => update'[w].binary \in Binaries,
         update'[w].at \in {"staging", "staged", "backed up"} => system = "windows",
         UNCHANGED <<system, overlap>>, own' \in [Binaries -> OwnFiles],
         unpacked' \in {"new", "partial"}, cut' \subseteq Binaries,
         Alone => Underway(w)' /\ \A b \in Binaries : OwnWhole(b)'
  PROVE  Updating'
<1>1. UpdatesTyped'
  BY DEF Updating, UpdatesTyped
<1>2. ASSUME Alone PROVE Alone'
  <2>1. \A v \in Updates \ {w} : ~AtUpdate(v)' /\ Underway(v)'
    <3>1. ASSUME NEW v \in Updates \ {w} PROVE ~AtUpdate(v)' /\ Underway(v)'
      <4>1. update[v].at \in {"idle", "offered"} /\ update[v].payload = "new"
        BY <1>2, OthersIdle
      <4>2. update'[v] = update[v]
        OBVIOUS
      <4>3. QED BY <4>1, <4>2 DEF AtUpdate, Underway
    <3>2. QED BY <3>1
  <2>2. QED BY <1>2, <2>1 DEF Alone
<1>3. QED BY <1>1, <1>2 DEF Updating

\* An update that ends, whatever it was doing, but for the two renames.
LEMMA EndKeeps ==
  ASSUME Updating, NEW w \in Updates, AtUpdate(w), update[w].at # "backed up", UpdateEnds(w),
         UNCHANGED <<system, overlap, own, cut>>, unpacked' \in {"new", "partial"}
  PROVE  Updating'
<1>1. /\ update' \in [Updates -> UpdateRecords]
      /\ update'[w].at = "idle" /\ update'[w].payload = "new"
      /\ \A v \in Updates \ {w} : update'[v] = update[v]
  BY UpdateStops DEF Updating
<1>2. Alone => Underway(w)' /\ \A b \in Binaries : OwnWhole(b)'
  BY <1>1, StaysWhole DEF Underway
<1>3. QED BY <1>1, <1>2, UpdateKept DEF Updating, UpdatesTyped

LEMMA OfferKeeps ==
  ASSUME Updating, NEW w \in Updates, UpdateCheck(w) \/ UpdateUnpack(w)
  PROVE  Updating'
<1>0. ~AtUpdate(w) /\ UNCHANGED <<system, own, cut>>
  BY DEF UpdateCheck, UpdateUnpack, UpdateAt, AtUpdate
<1>1. /\ update' \in [Updates -> UpdateRecords]
      /\ \A v \in Updates \ {w} : update'[v] = update[v]
      /\ update'[w].payload \in {"new", update[w].payload}
      /\ update'[w].at \in {"idle", "offered", "unpacking"}
      /\ update'[w].at = "unpacking" =>
           overlap' = (overlap \/ \E v \in Updates \ {w} : update[v].at \notin {"idle", "offered"})
      /\ update'[w].at # "unpacking" => overlap' = overlap /\ unpacked' = unpacked
      /\ unpacked' \in {"new", "partial"}
  <2>1. CASE UpdateCheck(w)
    BY <2>1, UpdateMoves DEF Updating, UpdatesTyped, UpdateCheck, UpdatePlaces
  <2>2. CASE /\ UpdateGoes(w, "unpacking") /\ unpacked' = "partial"
             /\ overlap' = (overlap \/ \E v \in Updates \ {w} :
                                         update[v].at \notin {"idle", "offered"})
    BY <2>2, UpdateMoves DEF Updating, UpdatesTyped, UpdatePlaces
  <2>3. CASE UpdateEnds(w) /\ UNCHANGED <<unpacked, overlap>>
    BY <2>3, UpdateStops DEF Updating, UpdatesTyped
  <2>4. QED BY <2>1, <2>2, <2>3 DEF UpdateUnpack
<1>2. UpdatesTyped'
  <2>1. overlap' \in BOOLEAN
    <3>1. CASE update'[w].at = "unpacking"
      <4>1. overlap' = (overlap \/ \E v \in Updates \ {w} :
                                       update[v].at \notin {"idle", "offered"})
        BY <1>1, <3>1
      <4>2. QED BY <4>1, Zenon
    <3>2. CASE update'[w].at # "unpacking"
      BY <1>1, <3>2 DEF Updating, UpdatesTyped
    <3>3. QED BY <3>1, <3>2
  <2>2. QED BY <1>0, <1>1, <2>1 DEF Updating, UpdatesTyped
<1>3. overlap' \/ Alone'
  <2> SUFFICES ASSUME ~overlap' PROVE Alone'
    OBVIOUS
  <2>1. Alone
    <3>1. CASE update'[w].at = "unpacking"
      <4>1. overlap' = (overlap \/ \E v \in Updates \ {w} :
                                       update[v].at \notin {"idle", "offered"})
        BY <1>1, <3>1
      <4>2. ~overlap
        BY <4>1, Zenon
      <4>3. QED BY <4>2 DEF Updating
    <3>2. CASE update'[w].at # "unpacking"
      BY <1>1, <3>2 DEF Updating
    <3>3. QED BY <3>1, <3>2
  <2>2. \A v \in Updates \ {w} : (AtUpdate(v)' <=> AtUpdate(v)) /\ (AtUpdate(w)' => ~AtUpdate(v))
    BY <1>1 DEF AtUpdate
  <2>3. \A v, u \in Updates : AtUpdate(v)' /\ AtUpdate(u)' => v = u
    BY <2>1, <2>2 DEF Alone
  <2>4. \A v \in Updates : Underway(v)'
    <3>1. Underway(w)'
      BY <1>1, <2>1 DEF Alone, Underway
    <3>2. ASSUME NEW v \in Updates \ {w} PROVE Underway(v)'
      <4>1. CASE update'[w].at # "unpacking"
        BY <1>0, <1>1, <2>1, <4>1 DEF Alone, Underway
      <4>2. CASE update'[w].at = "unpacking"
        <5>1. ~AtUpdate(v)
          BY <2>2, <4>2 DEF AtUpdate
        <5>2. QED BY <1>1, <2>1, <5>1 DEF Alone, Underway, AtUpdate
      <4>3. QED BY <4>1, <4>2
    <3>3. QED BY <3>1, <3>2
  <2>5. \A b \in Binaries : OwnWhole(b)'
    <3>1. \A b : Swapping(b) => Swapping(b)'
      BY <1>0, <1>1 DEF Swapping, AtUpdate
    <3>2. QED BY <1>0, <2>1, <3>1 DEF Alone, OwnWhole
  <2>6. QED BY <2>3, <2>4, <2>5 DEF Alone
<1>4. QED BY <1>2, <1>3 DEF Updating

LEMMA UnpackKeeps ==
  ASSUME Updating, NEW w \in Updates,
         UpdateUnpacked(w) \/ UpdateStage(w) \/ HelperGivesUp(w)
  PROVE  Updating'
<1>0. AtUpdate(w) /\ update[w].at # "backed up" /\ UNCHANGED <<system, own, cut, overlap>>
  BY DEF UpdateUnpacked, UpdateStage, HelperGivesUp, UpdateAt, AtUpdate
<1>1. CASE UpdateEnds(w)
  <2>1. unpacked' \in {"new", "partial"}
    BY DEF Updating, UpdatesTyped, UpdateUnpacked, UpdateStage, HelperGivesUp
  <2>2. QED BY <1>0, <1>1, <2>1, EndKeeps
<1>2. CASE UpdateUnpacked(w) /\ ~UpdateEnds(w)
  <2>1. /\ update[w].at = "unpacking"
        /\ unpacked' = IF \E v \in Updates \ {w} : update[v].at = "unpacking"
                         THEN "partial" ELSE "new"
        /\ IF system = "unix" THEN UpdateGoes(w, "next") ELSE UpdateGoes(w, "staging")
    BY <1>2 DEF UpdateUnpacked, UpdateAt
  <2>2. /\ update' \in [Updates -> UpdateRecords]
        /\ update'[w].at = IF system = "unix" THEN "next" ELSE "staging"
        /\ update'[w].payload = update[w].payload
        /\ \A v \in Updates \ {w} : update'[v] = update[v]
    BY <2>1, UpdateMoves DEF Updating, UpdatePlaces
  <2>3. Alone => Underway(w)' /\ \A b \in Binaries : OwnWhole(b)'
    <3>1. ASSUME Alone PROVE Underway(w)'
      <4>1. unpacked' = "new"
        BY <1>0, <2>1, <3>1, OthersIdle
      <4>2. QED BY <2>2, <3>1, <4>1 DEF Underway, Alone
    <3>2. QED BY <1>0, <3>1, StaysWhole
  <2>4. system # "unix" => system = "windows"
    BY DEF Updating, UpdatesTyped
  <2>5. QED BY <1>0, <2>1, <2>2, <2>3, <2>4, UpdateKept DEF Updating, UpdatesTyped
<1>3. CASE UpdateStage(w) /\ ~UpdateEnds(w)
  <2>1. PICK file \in Unpacked :
             update' = [update EXCEPT ![w].at = "staged", ![w].payload = file]
    BY <1>3 DEF UpdateStage
  <2>2. file \in {"new", "partial"}
    BY DEF Unpacked
  <2>3. /\ update' \in [Updates -> UpdateRecords]
        /\ update'[w].at = "staged" /\ update'[w].payload = file
        /\ \A v \in Updates \ {w} : update'[v] = update[v]
    <3> DEFINE r == [update[w] EXCEPT !.at = "staged", !.payload = file]
    <3>1. update \in [Updates -> UpdateRecords] /\ update[w] \in UpdateRecords
      BY DEF Updating, UpdatesTyped
    <3>2. r \in UpdateRecords /\ r.at = "staged" /\ r.payload = file
      BY <2>2, <3>1 DEF UpdateRecords, UpdatePlaces
    <3>3. update' = [update EXCEPT ![w] = r]
      BY <2>1, <3>1 DEF UpdateRecords
    <3> HIDE DEF r
    <3>4. QED BY <3>1, <3>2, <3>3
  <2>4. update[w].at = "staging" /\ unpacked' = unpacked
    BY <1>3 DEF UpdateStage, UpdateAt
  <2>5. Alone => Underway(w)' /\ \A b \in Binaries : OwnWhole(b)'
    <3>1. ASSUME Alone PROVE Underway(w)'
      <4>1. file = "new"
        BY <2>4, <3>1 DEF Unpacked, Alone, Underway
      <4>2. QED BY <2>3, <4>1 DEF Underway
    <3>2. QED BY <1>0, <3>1, StaysWhole
  <2>6. QED BY <1>0, <2>3, <2>4, <2>5, UpdateKept DEF Updating, UpdatesTyped
<1>4. QED BY <1>1, <1>2, <1>3 DEF HelperGivesUp

LEMMA CopyOwnKeeps ==
  ASSUME Updating, NEW w \in Updates, NEW b \in Binaries, UpdateCopy(w, b)
  PROVE  Updating'
<1>0. /\ update[w].at = "next" /\ AtUpdate(w)
      /\ UNCHANGED <<system, cut, overlap, unpacked>>
  BY DEF UpdateCopy, UpdateAt, AtUpdate
<1>1. /\ update' \in [Updates -> UpdateRecords]
      /\ update'[w].at = "copying" /\ update'[w].binary = b /\ update'[w].payload = update[w].payload
      /\ \A v \in Updates \ {w} : update'[v] = update[v]
  BY DEF UpdateCopy, Updating, UpdatesTyped, UpdateRecords, UpdatePlaces
<1>2. /\ own' \in [Binaries -> OwnFiles] /\ own'[b].fresh = "partial"
      /\ own'[b].place = own[b].place /\ own'[b].backup \in {Gone, own[b].backup}
      /\ \A c \in Binaries \ {b} : own'[c] = own[c]
  <2> DEFINE f == [own[b] EXCEPT !.fresh = "partial",
                                 !.backup = IF system = "windows" THEN Gone ELSE @]
  <2>1. own[b] \in OwnFiles
    BY DEF Updating, UpdatesTyped
  <2>2. /\ f \in OwnFiles /\ f.fresh = "partial" /\ f.place = own[b].place
        /\ f.backup \in {Gone, own[b].backup}
    BY <2>1 DEF OwnFiles, Files
  <2>3. own' = [own EXCEPT ![b] = f]
    BY DEF UpdateCopy
  <2> HIDE DEF f
  <2>4. QED BY <2>2, <2>3 DEF Updating, UpdatesTyped
<1>3. ASSUME Alone PROVE Underway(w)' /\ \A c \in Binaries : OwnWhole(c)'
  <2>1. Underway(w)'
    BY <1>0, <1>1, <1>2, <1>3 DEF Alone, Underway, Gone
  <2>2. ~Swapping(b)
    BY <1>0, <1>3, OthersIdle DEF Swapping
  <2>3. OwnWhole(b)'
    BY <1>0, <1>2, <1>3, <2>2 DEF Alone, OwnWhole
  <2>4. \A c \in Binaries \ {b} : OwnWhole(c)'
    BY <1>0, <1>2, <1>3, StaysWhole
  <2>5. QED BY <2>1, <2>3, <2>4
<1>4. QED BY <1>0, <1>1, <1>2, <1>3, UpdateKept DEF Updating, UpdatesTyped

LEMMA CopiedOwnKeeps ==
  ASSUME Updating, NEW w \in Updates, NEW b, b = update[w].binary, UpdateCopied(w)
  PROVE  Updating'
<1>0. /\ update[w].at = "copying" /\ AtUpdate(w) /\ b \in Binaries
      /\ UNCHANGED <<system, cut, overlap, unpacked>>
  BY DEF UpdateCopied, UpdateAt, AtUpdate, Updating, UpdatesTyped
<1>1. CASE UpdateEnds(w) /\ own' = own
  BY <1>0, <1>1, EndKeeps DEF Updating, UpdatesTyped
<1>2. ASSUME UpdateGoes(w, "copied"),
             NEW file \in IF system = "unix" THEN Unpacked ELSE {update[w].payload},
             own' = [own EXCEPT ![b].fresh = file]
      PROVE  Updating'
  <2>1. file \in {"new", "partial"} /\ (Alone => file = "new")
    BY <1>0, <1>2 DEF Unpacked, Updating, UpdatesTyped, UpdateRecords, Alone, Underway
  <2>2. /\ update' \in [Updates -> UpdateRecords]
        /\ update'[w].at = "copied" /\ update'[w].binary = b
        /\ update'[w].payload = update[w].payload
        /\ \A v \in Updates \ {w} : update'[v] = update[v]
    BY <1>2, UpdateMoves DEF Updating, UpdatePlaces
  <2>3. /\ own' \in [Binaries -> OwnFiles] /\ own'[b].fresh = file
        /\ own'[b].place = own[b].place /\ own'[b].backup = own[b].backup
        /\ \A c \in Binaries \ {b} : own'[c] = own[c]
    BY <1>0, <1>2, <2>1 DEF Updating, UpdatesTyped, OwnFiles, Files
  <2>4. ASSUME Alone PROVE Underway(w)' /\ \A c \in Binaries : OwnWhole(c)'
    <3>1. Underway(w)'
      BY <1>0, <2>1, <2>2, <2>3, <2>4 DEF Alone, Underway
    <3>2. ~Swapping(b)
      BY <1>0, <2>4, OthersIdle DEF Swapping
    <3>3. OwnWhole(b)'
      BY <1>0, <2>3, <2>4, <3>2 DEF Alone, OwnWhole
    <3>4. \A c \in Binaries \ {b} : OwnWhole(c)'
      BY <1>0, <2>3, <2>4, StaysWhole
    <3>5. QED BY <3>1, <3>3, <3>4
  <2>5. QED BY <1>0, <2>2, <2>3, <2>4, UpdateKept DEF Updating, UpdatesTyped
<1>3. CASE /\ own[b].fresh = Gone /\ UpdateEnds(w)
           /\ own' = [own EXCEPT ![b].place = IF @ = "partial" THEN "new" ELSE @]
  <2>1. ~Alone
    BY <1>0, <1>3 DEF Alone, Underway
  <2>2. /\ update' \in [Updates -> UpdateRecords] /\ update'[w].at = "idle"
        /\ \A v \in Updates \ {w} : update'[v] = update[v]
    BY <1>3, UpdateStops DEF Updating
  <2>3. own' \in [Binaries -> OwnFiles]
    <3> DEFINE f == [own[b] EXCEPT !.place = IF @ = "partial" THEN "new" ELSE @]
    <3>1. f \in OwnFiles
      BY <1>0 DEF Updating, UpdatesTyped, OwnFiles, Files
    <3>2. own' = [own EXCEPT ![b] = f]
      BY <1>3
    <3> HIDE DEF f
    <3>3. QED BY <3>1, <3>2 DEF Updating, UpdatesTyped
  <2>4. QED BY <1>0, <2>1, <2>2, <2>3, UpdateKept DEF Updating, UpdatesTyped
<1>4. QED BY <1>1, <1>2, <1>3 DEF UpdateCopied

LEMMA BackupKeeps ==
  ASSUME Updating, NEW w \in Updates, NEW b, b = update[w].binary, UpdateBackup(w)
  PROVE  Updating'
<1>0. /\ update[w].at = "copied" /\ system = "windows" /\ AtUpdate(w) /\ b \in Binaries
      /\ UNCHANGED <<system, cut, overlap, unpacked>>
  BY DEF UpdateBackup, UpdateAt, AtUpdate, Updating, UpdatesTyped
<1>1. CASE UpdateEnds(w) /\ own' = own
  BY <1>0, <1>1, EndKeeps DEF Updating, UpdatesTyped
<1>2. CASE /\ UpdateGoes(w, "backed up")
           /\ own' = IF own[b].place = Gone THEN own
                     ELSE [own EXCEPT ![b].backup = own[b].place, ![b].place = Gone]
  <2>1. /\ update' \in [Updates -> UpdateRecords]
        /\ update'[w].at = "backed up" /\ update'[w].binary = b
        /\ update'[w].payload = update[w].payload
        /\ \A v \in Updates \ {w} : update'[v] = update[v]
    BY <1>2, UpdateMoves DEF Updating, UpdatePlaces
  <2>2. /\ own' \in [Binaries -> OwnFiles] /\ own'[b].fresh = own[b].fresh
        /\ own'[b].place = Gone
        /\ own'[b].backup = IF own[b].place = Gone THEN own[b].backup ELSE own[b].place
        /\ \A c \in Binaries \ {b} : own'[c] = own[c]
    <3>1. CASE own[b].place = Gone
      BY <1>2, <3>1 DEF Updating, UpdatesTyped
    <3>2. CASE own[b].place # Gone
      <4> DEFINE f == [own[b] EXCEPT !.backup = own[b].place, !.place = Gone]
      <4>0. own[b] \in OwnFiles /\ Gone \in Files
        BY <1>0 DEF Updating, UpdatesTyped, Files
      <4>1. /\ f \in OwnFiles /\ f.fresh = own[b].fresh
            /\ f.place = Gone /\ f.backup = own[b].place
        BY <4>0 DEF OwnFiles
      <4>2. own' = [own EXCEPT ![b] = f]
        BY <1>2, <3>2
      <4> HIDE DEF f
      <4>3. QED BY <1>0, <3>2, <4>1, <4>2 DEF Updating, UpdatesTyped
    <3>3. QED BY <3>1, <3>2
  <2>3. ASSUME Alone PROVE Underway(w)' /\ \A c \in Binaries : OwnWhole(c)'
    <3>1. own[b].place = Gone => b \in cut
      BY <1>0, <2>3, OthersIdle DEF Alone, OwnWhole, Swapping
    <3>2. Underway(w)'
      BY <1>0, <2>1, <2>2, <2>3, <3>1 DEF Alone, Underway
    <3>3. OwnWhole(b)'
      BY <1>0, <2>1, <2>2, <2>3 DEF Alone, OwnWhole, Swapping
    <3>4. \A c \in Binaries \ {b} : OwnWhole(c)'
      BY <1>0, <2>2, <2>3, StaysWhole
    <3>5. QED BY <3>2, <3>3, <3>4
  <2>4. QED BY <1>0, <2>1, <2>2, <2>3, UpdateKept DEF Updating, UpdatesTyped
<1>3. QED BY <1>1, <1>2 DEF UpdateBackup

LEMMA RenameKeeps ==
  ASSUME Updating, NEW w \in Updates, NEW b, b = update[w].binary, UpdateRename(w)
  PROVE  Updating'
<1> DEFINE all == update[w].done \union {b}
<1>0. /\ update[w].at \in {"copied", "backed up"} /\ AtUpdate(w) /\ b \in Binaries
      /\ UNCHANGED <<system, cut, overlap, unpacked>>
  BY DEF UpdateRename, UpdateAt, AtUpdate, Updating, UpdatesTyped
<1>1. /\ update' \in [Updates -> UpdateRecords]
      /\ update'[w].at \in {"idle", "next"} /\ update'[w].payload \in {"new", update[w].payload}
      /\ \A v \in Updates \ {w} : update'[v] = update[v]
  <2> DEFINE r == IF all = Binaries THEN NoUpdate
                  ELSE [update[w] EXCEPT !.at = "next", !.done = all]
  <2>1. /\ r \in UpdateRecords /\ r.at \in {"idle", "next"}
        /\ r.payload \in {"new", update[w].payload}
    <3>1. NoUpdate \in UpdateRecords /\ NoUpdate.at = "idle" /\ NoUpdate.payload = "new"
      BY DEF NoUpdate, UpdateRecords, UpdatePlaces
    <3>2. all \subseteq Binaries /\ update[w] \in UpdateRecords
      BY <1>0 DEF Updating, UpdatesTyped, UpdateRecords
    <3>3. QED BY <3>1, <3>2 DEF UpdateRecords, UpdatePlaces
  <2>2. update' = [update EXCEPT ![w] = r]
    BY DEF UpdateRename
  <2> HIDE DEF r
  <2>3. QED BY <2>1, <2>2 DEF Updating, UpdatesTyped
<1>2. /\ own' \in [Binaries -> OwnFiles] /\ own'[b].place = own[b].fresh
      /\ own'[b].backup \in {Gone, own[b].backup} /\ own[b].fresh # Gone
      /\ \A c \in Binaries \ {b} : own'[c] = own[c]
  <2> DEFINE f == [own[b] EXCEPT !.place = own[b].fresh, !.fresh = Gone,
                                 !.backup = IF system = "windows" THEN Gone ELSE @]
  <2>1. own[b] \in OwnFiles
    BY <1>0 DEF Updating, UpdatesTyped
  <2>2. f \in OwnFiles /\ f.place = own[b].fresh /\ f.backup \in {Gone, own[b].backup}
    BY <2>1 DEF OwnFiles, Files
  <2>3. own' = [own EXCEPT ![b] = f] /\ own[b].fresh # Gone
    BY DEF UpdateRename
  <2> HIDE DEF f
  <2>4. QED BY <1>0, <2>2, <2>3 DEF Updating, UpdatesTyped
<1>3. ASSUME Alone PROVE Underway(w)' /\ \A c \in Binaries : OwnWhole(c)'
  <2>1. own[b].fresh = "new"
    BY <1>0, <1>3 DEF Alone, Underway
  <2>2. Underway(w)'
    <3>1. system = "unix" => unpacked = "new"
      BY <1>0, <1>3 DEF Alone, Underway, Updating, UpdatesTyped
    <3>2. QED BY <1>0, <1>1, <1>3, <3>1 DEF Alone, Underway
  <2>3. OwnWhole(b)'
    BY <1>0, <1>2, <1>3, <2>1 DEF Alone, OwnWhole, Gone
  <2>4. \A c \in Binaries \ {b} : OwnWhole(c)'
    BY <1>0, <1>2, <1>3, StaysWhole
  <2>5. QED BY <2>2, <2>3, <2>4
<1>4. QED BY <1>0, <1>1, <1>2, <1>3, UpdateKept DEF Updating, UpdatesTyped

LEMMA RenameFailsKeeps ==
  ASSUME Updating, NEW w \in Updates, NEW b, b = update[w].binary, UpdateRenameFails(w)
  PROVE  Updating'
<1>0. /\ update[w].at \in {"copied", "backed up"} /\ AtUpdate(w) /\ b \in Binaries
      /\ UNCHANGED <<system, overlap, unpacked>> /\ UpdateEnds(w)
      /\ update[w].at = "backed up" <=> system # "unix"
  BY DEF UpdateRenameFails, UpdateAt, AtUpdate, Updating, UpdatesTyped
<1>1. CASE system = "unix"
  BY <1>0, <1>1, EndKeeps DEF UpdateRenameFails, Updating, UpdatesTyped
<1>2. CASE system # "unix" /\ PutBack(w)
  <2>1. /\ update' \in [Updates -> UpdateRecords]
        /\ update'[w].at = "idle" /\ update'[w].payload = "new"
        /\ \A v \in Updates \ {w} : update'[v] = update[v]
    BY <1>0, UpdateStops DEF Updating
  <2>2. /\ own' \in [Binaries -> OwnFiles] /\ cut \subseteq cut' /\ cut' \subseteq Binaries
        /\ \A c \in Binaries \ {b} : own'[c] = own[c]
        /\ \/ /\ own'[b].place = IF own[b].backup # Gone THEN own[b].backup ELSE own[b].place
              /\ own'[b].backup = Gone
           \/ b \in cut' /\ own'[b].place = own[b].place /\ own'[b].backup = own[b].backup
    <3>1. own[b] \in OwnFiles /\ cut \subseteq Binaries
      BY <1>0 DEF Updating, UpdatesTyped
    <3>2. CASE /\ own' = [own EXCEPT ![b].fresh = Gone,
                    ![b].place = IF own[b].backup # Gone THEN own[b].backup ELSE @,
                    ![b].backup = Gone]
               /\ cut' = cut
      <4> DEFINE f == [own[b] EXCEPT !.fresh = Gone,
                         !.place = IF own[b].backup # Gone THEN own[b].backup ELSE @,
                         !.backup = Gone]
      <4>1. /\ f \in OwnFiles /\ f.backup = Gone
            /\ f.place = IF own[b].backup # Gone THEN own[b].backup ELSE own[b].place
        BY <3>1 DEF OwnFiles, Files
      <4>2. own' = [own EXCEPT ![b] = f]
        BY <3>2
      <4> HIDE DEF f
      <4>3. /\ own' \in [Binaries -> OwnFiles] /\ own'[b] = f
            /\ \A c \in Binaries \ {b} : own'[c] = own[c]
        BY <1>0, <4>1, <4>2 DEF Updating, UpdatesTyped
      <4>4. QED BY <3>1, <3>2, <4>1, <4>3
    <3>3. CASE own' = [own EXCEPT ![b].fresh = Gone] /\ cut' = cut \union {b}
      BY <1>0, <3>1, <3>3 DEF Updating, UpdatesTyped, OwnFiles, Files
    <3>4. QED BY <1>2, <3>2, <3>3 DEF PutBack
  <2>3. ASSUME Alone PROVE Underway(w)' /\ \A c \in Binaries : OwnWhole(c)'
    <3>1. own[b].backup # Gone \/ b \in cut
      BY <1>0, <1>2, <2>3 DEF Alone, Underway
    <3>2. OwnWhole(b)'
      BY <1>0, <2>2, <2>3, <3>1 DEF Alone, OwnWhole
    <3>3. \A c \in Binaries \ {b} : OwnWhole(c)'
      BY <1>0, <2>2, <2>3, StaysWhole
    <3>4. Underway(w)'
      BY <2>1 DEF Underway
    <3>5. QED BY <3>2, <3>3, <3>4
  <2>4. QED BY <1>0, <2>1, <2>2, <2>3, UpdateKept DEF Updating, UpdatesTyped
<1>3. QED BY <1>1, <1>2 DEF UpdateRenameFails

-----------------------------------------------------------------------------
(* The app ends *)

LEMMA EndingKeepsInstalls ==
  ASSUME Installing, AppGone
  PROVE  Installing'
<1>1. \A j \in Jobs : jobs'[j] = NoJob
  BY DEF AppGone
<1>2. NoJob \in JobRecords /\ NoJob.at = "idle"
  BY DEF NoJob, JobRecords, JobPlaces, States
<1>3. InstallsTyped'
  BY <1>1, <1>2 DEF AppGone, Installing, InstallsTyped, States
<1>4. Claimed'
  BY <1>1, <1>2 DEF AppGone, Claimed, Working
<1>5. ToolsGood'
  BY <1>1, <1>2 DEF AppGone, Installing, ToolsGood, Verified
<1>6. QED BY <1>3, <1>4, <1>5 DEF Installing

LEMMA NoUpdateTyped == NoUpdate \in UpdateRecords /\ NoUpdate.at = "idle" /\ NoUpdate.payload = "new"
BY DEF NoUpdate, UpdateRecords, UpdatePlaces

\* Updates that have ended, or whose helper goes on.
LEMMA UpdatesCutShort ==
  ASSUME Updating, update' \in [Updates -> UpdateRecords],
         UNCHANGED <<own, overlap, unpacked, system>>, cut \subseteq cut', cut' \subseteq Binaries,
         \A w \in Updates :
           \/ update'[w] = NoUpdate /\ (update[w].at = "backed up" => update[w].binary \in cut')
           \/ system = "windows" /\ update'[w] = update[w]
           \/ /\ system = "windows" /\ update[w].at = "staged" /\ update'[w].at = "next"
              /\ update'[w].payload = update[w].payload
  PROVE  Updating'
<1>1. \A w \in Updates : AtUpdate(w)' => AtUpdate(w)
  BY NoUpdateTyped DEF AtUpdate
<1>2. UpdatesTyped'
  BY NoUpdateTyped DEF Updating, UpdatesTyped
<1>3. ASSUME Alone PROVE Alone'
  <2>1. \A w \in Updates : Underway(w)'
    <3>1. TAKE w \in Updates
    <3>2. CASE update'[w] = NoUpdate
      BY <3>2, NoUpdateTyped DEF Underway
    <3>3. CASE update'[w] # NoUpdate /\ update'[w] = update[w]
      BY <1>3, <3>3 DEF Alone, Underway
    <3>4. CASE /\ system = "windows" /\ update'[w].at = "next"
               /\ update'[w].payload = update[w].payload
      BY <1>3, <3>4 DEF Alone, Underway
    <3>5. QED BY <3>2, <3>3, <3>4
  <2>2. \A b \in Binaries : OwnWhole(b)'
    <3>1. \A b \in Binaries : Swapping(b) => Swapping(b)' \/ b \in cut'
      BY DEF Swapping
    <3>2. QED BY <1>3, <3>1 DEF Alone, OwnWhole
  <2>3. QED BY <1>1, <1>3, <2>1, <2>2 DEF Alone
<1>4. QED BY <1>2, <1>3 DEF Updating

LEMMA QuitKeeps ==
  ASSUME Updating, QuitApp
  PROVE  Updating'
<1> DEFINE ended(w) ==
             CASE system = "unix" \/ update[w].at \in InApp \union {"staging"} -> NoUpdate
               [] update[w].at = "staged" -> [update[w] EXCEPT !.at = "next"]
               [] OTHER -> update[w]
           through(w) ==
             IF system = "unix" \/ update[w].at \in InApp \union {"staging"} THEN NoUpdate
             ELSE IF update[w].at = "staged" THEN [update[w] EXCEPT !.at = "next"] ELSE update[w]
<1>0. UNCHANGED <<own, overlap, unpacked, system, cut>>
  BY DEF QuitApp, AppGone
<1>1. ASSUME NEW w \in Updates PROVE ended(w) = through(w)
  <2>1. update[w].at = "staged" =>
          ~(system = "unix" \/ update[w].at \in InApp \union {"staging"})
    BY DEF InApp, Updating, UpdatesTyped
  <2>2. QED BY <2>1, Zenon
<1>2. update' = [w \in Updates |-> ended(w)]
  BY DEF QuitApp
<1> HIDE DEF ended
<1>3. \A w \in Updates : update'[w] = through(w)
  BY <1>1, <1>2
<1>4. ASSUME NEW w \in Updates
      PROVE  /\ update'[w] \in UpdateRecords
             /\ \/ update'[w] = NoUpdate /\ (update[w].at = "backed up" => update[w].binary \in cut')
                \/ system = "windows" /\ update'[w] = update[w]
                \/ /\ system = "windows" /\ update[w].at = "staged" /\ update'[w].at = "next"
                   /\ update'[w].payload = update[w].payload
  <2>1. update[w] \in UpdateRecords /\ system \in {"unix", "windows"}
        /\ (update[w].at = "backed up" => system = "windows")
    BY DEF Updating, UpdatesTyped
  <2>2. CASE system = "unix" \/ update[w].at \in InApp \union {"staging"}
    BY <1>3, <2>1, <2>2, NoUpdateTyped DEF InApp
  <2>3. CASE /\ ~(system = "unix" \/ update[w].at \in InApp \union {"staging"})
             /\ update[w].at = "staged"
    <3>1. update'[w] = [update[w] EXCEPT !.at = "next"]
      BY <1>3, <2>3
    <3>2. QED BY <2>1, <2>3, <3>1 DEF UpdateRecords, UpdatePlaces
  <2>4. CASE /\ ~(system = "unix" \/ update[w].at \in InApp \union {"staging"})
             /\ update[w].at # "staged"
    <3>1. update'[w] = update[w]
      BY <1>3, <2>4
    <3>2. QED BY <2>1, <2>4, <3>1
  <2>5. QED BY <2>2, <2>3, <2>4
<1>5. update' \in [Updates -> UpdateRecords]
  <2>1. update' = [w \in Updates |-> update'[w]]
    BY <1>2
  <2>2. QED BY <1>4, <2>1
<1>6. QED BY <1>0, <1>4, <1>5, UpdatesCutShort DEF Updating, UpdatesTyped

LEMMA SessionKeeps ==
  ASSUME Updating, EndSession
  PROVE  Updating'
<1>1. /\ UNCHANGED <<own, overlap, unpacked, system>>
      /\ cut' = cut \union {update[w].binary : w \in {v \in Updates : update[v].at = "backed up"}}
      /\ update' = [w \in Updates |-> NoUpdate]
  BY DEF EndSession, AppGone
<1>2. cut \subseteq cut' /\ cut' \subseteq Binaries
  BY <1>1 DEF Updating, UpdatesTyped
<1>3. update' \in [Updates -> UpdateRecords]
  BY <1>1, NoUpdateTyped
<1>4. \A w \in Updates : update[w].at = "backed up" => update[w].binary \in cut'
  BY <1>1
<1>5. QED BY <1>1, <1>2, <1>3, <1>4, UpdatesCutShort

-----------------------------------------------------------------------------

Executables == Installing /\ Updating /\ AppTyped

LEMMA ExecutablesInit == InstallersInit => Executables
<1> SUFFICES ASSUME InstallersInit PROVE Executables
  OBVIOUS
<1>1. NoJob \in JobRecords /\ NoJob.at = "idle"
  BY DEF NoJob, JobRecords, JobPlaces, States
<1>2. \A t \in Tools : tools[t] \in ToolFiles /\ tools[t].stable \in {Gone, "good"}
  BY DEF InstallersInit, ToolFiles, Files
<1>3. Installing
  <2>1. InstallsTyped
    <3>1. tools \in [Tools -> ToolFiles]
      BY DEF InstallersInit, ToolFiles, Files
    <3>2. QED BY <1>1, <3>1 DEF InstallersInit, InstallsTyped, States
  <2>2. Claimed
    BY <1>1 DEF InstallersInit, Claimed, Working
  <2>3. ToolsGood
    BY <1>1, <1>2 DEF InstallersInit, ToolsGood, Verified
  <2>4. QED BY <2>1, <2>2, <2>3 DEF Installing
<1>4. Updating
  <2>1. system \in {"unix", "windows"}
    BY InstallersAssumption DEF InstallersInit
  <2>2. \A b \in Binaries : own[b] = [place |-> "old", fresh |-> Gone, backup |-> Gone]
    BY DEF InstallersInit
  <2>3. own \in [Binaries -> OwnFiles]
    BY DEF InstallersInit, OwnFiles, Files
  <2>4. UpdatesTyped
    BY <2>1, <2>3, NoUpdateTyped DEF InstallersInit, UpdatesTyped
  <2>5. Alone
    BY <2>2, NoUpdateTyped DEF InstallersInit, Alone, AtUpdate, Underway, OwnWhole, Gone
  <2>6. QED BY <2>4, <2>5 DEF Updating
<1>5. AppTyped
  BY InstallersAssumption DEF InstallersInit, AppTyped
<1>6. QED BY <1>3, <1>4, <1>5 DEF Executables

LEMMA InstallStepKeeps ==
  ASSUME Executables, NEW j \in Jobs, InstallStep(j)
  PROVE  Executables'
<1>1. Installing'
  BY LooksKeep, ClaimKeeps, SaveKeeps, DownloadKeeps, PromoteKeeps, CopyKeeps, PutKeeps,
     NoteKeeps, WriteKeeps DEF InstallStep, Executables
<1>2. UNCHANGED <<updateVars, system, up>>
  BY DEF InstallStep
<1>3. Updating'
  BY <1>2 DEF Executables, Updating, UpdatesTyped, Alone, AtUpdate, Underway, OwnWhole, Swapping, updateVars
<1>4. mishaps' = mishaps \/ Mishap
  BY DEF InstallStep, InstallClaim, InstallSave, InstallDownload, InstallExtract, InstallPromote,
         InstallCopy, InstallCopied, InstallRemove, InstallPut, InstallNote, InstallReread,
         InstallWrite, ShowTools, WriteShown, InstallAsk, JobFails, SaveStatuses
<1>5. AppTyped'
  BY <1>2, <1>4, InstallersAssumption DEF Executables, AppTyped, Mishap
<1>6. QED BY <1>1, <1>3, <1>5 DEF Executables

LEMMA UpdateStepKeeps ==
  ASSUME Executables, NEW w \in Updates, UpdateStep(w)
  PROVE  Executables'
<1>1. Updating'
  BY OfferKeeps, UnpackKeeps, CopyOwnKeeps, CopiedOwnKeeps, BackupKeeps, RenameKeeps,
     RenameFailsKeeps DEF UpdateStep, Executables
<1>2. UNCHANGED <<installVars, system, up>>
  BY DEF UpdateStep, UpdateCheck, UpdateUnpack, UpdateUnpacked, UpdateStage, HelperGivesUp,
         UpdateCopied, UpdateBackup, UpdateRename, UpdateRenameFails, UpdateCopy, UpdateAt
<1>3. Installing'
  BY <1>2 DEF Executables, Installing, InstallsTyped, Claimed, Working, ToolsGood, Verified,
              installVars
<1>4. mishaps' = mishaps \/ Mishap
  BY DEF UpdateStep, UpdateCheck, UpdateUnpack, UpdateUnpacked, UpdateStage, HelperGivesUp,
         UpdateCopied, UpdateBackup, UpdateRename, UpdateRenameFails, UpdateCopy
<1>5. AppTyped'
  BY <1>2, <1>4, InstallersAssumption DEF Executables, AppTyped, Mishap
<1>6. QED BY <1>1, <1>3, <1>5 DEF Executables

LEMMA ExecutablesStep == Executables /\ [InstallersNext]_installersVars => Executables'
<1> SUFFICES ASSUME Executables, [InstallersNext]_installersVars PROVE Executables'
  OBVIOUS
<1>1. ASSUME NEW j \in Jobs, InstallStep(j) PROVE Executables'
  BY <1>1, InstallStepKeeps
<1>2. ASSUME NEW w \in Updates, UpdateStep(w) PROVE Executables'
  BY <1>2, UpdateStepKeeps
<1>3. CASE QuitApp \/ EndSession
  <2>0. AppGone
    BY <1>3 DEF QuitApp, EndSession
  <2>1. Installing'
    BY <2>0, EndingKeepsInstalls DEF Executables
  <2>2. Updating'
    BY <1>3, QuitKeeps, SessionKeeps DEF Executables
  <2>3. AppTyped'
    <3>1. up' = FALSE /\ system' = system /\ mishaps < MaxMishaps /\ mishaps' = mishaps + 1
      BY <2>0 DEF AppGone, Mishap
    <3>2. up' \in BOOLEAN
      BY <3>1, Zenon
    <3>3. mishaps' \in 0 .. MaxMishaps
      BY <3>1, InstallersAssumption DEF Executables, AppTyped
    <3>4. QED BY <3>1, <3>2, <3>3 DEF Executables, AppTyped
  <2>4. QED BY <2>1, <2>2, <2>3 DEF Executables
<1>4. CASE LaunchApp \/ UNCHANGED installersVars
  <2>1. UNCHANGED <<live, saved, tools, jobs, unsaved>>
    BY <1>4 DEF LaunchApp, installersVars, installVars
  <2>2. UNCHANGED <<update, unpacked, own, cut, overlap, system>>
    BY <1>4 DEF LaunchApp, installersVars, updateVars
  <2>3. UNCHANGED mishaps /\ up' \in {TRUE, up}
    BY <1>4 DEF LaunchApp, installersVars
  <2>4. Installing'
    BY <2>1 DEF Executables, Installing, InstallsTyped, Claimed, Working, ToolsGood, Verified
  <2>5. Updating'
    BY <2>2 DEF Executables, Updating, UpdatesTyped, Alone, AtUpdate, Underway, OwnWhole, Swapping
  <2>6. AppTyped'
    BY <2>2, <2>3 DEF Executables, AppTyped
  <2>7. QED BY <2>4, <2>5, <2>6 DEF Executables
<1>5. QED BY <1>1, <1>2, <1>3, <1>4 DEF InstallersNext

LEMMA ExecutablesKept == InstallersSpec => []Executables
BY ExecutablesInit, ExecutablesStep, PTL DEF InstallersSpec

\* Every reachable state of installs and updates is well typed.
THEOREM InstallersTyped == InstallersSpec => []InstallersTypeOK
<1>1. Executables => InstallersTypeOK
  <2> SUFFICES ASSUME Executables PROVE InstallersTypeOK
    OBVIOUS
  <2>1. \A w \in Updates : update[w].done \subseteq Binaries
    BY DEF Executables, Updating, UpdatesTyped, UpdateRecords
  <2>2. QED BY <2>1 DEF Executables, Installing, InstallsTyped, Updating, UpdatesTyped, AppTyped,
                        InstallersTypeOK, ToolFiles, OwnFiles
<1>2. QED BY <1>1, ExecutablesKept, PTL

(* The stable path of a tool never names a file that is not whole, a tool  *)
(* that is shown as downloading has a job at work or could not be saved,   *)
(* and each binary of the app is in place, or its update has just moved it *)
(* aside or was cut: for any tools, jobs, binaries and mishaps             *)
(* (provider_installer.rs, auto_update.rs).                                *)
THEOREM ExecutablesStayWhole == InstallersSpec => []ExecutablesWhole
<1>1. Executables => ExecutablesWhole
  <2> SUFFICES ASSUME Executables PROVE ExecutablesWhole
    OBVIOUS
  <2>1. \A t \in Tools : tools[t].stable \in {Gone, "good"}
    BY DEF Executables, Installing, ToolsGood
  <2>2. ASSUME NEW t \in Tools, Shown(t) = "downloading"
        PROVE  \/ t \in unsaved
               \/ \E j \in Jobs :
                    /\ jobs[j].tool = t
                    /\ jobs[j].at \notin {"idle", "shown", "asked", "noted", "reread"}
    <3>1. live[t] = "downloading"
      BY <2>2, StatusShown DEF Shown
    <3>2. QED BY <3>1 DEF Executables, Installing, Claimed, Working
  <2>3. ASSUME NEW b \in Binaries
        PROVE  \/ own[b].place \in {"old", "new"} \/ overlap
               \/ /\ own[b].place = Gone
                  /\ b \in cut \/ \E w \in Updates : update[w].at = "backed up" /\ update[w].binary = b
    BY DEF Executables, Updating, Alone, OwnWhole, Swapping
  <2>4. QED BY <2>1, <2>2, <2>3 DEF ExecutablesWhole
<1>2. QED BY <1>1, ExecutablesKept, PTL

=============================================================================
