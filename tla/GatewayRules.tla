------------------------------ MODULE GatewayRules ------------------------------
(***************************************************************************)
(* The pure decisions of the gateway (crates/tunnelmuxd/src/gateway.rs):   *)
(* which route takes a request, which path and headers its upstream sees,  *)
(* in which order the upstreams are tried, what a gate asks for, and how   *)
(* root-relative references in a response are moved under the mount.       *)
(*                                                                         *)
(* A path is a sequence of characters, since prefixes are compared by      *)
(* character; <<>> is the absent one. Hosts, URLs and codes are values.    *)
(***************************************************************************)
EXTENDS Naturals, Sequences, SequencesExt

CONSTANTS
  None,        \* the absent host, upstream, code or route
  Namespaces   \* REWRITABLE_ROOT_NAMESPACES, as paths

\* "api" and "plugins": paths of one segment.
ASSUME NamespacesAssumption ==
  \A n \in Namespaces :
    n \in Seq(STRING) /\ Len(n) > 1 /\ n[1] = "/" /\ \A i \in 2..Len(n) : n[i] # "/"

Slash == <<"/">>

-----------------------------------------------------------------------------
(* Which route *)

Below(path, prefix) ==
  IsPrefix(prefix, path) /\ Len(path) > Len(prefix) /\ path[Len(prefix) + 1] = "/"

PathHasPrefix(path, prefix) ==
  IF prefix = Slash THEN IsPrefix(Slash, path)
  ELSE path = prefix \/ Below(path, prefix)

Matches(route, host, path) ==
  /\ route.enabled
  /\ route.host \in {None, host}
  /\ route.prefix = <<>> \/ PathHasPrefix(path, route.prefix)

HostWeight(route) == IF route.host = None THEN 0 ELSE 2

\* The keys of max_by_key, compared as pairs.
AtLeastAsSpecific(r, s) ==
  \/ HostWeight(r) > HostWeight(s)
  \/ HostWeight(r) = HostWeight(s) /\ Len(r.prefix) >= Len(s.prefix)

OfTunnel(routes, tunnel) == {i \in DOMAIN routes : routes[i].tunnel = tunnel}

\* The last of several maxima wins, as Iterator::max_by_key has it. The keys are
\* totally ordered: there is a best one as soon as anything matches.
SelectRoute(routes, among, host, path) ==
  LET candidates == {i \in among : Matches(routes[i], host, path)}
      best == {i \in candidates : \A j \in candidates :
                 /\ AtLeastAsSpecific(routes[i], routes[j])
                 /\ j > i => ~AtLeastAsSpecific(routes[j], routes[i])}
  IN  IF best = {} THEN None ELSE routes[CHOOSE i \in best : TRUE]

-----------------------------------------------------------------------------
(* Which path *)

Absolute(path) == IF IsPrefix(Slash, path) THEN path ELSE Slash \o path

RewritePath(path, strip) ==
  IF strip # <<>> /\ IsPrefix(strip, path)
  THEN Absolute(SubSeq(path, Len(strip) + 1, Len(path)))
  ELSE Absolute(path)

WithoutLastSlash(path) ==
  IF IsSuffix(Slash, path) THEN SubSeq(path, 1, Len(path) - 1) ELSE path

\* The URL type gives every base at least the path "/".
JoinUpstreamPath(base, forwarded) ==
  IF forwarded = Slash THEN base ELSE WithoutLastSlash(base) \o forwarded

-----------------------------------------------------------------------------
(* Which upstreams, in which order. A health key is an upstream and a path. *)

HealthPath(route, default) == IF route.checkPath = <<>> THEN default ELSE route.checkPath

UpstreamsOf(route) == {route.upstream, route.fallback} \ {None}

HealthKeys(routes, default) ==
  UNION {UpstreamsOf(r) \X {HealthPath(r, default)} : r \in {s \in ToSet(routes) : s.checked}}

\* A verdict that is missing from the map prefers nobody.
Verdict(health, key, healthy) == key \in DOMAIN health /\ health[key] = healthy

OrderedTargets(route, default, health) ==
  LET path == HealthPath(route, default)
  IN  IF route.fallback \in {None, route.upstream} THEN <<route.upstream>>
      ELSE IF /\ route.checked
              /\ Verdict(health, <<route.upstream, path>>, FALSE)
              /\ Verdict(health, <<route.fallback, path>>, TRUE)
           THEN <<route.fallback, route.upstream>>
           ELSE <<route.upstream, route.fallback>>

-----------------------------------------------------------------------------
(* The gate of a route: a code of its own, public, or what the default says *)

EffectiveCode(gate, default) ==
  IF gate.public THEN None ELSE IF gate.code # None THEN gate.code ELSE default

\* What a request presents: a code in the route's cookie, as a bearer token, or
\* in the form that the gate page posts.
Credentialed(kind, code) == kind.via \in {"cookie", "bearer"} /\ kind.code = code

\* The gate's verdict: pass, the 303 that sets the cookie, the page, or 401.
GateVerdict(kind, code) ==
  IF code = None \/ Credentialed(kind, code) THEN "pass"
  ELSE IF kind.method = "POST" /\ kind.via = "form" /\ kind.code = code /\ ~kind.upgrade
  THEN "admitted"
  ELSE IF kind.method \in {"GET", "POST"} /\ kind.html THEN "page" ELSE "unauthorized"

CopyHeaders_WithTheCode(kind, route, code) ==
  {"plain"} \cup (IF kind.via = "bearer" THEN {"authorization"} ELSE {})

\* Header classes that reach the upstream: hop-by-hop and forwarded-identity
\* headers never do (an upgrade keeps the hop headers it needs), Host and Origin
\* only when the route says so, the gate's own cookie and bearer code never.
CopyHeaders(kind, route, code) ==
  {"plain"} \cup (IF route.forwardHost THEN {"host"} ELSE {})
            \cup (IF kind.upgrade THEN {"upgrade"} ELSE {})
            \cup (IF kind.via = "bearer" /\ kind.code # code THEN {"authorization"} ELSE {})

-----------------------------------------------------------------------------
(* Responses under a mount *)

MountOf(route) == IF route.rewrite THEN route.prefix ELSE <<>>

Normalized(mount) == IF mount = Slash THEN mount ELSE WithoutLastSlash(mount)

\* The cookie of a gate that has admitted a browser: the code, under the route's
\* name, for what is below the prefix that the route matches.
CookiePath(route) == IF route.prefix = <<>> THEN Slash ELSE Normalized(route.prefix)

GateCookie(route, code) == [name |-> route.id, code |-> code, path |-> CookiePath(route)]

\* A browser sends a cookie to the path it is for, and to what is below it.
Covers(cookie, path) ==
  \/ path = cookie.path
  \/ IsPrefix(cookie.path, path) /\ (IsSuffix(Slash, cookie.path) \/ Below(path, cookie.path))

\* The request that comes with the cookie, as the gate of a route reads it.
WithCookie(kind, cookie, route) ==
  IF Covers(cookie, kind.path) /\ cookie.name = route.id
  THEN [kind EXCEPT !.via = "cookie", !.code = cookie.code]
  ELSE [kind EXCEPT !.via = "none", !.code = None]

RewriteLocation(location, mount) ==
  IF \/ mount = <<>> \/ ~IsPrefix(Slash, location) \/ IsPrefix(Slash \o Slash, location)
     \/ PathHasPrefix(location, Normalized(mount))
  THEN location
  ELSE Normalized(mount) \o location

RewriteCookiePath(path, mount) ==
  CASE mount = <<>> \/ ~IsPrefix(Slash, path)        -> path
    [] path = Slash                                  -> Normalized(mount)
    [] PathHasPrefix(path, Normalized(mount))        -> path
    [] OTHER                                         -> Normalized(mount) \o path

RewriteReference_Twice(kind, path, mount) ==
  LET attr == IF kind # "quoted" /\ ~IsPrefix(mount, path) THEN mount \o path ELSE path
  IN  IF \E n \in Namespaces : PathHasPrefix(path, n) THEN mount \o attr ELSE attr

\* A reference in the body: in an attribute ("attr", "url") or any quoted string.
\* The first two passes skip what starts with the mount's characters; the last
\* one moves root namespaces, whole segments only, and applies to all three.
RewriteReference(kind, path, mount) ==
  LET attr == IF /\ kind # "quoted" /\ IsPrefix(Slash, path)
                 /\ ~IsPrefix(Slash \o Slash, path) /\ ~IsPrefix(mount, path)
              THEN mount \o path ELSE path
  IN  IF \E n \in Namespaces : PathHasPrefix(attr, n) THEN mount \o attr ELSE attr
=============================================================================
