---------------------------- MODULE UnlockWindow ----------------------------
(***************************************************************************)
(* Control-plane authorization (crates/tunnelmuxd/src/api.rs): the bearer  *)
(* token, the access code that opens the loopback window for a while, and  *)
(* the three handlers under /v1/auth, which share one RwLock with every    *)
(* protected request. A protected request only tries the lock: a writer    *)
(* that holds it, or waits for it, makes the request read "locked".        *)
(***************************************************************************)
EXTENDS Integers

CONSTANTS Callers,      \* concurrent callers of the auth endpoints
          Window,       \* --unlock-window
          MaxTime,      \* bound on the clock
          MaxCodes      \* bound on the codes that are generated

ASSUME UnlockConstantsAssumption ==
  /\ Window \in Nat \ {0} /\ MaxTime \in Nat /\ MaxCodes \in Nat

VARIABLES
  cfg,       \* control_auth, whether there is a token, whether the code is fixed
  lock,      \* ControlLockState: code and unlock_until (0 for none)
  clock,     \* now_millis
  codes,     \* codes generated so far
  handler,   \* each caller's auth handler: where it is and the code it brought
  opened,    \* history: the code and the time of the unlock in force, if any
  request    \* history: the last protected request and what became of it

unlockVars == <<cfg, lock, clock, codes, handler, opened, request>>

Peers == {"loopback", "remote"}     \* an unspecified address counts as loopback
Bearers == {"none", "wrong", "right"}
FixedCode == 0
NoCode == -1
Shut == [code |-> NoCode, at |-> 0]
Resting == [at |-> "idle", code |-> NoCode]
Unasked == [peer |-> "loopback", bearer |-> "right", allowed |-> TRUE,
            free |-> TRUE, now |-> 0, opened |-> Shut]

(* Configurations start() can end up with: in mode require there always is  *)
(* a token, reused or freshly generated.                                    *)
Configs == {c \in [mode: {"off", "optional", "require"}, token: BOOLEAN, fixed: BOOLEAN]:
              c.mode = "require" => c.token}

InitialCode(c) ==
  IF c.fixed THEN FixedCode ELSE IF c.mode # "off" THEN 1 ELSE NoCode

UnlockInit ==
  /\ cfg \in Configs
  /\ lock = [code |-> InitialCode(cfg), until |-> 0]
  /\ clock = 1 /\ codes = 1
  /\ handler = [c \in Callers |-> Resting]
  /\ opened = Shut /\ request = Unasked

-----------------------------------------------------------------------------
(* The lock *)

Writers == {c \in Callers: handler[c].at \in {"unlocking", "relocking"}}
Waiting == {c \in Callers: handler[c].at \in {"unlock", "relock"}}
Readers == {c \in Callers: handler[c].at = "reading"}

(* A waiting writer has taken what permits were left, so try_read fails.    *)
CanTryRead == Writers = {} /\ Waiting = {}

Unlocked_ToTheEnd == lock.until # 0 /\ clock <= lock.until

Unlocked == lock.until # 0 /\ clock < lock.until

(* is_fixed_unlock_code: a lock it cannot read counts as not fixed.         *)
IsFixed == CanTryRead /\ cfg.fixed

(* is_authorized_request                                                    *)
Authorized(bearer) ==
  \/ cfg.mode = "off"
  \/ cfg.token /\ bearer = "right"
  \/ ~cfg.token /\ cfg.mode = "optional"

(* auth_endpoint_request_allowed                                            *)
AuthEndpointAllowed(bearer) ==
  \/ cfg.mode = "off"
  \/ ~(cfg.mode = "optional" /\ ~cfg.token) /\ Authorized(bearer)

(* control_request_allowed: the window is for loopback only.                *)
RequestAllowed(peer, bearer) ==
  \/ Authorized(bearer)
  \/ peer = "loopback" /\ CanTryRead /\ Unlocked

-----------------------------------------------------------------------------
(* Handlers. Auth endpoints refuse every peer that is not loopback.         *)

quiet == <<cfg, clock, request>>

Goes(c, to) == handler' = [handler EXCEPT ![c].at = to]

CallAuth(c) ==
  /\ handler[c].at = "idle"
  /\ \E bearer \in Bearers: AuthEndpointAllowed(bearer)
  /\ \E op \in {"unlock", "relock", "status"}, code \in {FixedCode} \cup 1..codes:
       /\ op # "unlock" => code = FixedCode
       /\ handler' = [handler EXCEPT ![c] = [at |-> op, code |-> code]]
  /\ UNCHANGED <<lock, codes, opened, quiet>>

TakeWrite(c) ==
  /\ c \in Waiting /\ Writers = {} /\ Readers = {}
  /\ Goes(c, IF handler[c].at = "unlock" THEN "unlocking" ELSE "relocking")
  /\ UNCHANGED <<lock, codes, opened, quiet>>

(* unlock_auth: a wrong code is refused, the right one opens the window     *)
(* from now on, and the answer is that of auth_status.                      *)
Unlock(c) ==
  /\ handler[c].at = "unlocking" /\ UNCHANGED <<codes, quiet>>
  /\ IF handler[c].code = lock.code
       THEN /\ lock' = [lock EXCEPT !.until = clock + Window]
            /\ opened' = [code |-> lock.code, at |-> clock]
            /\ Goes(c, "status")
       ELSE Goes(c, "idle") /\ UNCHANGED <<lock, opened>>

(* relock_auth asks whether the code is fixed while it holds the lock.      *)
Relock(c) ==
  /\ handler[c].at = "relocking" /\ UNCHANGED quiet
  /\ opened' = Shut /\ Goes(c, "status")
  /\ IF IsFixed
       THEN lock' = [lock EXCEPT !.until = 0] /\ UNCHANGED codes
       ELSE /\ codes < MaxCodes /\ codes' = codes + 1
            /\ lock' = [code |-> codes + 1, until |-> 0]

(* auth_status                                                              *)
TakeRead(c) ==
  /\ handler[c].at = "status" /\ CanTryRead
  /\ Goes(c, "reading") /\ UNCHANGED <<lock, codes, opened, quiet>>

AnswerStatus(c) ==
  /\ handler[c].at = "reading" /\ handler' = [handler EXCEPT ![c] = Resting]
  /\ UNCHANGED <<lock, codes, opened, quiet>>

(* control_auth_middleware                                                  *)
Request(peer, bearer) ==
  /\ request' = [peer |-> peer, bearer |-> bearer,
                 allowed |-> RequestAllowed(peer, bearer),
                 free |-> CanTryRead, now |-> clock, opened |-> opened]
  /\ UNCHANGED <<cfg, lock, clock, codes, handler, opened>>

Tick ==
  /\ clock < MaxTime /\ clock' = clock + 1
  /\ UNCHANGED <<cfg, lock, codes, handler, opened, request>>

UnlockNext ==
  \/ \E c \in Callers: CallAuth(c) \/ TakeWrite(c) \/ Unlock(c) \/ Relock(c)
                       \/ TakeRead(c) \/ AnswerStatus(c)
  \/ \E peer \in Peers, bearer \in Bearers: Request(peer, bearer)
  \/ Tick

UnlockSpec == UnlockInit /\ [][UnlockNext]_unlockVars

-----------------------------------------------------------------------------
(* Properties *)

UnlockTypeOK ==
  /\ cfg \in Configs
  /\ lock \in [code: Int, until: Nat] /\ clock \in Nat \ {0} /\ codes \in Nat \ {0}
  /\ handler \in [Callers -> [at: {"idle", "unlock", "relock", "unlocking",
                                   "relocking", "status", "reading"}, code: Int]]
  /\ opened \in [code: Int, at: Nat]
  /\ request \in [peer: Peers, bearer: Bearers, allowed: BOOLEAN, free: BOOLEAN,
                  now: Nat, opened: [code: Int, at: Nat]]

InWindow(o, now) == o # Shut /\ now < o.at + Window

(* docs/API.md, Access-code unlock. Where a token is needed, a request      *)
(* without it is served only over loopback and within the window of the     *)
(* last unlock, which no relock has closed since and which was opened with  *)
(* the code that was then in force; and within that window every loopback   *)
(* request is served, unless an auth handler keeps the lock busy.           *)
WindowHonoured ==
  /\ LET r == request IN
       cfg.mode # "off" /\ cfg.token /\ r.bearer # "right" =>
         /\ r.allowed => r.peer = "loopback" /\ InWindow(r.opened, r.now)
         /\ r.peer = "loopback" /\ InWindow(r.opened, r.now) /\ r.free => r.allowed
  /\ opened # Shut => opened.code = lock.code
=============================================================================
