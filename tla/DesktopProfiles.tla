-------------------------- MODULE DesktopProfiles --------------------------
(***************************************************************************)
(* The tunnel profiles of the desktop app: settings.json, the secrets that *)
(* are kept in the keyring of the system instead of that file              *)
(* (src/crates/tunnelmux-gui/src/settings.rs, secret_store.rs), the        *)
(* commands that read and write both (commands.rs), and the window, which  *)
(* keeps a copy of its own (ui/app.js).                                    *)
(*                                                                         *)
(* Every command loads the settings, changes its copy and saves the copy   *)
(* whole. Nothing locks the file or the keyring meanwhile: the synchronous *)
(* commands run one after another on the main thread, the others next to   *)
(* them on worker threads, and an entry of the keyring and the file are    *)
(* read and written one at a time, each of which may fail.                 *)
(*                                                                         *)
(* One provider secret stands for the two of a profile. The other fields   *)
(* of a profile, the order of the profiles, the current one and the        *)
(* connection of the daemon are left out: no secret depends on them.       *)
(***************************************************************************)
EXTENDS Naturals, FiniteSets

CONSTANTS
  Slots,        \* the ids tunnel-1, tunnel-2, ... as numbers
  Passwords,    \* provider secrets a user enters
  NoSecret,     \* Option::None of a secret
  MainThread,   \* where the synchronous commands run
  Workers,      \* an asynchronous command each
  MaxMade,      \* how many profiles are created
  MaxTroubles   \* how many accesses to the file or the keyring fail

ASSUME ProfilesAssumption ==
  /\ Slots \subseteq Nat \ {0} /\ NoSecret \notin Passwords
  /\ MaxMade \in Nat /\ MaxTroubles \in Nat

VARIABLES
  stored,     \* settings.json
  keyring,    \* the credential store: a secret per profile id
  window,     \* state.settings of the window
  command,    \* what each thread is at
  troubles,   \* how many accesses have failed
  made,       \* how many profiles have been created
  entered,    \* history: by profile, the secrets its user has entered
  mixed       \* history: an id stood for two profiles, see Clash and Displaces

profileVars ==
  <<stored, keyring, window, command, troubles, made, entered, mixed>>

Threads == {MainThread} \union Workers
Secrets == Passwords \union {NoSecret}

(* Settings say which profile has an id, the one that was created made-th, *)
(* and its secret. In the file there is one only when somebody has written *)
(* it there by hand.                                                       *)
Profiles == [made : 0 .. MaxMade, secret : Secrets]
NoProfile == [made |-> 0, secret |-> NoSecret]
NoSettings == [id \in Slots |-> NoProfile]
ProfileIds(s) == {id \in Slots : s[id].made # 0}

NoForm == [id |-> 0, made |-> 0, secret |-> NoSecret]

AtRest == [at |-> "idle", does |-> "look", form |-> NoForm, copy |-> NoSettings,
         todo |-> {}, missing |-> {}, tidy |-> FALSE]

(* Two commands that read or write the secrets of different profiles under *)
(* one id at the same time.                                                *)
Accessing(r) == r.at \in {"load", "store"}

Clash(cs) ==
  \E c, d \in Threads, id \in Slots :
    /\ Accessing(cs[c]) /\ Accessing(cs[d])
    /\ cs[c].copy[id].made # 0 /\ cs[d].copy[id].made # 0
    /\ cs[c].copy[id].made # cs[d].copy[id].made

Steps(c, r, displaced) ==
  /\ command' = [command EXCEPT ![c] = r]
  /\ mixed' = (mixed \/ displaced \/ Clash(command'))

Fault == troubles < MaxTroubles /\ troubles' = troubles + 1

ProfilesInit ==
  /\ stored = NoSettings /\ keyring = [id \in Slots |-> NoSecret]
  /\ window = NoSettings /\ command = [c \in Threads |-> AtRest]
  /\ troubles = 0 /\ made = 0
  /\ entered = [m \in 1 .. MaxMade |-> {}] /\ mixed = FALSE

(***************************************************************************)
(* settings.rs                                                             *)
(***************************************************************************)
HasPlaintext(s) == \E id \in Slots : s[id].secret # NoSecret
Sanitized(s) == [id \in Slots |-> [made |-> s[id].made, secret |-> NoSecret]]

\* load_settings_from_dir has read the file and goes on to the keyring.
Load(c, does, form) ==
  Steps(c, [at |-> "load", does |-> does, form |-> form, copy |-> stored,
            todo |-> ProfileIds(stored), missing |-> {}, tidy |-> HasPlaintext(stored)], FALSE)

\* save_settings_to_dir begins with the secrets of the profiles there are.
Store(c, does, s) ==
  Steps(c, [AtRest EXCEPT !.at = "store", !.does = does, !.copy = s, !.todo = ProfileIds(s)], FALSE)

(* hydrate_profile_secret: what the file says is used, and kept unless the *)
(* keyring had a secret already; what it does not say is looked up.        *)
LookUp(c, id) ==
  LET r == command[c]
      said == r.copy[id].secret
  IN
  /\ r.at = "load" /\ id \in r.todo /\ r.missing = {}
  /\ IF said = NoSecret
       THEN Steps(c, [r EXCEPT !.todo = @ \ {id}, !.copy[id].secret = keyring[id]], FALSE)
       ELSE Steps(c, [r EXCEPT !.todo = @ \ {id},
                       !.missing = IF keyring[id] = NoSecret THEN {id} ELSE {}], FALSE)
  /\ UNCHANGED <<stored, keyring, window, troubles, made, entered>>

KeepSecret(c, id) ==
  /\ command[c].at = "load" /\ id \in command[c].missing
  /\ keyring' = [keyring EXCEPT ![id] = command[c].copy[id].secret]
  /\ Steps(c, [command[c] EXCEPT !.missing = {}], FALSE)
  /\ UNCHANGED <<stored, window, troubles, made, entered>>

\* A file that had secrets is written back without them.
Tidy(c) ==
  LET r == command[c] IN
  /\ r.at = "load" /\ r.todo = {} /\ r.missing = {} /\ r.tidy
  /\ stored' = Sanitized(r.copy)
  /\ Steps(c, [r EXCEPT !.tidy = FALSE], FALSE)
  /\ UNCHANGED <<keyring, window, troubles, made, entered>>

Loaded(c) ==
  LET r == command[c] IN r.at = "load" /\ r.todo = {} /\ r.missing = {} /\ ~r.tidy

(* persist_settings_secrets: an entry that is None is deleted. That of a   *)
(* deleted profile stays behind.                                           *)
KeptOnSave_OnlyAdded(old, secret) == IF secret = NoSecret THEN old ELSE secret

KeptOnSave(old, secret) == secret

StoreSecret(c, id) ==
  LET r == command[c] IN
  /\ r.at = "store" /\ id \in r.todo
  /\ keyring' = [keyring EXCEPT ![id] = KeptOnSave(keyring[id], r.copy[id].secret)]
  /\ Steps(c, [r EXCEPT !.todo = @ \ {id}], FALSE)
  /\ UNCHANGED <<stored, window, troubles, made, entered>>

(* write_settings_file. The commands that change a profile load the        *)
(* settings again for what they return, save_settings for the daemon.      *)
Written(does) ==
  CASE does = "edit" -> [AtRest EXCEPT !.at = "again"]
    [] does = "settings" -> [AtRest EXCEPT !.at = "again", !.does = "reconnect"]
    [] OTHER -> AtRest

WriteFile(c) ==
  LET r == command[c] IN
  /\ r.at = "store" /\ r.todo = {}
  /\ stored' = Sanitized(r.copy) /\ Steps(c, Written(r.does), FALSE)
  /\ window' = IF r.does = "reconnect" THEN r.copy ELSE window
  /\ UNCHANGED <<keyring, troubles, made, entered>>

LoadAgain(c) ==
  /\ command[c].at = "again" /\ Load(c, command[c].does, NoForm)
  /\ UNCHANGED <<stored, keyring, window, troubles, made, entered>>

(* An access to the keyring or the file fails, and the command with it:    *)
(* secrets that are stored already stay. A save for the daemon's sake is   *)
(* only logged (persist_daemon_alignment).                                 *)
Displaces(r) ==
  /\ r.at = "store"
  /\ \E id \in Slots \ r.todo :
       r.copy[id].made # 0 /\ stored[id].made # 0 /\ stored[id].made # r.copy[id].made

AccessFails(c) ==
  LET r == command[c] IN
  /\ Accessing(r) /\ ~Loaded(c) /\ Fault
  /\ Steps(c, AtRest, Displaces(r))
  /\ window' = IF r.at = "store" /\ r.does = "reconnect" THEN r.copy ELSE window
  /\ UNCHANGED <<stored, keyring, made, entered>>

(***************************************************************************)
(* commands.rs. The forms of the window are filled from its own copy, and  *)
(* it waits for one of its commands before it sends the next (withBusy):   *)
(* nothing here relies on that.                                            *)
(***************************************************************************)
otherVars == <<stored, keyring, troubles, made, entered>>

\* load_settings, and the commands that load the settings to reach the daemon.
LoadSettings(c) ==
  /\ command[c].at = "idle" /\ Load(c, "look", NoForm)
  /\ UNCHANGED <<otherVars, window>>

Show(c) ==
  /\ Loaded(c) /\ command[c].does = "look" /\ Steps(c, AtRest, FALSE)
  /\ window' \in {window, command[c].copy}
  /\ UNCHANGED otherVars

(* save_tunnel_profile with the form of a new profile, or of one there is: *)
(* an id that is gone, or taken, makes no difference.                      *)
CreateProfile(id, secret) ==
  /\ command[MainThread].at = "idle" /\ made < MaxMade /\ made' = made + 1
  /\ id \notin ProfileIds(window) /\ \A n \in 1 .. id - 1 : n \in Slots => n \in ProfileIds(window)
  /\ Load(MainThread, "save", [id |-> id, made |-> made + 1, secret |-> secret])
  /\ entered' = [entered EXCEPT ![made + 1] = @ \union {secret}]
  /\ UNCHANGED <<stored, keyring, window, troubles>>

EditProfile(id, secret) ==
  /\ command[MainThread].at = "idle" /\ id \in ProfileIds(window)
  /\ Load(MainThread, "save", [id |-> id, made |-> window[id].made, secret |-> secret])
  /\ entered' = IF secret = window[id].secret THEN entered
                ELSE [entered EXCEPT ![window[id].made] = @ \union {secret}]
  /\ UNCHANGED <<stored, keyring, window, troubles, made>>

SelectProfile(id) ==
  /\ command[MainThread].at = "idle" /\ id \in ProfileIds(window)
  /\ Load(MainThread, "select", [NoForm EXCEPT !.id = id])
  /\ UNCHANGED <<otherVars, window>>

\* delete_tunnel_profile loads the settings for the daemon's sake first.
DeleteProfile(c, id) ==
  /\ command[c].at = "idle"
  /\ id \in ProfileIds(window) /\ ProfileIds(window) # {id}
  /\ Load(c, "ask", [NoForm EXCEPT !.id = id])
  /\ UNCHANGED <<otherVars, window>>

\* A profile that is not found is an error.
ChangeProfiles(c) ==
  LET r == command[c] IN
  /\ Loaded(c) /\ UNCHANGED <<otherVars, window>>
  /\ \/ /\ r.does = "save"
        /\ Store(c, "edit", [r.copy EXCEPT ![r.form.id] =
                               [made |-> r.form.made, secret |-> r.form.secret]])
     \/ /\ r.does = "select" /\ r.form.id \in ProfileIds(r.copy)
        /\ Store(c, "edit", r.copy)
     \/ /\ r.does = "delete" /\ r.form.id \in ProfileIds(r.copy)
        /\ Store(c, "edit", [r.copy EXCEPT ![r.form.id] = NoProfile])
     \/ /\ r.does \in {"select", "delete"} /\ r.form.id \notin ProfileIds(r.copy)
        /\ Steps(c, AtRest, FALSE)

(* save_settings saves what the window has, stale or not. Then it makes    *)
(* sure of a daemon, as bootstrap_local_daemon does: both wait for it with *)
(* the settings they have loaded.                                          *)
SaveSettings(c) ==
  /\ command[c].at = "idle" /\ Store(c, "settings", window)
  /\ UNCHANGED <<otherVars, window>>

Bootstrap(c) ==
  /\ command[c].at = "idle" /\ Load(c, "boot", NoForm)
  /\ UNCHANGED <<otherVars, window>>

AskDaemon(c) ==
  LET r == command[c] IN
  /\ Loaded(c) /\ r.does \in {"ask", "boot", "reconnect"}
  /\ Steps(c, [r EXCEPT !.at = "wait"], FALSE)
  /\ UNCHANGED <<otherVars, window>>

(* The daemon has forgotten the tunnel, or it does not answer; a daemon    *)
(* that has another address or token is kept in the settings, which are    *)
(* saved whole (persist_daemon_alignment).                                 *)
DaemonAnswers(c) ==
  LET r == command[c] IN
  /\ r.at = "wait" /\ UNCHANGED otherVars
  /\ \/ r.does = "ask" /\ Load(c, "delete", r.form) /\ UNCHANGED window
     \/ r.does \in {"boot", "reconnect"} /\ Store(c, r.does, r.copy) /\ UNCHANGED window
     \/ /\ Steps(c, AtRest, FALSE)
        /\ window' = IF r.does = "reconnect" THEN r.copy ELSE window

\* The user writes a secret into settings.json.
EditFile(id, secret) ==
  /\ id \in ProfileIds(stored)
  /\ stored' = [stored EXCEPT ![id].secret = secret]
  /\ entered' = [entered EXCEPT ![stored[id].made] = @ \union {secret}]
  /\ UNCHANGED <<keyring, window, command, troubles, made, mixed>>

ProfilesNext ==
  \/ \E c \in Threads :
       \/ LoadSettings(c) \/ Show(c) \/ ChangeProfiles(c) \/ AskDaemon(c)
       \/ Tidy(c) \/ WriteFile(c) \/ LoadAgain(c) \/ AccessFails(c)
       \/ \E id \in Slots : LookUp(c, id) \/ KeepSecret(c, id) \/ StoreSecret(c, id)
  \/ \E id \in Slots, secret \in Secrets : CreateProfile(id, secret) \/ EditProfile(id, secret)
  \/ \E id \in Slots : SelectProfile(id)
  \/ \E c \in Workers :
       \/ SaveSettings(c) \/ Bootstrap(c) \/ DaemonAnswers(c)
       \/ \E id \in Slots : DeleteProfile(c, id)
  \/ \E id \in Slots, secret \in Passwords : EditFile(id, secret)

ProfilesSpec == ProfilesInit /\ [][ProfilesNext]_profileVars

(***************************************************************************)
(* Properties.                                                             *)
(***************************************************************************)
ProfilesTypeOK ==
  /\ stored \in [Slots -> Profiles] /\ window \in [Slots -> Profiles]
  /\ keyring \in [Slots -> Secrets]
  /\ \A c \in Threads :
       /\ command[c].at \in {"idle", "again", "load", "wait", "store"}
       /\ command[c].copy \in [Slots -> Profiles]
       /\ command[c].todo \subseteq ProfileIds(command[c].copy)
  /\ troubles \in 0 .. MaxTroubles /\ made \in 0 .. MaxMade /\ mixed \in BOOLEAN
  /\ \A m \in 1 .. MaxMade : entered[m] \subseteq Secrets

OwnSecrets(s) ==
  \A id \in ProfileIds(s) : s[id].secret \in entered[s[id].made] \union {NoSecret}

NoInheritedSecret ==
  mixed \/ (OwnSecrets(window) /\ \A c \in Threads : OwnSecrets(command[c].copy))
=============================================================================
