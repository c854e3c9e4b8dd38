----------------------------- MODULE DurableStore -----------------------------
(***************************************************************************)
(* What the daemon's state file promises to whoever changes the state and  *)
(* to the next start, with no word of locks, snapshots or renames: what is *)
(* stored only grows, and a change is answered with success only when it   *)
(* is stored. A handler dropped in the middle of a rename, or a reload     *)
(* that undid a change, voids the promise but for one thing: the store can *)
(* be read.                                                                *)
(***************************************************************************)
CONSTANT Changes

VARIABLES
  stored,   \* the changes that the next start finds
  acked,    \* those that were answered with success
  loose     \* the promise is void

storeVars == <<stored, acked, loose>>

Init == stored = {} /\ acked = {} /\ loose = FALSE

\* One save, and the answer that goes with it.
Save ==
  /\ stored' \in SUBSET Changes
  /\ acked' \in SUBSET Changes /\ acked \subseteq acked'
  /\ loose' = loose
  /\ ~loose => stored \subseteq stored' /\ acked' \ acked \subseteq stored'

Loosen == loose' = TRUE /\ UNCHANGED <<stored, acked>>

Next == Save \/ Loosen

Spec == Init /\ [][Next]_storeVars
=============================================================================
