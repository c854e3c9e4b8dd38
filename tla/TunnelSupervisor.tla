--------------------------- MODULE TunnelSupervisor ---------------------------
(***************************************************************************)
(* What the daemon promises of its tunnels, with no word of tasks, child   *)
(* processes or sections under a lock. Every attempt to bring a tunnel up  *)
(* is admitted with a number of its own, and a tunnel comes up with the    *)
(* one attempt that is admitted for it at that moment, or not at all: an   *)
(* attempt that was overtaken, called off or halted never comes up, not    *)
(* even late. Once the supervisor is closed nothing comes up.              *)
(***************************************************************************)
EXTENDS Naturals

CONSTANT Tunnels

VARIABLES
  serving,   \* the attempt a tunnel is served by, 0 for none
  admitted,  \* the attempt that may come up, 0 for none
  issued,    \* the numbers handed out, none of them twice
  halted,    \* the number of the tunnel's last halt
  closed

supervisorVars == <<serving, admitted, issued, halted, closed>>

Init ==
  /\ serving = [t \in Tunnels |-> 0]
  /\ admitted = [t \in Tunnels |-> 0]
  /\ issued = 0
  /\ halted = [t \in Tunnels |-> 0]
  /\ closed = FALSE

\* A new attempt takes the place of the one admitted before.
Admit(t) ==
  /\ issued' = issued + 1
  /\ admitted' = [admitted EXCEPT ![t] = issued + 1]
  /\ UNCHANGED <<serving, halted, closed>>

\* The admitted attempt comes up, and what served the tunnel before is gone.
ComeUp(t) ==
  /\ ~closed
  /\ admitted[t] # 0
  /\ serving' = [serving EXCEPT ![t] = admitted[t]]
  /\ admitted' = [admitted EXCEPT ![t] = 0]
  /\ UNCHANGED <<issued, halted, closed>>

\* Providers are found gone, or are given up.
GoDown(some) ==
  /\ serving' = [t \in Tunnels |-> IF t \in some THEN 0 ELSE serving[t]]
  /\ UNCHANGED <<admitted, issued, halted, closed>>

\* Attempts have failed or are given up; what serves stays. Numbers may be
\* spent on it.
CallOff(some) ==
  /\ admitted' = [t \in Tunnels |-> IF t \in some THEN 0 ELSE admitted[t]]
  /\ issued' \in Nat /\ issued' >= issued
  /\ UNCHANGED <<serving, halted, closed>>

\* A stop, a delete, or the beginning of a start: no attempt from before it
\* serves the tunnel or ever will.
Halt(t) ==
  /\ serving' = [serving EXCEPT ![t] = 0]
  /\ admitted' = [admitted EXCEPT ![t] = 0]
  /\ issued' = issued + 1
  /\ halted' = [halted EXCEPT ![t] = issued + 1]
  /\ UNCHANGED closed

Close == closed' = TRUE /\ UNCHANGED <<serving, admitted, issued, halted>>

Next ==
  \/ \E t \in Tunnels : Admit(t) \/ ComeUp(t) \/ Halt(t)
  \/ \E some \in SUBSET Tunnels : GoDown(some) \/ CallOff(some)
  \/ Close

Spec == Init /\ [][Next]_supervisorVars
=============================================================================
