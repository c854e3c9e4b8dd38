------------------------- MODULE MCTunnelLifecycle -------------------------
(***************************************************************************)
(* Small instances of TunnelLifecycle for TLC. Clients are interchangeable *)
(* where none of them polls; liveness runs use no symmetry.                *)
(***************************************************************************)
EXTENDS TunnelLifecycle, TLC

ClientSymmetry == Permutations(Clients)
=============================================================================
