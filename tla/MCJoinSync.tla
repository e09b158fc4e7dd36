----------------------------- MODULE MCJoinSync -----------------------------
(***************************************************************************)
(* Instances of JoinSync for TLC.                                          *)
(***************************************************************************)
EXTENDS JoinSync, TLC

Symmetry == Permutations(Clients)
=============================================================================
