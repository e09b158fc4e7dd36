---------------------------- MODULE MCRaceLobby -----------------------------
(***************************************************************************)
(* Instances of RaceLobby for TLC.                                         *)
(***************************************************************************)
EXTENDS RaceLobby

CONSTANTS c1, c2, c3

Three == {c1, c2, c3}
Two == {c1, c2}
One == {c1}
Nobody == {}
=============================================================================
