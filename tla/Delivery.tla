------------------------------ MODULE Delivery ------------------------------
(***************************************************************************)
(* What the reliable link promises: every event handed to it reaches the   *)
(* handler of the other side at most once, in any order, and in the end it *)
(* does reach it.  Link implements this.                                   *)
(***************************************************************************)
EXTENDS Integers, Sequences, SequencesExt

CONSTANT MaxEvents          \* bound on the events of a behaviour

VARIABLES
    handed,     \* events 1 .. handed have been handed to the link
    got         \* the events handled on the other side, in that order

vars == <<handed, got>>

Init == handed = 0 /\ got = <<>>

Hand == handed < MaxEvents /\ handed' = handed + 1 /\ UNCHANGED got

Get(e) ==
    /\ e \in 1 .. handed /\ ~Contains(got, e)
    /\ got' = Append(got, e)
    /\ UNCHANGED handed

Next == Hand \/ \E e \in 1 .. MaxEvents : Get(e)

Spec == Init /\ [][Next]_vars /\ \A e \in 1 .. MaxEvents : WF_vars(Get(e))
=============================================================================
