----------------------------- MODULE RaceCycle ------------------------------
(***************************************************************************)
(* What the server promises about races, without rosters, ready flags,     *)
(* votes or admins.  A race takes everyone in the lobby; nobody is added   *)
(* to it and its track is not changed under it; it ends when the whole     *)
(* field is home, when the clock started by a finish runs out, or when the *)
(* lobby empties, and once one of the first two holds it does end.         *)
(* RaceLobby implements this.                                              *)
(***************************************************************************)
EXTENDS Integers

CONSTANTS Clients, NMaps

VARIABLES
    here,       \* players in the lobby
    on,         \* a race is on
    field,      \* the players driving in it
    home,       \* those of the field that have crossed the line
    clock,      \* a finish has started the grace clock
    track       \* rotation entry the lobby is on

vars == <<here, on, field, home, clock, track>>

Idle == ~on /\ field = {} /\ home = {} /\ ~clock

Init == here = {} /\ Idle /\ track = 0

Join ==
    /\ \E c \in Clients : here' = here \cup {c}
    /\ UNCHANGED <<on, field, home, clock, track>>

Start ==
    /\ ~on /\ here # {}
    /\ on' = TRUE /\ field' = here /\ home' = {} /\ clock' = FALSE
    /\ UNCHANGED <<here, track>>

\* A finish is announced; it counts towards the end only from the field.
Cross ==
    /\ on
    /\ \E c \in Clients : home' = home \cup ({c} \cap field)
    /\ clock' = TRUE
    /\ UNCHANGED <<here, on, field, track>>

Over ==
    /\ on' = FALSE /\ field' = {} /\ home' = {} /\ clock' = FALSE
    /\ track' \in 0 .. NMaps - 1

\* Some players leave; a race without anyone left in the lobby is over.
Leave ==
    /\ \E S \in SUBSET Clients :
        /\ here' = here \ S
        /\ \/ /\ here' # {} \/ ~on
              /\ field' = field \ S /\ home' = home \ S
              /\ UNCHANGED <<on, clock, track>>
           \/ here' = {} /\ on /\ Over

Finish ==
    /\ on /\ (field \subseteq home \/ clock)
    /\ Over
    /\ UNCHANGED here

ChangeTrack ==
    /\ ~on
    /\ track' \in 0 .. NMaps - 1
    /\ UNCHANGED <<here, on, field, home, clock>>

Next == Join \/ Start \/ Cross \/ Leave \/ Finish \/ ChangeTrack

Spec == Init /\ [][Next]_vars /\ WF_vars(Finish)
=============================================================================
