------------------------------ MODULE Rotation ------------------------------
(***************************************************************************)
(* The map rotation of the server: how votes are counted, which entry      *)
(* leads, and which entry the next race runs on.  These are the pure       *)
(* operators; RaceLobby keeps the state (map, vote, laps) they work on.    *)
(* As in the source, rotation entries are numbered from 0 and chat         *)
(* commands name them from 1.                                              *)
(***************************************************************************)
EXTENDS Integers, FiniteSets

CONSTANT NMaps              \* length of the rotation, the --map arguments

ASSUME NMapsAssumption == NMaps \in Nat \ {0}

Maps == 0 .. NMaps - 1

NoVote == -1                \* a client's vote before its first !vote

\* Entry that `!vote N` or `!map N` names (the 1-based branch of find_map).
FindMap(n) == n - 1

\* Votes for entry i among the lobby.
Tally(vote, lobby, i) == Cardinality({c \in lobby : vote[c] = i})

\* Entry i beats entry j: more votes, or as many and earlier in the rotation.
BeatsFault(vote, lobby, i, j) == Tally(vote, lobby, i) > Tally(vote, lobby, j)
Beats(vote, lobby, i, j) ==
    \/ Tally(vote, lobby, i) > Tally(vote, lobby, j)
    \/ Tally(vote, lobby, i) = Tally(vote, lobby, j) /\ i < j

\* The vote leader as a set, empty when nobody in the lobby has voted.
Leaders(vote, lobby) ==
    {i \in Maps : /\ Tally(vote, lobby, i) > 0
                  /\ \A j \in Maps \ {i} : Beats(vote, lobby, i, j)}

Following(map) == (map + 1) % NMaps

\* The entry end_race moves to: the leader if anyone voted, else the next one.
NextMap(vote, lobby, map) ==
    IF Leaders(vote, lobby) = {} THEN Following(map)
                                 ELSE CHOOSE i \in Leaders(vote, lobby) : TRUE

\* Votes that switch the map at once while nobody is racing.
Needed(lobby) == Cardinality(lobby) \div 2 + 1

HasMajorityFault(vote, lobby, i) == Tally(vote, lobby, i) >= Cardinality(lobby) \div 2
HasMajority(vote, lobby, i) == Tally(vote, lobby, i) >= Needed(lobby)
=============================================================================
