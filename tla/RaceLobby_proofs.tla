--------------------------- MODULE RaceLobby_proofs ---------------------------
(***************************************************************************)
(* Proofs about RaceLobby, for any clients, rotation and inputs.           *)
(***************************************************************************)
EXTENDS RaceLobby, FiniteSetTheorems, WellFoundedInduction, TLAPS

-----------------------------------------------------------------------------
(* The rotation operators *)

\* The entry after a rotation entry is a rotation entry.
LEMMA FollowingType == \A m \in Maps : Following(m) \in Maps
  BY NMapsAssumption DEF Maps, Following

\* Whatever the votes, end_race moves to an entry of the rotation.
LEMMA NextMapType ==
    ASSUME NEW v, NEW L, NEW m \in Maps
    PROVE  NextMap(v, L, m) \in Maps
<1>1. CASE Leaders(v, L) = {}
  BY <1>1, FollowingType DEF NextMap
<1>2. CASE Leaders(v, L) # {}
  <2>1. (CHOOSE i \in Leaders(v, L) : TRUE) \in Leaders(v, L)
    BY <1>2
  <2>2. Leaders(v, L) \subseteq Maps
    BY DEF Leaders
  <2> QED BY <1>2, <2>1, <2>2 DEF NextMap
<1> QED BY <1>1, <1>2

LEMMA FindMapType == \A n \in 1 .. NMaps : FindMap(n) \in Maps
  BY NMapsAssumption DEF Maps, FindMap

LEMMA UpcomingType == TypeOK => Upcoming \in Maps
  BY NextMapType DEF TypeOK, Upcoming

\* The initial state is well typed.
LEMMA InitType == Init => TypeOK
<1> SUFFICES ASSUME Init PROVE TypeOK
  OBVIOUS
<1>1. map \in Maps
  BY NMapsAssumption DEF Init, Maps
<1>2. laps \in [Maps -> Nat \ {0}]
  BY InputsAssumption DEF Init
<1>3. vote \in [Clients -> Maps \cup {NoVote}]
  BY DEF Init
<1>4. told \in [Clients -> Races \cup {Untold}] /\ results \in [Clients -> Nat]
  BY DEF Init
<1> QED BY <1>1, <1>2, <1>3, <1>4 DEF Init, TypeOK

\* The pieces the handlers are made of keep the types of what they assign.
LEMMA SetMapType ==
    ASSUME TypeOK, NEW i \in Maps, NEW L, NEW heard \in [Clients -> Races \cup {Untold}],
           SetMap(i, L, heard)
    PROVE  /\ map' \in Maps
           /\ laps' \in [Maps -> Nat \ {0}]
           /\ vote' \in [Clients -> Maps \cup {NoVote}]
           /\ told' \in [Clients -> Races \cup {Untold}]
<1>1. laps[i] \in Nat \ {0}
  BY DEF TypeOK
<1>2. Describe(i, laps) \in Races
  BY <1>1 DEF Describe, Races
<1>3. told' \in [Clients -> Races \cup {Untold}]
  BY <1>2 DEF SetMap, Tell
<1>4. vote' \in [Clients -> Maps \cup {NoVote}]
  BY DEF SetMap, VotesAfterSwitch
<1> QED BY <1>3, <1>4 DEF SetMap, TypeOK

LEMMA TellType ==
    ASSUME NEW T, NEW f \in [Clients -> T], NEW S, NEW v \in T
    PROVE  Tell(f, S, v) \in [Clients -> T]
  BY DEF Tell

LEMMA StartRaceType ==
    ASSUME TypeOK, StartRace
    PROVE  /\ racing' \in BOOLEAN /\ goSent' \in BOOLEAN /\ graceOn' \in BOOLEAN /\ endDue' \in BOOLEAN
           /\ ready' \subseteq Clients /\ racers' \subseteq Clients /\ finished' \subseteq Clients
           /\ lastFinish' \in Nat /\ hostTime' \in Nat /\ results' \in [Clients -> Nat]
           /\ map' \in Maps /\ laps' \in [Maps -> Nat \ {0}]
           /\ vote' \in [Clients -> Maps \cup {NoVote}]
           /\ told' \in [Clients -> Races \cup {Untold}]
           /\ admin' \subseteq Clients /\ adminCode' \in Clients \cup {NoCode}
<1>1. UNCHANGED <<lastFinish, map, laps, vote, told, admin, adminCode>>
  BY DEF StartRace, rotationVars, adminVars
<1>2. results' \in [Clients -> Nat] /\ hostTime' \in Nat
  BY DEF StartRace
<1> QED BY <1>1, <1>2 DEF TypeOK, StartRace

LEMMA EndRaceType ==
    ASSUME TypeOK, NEW L, NEW v, NEW heard \in [Clients -> Races \cup {Untold}],
           EndRace(L, v, heard)
    PROVE  /\ racing' \in BOOLEAN /\ goSent' \in BOOLEAN /\ graceOn' \in BOOLEAN /\ endDue' \in BOOLEAN
           /\ ready' \subseteq Clients /\ racers' \subseteq Clients /\ finished' \subseteq Clients
           /\ lastFinish' \in Nat /\ hostTime' \in Nat /\ results' \in [Clients -> Nat]
           /\ map' \in Maps /\ laps' \in [Maps -> Nat \ {0}]
           /\ vote' \in [Clients -> Maps \cup {NoVote}]
           /\ told' \in [Clients -> Races \cup {Untold}]
<1>1. NextMap(v, L, map) \in Maps
  BY NextMapType DEF TypeOK
<1>2. /\ map' \in Maps /\ laps' \in [Maps -> Nat \ {0}]
      /\ vote' \in [Clients -> Maps \cup {NoVote}]
      /\ told' \in [Clients -> Races \cup {Untold}]
  BY <1>1, SetMapType DEF EndRace
<1> QED BY <1>2 DEF EndRace, LowerRaceFlags, TypeOK

LEMMA SettleType == ASSUME TypeOK, NEW rs, NEW fs, NEW t \in Nat, Settle(rs, fs, t)
                    PROVE  endDue' \in BOOLEAN /\ hostTime' \in Nat
<1>1. CASE endDue' = TRUE /\ hostTime' = HostFinish(t)
  BY <1>1 DEF HostFinish
<1>2. CASE UNCHANGED <<endDue, hostTime>>
  BY <1>2 DEF TypeOK
<1> QED BY <1>1, <1>2 DEF Settle

LEMMA RemoveClientsType == ASSUME TypeOK, NEW S, RemoveClients(S)
                           PROVE  TypeOK'
<1> DEFINE L == lobby \ S
           v == Tell(vote, S, NoVote)
           heard == Tell(told, S, Untold)
<1>1. v \in [Clients -> Maps \cup {NoVote}] /\ heard \in [Clients -> Races \cup {Untold}]
  BY TellType DEF TypeOK
<1>2. /\ conn' \subseteq Clients /\ info' \subseteq Clients /\ lobby' \subseteq Clients
      /\ admin' \subseteq Clients /\ adminCode' \in Clients \cup {NoCode}
  BY DEF TypeOK, RemoveClients
<1>3. CASE LobbyEmptied(L)
  <2>1. EndRace(L, v, heard)
    BY <1>3 DEF RemoveClients
  <2> QED BY <1>1, <1>2, <2>1, EndRaceType DEF TypeOK
<1>4. CASE ~LobbyEmptied(L)
  <2>1. /\ ready' = ready \ S /\ racers' = racers \ S /\ finished' = finished \ S
        /\ results' = Tell(results, S, 0)
        /\ IF racing THEN Settle(racers \ S, finished \ S, lastFinish)
                     ELSE UNCHANGED <<endDue, hostTime>>
        /\ vote' = v /\ told' = heard
        /\ UNCHANGED <<racing, goSent, graceOn, lastFinish, map, laps>>
    BY <1>4 DEF RemoveClients
  <2>2. endDue' \in BOOLEAN /\ hostTime' \in Nat
    BY <2>1, SettleType DEF TypeOK
  <2>3. results' \in [Clients -> Nat]
    BY <2>1, TellType DEF TypeOK
  <2>4. /\ ready' \subseteq Clients /\ racers' \subseteq Clients /\ finished' \subseteq Clients
        /\ racing' \in BOOLEAN /\ goSent' \in BOOLEAN /\ graceOn' \in BOOLEAN
        /\ lastFinish' \in Nat /\ map' \in Maps /\ laps' \in [Maps -> Nat \ {0}]
    BY <2>1 DEF TypeOK
  <2>5. vote' \in [Clients -> Maps \cup {NoVote}] /\ told' \in [Clients -> Races \cup {Untold}]
    BY <1>1, <2>1
  <2> HIDE DEF L, v, heard
  <2> QED BY <1>2, <2>2, <2>3, <2>4, <2>5 DEF TypeOK
<1> QED BY <1>3, <1>4

-----------------------------------------------------------------------------
(* Type correctness *)

\* One step of the server keeps every variable in its type.
LEMMA NextType == TypeOK /\ [Next]_vars => TypeOK'
<1> SUFFICES ASSUME TypeOK, [Next]_vars PROVE TypeOK'
  OBVIOUS
<1> USE DEF rosterVars, raceVars, rotationVars, adminVars
<1>1. ASSUME NEW c \in Clients, Connect(c) PROVE TypeOK'
  BY <1>1 DEF TypeOK, Connect, Touch
<1>2. ASSUME NEW c \in Clients, ReceiveClientInfo(c) PROVE TypeOK'
  BY <1>2 DEF TypeOK, ReceiveClientInfo, Touch
<1>3. ASSUME NEW c \in Clients, GarageState(c) PROVE TypeOK'
  <2>1. Describe(Upcoming, laps) \in Races
    BY UpcomingType DEF TypeOK, Describe, Races
  <2>2. Tell(told, {c}, Describe(Upcoming, laps)) \in [Clients -> Races \cup {Untold}]
    BY <2>1, TellType DEF TypeOK
  <2>3. told' \in [Clients -> Races \cup {Untold}]
    BY <1>3, <2>2 DEF GarageState, TypeOK
  <2> QED BY <1>3, <2>3 DEF TypeOK, GarageState, Touch
<1>4. ASSUME NEW c \in Clients, NEW b \in BOOLEAN, Ready(c, b) PROVE TypeOK'
  <2>1. WithFlag(c, b) \subseteq Clients
    BY DEF WithFlag, TypeOK
  <2>2. conn' \subseteq Clients /\ info' \subseteq Clients /\ lobby' \subseteq Clients
    BY <1>4 DEF Ready, Touch, TypeOK
  <2>3. CASE racing
    BY <1>4, <2>1, <2>2, <2>3 DEF TypeOK, Ready
  <2>4. CASE ~racing /\ AllReady(lobby, WithFlag(c, b))
    <3>1. StartRace
      BY <1>4, <2>4 DEF Ready
    <3> QED BY <2>2, <3>1, StartRaceType DEF TypeOK
  <2>5. CASE ~racing /\ ~AllReady(lobby, WithFlag(c, b))
    BY <1>4, <2>1, <2>2, <2>5 DEF TypeOK, Ready
  <2> QED BY <2>3, <2>4, <2>5
<1>5. ASSUME NEW c \in Clients, NEW t \in Times, CrossedFinish(c, t) PROVE TypeOK'
  <2>1. t \in Nat
    BY InputsAssumption
  <2>2. CASE racing
    <3>1. Settle(racers, finished \cup {c}, t)
      BY <1>5, <2>2 DEF CrossedFinish
    <3>2. endDue' \in BOOLEAN /\ hostTime' \in Nat
      BY <2>1, <3>1, SettleType
    <3>3. results' \in [Clients -> Nat]
      BY <1>5, <2>1, <2>2 DEF CrossedFinish, TypeOK
    <3> QED BY <1>5, <2>1, <2>2, <3>2, <3>3 DEF TypeOK, CrossedFinish, Touch
  <2>3. CASE ~racing
    BY <1>5, <2>3 DEF TypeOK, CrossedFinish, Touch
  <2> QED BY <2>2, <2>3
<1>6. ASSUME NEW c \in Clients, Disconnect(c) PROVE TypeOK'
  BY <1>6, RemoveClientsType DEF Disconnect
<1>7. ASSUME NEW S \in SUBSET Clients, TimeOut(S) PROVE TypeOK'
  BY <1>7, RemoveClientsType DEF TimeOut
<1>8. ASSUME NEW a \in Askers, NEW c \in Clients, Kick(a, c) PROVE TypeOK'
  BY <1>8, RemoveClientsType DEF Kick
<1>9. ASSUME NEW c \in Voters, NEW n \in 1 .. NMaps, VoteFor(c, n) PROVE TypeOK'
  <2>1. FindMap(n) \in Maps /\ c \in Clients
    BY FindMapType, InputsAssumption
  <2> DEFINE v == [vote EXCEPT ![c] = FindMap(n)]
  <2>2. CASE SetMap(FindMap(n), lobby, told)
    <3>1. /\ map' \in Maps /\ laps' \in [Maps -> Nat \ {0}]
          /\ vote' \in [Clients -> Maps \cup {NoVote}]
          /\ told' \in [Clients -> Races \cup {Untold}]
      BY <2>1, <2>2, SetMapType DEF TypeOK
    <3> QED BY <1>9, <3>1 DEF TypeOK, VoteFor
  <2>3. CASE vote' = v /\ UNCHANGED <<map, laps, told>>
    <3>1. v \in [Clients -> Maps \cup {NoVote}]
      BY <2>1 DEF TypeOK
    <3>2. UNCHANGED <<rosterVars, raceVars, adminVars>>
      BY <1>9 DEF VoteFor
    <3> QED BY <2>3, <3>1, <3>2 DEF TypeOK
  <2> QED BY <1>9, <2>2, <2>3 DEF VoteFor
<1>10. ASSUME NEW c \in Askers, RequestAdmin(c) PROVE TypeOK'
  BY <1>10, InputsAssumption DEF TypeOK, RequestAdmin
<1>11. ASSUME NEW c \in Askers, NEW right \in BOOLEAN, RedeemAdmin(c, right) PROVE TypeOK'
  BY <1>11, InputsAssumption DEF TypeOK, RedeemAdmin, CodeAfterAttempt
<1>12. ASSUME NEW c \in Askers, StartCommand(c) PROVE TypeOK'
  <2>1. StartRace /\ UNCHANGED <<conn, info, lobby>>
    BY <1>12 DEF StartCommand
  <2> QED BY <2>1, StartRaceType DEF TypeOK
<1>13. ASSUME NEW c \in Askers, NEW n \in 1 .. NMaps, MapCommand(c, n) PROVE TypeOK'
  <2>1. FindMap(n) \in Maps
    BY FindMapType
  <2>2. SetMap(FindMap(n), lobby, told) /\ UNCHANGED <<rosterVars, raceVars, adminVars>>
    BY <1>13 DEF MapCommand
  <2>3. /\ map' \in Maps /\ laps' \in [Maps -> Nat \ {0}]
        /\ vote' \in [Clients -> Maps \cup {NoVote}]
        /\ told' \in [Clients -> Races \cup {Untold}]
    BY <2>1, <2>2, SetMapType DEF TypeOK
  <2> QED BY <2>2, <2>3 DEF TypeOK
<1>14. ASSUME NEW c \in Askers, NEW n \in LapCounts, LapsCommand(c, n) PROVE TypeOK'
  <2>1. laps' \in [Maps -> Nat \ {0}]
    BY <1>14, InputsAssumption DEF TypeOK, LapsCommand
  <2>2. Describe(Upcoming, laps') \in Races
    BY <2>1, UpcomingType DEF Describe, Races
  <2>3. told' \in [Clients -> Races \cup {Untold}]
    BY <1>14, <2>2, TellType DEF LapsCommand, TypeOK
  <2> QED BY <1>14, <2>1, <2>3 DEF TypeOK, LapsCommand
<1>15. ASSUME EndTimer \/ GraceRunsOut PROVE TypeOK'
  <2>1. EndRace(lobby, vote, told) /\ UNCHANGED <<rosterVars, adminVars>>
    BY <1>15 DEF EndTimer, GraceRunsOut
  <2> QED BY <2>1, EndRaceType DEF TypeOK
<1>16. CASE UNCHANGED vars
  BY <1>16 DEF TypeOK, vars
<1> QED
  BY <1>1, <1>2, <1>3, <1>4, <1>5, <1>6, <1>7, <1>8, <1>9, <1>10, <1>11, <1>12,
     <1>13, <1>14, <1>15, <1>16
  DEF Next, Joining, Driving, Leaving, Commands, Timers

\* Every reachable state is well typed: vote and map stay in the rotation.
THEOREM TypeCorrect == Spec => []TypeOK
  BY InitType, NextType, PTL DEF Spec
-----------------------------------------------------------------------------
(* The inductive invariant *)

\* Which flags an entry can have: all are those of an entry, racers and admins
\* are in the lobby.
Nested ==
    /\ info \subseteq conn /\ lobby \subseteq conn /\ ready \subseteq conn
    /\ finished \subseteq conn
    /\ racers \subseteq lobby /\ admin \subseteq lobby

\* The three invariants of the race need each other: a leave keeps the end due
\* only if it was due exactly when all were home, a finish outside a race must
\* leave nothing, and only a race with a lobby is not already over.
RaceInv ==
    /\ Nested
    /\ RaceHasALobby
    /\ EndIsDueWhenAllAreHome
    /\ NothingLeftOfTheLastRace
    /\ VotesAreForAnotherMap

\* race flags as end_race leaves them
LEMMA EndRaceInv ==
    ASSUME TypeOK, RaceInv, NEW L, NEW v, NEW heard, EndRace(L, v, heard), lobby' = L,
           L \subseteq conn', info' \subseteq conn', admin' \subseteq L
    PROVE  RaceInv'
<1>1. ~racing' /\ ~graceOn' /\ ~endDue' /\ racers' = {} /\ ready' = {} /\ finished' = {}
  BY DEF EndRace, LowerRaceFlags
<1>2. \A c \in Clients : vote'[c] = NoVote
  BY DEF EndRace, SetMap, VotesAfterSwitch
<1>3. VotesAreForAnotherMap'
  BY <1>2 DEF VotesAreForAnotherMap
<1> QED
  BY <1>1, <1>3 DEF RaceInv, Nested, RaceHasALobby, EndIsDueWhenAllAreHome,
                    NothingLeftOfTheLastRace

\* A race starts with a field that is out and a lobby that is in it.
LEMMA StartRaceInv ==
    ASSUME TypeOK, RaceInv, StartRace, lobby # {}, lobby' = lobby, info' \subseteq conn',
           lobby \subseteq conn', ~racing
    PROVE  RaceInv'
<1>1. racing' /\ ~endDue' /\ racers' = lobby /\ ready' = {} /\ finished' = {}
  BY DEF StartRace
<1>2. vote' = vote /\ admin' = admin
  BY DEF StartRace, rotationVars, adminVars
<1>3. VotesAreForAnotherMap'
  BY <1>1, <1>2 DEF VotesAreForAnotherMap, RaceInv
<1> QED
  BY <1>1, <1>2, <1>3 DEF RaceInv, Nested, RaceHasALobby, EndIsDueWhenAllAreHome,
                          NothingLeftOfTheLastRace

LEMMA RemoveClientsInv ==
    ASSUME TypeOK, RaceInv, NEW S, RemoveClients(S)
    PROVE  RaceInv'
<1> DEFINE L == lobby \ S
           v == Tell(vote, S, NoVote)
           heard == Tell(told, S, Untold)
<1>1. /\ conn' = conn \ S /\ info' = info \ S /\ lobby' = L /\ admin' = admin \ S
  BY DEF RemoveClients
<1>2. L \subseteq conn' /\ info' \subseteq conn' /\ admin' \subseteq L
  BY <1>1 DEF RaceInv, Nested
<1>3. CASE LobbyEmptied(L)
  <2>1. EndRace(L, v, heard)
    BY <1>3 DEF RemoveClients
  <2> QED BY <1>1, <1>2, <2>1, EndRaceInv
<1>4. CASE ~LobbyEmptied(L)
  <2>1. /\ ready' = ready \ S /\ racers' = racers \ S /\ finished' = finished \ S
        /\ IF racing THEN Settle(racers \ S, finished \ S, lastFinish)
                     ELSE UNCHANGED <<endDue, hostTime>>
        /\ vote' = v
        /\ UNCHANGED <<racing, goSent, graceOn, lastFinish, map, laps>>
    BY <1>4 DEF RemoveClients
  <2>2. Nested'
    BY <1>1, <1>2, <2>1 DEF RaceInv, Nested
  <2>3. RaceHasALobby'
    BY <1>1, <1>4, <2>1 DEF RaceHasALobby, LobbyEmptied
  <2>4. EndIsDueWhenAllAreHome'
    <3>1. CASE ~racing
      BY <2>1, <3>1 DEF EndIsDueWhenAllAreHome
    <3>2. CASE racing /\ endDue
      <4>1. racers \subseteq finished
        BY <3>2 DEF RaceInv, EndIsDueWhenAllAreHome
      <4>2. endDue' = endDue
        BY <2>1, <3>2 DEF Settle
      <4> QED BY <2>1, <3>2, <4>1, <4>2 DEF EndIsDueWhenAllAreHome
    <3>3. CASE racing /\ ~endDue
      <4>1. Settle(racers \ S, finished \ S, lastFinish)
        BY <2>1, <3>3
      <4>2. endDue' <=> (racers \ S) \subseteq (finished \ S)
        BY <3>3, <4>1 DEF Settle, AllFinished, TypeOK
      <4> QED BY <2>1, <4>2 DEF EndIsDueWhenAllAreHome
    <3> QED BY <3>1, <3>2, <3>3
  <2>5. NothingLeftOfTheLastRace'
    BY <2>1 DEF RaceInv, NothingLeftOfTheLastRace
  <2>6. VotesAreForAnotherMap'
    <3> SUFFICES ASSUME NEW c \in Clients, vote'[c] # NoVote
                 PROVE  c \in lobby' /\ (racing' \/ vote'[c] # map')
      BY DEF VotesAreForAnotherMap
    <3>1. c \notin S /\ vote'[c] = vote[c]
      BY <2>1 DEF Tell
    <3>2. c \in lobby /\ (racing \/ vote[c] # map)
      BY <3>1 DEF RaceInv, VotesAreForAnotherMap
    <3> QED BY <1>1, <2>1, <3>1, <3>2
  <2> QED BY <2>2, <2>3, <2>4, <2>5, <2>6 DEF RaceInv
<1> QED BY <1>3, <1>4

LEMMA InitInv == Init => RaceInv
  BY DEF Init, RaceInv, Nested, RaceHasALobby, EndIsDueWhenAllAreHome,
         NothingLeftOfTheLastRace, VotesAreForAnotherMap

\* Every step keeps the invariant of the race.
LEMMA NextInv == TypeOK /\ RaceInv /\ [Next]_vars => RaceInv'
<1> SUFFICES ASSUME TypeOK, RaceInv, [Next]_vars PROVE RaceInv'
  OBVIOUS
<1> USE DEF rosterVars, raceVars, rotationVars, adminVars
<1>a. ASSUME UNCHANGED <<raceVars, map, vote>>, Nested', lobby \subseteq lobby'
      PROVE  RaceInv'
  <2>1. RaceHasALobby' /\ EndIsDueWhenAllAreHome' /\ NothingLeftOfTheLastRace'
    BY <1>a DEF RaceInv, RaceHasALobby, EndIsDueWhenAllAreHome, NothingLeftOfTheLastRace
  <2>2. VotesAreForAnotherMap'
    BY <1>a DEF RaceInv, VotesAreForAnotherMap
  <2> QED BY <1>a, <2>1, <2>2 DEF RaceInv
<1>1. ASSUME NEW c \in Clients, Connect(c) PROVE RaceInv'
  BY <1>1, <1>a DEF RaceInv, Nested, Connect, Touch
<1>2. ASSUME NEW c \in Clients, ReceiveClientInfo(c) PROVE RaceInv'
  BY <1>2, <1>a DEF RaceInv, Nested, ReceiveClientInfo, Touch
<1>3. ASSUME NEW c \in Clients, GarageState(c) PROVE RaceInv'
  BY <1>3, <1>a DEF RaceInv, Nested, GarageState, Touch
<1>4. ASSUME NEW c \in Clients, NEW b \in BOOLEAN, Ready(c, b) PROVE RaceInv'
  <2>1. conn' = conn \cup {c} /\ info' = info /\ lobby' = lobby
    BY <1>4 DEF Ready, Touch
  <2>2. CASE ~racing /\ AllReady(lobby, WithFlag(c, b))
    <3>1. StartRace /\ lobby # {}
      BY <1>4, <2>2 DEF Ready, AllReady
    <3>2. info' \subseteq conn' /\ lobby \subseteq conn'
      BY <2>1 DEF RaceInv, Nested
    <3> QED BY <2>1, <2>2, <3>1, <3>2, StartRaceInv
  <2>3. CASE racing \/ ~AllReady(lobby, WithFlag(c, b))
    <3>1. /\ ready' = WithFlag(c, b)
          /\ UNCHANGED <<racers, finished, racing, graceOn, endDue, map, vote, admin>>
      BY <1>4, <2>3 DEF Ready
    <3>2. Nested'
      BY <2>1, <3>1 DEF RaceInv, Nested, WithFlag
    <3>3. RaceHasALobby' /\ EndIsDueWhenAllAreHome' /\ NothingLeftOfTheLastRace'
      BY <2>1, <3>1 DEF RaceInv, RaceHasALobby, EndIsDueWhenAllAreHome, NothingLeftOfTheLastRace
    <3>4. VotesAreForAnotherMap'
      BY <2>1, <3>1 DEF RaceInv, VotesAreForAnotherMap
    <3> QED BY <3>2, <3>3, <3>4 DEF RaceInv
  <2> QED BY <2>2, <2>3
<1>5. ASSUME NEW c \in Clients, NEW t \in Times, CrossedFinish(c, t) PROVE RaceInv'
  <2>1. /\ conn' = conn \cup {c}
        /\ UNCHANGED <<info, lobby, map, vote, admin>>
    BY <1>5 DEF CrossedFinish, Touch
  <2>2. CASE ~racing
    BY <1>5, <1>a, <2>1, <2>2 DEF CrossedFinish, RaceInv, Nested
  <2>3. CASE racing
    <3>1. /\ finished' = finished \cup {c} /\ UNCHANGED <<ready, racers, racing>>
          /\ Settle(racers, finished \cup {c}, t)
      BY <1>5, <2>3 DEF CrossedFinish
    <3>2. Nested'
      BY <2>1, <3>1 DEF RaceInv, Nested
    <3>3. EndIsDueWhenAllAreHome'
      <4>1. endDue' <=> racers \subseteq finished \cup {c}
        BY <2>3, <3>1 DEF Settle, AllFinished, TypeOK, RaceInv, EndIsDueWhenAllAreHome
      <4> QED BY <3>1, <4>1 DEF EndIsDueWhenAllAreHome
    <3>4. RaceHasALobby' /\ NothingLeftOfTheLastRace' /\ VotesAreForAnotherMap'
      BY <2>1, <2>3, <3>1 DEF RaceInv, RaceHasALobby, NothingLeftOfTheLastRace,
                              VotesAreForAnotherMap
    <3> QED BY <3>2, <3>3, <3>4 DEF RaceInv
  <2> QED BY <2>2, <2>3
<1>6. ASSUME NEW c \in Clients, Disconnect(c) PROVE RaceInv'
  BY <1>6, RemoveClientsInv DEF Disconnect
<1>7. ASSUME NEW S \in SUBSET Clients, TimeOut(S) PROVE RaceInv'
  BY <1>7, RemoveClientsInv DEF TimeOut
<1>8. ASSUME NEW a \in Askers, NEW c \in Clients, Kick(a, c) PROVE RaceInv'
  BY <1>8, RemoveClientsInv DEF Kick
<1>b. ASSUME NEW i, SetMap(i, lobby, told), UNCHANGED <<rosterVars, raceVars, adminVars>>
      PROVE  RaceInv'
  <2>1. VotesAreForAnotherMap'
    BY <1>b DEF VotesAreForAnotherMap, SetMap, VotesAfterSwitch
  <2> QED BY <1>b, <2>1 DEF RaceInv, Nested, RaceHasALobby, EndIsDueWhenAllAreHome,
                            NothingLeftOfTheLastRace
<1>9. ASSUME NEW c \in Voters, NEW n \in 1 .. NMaps, VoteFor(c, n) PROVE RaceInv'
  <2>1. UNCHANGED <<rosterVars, raceVars, adminVars>> /\ c \in lobby
    BY <1>9 DEF VoteFor
  <2>2. CASE SetMap(FindMap(n), lobby, told)
    BY <1>b, <2>1, <2>2
  <2>3. CASE vote' = [vote EXCEPT ![c] = FindMap(n)] /\ map' = map
    <3>1. racing \/ FindMap(n) # map
      BY <1>9 DEF VoteFor
    <3>2. VotesAreForAnotherMap'
      BY <2>1, <2>3, <3>1 DEF RaceInv, VotesAreForAnotherMap, TypeOK
    <3> QED BY <2>1, <3>2 DEF RaceInv, Nested, RaceHasALobby, EndIsDueWhenAllAreHome,
                              NothingLeftOfTheLastRace
  <2> QED BY <1>9, <2>2, <2>3 DEF VoteFor
<1>10. ASSUME NEW c \in Askers, RequestAdmin(c) PROVE RaceInv'
  BY <1>10, <1>a DEF RaceInv, Nested, RequestAdmin
<1>11. ASSUME NEW c \in Askers, NEW right \in BOOLEAN, RedeemAdmin(c, right) PROVE RaceInv'
  BY <1>11, <1>a DEF RaceInv, Nested, RedeemAdmin
<1>12. ASSUME NEW c \in Askers, StartCommand(c) PROVE RaceInv'
  BY <1>12, StartRaceInv DEF StartCommand, RaceInv, Nested
<1>13. ASSUME NEW c \in Askers, NEW n \in 1 .. NMaps, MapCommand(c, n) PROVE RaceInv'
  BY <1>13, <1>b DEF MapCommand
<1>14. ASSUME NEW c \in Askers, NEW n \in LapCounts, LapsCommand(c, n) PROVE RaceInv'
  BY <1>14, <1>a DEF RaceInv, Nested, LapsCommand
<1>15. ASSUME EndTimer \/ GraceRunsOut PROVE RaceInv'
  <2>1. EndRace(lobby, vote, told) /\ UNCHANGED <<conn, info, lobby, admin>>
    BY <1>15 DEF EndTimer, GraceRunsOut
  <2> QED BY <2>1, EndRaceInv DEF RaceInv, Nested
<1>16. CASE UNCHANGED vars
  BY <1>16, <1>a DEF RaceInv, Nested, vars
<1> QED
  BY <1>1, <1>2, <1>3, <1>4, <1>5, <1>6, <1>7, <1>8, <1>9, <1>10, <1>11, <1>12,
     <1>13, <1>14, <1>15, <1>16
  DEF Next, Joining, Driving, Leaving, Commands, Timers

\* The inductive invariant holds in every reachable state.
THEOREM RaceInvariant == Spec => [](TypeOK /\ RaceInv)
<1>1. Init => TypeOK /\ RaceInv
  BY InitType, InitInv
<1>2. (TypeOK /\ RaceInv) /\ [Next]_vars => (TypeOK /\ RaceInv)'
  BY NextType, NextInv
<1> QED BY <1>1, <1>2, PTL DEF Spec

\* A race never runs with an empty lobby.
THEOREM RaceNeedsALobby == Spec => []RaceHasALobby
<1>1. TypeOK /\ RaceInv => RaceHasALobby
  BY DEF RaceInv
<1> QED BY <1>1, RaceInvariant, PTL

\* RaceEnd is scheduled exactly when nobody is left driving.
THEOREM EndIsDue == Spec => []EndIsDueWhenAllAreHome
<1>1. TypeOK /\ RaceInv => EndIsDueWhenAllAreHome
  BY DEF RaceInv
<1> QED BY <1>1, RaceInvariant, PTL

\* Nothing of a race survives its end.
THEOREM CleanBetweenRaces == Spec => []NothingLeftOfTheLastRace
<1>1. TypeOK /\ RaceInv => NothingLeftOfTheLastRace
  BY DEF RaceInv
<1> QED BY <1>1, RaceInvariant, PTL

\* Votes are cast by lobby members, and off a race for another map.
THEOREM VotesMakeSense == Spec => []VotesAreForAnotherMap
<1>1. TypeOK /\ RaceInv => VotesAreForAnotherMap
  BY DEF RaceInv
<1> QED BY <1>1, RaceInvariant, PTL
-----------------------------------------------------------------------------
(* Steps *)

\* A leave shrinks the field by the leavers, unless it ends the race.
LEMMA RemoveClientsKeepsTheRace ==
    ASSUME TypeOK, RaceInv, NEW S, RemoveClients(S), racing, racing'
    PROVE  racers' = racers \cap lobby' /\ map' = map /\ goSent' = goSent
<1>1. ~LobbyEmptied(lobby \ S)
  BY DEF RemoveClients, EndRace
<1>2. racers' = racers \ S /\ map' = map /\ goSent' = goSent /\ lobby' = lobby \ S
  BY <1>1 DEF RemoveClients
<1> QED BY <1>2 DEF RaceInv, Nested

\* Under a race neither the field nor the map changes but by leaves.
LEMMA NextKeepsTheRace == TypeOK /\ RaceInv /\ [Next]_vars => KeepsTheRace
<1> SUFFICES ASSUME TypeOK, RaceInv, [Next]_vars, racing, racing'
             PROVE  racers' = racers \cap lobby' /\ map' = map
  BY DEF KeepsTheRace
<1> USE DEF rosterVars, raceVars, rotationVars, adminVars
<1>0. racers \subseteq lobby
  BY DEF RaceInv, Nested
<1>1. ASSUME Joining PROVE racers' = racers \cap lobby' /\ map' = map
  BY <1>0, <1>1 DEF Joining, Connect, ReceiveClientInfo, GarageState
<1>2. ASSUME Driving PROVE racers' = racers \cap lobby' /\ map' = map
  BY <1>0, <1>2 DEF Driving, Ready, CrossedFinish
<1>3. ASSUME NEW S, RemoveClients(S) PROVE racers' = racers \cap lobby' /\ map' = map
  BY <1>3, RemoveClientsKeepsTheRace
<1>4. CASE Leaving
  BY <1>3, <1>4 DEF Leaving, Disconnect, TimeOut
<1>5. ASSUME Commands PROVE racers' = racers \cap lobby' /\ map' = map
  <2>1. ASSUME NEW c \in Voters, NEW n \in 1 .. NMaps, VoteFor(c, n)
        PROVE  racers' = racers \cap lobby' /\ map' = map
    BY <1>0, <2>1 DEF VoteFor
  <2>2. ASSUME NEW c \in Askers, NEW d \in Clients, Kick(c, d)
        PROVE  racers' = racers \cap lobby' /\ map' = map
    BY <1>3, <2>2 DEF Kick
  <2>3. ASSUME NEW c \in Askers, \/ RequestAdmin(c)
                                 \/ \E right \in BOOLEAN : RedeemAdmin(c, right)
                                 \/ StartCommand(c)
                                 \/ \E n \in 1 .. NMaps : MapCommand(c, n)
                                 \/ \E n \in LapCounts : LapsCommand(c, n)
        PROVE  racers' = racers \cap lobby' /\ map' = map
    BY <1>0, <2>3 DEF RequestAdmin, RedeemAdmin, StartCommand, MapCommand, LapsCommand
  <2> QED BY <1>5, <2>1, <2>2, <2>3 DEF Commands
<1>6. CASE Timers
  BY <1>6 DEF Timers, EndTimer, GraceRunsOut, EndRace
<1>7. CASE UNCHANGED vars
  BY <1>0, <1>7 DEF vars
<1> QED BY <1>1, <1>2, <1>4, <1>5, <1>6, <1>7 DEF Next

\* The field only loses leavers and the map stays, throughout every race.
THEOREM FieldAndMapAreFixed == Spec => RaceIsFixed
<1>1. (TypeOK /\ RaceInv) /\ [Next]_vars => [KeepsTheRace]_vars
  BY NextKeepsTheRace
<1> QED BY <1>1, RaceInvariant, PTL DEF Spec, RaceIsFixed

\* A race starts from a lobby that is ready but for the one being heard, or by an admin.
LEMMA NextStartsUnanimously == TypeOK /\ RaceInv /\ [Next]_vars => UnanimousOrForced
<1> SUFFICES ASSUME TypeOK, RaceInv, [Next]_vars, ~racing, racing'
             PROVE  /\ racers' = lobby /\ lobby # {}
                    /\ admin # {} \/ \E c \in Clients : lobby \ {c} \subseteq ready
  BY DEF UnanimousOrForced
<1> USE DEF rosterVars, raceVars, rotationVars, adminVars
<1>1. ASSUME NEW c \in Clients, NEW b \in BOOLEAN, Ready(c, b)
      PROVE  /\ racers' = lobby /\ lobby # {}
             /\ lobby \ {c} \subseteq ready
  <2>1. AllReady(lobby, WithFlag(c, b)) /\ StartRace
    BY <1>1 DEF Ready
  <2>2. lobby # {} /\ lobby \subseteq WithFlag(c, b)
    BY <2>1 DEF AllReady
  <2>3. lobby \ {c} \subseteq ready
    BY <2>2 DEF WithFlag
  <2> QED BY <2>1, <2>2, <2>3 DEF StartRace
<1>2. ASSUME NEW c \in Askers, StartCommand(c)
      PROVE  racers' = lobby /\ lobby # {} /\ admin # {}
  BY <1>2 DEF StartCommand, StartRace
<1>3. ~ \E S : RemoveClients(S)
  BY DEF RemoveClients, LobbyEmptied
<1>4. ~Joining /\ ~Leaving /\ ~Timers /\ ~UNCHANGED vars
  BY <1>3 DEF Joining, Connect, ReceiveClientInfo, GarageState, Leaving, Disconnect, TimeOut,
              Timers, EndTimer, GraceRunsOut, vars
<1>5. CASE Driving
  <2>1. \E c \in Clients, b \in BOOLEAN : Ready(c, b)
    BY <1>5 DEF Driving, CrossedFinish
  <2> QED BY <1>1, <2>1
<1>6. CASE Commands
  <2>1. \E c \in Askers : StartCommand(c)
    BY <1>3, <1>6 DEF Commands, VoteFor, RequestAdmin, RedeemAdmin, MapCommand, LapsCommand, Kick
  <2> QED BY <1>2, <2>1
<1> QED BY <1>4, <1>5, <1>6 DEF Next

\* No race starts before its time.
THEOREM StartsAreUnanimous == Spec => StartIsUnanimous
<1>1. (TypeOK /\ RaceInv) /\ [Next]_vars => [UnanimousOrForced]_vars
  BY NextStartsUnanimously
<1> QED BY <1>1, RaceInvariant, PTL DEF Spec, StartIsUnanimous
\* RaceGo goes out with the confirm that completes the field, never by a leave.
LEMMA NextGoWaits == TypeOK /\ RaceInv /\ [Next]_vars => AllAtTheGrid
<1> SUFFICES ASSUME TypeOK, RaceInv, [Next]_vars, ~goSent, goSent'
             PROVE  racers' # {} /\ racers' \subseteq ready'
  BY DEF AllAtTheGrid
<1> USE DEF rosterVars, raceVars, rotationVars, adminVars
<1>1. ASSUME NEW c \in Clients, NEW b \in BOOLEAN, Ready(c, b)
      PROVE  racers' # {} /\ racers' \subseteq ready'
  <2>1. racing
    BY <1>1 DEF Ready, StartRace
  <2>2. ready' = WithFlag(c, b) /\ racers' = racers /\ ConfirmsLast(c, b)
    BY <1>1, <2>1 DEF Ready
  <2> QED BY <2>2 DEF ConfirmsLast, AllConfirmed
<1>2. \A S : ~RemoveClients(S)
  BY DEF RemoveClients, EndRace
<1>3. ~Joining /\ ~Leaving /\ ~Timers /\ ~Commands /\ ~UNCHANGED vars
  BY <1>2 DEF Joining, Connect, ReceiveClientInfo, GarageState, Leaving, Disconnect, TimeOut,
              Timers, EndTimer, GraceRunsOut, EndRace, Commands, VoteFor, RequestAdmin,
              RedeemAdmin, StartCommand, StartRace, MapCommand, LapsCommand, Kick, vars
<1>4. ~ \E c \in Clients, t \in Times : CrossedFinish(c, t)
  BY DEF CrossedFinish
<1> QED BY <1>1, <1>3, <1>4 DEF Next, Driving

\* RaceGo waits for the whole field.
THEOREM GoWaits == Spec => GoWaitsForEveryone
<1>1. (TypeOK /\ RaceInv) /\ [Next]_vars => [AllAtTheGrid]_vars
  BY NextGoWaits
<1> QED BY <1>1, RaceInvariant, PTL DEF Spec, GoWaitsForEveryone

-----------------------------------------------------------------------------
(* What the lobby has been told *)

\* set_map leaves everyone in the lobby told of the map it moved to.
LEMMA SetMapTells ==
    ASSUME NEW i, NEW L, NEW heard, SetMap(i, L, heard), L \subseteq Clients
    PROVE  \A c \in L : told'[c] = Describe(map, laps)'
  BY DEF SetMap, Tell, Describe

LEMMA RemoveClientsTells ==
    ASSUME TypeOK, LobbyKnowsTheNextRace, NEW S, RemoveClients(S)
    PROVE  LobbyKnowsTheNextRace'
<1>1. lobby' = lobby \ S /\ lobby' \subseteq Clients
  BY DEF RemoveClients, TypeOK
<1>2. CASE LobbyEmptied(lobby \ S)
  BY <1>1, <1>2 DEF LobbyEmptied, LobbyKnowsTheNextRace
<1>3. CASE ~LobbyEmptied(lobby \ S)
  <2>1. told' = Tell(told, S, Untold) /\ UNCHANGED <<racing, map, laps>>
    BY <1>3 DEF RemoveClients
  <2> QED BY <1>1, <2>1 DEF LobbyKnowsTheNextRace, Tell, Describe
<1> QED BY <1>2, <1>3

LEMMA NextTells == TypeOK /\ LobbyKnowsTheNextRace /\ [Next]_vars => LobbyKnowsTheNextRace'
<1> SUFFICES ASSUME TypeOK, LobbyKnowsTheNextRace, [Next]_vars
             PROVE  LobbyKnowsTheNextRace'
  OBVIOUS
<1> USE DEF rosterVars, raceVars, rotationVars, adminVars
<1>0. lobby \subseteq Clients
  BY DEF TypeOK
<1>a. ASSUME UNCHANGED <<lobby, told, map, laps>>, racing' \/ racing' = racing
      PROVE  LobbyKnowsTheNextRace'
  BY <1>a DEF LobbyKnowsTheNextRace, Describe
<1>b. ASSUME NEW i, SetMap(i, lobby, told), lobby' = lobby PROVE LobbyKnowsTheNextRace'
  BY <1>0, <1>b, SetMapTells DEF LobbyKnowsTheNextRace
<1>1. ASSUME NEW c \in Clients, Connect(c) \/ ReceiveClientInfo(c) PROVE LobbyKnowsTheNextRace'
  BY <1>1, <1>a DEF Connect, ReceiveClientInfo
<1>2. ASSUME NEW c \in Clients, GarageState(c) PROVE LobbyKnowsTheNextRace'
  <2>1. lobby' = lobby \cup {c} /\ UNCHANGED <<racing, map, laps>>
    BY <1>2 DEF GarageState
  <2>2. CASE c \in lobby
    BY <1>2, <2>1, <2>2, <1>a DEF GarageState
  <2>3. CASE c \notin lobby
    <3>1. told' = Tell(told, {c}, Describe(Upcoming, laps))
      BY <1>2, <2>3 DEF GarageState
    <3> QED BY <1>0, <2>1, <3>1 DEF LobbyKnowsTheNextRace, Tell, Upcoming, Describe
  <2> QED BY <2>2, <2>3
<1>3. ASSUME NEW c \in Clients, NEW b \in BOOLEAN, Ready(c, b) PROVE LobbyKnowsTheNextRace'
  BY <1>3, <1>a DEF Ready, StartRace
<1>4. ASSUME NEW c \in Clients, NEW t \in Times, CrossedFinish(c, t) PROVE LobbyKnowsTheNextRace'
  BY <1>4, <1>a DEF CrossedFinish
<1>5. CASE Leaving
  BY <1>5, RemoveClientsTells DEF Leaving, Disconnect, TimeOut
<1>6. ASSUME NEW c \in Voters, NEW n \in 1 .. NMaps, VoteFor(c, n) PROVE LobbyKnowsTheNextRace'
  BY <1>6, <1>a, <1>b DEF VoteFor
<1>7. ASSUME NEW c \in Askers, RequestAdmin(c) \/ (\E right \in BOOLEAN : RedeemAdmin(c, right))
      PROVE  LobbyKnowsTheNextRace'
  BY <1>7, <1>a DEF RequestAdmin, RedeemAdmin
<1>8. ASSUME NEW c \in Askers, StartCommand(c) PROVE LobbyKnowsTheNextRace'
  BY <1>8, <1>a DEF StartCommand, StartRace
<1>9. ASSUME NEW c \in Askers, NEW n \in 1 .. NMaps, MapCommand(c, n) PROVE LobbyKnowsTheNextRace'
  BY <1>9, <1>b DEF MapCommand
<1>10. ASSUME NEW c \in Askers, NEW n \in LapCounts, LapsCommand(c, n) PROVE LobbyKnowsTheNextRace'
  <2>1. /\ told' = Tell(told, lobby, Describe(Upcoming, laps'))
        /\ UNCHANGED <<lobby, racing, map>>
    BY <1>10 DEF LapsCommand
  <2> QED BY <1>0, <2>1 DEF LobbyKnowsTheNextRace, Tell, Upcoming, Describe
<1>11. ASSUME NEW a \in Askers, NEW c \in Clients, Kick(a, c) PROVE LobbyKnowsTheNextRace'
  BY <1>11, RemoveClientsTells DEF Kick
<1>12. CASE Timers
  <2>1. \E i : SetMap(i, lobby, told) /\ lobby' = lobby
    BY <1>12 DEF Timers, EndTimer, GraceRunsOut, EndRace
  <2> QED BY <2>1, <1>b
<1>13. CASE UNCHANGED vars
  BY <1>13, <1>a DEF vars
<1> QED
  BY <1>1, <1>2, <1>3, <1>4, <1>5, <1>6, <1>7, <1>8, <1>9, <1>10, <1>11, <1>12, <1>13
  DEF Next, Joining, Driving, Commands

\* Between races the whole lobby knows which race it would start.
THEOREM LobbyIsTold == Spec => []LobbyKnowsTheNextRace
<1>1. Init => LobbyKnowsTheNextRace
  BY DEF Init, LobbyKnowsTheNextRace
<1>2. TypeOK /\ LobbyKnowsTheNextRace /\ [Next]_vars => LobbyKnowsTheNextRace'
  BY NextTells
<1> QED BY <1>1, <1>2, TypeCorrect, PTL DEF Spec

-----------------------------------------------------------------------------
(* Votes *)

\* A set of naturals that is not empty has a least element.
LEMMA LeastNatural ==
    \A T \in SUBSET Nat : T # {} => \E x \in T : \A y \in T : x <= y
<1> SUFFICES ASSUME NEW T \in SUBSET Nat, T # {} PROVE \E x \in T : \A y \in T : x <= y
  OBVIOUS
<1> DEFINE R == OpToRel(<, Nat)
<1>1. IsWellFoundedOn(R, Nat)
  BY NatLessThanWellFounded
<1>2. PICK x \in T : \A y \in T : ~(<<y, x>> \in R)
  <2> HIDE DEF R
  <2> QED BY <1>1, WFMin
<1>3. \A y \in T : ~(y < x)
  BY <1>2 DEF OpToRel
<1> QED BY <1>3

\* The votes for an entry are some of the lobby.
LEMMA TallyType ==
    ASSUME NEW v, NEW L, IsFiniteSet(L), NEW i
    PROVE  Tally(v, L, i) \in Nat /\ Tally(v, L, i) <= Cardinality(L)
<1>1. {c \in L : v[c] = i} \subseteq L
  OBVIOUS
<1> QED BY <1>1, FS_Subset, FS_CardinalityType DEF Tally

\* An entry is voted for exactly when it has a vote.
LEMMA TallyPositive ==
    ASSUME NEW v, NEW L, IsFiniteSet(L), NEW i
    PROVE  Tally(v, L, i) > 0 <=> \E c \in L : v[c] = i
<1> DEFINE S == {c \in L : v[c] = i}
<1>1. IsFiniteSet(S)
  BY FS_Subset
<1>2. Cardinality(S) \in Nat /\ (Cardinality(S) = 0 <=> S = {})
  BY <1>1, FS_CardinalityType, FS_EmptySet
<1> QED BY <1>2 DEF Tally

\* Once somebody in the lobby has voted there is a leader: the earliest of the
\* entries with the most votes.
LEMMA LeaderExists ==
    ASSUME NEW v, NEW L, IsFiniteSet(L), NEW c \in L, v[c] \in Maps
    PROVE  Leaders(v, L) # {}
<1> DEFINE n == Cardinality(L)
           behind == {n - Tally(v, L, i) : i \in Maps}
<1>1. n \in Nat /\ behind \subseteq Nat
  <2>1. \A i \in Maps : n - Tally(v, L, i) \in Nat
    BY TallyType, FS_CardinalityType
  <2> QED BY <2>1, FS_CardinalityType
<1>2. behind # {}
  OBVIOUS
<1>3. PICK least \in behind : \A y \in behind : least <= y
  BY <1>1, <1>2, LeastNatural
<1>4. PICK top \in Maps : least = n - Tally(v, L, top)
  BY <1>3
<1>5. ASSUME NEW i \in Maps PROVE Tally(v, L, i) <= Tally(v, L, top)
  <2>1. n - Tally(v, L, top) <= n - Tally(v, L, i)
    BY <1>3, <1>4
  <2>2. Tally(v, L, i) \in Nat /\ Tally(v, L, top) \in Nat
    BY TallyType
  <2> QED BY <1>1, <2>1, <2>2
<1> DEFINE tops == {i \in Maps : Tally(v, L, i) = Tally(v, L, top)}
<1>6. tops \subseteq Nat /\ tops # {}
  BY <1>4 DEF Maps
<1>7. PICK first \in tops : \A y \in tops : first <= y
  BY <1>6, LeastNatural
<1>8. Tally(v, L, first) > 0
  <2>1. Tally(v, L, v[c]) > 0
    BY TallyPositive
  <2>2. Tally(v, L, v[c]) <= Tally(v, L, first)
    BY <1>5, <1>7
  <2>3. Tally(v, L, v[c]) \in Nat /\ Tally(v, L, first) \in Nat
    BY TallyType
  <2> QED BY <2>1, <2>2, <2>3
<1>9. ASSUME NEW j \in Maps \ {first} PROVE Beats(v, L, first, j)
  <2>1. Tally(v, L, j) \in Nat /\ Tally(v, L, first) \in Nat
    BY TallyType
  <2>2. Tally(v, L, j) <= Tally(v, L, first)
    BY <1>5, <1>7
  <2>3. CASE Tally(v, L, j) = Tally(v, L, first)
    <3>1. j \in tops /\ first \in Nat /\ j \in Nat
      BY <1>6, <1>7, <2>3 DEF Maps
    <3>2. first <= j /\ first # j
      BY <1>7, <3>1
    <3> QED BY <2>3, <3>1, <3>2 DEF Beats
  <2> QED BY <2>1, <2>2, <2>3 DEF Beats
<1>10. first \in Leaders(v, L)
  BY <1>7, <1>8, <1>9 DEF Leaders
<1> QED BY <1>10

\* What end_race chooses, in words of the votes alone.
Chosen(v, L, m, next) ==
    IF \E c \in L : v[c] # NoVote
    THEN \A i \in Maps \ {next} :
            \/ Tally(v, L, i) < Tally(v, L, next)
            \/ Tally(v, L, i) = Tally(v, L, next) /\ next < i
    ELSE next = Following(m)

LEMMA NextMapIsChosen ==
    ASSUME NEW v, NEW L, IsFiniteSet(L), \A c \in L : v[c] \in Maps \cup {NoVote}, NEW m
    PROVE  Chosen(v, L, m, NextMap(v, L, m))
<1>1. CASE \E c \in L : v[c] # NoVote
  <2>1. Leaders(v, L) # {}
    BY <1>1, LeaderExists
  <2> DEFINE next == CHOOSE i \in Leaders(v, L) : TRUE
  <2>2. next \in Leaders(v, L) /\ NextMap(v, L, m) = next
    BY <2>1 DEF NextMap
  <2> HIDE DEF next
  <2>3. \A i \in Maps \ {next} : Beats(v, L, next, i)
    BY <2>2 DEF Leaders
  <2>4. ASSUME NEW i \in Maps \ {next}
        PROVE  \/ Tally(v, L, i) < Tally(v, L, next)
               \/ Tally(v, L, i) = Tally(v, L, next) /\ next < i
    <3>1. Tally(v, L, i) \in Nat /\ Tally(v, L, next) \in Nat
      BY TallyType
    <3> QED BY <2>3, <3>1 DEF Beats
  <2> QED BY <1>1, <2>2, <2>4 DEF Chosen
<1>2. CASE ~\E c \in L : v[c] # NoVote
  <2>1. ASSUME NEW i \in Maps PROVE ~(Tally(v, L, i) > 0)
    <3>1. i # NoVote
      BY DEF Maps, NoVote
    <3> QED BY <1>2, <3>1, TallyPositive
  <2>2. Leaders(v, L) = {}
    BY <2>1 DEF Leaders
  <2> QED BY <1>2, <2>2 DEF NextMap, Chosen
<1> QED BY <1>1, <1>2

\* Whoever joins joins alone, so a lobby is finite.
LobbyIsFinite == IsFiniteSet(lobby)

LEMMA NextLobbyIsFinite == LobbyIsFinite /\ [Next]_vars => LobbyIsFinite'
<1> SUFFICES ASSUME LobbyIsFinite, [Next]_vars PROVE IsFiniteSet(lobby')
  BY DEF LobbyIsFinite
<1> USE DEF LobbyIsFinite, rosterVars
<1>1. ASSUME NEW S, RemoveClients(S) PROVE IsFiniteSet(lobby')
  <2>1. lobby' \subseteq lobby
    BY <1>1 DEF RemoveClients
  <2> QED BY <2>1, FS_Subset
<1>2. CASE Joining
  BY <1>2, FS_AddElement DEF Joining, Connect, ReceiveClientInfo, GarageState
<1>3. CASE Driving
  BY <1>3 DEF Driving, Ready, CrossedFinish
<1>4. CASE Leaving
  BY <1>1, <1>4 DEF Leaving, Disconnect, TimeOut
<1>5. CASE Commands
  BY <1>1, <1>5 DEF Commands, VoteFor, RequestAdmin, RedeemAdmin, StartCommand, MapCommand,
                    LapsCommand, Kick
<1>6. CASE Timers
  BY <1>6 DEF Timers, EndTimer, GraceRunsOut
<1>7. CASE UNCHANGED vars
  BY <1>7 DEF vars
<1> QED BY <1>2, <1>3, <1>4, <1>5, <1>6, <1>7 DEF Next

LEMMA FiniteLobby == Spec => []LobbyIsFinite
<1>1. Init => LobbyIsFinite
  BY FS_EmptySet DEF Init, LobbyIsFinite
<1> QED BY <1>1, NextLobbyIsFinite, PTL DEF Spec

\* Only the end of a race ends a race, and a race that ends with people in the
\* lobby moves on to the entry the votes choose.
EndChooses == racing /\ ~racing' /\ lobby' # {} => Chosen(vote, lobby, map, map')

LEMMA NextEndChooses == TypeOK /\ RaceInv /\ LobbyIsFinite /\ [Next]_vars => EndChooses
<1> SUFFICES ASSUME TypeOK, RaceInv, LobbyIsFinite, [Next]_vars, racing, ~racing', lobby' # {}
             PROVE  Chosen(vote, lobby, map, map')
  BY DEF EndChooses
<1> USE DEF rosterVars, raceVars, rotationVars
<1>1. ASSUME NEW S, RemoveClients(S) PROVE FALSE
  BY <1>1 DEF RemoveClients, LobbyEmptied
<1>2. CASE Joining
  BY <1>2 DEF Joining, Connect, ReceiveClientInfo, GarageState
<1>3. CASE Driving
  BY <1>3 DEF Driving, Ready, CrossedFinish
<1>4. CASE Leaving
  BY <1>1, <1>4 DEF Leaving, Disconnect, TimeOut
<1>5. CASE Commands
  BY <1>1, <1>5 DEF Commands, VoteFor, RequestAdmin, RedeemAdmin, StartCommand, MapCommand,
                    LapsCommand, Kick
<1>6. CASE Timers
  <2>1. map' = NextMap(vote, lobby, map)
    BY <1>6 DEF Timers, EndTimer, GraceRunsOut, EndRace, SetMap
  <2>2. \A c \in lobby : vote[c] \in Maps \cup {NoVote}
    BY DEF TypeOK
  <2> QED BY <2>1, <2>2, NextMapIsChosen DEF LobbyIsFinite
<1>7. CASE UNCHANGED vars
  BY <1>7 DEF vars
<1> QED BY <1>2, <1>3, <1>4, <1>5, <1>6, <1>7 DEF Next

\* The race that ends is followed by the leader of the votes, ties to the
\* earlier entry, or by the next entry, for any lobby and rotation.
THEOREM VotesDecide == Spec => VoteDecidesTheNextMap
<1>1. (TypeOK /\ RaceInv) /\ LobbyIsFinite /\ [Next]_vars =>
        [racing /\ ~racing' /\ lobby' # {} =>
            IF \E c \in lobby : vote[c] # NoVote
            THEN \A i \in Maps \ {map'} :
                    \/ Tally(vote, lobby, i) < Tally(vote, lobby, map')
                    \/ Tally(vote, lobby, i) = Tally(vote, lobby, map') /\ map' < i
            ELSE map' = Following(map)]_vars
  BY NextEndChooses DEF EndChooses, Chosen
<1> QED BY <1>1, RaceInvariant, FiniteLobby, PTL DEF Spec, VoteDecidesTheNextMap

\* One vote adds at most one to the votes for an entry.
LEMMA TallyOfOneMore ==
    ASSUME NEW L, IsFiniteSet(L), NEW c, NEW v \in [Clients -> Maps \cup {NoVote}], NEW i, NEW j,
           L \subseteq Clients
    PROVE  Tally([v EXCEPT ![c] = j], L, i) <= Tally(v, L, i) + 1
<1> DEFINE S == {d \in L : v[d] = i}
           T == {d \in L : [v EXCEPT ![c] = j][d] = i}
<1>1. T \subseteq S \cup {c}
  OBVIOUS
<1>2. IsFiniteSet(S) /\ IsFiniteSet(S \cup {c})
  BY FS_Subset, FS_AddElement
<1>3. Cardinality(S \cup {c}) <= Cardinality(S) + 1
  BY <1>2, FS_AddElement, FS_CardinalityType
<1>4. Cardinality(T) <= Cardinality(S \cup {c}) /\ IsFiniteSet(T)
  BY <1>1, <1>2, FS_Subset
<1>5. Cardinality(T) \in Nat /\ Cardinality(S) \in Nat /\ Cardinality(S \cup {c}) \in Nat
  BY <1>2, <1>4, FS_CardinalityType
<1>6. Cardinality(T) <= Cardinality(S) + 1
  BY <1>3, <1>4, <1>5
<1> QED BY <1>6 DEF Tally

SwitchedByMost ==
    ~racing /\ map' # map =>
        admin # {} \/ 2 * (Tally(vote, lobby, map') + 1) > Cardinality(lobby)

LEMMA NextSwitches == TypeOK /\ RaceInv /\ LobbyIsFinite /\ [Next]_vars => SwitchedByMost
<1> SUFFICES ASSUME TypeOK, RaceInv, LobbyIsFinite, [Next]_vars, ~racing, map' # map
             PROVE  admin # {} \/ 2 * (Tally(vote, lobby, map') + 1) > Cardinality(lobby)
  BY DEF SwitchedByMost
<1> USE DEF rosterVars, raceVars, rotationVars, adminVars
<1>1. ASSUME NEW S, RemoveClients(S) PROVE FALSE
  BY <1>1 DEF RemoveClients, LobbyEmptied
<1>2. CASE Joining
  BY <1>2 DEF Joining, Connect, ReceiveClientInfo, GarageState
<1>3. CASE Driving
  BY <1>3 DEF Driving, Ready, CrossedFinish, StartRace
<1>4. CASE Leaving
  BY <1>1, <1>4 DEF Leaving, Disconnect, TimeOut
<1>5. CASE Commands
  <2>1. ASSUME NEW c \in Voters, NEW n \in 1 .. NMaps, VoteFor(c, n)
        PROVE  2 * (Tally(vote, lobby, map') + 1) > Cardinality(lobby)
    <3> DEFINE i == FindMap(n)
               v == [vote EXCEPT ![c] = i]
    <3>1. map' = i /\ HasMajority(v, lobby, i)
      BY <2>1 DEF VoteFor, SetMap
    <3>2. Tally(v, lobby, i) <= Tally(vote, lobby, i) + 1
      BY TallyOfOneMore DEF TypeOK, LobbyIsFinite
    <3>3. /\ Tally(v, lobby, i) \in Nat /\ Tally(vote, lobby, i) \in Nat
          /\ Cardinality(lobby) \in Nat
      BY TallyType, FS_CardinalityType DEF LobbyIsFinite
    <3>4. Tally(v, lobby, i) >= Cardinality(lobby) \div 2 + 1
      BY <3>1 DEF HasMajority, Needed
    <3> HIDE DEF i, v
    <3>5. 2 * (Tally(vote, lobby, i) + 1) > Cardinality(lobby)
      BY <3>2, <3>3, <3>4
    <3> QED BY <3>1, <3>5
  <2>2. ASSUME NEW c \in Askers, NEW d \in Clients, Kick(c, d) PROVE FALSE
    BY <1>1, <2>2 DEF Kick
  <2>3. ASSUME NEW c \in Askers, \/ RequestAdmin(c)
                                 \/ \E right \in BOOLEAN : RedeemAdmin(c, right)
                                 \/ StartCommand(c)
                                 \/ \E n \in 1 .. NMaps : MapCommand(c, n)
                                 \/ \E n \in LapCounts : LapsCommand(c, n)
        PROVE  admin # {}
    BY <2>3 DEF RequestAdmin, RedeemAdmin, StartCommand, StartRace, MapCommand, LapsCommand
  <2> QED BY <1>5, <2>1, <2>2, <2>3 DEF Commands
<1>6. CASE Timers
  BY <1>6 DEF Timers, EndTimer, GraceRunsOut
<1>7. CASE UNCHANGED vars
  BY <1>7 DEF vars
<1> QED BY <1>2, <1>3, <1>4, <1>5, <1>6, <1>7 DEF Next

\* Between races only an admin or more than half of the lobby moves the map.
THEOREM SwitchesTakeAMajority == Spec => SwitchNeedsAMajority
<1>1. (TypeOK /\ RaceInv) /\ LobbyIsFinite /\ [Next]_vars =>
        [~racing /\ map' # map =>
            admin # {} \/ 2 * (Tally(vote, lobby, map') + 1) > Cardinality(lobby)]_vars
  BY NextSwitches DEF SwitchedByMost
<1> QED BY <1>1, RaceInvariant, FiniteLobby, PTL DEF Spec, SwitchNeedsAMajority
-----------------------------------------------------------------------------
(* Refinement: RaceLobby implements the safety part of RaceCycle *)

LEMMA InitRefines == Init => Cycle!Init
  BY DEF Init, Cycle!Init, Cycle!Idle

\* A leave maps to a leave, with the end of the race in it if the lobby emptied.
LEMMA RemoveClientsRefines ==
    ASSUME TypeOK, RaceInv, NEW S \in SUBSET Clients, RemoveClients(S)
    PROVE  Cycle!Leave
<1>1. lobby' = lobby \ S
  BY DEF RemoveClients
<1>2. CASE LobbyEmptied(lobby \ S)
  <2>1. \E v, heard : EndRace(lobby \ S, v, heard) /\ map' = NextMap(v, lobby \ S, map)
    BY <1>2 DEF RemoveClients, EndRace, SetMap
  <2>2. map' \in 0 .. NMaps - 1
    BY <2>1, NextMapType DEF TypeOK, Maps
  <2>3. /\ racing' = FALSE /\ racers' = {} /\ finished' = {} /\ graceOn' = FALSE
    BY <2>1 DEF EndRace, LowerRaceFlags
  <2>4. Cycle!Over
    BY <2>2, <2>3 DEF Cycle!Over
  <2>5. lobby' = {} /\ racing
    BY <1>1, <1>2 DEF LobbyEmptied
  <2> QED BY <1>1, <2>4, <2>5 DEF Cycle!Leave
<1>3. CASE ~LobbyEmptied(lobby \ S)
  <2>1. /\ racers' = racers \ S /\ finished' = finished \ S
        /\ UNCHANGED <<racing, graceOn, map>>
    BY <1>3 DEF RemoveClients
  <2>2. lobby' # {} \/ ~racing
    BY <1>1, <1>3 DEF LobbyEmptied
  <2>3. (finished \cap racers)' = (finished \cap racers) \ S
    BY <2>1
  <2> QED BY <1>1, <2>1, <2>2, <2>3 DEF Cycle!Leave
<1> QED BY <1>2, <1>3

\* Every step of the server is a step of the abstract cycle or invisible to it.
LEMMA NextRefines == TypeOK /\ RaceInv /\ [Next]_vars => [Cycle!Next]_(Cycle!vars)
<1> SUFFICES ASSUME TypeOK, RaceInv, [Next]_vars PROVE [Cycle!Next]_(Cycle!vars)
  OBVIOUS
<1> USE DEF rosterVars, raceVars, rotationVars, adminVars
<1>a. ASSUME UNCHANGED <<lobby, racing, racers, finished, graceOn, map>>
      PROVE  UNCHANGED Cycle!vars
  BY <1>a DEF Cycle!vars
<1>b. ASSUME StartRace, lobby # {}, ~racing, lobby' = lobby PROVE Cycle!Start
  BY <1>b DEF StartRace, Cycle!Start
<1>c. ASSUME NEW i \in Maps, SetMap(i, lobby, told), ~racing,
             UNCHANGED <<lobby, racing, racers, finished, graceOn>>
      PROVE  Cycle!ChangeTrack
  BY <1>c DEF SetMap, Cycle!ChangeTrack, Maps
<1>1. ASSUME NEW c \in Clients, Connect(c) \/ ReceiveClientInfo(c) PROVE UNCHANGED Cycle!vars
  BY <1>1, <1>a DEF Connect, ReceiveClientInfo
<1>2. ASSUME NEW c \in Clients, GarageState(c) PROVE Cycle!Join
  BY <1>2 DEF GarageState, Cycle!Join
<1>3. ASSUME NEW c \in Clients, NEW b \in BOOLEAN, Ready(c, b)
      PROVE  Cycle!Start \/ UNCHANGED Cycle!vars
  <2>1. CASE ~racing /\ AllReady(lobby, WithFlag(c, b))
    BY <1>3, <1>b, <2>1 DEF Ready, AllReady
  <2>2. CASE racing \/ ~AllReady(lobby, WithFlag(c, b))
    BY <1>3, <1>a, <2>2 DEF Ready
  <2> QED BY <2>1, <2>2
<1>4. ASSUME NEW c \in Clients, NEW t \in Times, CrossedFinish(c, t)
      PROVE  Cycle!Cross \/ UNCHANGED Cycle!vars
  <2>1. CASE racing
    <3>1. /\ finished' = finished \cup {c} /\ graceOn' = TRUE
          /\ UNCHANGED <<lobby, racing, racers, map>>
      BY <1>4, <2>1 DEF CrossedFinish
    <3>2. (finished \cap racers)' = (finished \cap racers) \cup ({c} \cap racers)
      BY <3>1
    <3> QED BY <2>1, <3>1, <3>2 DEF Cycle!Cross
  <2>2. CASE ~racing
    BY <1>4, <1>a, <2>2 DEF CrossedFinish
  <2> QED BY <2>1, <2>2
<1>5. CASE Leaving
  <2>1. \E S \in SUBSET Clients : RemoveClients(S)
    BY <1>5 DEF Leaving, Disconnect, TimeOut
  <2>2. Cycle!Leave
    BY <2>1, RemoveClientsRefines
  <2> QED BY <2>2 DEF Cycle!Next
<1>6. ASSUME NEW c \in Voters, NEW n \in 1 .. NMaps, VoteFor(c, n)
      PROVE  Cycle!ChangeTrack \/ UNCHANGED Cycle!vars
  BY <1>6, <1>a, <1>c, FindMapType DEF VoteFor
<1>7. ASSUME NEW c \in Askers, RequestAdmin(c) \/ (\E right \in BOOLEAN : RedeemAdmin(c, right))
      PROVE  UNCHANGED Cycle!vars
  BY <1>7, <1>a DEF RequestAdmin, RedeemAdmin
<1>8. ASSUME NEW c \in Askers, StartCommand(c) PROVE Cycle!Start
  BY <1>8, <1>b DEF StartCommand
<1>9. ASSUME NEW c \in Askers, NEW n \in 1 .. NMaps, MapCommand(c, n) PROVE Cycle!ChangeTrack
  BY <1>9, <1>c, FindMapType DEF MapCommand
<1>10. ASSUME NEW c \in Askers, NEW n \in LapCounts, LapsCommand(c, n) PROVE UNCHANGED Cycle!vars
  BY <1>10, <1>a DEF LapsCommand
<1>11. ASSUME NEW a \in Askers, NEW c \in Clients, Kick(a, c) PROVE Cycle!Leave
  BY <1>11, RemoveClientsRefines DEF Kick
<1>12. CASE Timers
  <2>1. /\ EndRace(lobby, vote, told) /\ lobby' = lobby
        /\ racing /\ (endDue \/ graceOn)
    BY <1>12 DEF Timers, EndTimer, GraceRunsOut
  <2>2. map' = NextMap(vote, lobby, map) /\ map' \in 0 .. NMaps - 1
    BY <2>1, NextMapType DEF EndRace, SetMap, TypeOK, Maps
  <2>3. racing' = FALSE /\ racers' = {} /\ finished' = {} /\ graceOn' = FALSE
    BY <2>1 DEF EndRace, LowerRaceFlags
  <2>4. racers \subseteq finished \cap racers \/ graceOn
    BY <2>1 DEF RaceInv, EndIsDueWhenAllAreHome
  <2> QED BY <2>1, <2>2, <2>3, <2>4 DEF Cycle!Finish, Cycle!Over, Cycle!Next
<1>13. CASE UNCHANGED vars
  BY <1>13, <1>a DEF vars
<1> QED
  BY <1>1, <1>2, <1>3, <1>4, <1>5, <1>6, <1>7, <1>8, <1>9, <1>10, <1>11, <1>12, <1>13
  DEF Next, Joining, Driving, Commands, Cycle!Next

\* The race life cycle of the server is that of RaceCycle.
THEOREM RefinesRaceCycle == Spec => Cycle!Init /\ [][Cycle!Next]_(Cycle!vars)
<1>1. (TypeOK /\ RaceInv) /\ [Next]_vars => [Cycle!Next]_(Cycle!vars)
  BY NextRefines
<1> QED BY <1>1, InitRefines, RaceInvariant, PTL DEF Spec
=============================================================================
