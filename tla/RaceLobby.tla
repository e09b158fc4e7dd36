----------------------------- MODULE RaceLobby ------------------------------
(***************************************************************************)
(* The server's lobby and race state machine (crates/server/src/main.rs,   *)
(* struct Server and struct Client).  The event loop is single threaded:   *)
(* one datagram is handled to completion, then the timers that are due     *)
(* fire, so an action here is one handler or one timer with every call it  *)
(* makes (set_map, start_race, settle_finish, end_race, remove_client).    *)
(*                                                                         *)
(* The map `clients: HashMap<SocketAddr, Client>` is modelled field by     *)
(* field: a Boolean field is the set of clients that have it, and a client *)
(* without an entry has none.  What a handler sends is left out, except    *)
(* what the properties are about: the finish times announced in a race     *)
(* (results, hostTime), RaceGo (goSent) and the upcoming race each client  *)
(* was last told of (told).  Datagrams may come from any client in any     *)
(* order.                                                                  *)
(***************************************************************************)
EXTENDS Rotation

CONSTANTS
    Clients,        \* client addresses
    Times,          \* race times a CrossedFinish can carry
    LapCounts,      \* lap counts of rotation entries and of !laps
    Voters,         \* clients that use !vote
    Askers          \* clients that use !reqadmin and the admin commands

ASSUME InputsAssumption ==
    /\ Times \subseteq Nat \ {0}
    /\ LapCounts \subseteq Nat \ {0}
    /\ Voters \subseteq Clients
    /\ Askers \subseteq Clients

NoCode == "no code"     \* admin_code: None
ASSUME NoCodeAssumption == NoCode \notin Clients

VARIABLES
    conn,           \* addresses with an entry in `clients`
    info,           \* ... whose info is Some: the client has a name
    lobby,          \* ... whose garage is Some: the client is in the lobby
    ready,          \* ... with the ready flag
    racers,         \* ... with the racing flag
    finished,       \* ... with the finished flag
    vote,           \* the vote of each client
    admin,          \* ... with the admin flag
    adminCode,      \* who asked for the outstanding !reqadmin code, or NoCode
    racing,         \* Server.racing
    goSent,         \* race_go_at is Some
    graceOn,        \* first_finish is Some
    endDue,         \* race_end_at is Some
    lastFinish,     \* last_finish_time
    map,            \* map_index
    laps,           \* lap count of each rotation entry (settings_for)
    results,        \* time announced for each client in this race, 0 if none
    hostTime,       \* time announced for the phantom host, 0 if none
    told            \* upcoming race each lobby member was last told of

rosterVars == <<conn, info, lobby>>
raceVars == <<ready, racers, finished, racing, goSent, graceOn, endDue,
              lastFinish, results, hostTime>>
rotationVars == <<map, laps, vote, told>>
adminVars == <<admin, adminCode>>
vars == <<rosterVars, raceVars, rotationVars, adminVars>>

\* A race as describe() words it: rotation entry and lap count.
Races == Maps \X (Nat \ {0})
Untold == <<>>
Describe(i, l) == <<i, l[i]>>

TypeOK ==
    /\ conn \subseteq Clients /\ info \subseteq Clients /\ lobby \subseteq Clients
    /\ ready \subseteq Clients /\ racers \subseteq Clients /\ finished \subseteq Clients
    /\ admin \subseteq Clients
    /\ adminCode \in Clients \cup {NoCode}
    /\ vote \in [Clients -> Maps \cup {NoVote}]
    /\ racing \in BOOLEAN /\ goSent \in BOOLEAN
    /\ graceOn \in BOOLEAN /\ endDue \in BOOLEAN
    /\ lastFinish \in Nat /\ hostTime \in Nat
    /\ map \in Maps
    /\ laps \in [Maps -> Nat \ {0}]
    /\ results \in [Clients -> Nat]
    /\ told \in [Clients -> Races \cup {Untold}]

Init ==
    /\ conn = {} /\ info = {} /\ lobby = {}
    /\ ready = {} /\ racers = {} /\ finished = {}
    /\ vote = [c \in Clients |-> NoVote]
    /\ admin = {} /\ adminCode = NoCode
    /\ racing = FALSE /\ goSent = FALSE /\ graceOn = FALSE /\ endDue = FALSE
    /\ lastFinish = 0 /\ hostTime = 0
    /\ map = 0
    /\ laps \in [Maps -> LapCounts]
    /\ results = [c \in Clients |-> 0]
    /\ told = [c \in Clients |-> Untold]

-----------------------------------------------------------------------------
(* Helpers of the handlers *)

\* Any valid datagram creates the sender's entry if it has none.
Touch(c) == conn' = conn \cup {c}

\* The entry the next race will run on.
UpcomingFault == NextMap(vote, lobby, map)
Upcoming == IF racing THEN NextMap(vote, lobby, map) ELSE map

\* f with the value v for the clients in S.
Tell(f, S, v) == [c \in Clients |-> IF c \in S THEN v ELSE f[c]]

\* set_map for the lobby members L: every vote resets, they hear the map.
VotesAfterSwitchFault(v) == v
VotesAfterSwitch(v) == [c \in Clients |-> NoVote]
SetMap(i, L, heard) ==
    /\ map' = i
    /\ vote' = VotesAfterSwitch(vote)
    /\ told' = Tell(heard, L, Describe(i, laps))
    /\ UNCHANGED laps

AllReadyFault(L, rdy) == L \cap rdy # {}
AllReady(L, rdy) == L # {} /\ L \subseteq rdy

\* start_race: whoever is in the lobby now races, everyone's flags reset.
StartRace ==
    /\ racing' = TRUE
    /\ racers' = lobby /\ ready' = {} /\ finished' = {}
    /\ goSent' = FALSE /\ graceOn' = FALSE /\ endDue' = FALSE
    /\ results' = [c \in Clients |-> 0] /\ hostTime' = 0
    /\ UNCHANGED <<lastFinish, rotationVars, adminVars>>

\* The flags end_race clears for every client.
LowerRaceFlagsFault == racers' = {} /\ ready' = {} /\ finished' = finished
LowerRaceFlags == racers' = {} /\ ready' = {} /\ finished' = {}

\* end_race for the lobby members L, whose votes are v, and who heard `heard`.
EndRace(L, v, heard) ==
    /\ racing' = FALSE /\ graceOn' = FALSE /\ endDue' = FALSE
    /\ LowerRaceFlags
    /\ results' = [c \in Clients |-> 0] /\ hostTime' = 0
    /\ SetMap(NextMap(v, L, map), L, heard)
    /\ UNCHANGED <<goSent, lastFinish>>

\* A hair behind the last finish to arrive, in the model's unit of time.
HostFinishFault(t) == t - 1
HostFinish(t) == t + 1

AllFinishedFault(rs, fs) == rs # {} /\ rs \subseteq fs
AllFinished(rs, fs) == rs \subseteq fs

\* settle_finish once the racers are rs, the finishers fs, the last time t.
Settle(rs, fs, t) ==
    IF ~endDue /\ AllFinished(rs, fs)
    THEN endDue' = TRUE /\ hostTime' = HostFinish(t)
    ELSE UNCHANGED <<endDue, hostTime>>

\* remove_client for each client in S, in any order: their entries go, then
\* the race ends if the lobby emptied, else it may be settled.  An admin code
\* outlives the client that asked for it.
LobbyEmptiedFault(L) == FALSE
LobbyEmptied(L) == racing /\ L = {}

RemoveClients(S) ==
    LET L == lobby \ S
        v == Tell(vote, S, NoVote)
        heard == Tell(told, S, Untold)
    IN  /\ conn' = conn \ S /\ info' = info \ S /\ lobby' = L
        /\ admin' = admin \ S /\ UNCHANGED adminCode
        /\ \/ /\ LobbyEmptied(L)
              /\ EndRace(L, v, heard)
           \/ /\ ~LobbyEmptied(L)
              /\ ready' = ready \ S
              /\ racers' = racers \ S
              /\ finished' = finished \ S
              /\ results' = Tell(results, S, 0)
              /\ IF racing THEN Settle(racers \ S, finished \ S, lastFinish)
                           ELSE UNCHANGED <<endDue, hostTime>>
              /\ vote' = v /\ told' = heard
              /\ UNCHANGED <<racing, goSent, graceOn, lastFinish, map, laps>>

-----------------------------------------------------------------------------
(* Joining *)

\* A datagram that only proves the peer is alive: greeting, ping, ack, ...
Connect(c) ==
    /\ c \notin conn
    /\ Touch(c)
    /\ UNCHANGED <<info, lobby, raceVars, rotationVars, adminVars>>

ReceiveClientInfo(c) ==
    /\ Touch(c)
    /\ info' = info \cup {c}
    /\ UNCHANGED <<lobby, raceVars, rotationVars, adminVars>>

\* A garage completes the join, whether or not a ClientInfo came before it.
\* A refreshed garage of a member changes nothing here.
GarageState(c) ==
    /\ Touch(c)
    /\ lobby' = lobby \cup {c}
    /\ told' = IF c \in lobby THEN told
                              ELSE Tell(told, {c}, Describe(Upcoming, laps))
    /\ UNCHANGED <<info, raceVars, map, laps, vote, adminVars>>

-----------------------------------------------------------------------------
(* Ready: the lobby checkbox, and in a race the confirm at the grid *)

WithFlag(c, b) == IF b THEN ready \cup {c} ELSE ready \ {c}

AllConfirmedFault(rs, rdy) == rs \cap rdy # {}
AllConfirmed(rs, rdy) == rs \subseteq rdy

\* This Ready is the confirm that sends RaceGo.
ConfirmsLast(c, b) ==
    /\ c \in racers
    /\ (c \in ready) # b
    /\ AllConfirmed(racers, WithFlag(c, b))

Ready(c, b) ==
    /\ Touch(c) /\ UNCHANGED <<info, lobby>>
    /\ \/ /\ racing
          /\ ready' = WithFlag(c, b)
          /\ goSent' = (goSent \/ ConfirmsLast(c, b))
          /\ UNCHANGED <<racers, finished, racing, graceOn, endDue, lastFinish,
                         results, hostTime, rotationVars, adminVars>>
       \/ /\ ~racing /\ AllReady(lobby, WithFlag(c, b))
          /\ StartRace
       \/ /\ ~racing /\ ~AllReady(lobby, WithFlag(c, b))
          /\ ready' = WithFlag(c, b)
          /\ UNCHANGED <<racers, finished, racing, goSent, graceOn, endDue, lastFinish,
                         results, hostTime, rotationVars, adminVars>>

-----------------------------------------------------------------------------
(* Finishing *)

\* The handler asks only that a race is on, not that the sender is in it.
CrossedFinish(c, t) ==
    /\ Touch(c) /\ UNCHANGED <<info, lobby, rotationVars, adminVars>>
    /\ \/ /\ racing
          /\ finished' = finished \cup {c}
          /\ graceOn' = TRUE
          /\ lastFinish' = t
          /\ results' = [results EXCEPT ![c] = t]
          /\ Settle(racers, finished \cup {c}, t)
          /\ UNCHANGED <<ready, racers, racing, goSent>>
       \/ ~racing /\ UNCHANGED raceVars

\* The two timers of the event loop that end a race.
EndTimer ==
    /\ racing /\ endDue
    /\ EndRace(lobby, vote, told)
    /\ UNCHANGED <<rosterVars, adminVars>>

GraceRunsOutFault ==
    /\ racing /\ graceOn /\ racers \cap finished # {}
    /\ EndRace(lobby, vote, told)
    /\ UNCHANGED <<rosterVars, adminVars>>
GraceRunsOut ==
    /\ racing /\ graceOn
    /\ EndRace(lobby, vote, told)
    /\ UNCHANGED <<rosterVars, adminVars>>

-----------------------------------------------------------------------------
(* Leaving *)

\* Every datagram but this one leaves the sender with an entry.
Disconnect(c) == RemoveClients({c})

\* tick: every client silent for longer than CLIENT_TIMEOUT goes at once.
TimeOut(S) ==
    /\ S # {} /\ S \subseteq conn
    /\ RemoveClients(S)

\* !kick: the target must be another lobby member with a name.
Kick(a, c) ==
    /\ a \in lobby \cap admin
    /\ c \in (lobby \cap info) \ {a}
    /\ RemoveClients({c})

-----------------------------------------------------------------------------
(* Chat commands; chat is only heard from lobby members *)

VoteFor(c, n) ==
    LET i == FindMap(n)
        v == [vote EXCEPT ![c] = i]
    IN  /\ c \in lobby
        /\ racing \/ i # map
        /\ \/ /\ ~racing /\ HasMajority(v, lobby, i)
              /\ SetMap(i, lobby, told)
           \/ /\ racing \/ ~HasMajority(v, lobby, i)
              /\ vote' = v
              /\ UNCHANGED <<map, laps, told>>
        /\ UNCHANGED <<rosterVars, raceVars, adminVars>>

RequestAdmin(c) ==
    /\ c \in lobby
    /\ adminCode' = c
    /\ UNCHANGED <<rosterVars, raceVars, rotationVars, admin>>

\* One attempt per code: it is taken before it is compared.
CodeAfterAttempt == NoCode
RedeemAdmin(c, right) ==
    /\ c \in lobby /\ adminCode # NoCode
    /\ adminCode' = CodeAfterAttempt
    /\ admin' = IF adminCode = c /\ right THEN admin \cup {c} ELSE admin
    /\ UNCHANGED <<rosterVars, raceVars, rotationVars>>

MapCommandFault(a, n) ==
    /\ a \in lobby \cap admin
    /\ SetMap(FindMap(n), lobby, told)
    /\ UNCHANGED <<rosterVars, raceVars, adminVars>>
MapCommand(a, n) ==
    /\ a \in lobby \cap admin
    /\ ~racing
    /\ SetMap(FindMap(n), lobby, told)
    /\ UNCHANGED <<rosterVars, raceVars, adminVars>>

\* !laps is for the upcoming race, also while another one is on.
LapsCommand(a, n) ==
    /\ a \in lobby \cap admin
    /\ laps' = [laps EXCEPT ![Upcoming] = n]
    /\ told' = Tell(told, lobby, Describe(Upcoming, laps'))
    /\ UNCHANGED <<rosterVars, raceVars, map, vote, adminVars>>

StartCommandFault(a) ==
    /\ a \in lobby \cap admin
    /\ StartRace
    /\ UNCHANGED rosterVars
StartCommand(a) ==
    /\ a \in lobby \cap admin
    /\ ~racing
    /\ StartRace
    /\ UNCHANGED rosterVars

-----------------------------------------------------------------------------
(* The specification *)

Joining == \E c \in Clients : Connect(c) \/ ReceiveClientInfo(c) \/ GarageState(c)

Driving == \E c \in Clients :
    \/ \E b \in BOOLEAN : Ready(c, b)
    \/ \E t \in Times : CrossedFinish(c, t)

Leaving ==
    \/ \E c \in Clients : Disconnect(c)
    \/ \E S \in SUBSET Clients : TimeOut(S)

Commands ==
    \/ \E c \in Voters, n \in 1 .. NMaps : VoteFor(c, n)
    \/ \E c \in Askers :
        \/ RequestAdmin(c)
        \/ \E right \in BOOLEAN : RedeemAdmin(c, right)
        \/ StartCommand(c)
        \/ \E n \in 1 .. NMaps : MapCommand(c, n)
        \/ \E n \in LapCounts : LapsCommand(c, n)
        \/ \E d \in Clients : Kick(c, d)

Timers == EndTimer \/ GraceRunsOut

Next == Joining \/ Driving \/ Leaving \/ Commands \/ Timers

\* The event loop wakes every 10 ms whatever arrives, so a timer that stays
\* due fires.  Nothing is assumed of the clients.
Fairness == WF_vars(EndTimer) /\ WF_vars(GraceRunsOut)

Spec == Init /\ [][Next]_vars /\ Fairness
-----------------------------------------------------------------------------
(* Safety *)

\* remove_client ends a race whose lobby emptied at once, so a race never
\* runs without anyone in the lobby to see it end.
RaceHasALobby == racing => lobby # {}

\* settle_finish is called after every event that can complete the field (a
\* finish, a leave, several leaves at once), so RaceEnd is scheduled exactly
\* when nobody is left driving, also when the whole field left and only
\* latecomers remain.
EndIsDueWhenAllAreHome == racing => (endDue <=> racers \subseteq finished)

\* What end_race and the `racing` guards of the handlers leave behind: between
\* races no racer, finisher or timer of the last race is left.
NothingLeftOfTheLastRace ==
    ~racing => racers = {} /\ finished = {} /\ ~graceOn /\ ~endDue

\* While a race is on its field only loses those who leave the lobby, and
\* neither !map nor a vote changes the map under it.
KeepsTheRace == racing /\ racing' => racers' = racers \cap lobby' /\ map' = map
RaceIsFixed == [][KeepsTheRace]_vars

\* A race takes the whole lobby, and unless an admin forces it every member
\* but the one whose message is being handled had ticked Ready.
UnanimousOrForced ==
    ~racing /\ racing' =>
        /\ racers' = lobby /\ lobby # {}
        /\ admin # {} \/ \E c \in Clients : lobby \ {c} \subseteq ready
StartIsUnanimous == [][UnanimousOrForced]_vars

\* RaceGo goes out only with the whole field at the grid.
AllAtTheGrid == ~goSent /\ goSent' => racers' # {} /\ racers' \subseteq ready'
GoWaitsForEveryone == [][AllAtTheGrid]_vars

\* set_map clears the votes and !vote refuses the current map, so between
\* races nobody's vote is for the map the lobby is already on; and a vote
\* never outlives its voter's stay in the lobby.
VotesAreForAnotherMap ==
    \A c \in Clients : vote[c] # NoVote => c \in lobby /\ (racing \/ vote[c] # map)

\* Between races the map changes only by an admin or by more than half of the
\* lobby, the one voting now included.
SwitchNeedsAMajority ==
    [][~racing /\ map' # map =>
        admin # {} \/ 2 * (Tally(vote, lobby, map') + 1) > Cardinality(lobby)]_vars

\* A race that ends with people in the lobby is followed by the entry with the
\* most votes, the earliest of them, or by the next entry if nobody voted.
VoteDecidesTheNextMap ==
    [][racing /\ ~racing' /\ lobby' # {} =>
        IF \E c \in lobby : vote[c] # NoVote
        THEN \A i \in Maps \ {map'} :
                \/ Tally(vote, lobby, i) < Tally(vote, lobby, map')
                \/ Tally(vote, lobby, i) = Tally(vote, lobby, map') /\ map' < i
        ELSE map' = Following(map)]_vars

\* Whatever sequence of joins, !laps, !map, votes and races came before, each
\* lobby member has last been told of the race that would start now.
LobbyKnowsTheNextRace ==
    ~racing => \A c \in lobby : told[c] = Describe(map, laps)

-----------------------------------------------------------------------------
(* Liveness *)

\* Once somebody has finished nobody can hold the lobby: FINISH_GRACE ends
\* the race even if the finisher has left and the rest never finish.
AFinishEndsTheRace == graceOn ~> ~racing

-----------------------------------------------------------------------------
(* Refinement *)

Cycle == INSTANCE RaceCycle WITH
            here <- lobby, on <- racing, field <- racers,
            home <- finished \cap racers, clock <- graceOn, track <- map

\* Rosters, ready flags, votes and admins do not disturb the life of a race.
ImplementsRaceCycle == Cycle!Spec

-----------------------------------------------------------------------------
(* Statements of the documentation that the code does not keep *)

\* main.rs:1292: "the phantom host confirms the moment the last client does",
\* main.rs:23: "once everyone confirmed: ReadyBroadcast(host), RaceGo".
EveryoneConfirmedMeansGo ==
    racing /\ racers # {} /\ racers \subseteq ready => goSent

\* main.rs:911: "A hair behind the last real finisher, so the results table
\* lists the phantom last instead of tied with a human."
HostIsListedLast ==
    [][hostTime = 0 /\ hostTime' # 0 => \A c \in racers' : results'[c] < hostTime']_vars
=============================================================================
