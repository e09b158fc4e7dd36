---------------------------- MODULE GarageVisits ----------------------------
(***************************************************************************)
(* Visiting another player's garage (crates/server/src/main.rs, the        *)
(* handlers of RequestVisitGarage, VisitGarageResponse, UpdateLocation and *)
(* StopGarageVisit).  The visitor's request is forwarded to the owner,     *)
(* whose game answers every request it receives; the answer names the      *)
(* owner but no visitor, so the server keeps a list of who is waiting at   *)
(* each owner's entry.  Everyone else in the lobby is told where the       *)
(* visitor is, and again when it returns to the hub.                       *)
(*                                                                         *)
(* To a client all of this travels on the ordered stream: it arrives once  *)
(* and in order, so what a player was told last of another is what it will *)
(* see.  From a client it arrives once, but the server handles packets as  *)
(* they come in, so that one sent again after a loss is overtaken by later *)
(* ones.  The games are not in the repository: a game asks for one garage  *)
(* at a time and may return before it is answered.                         *)
(***************************************************************************)
EXTENDS Integers, Sequences, SequencesExt, FiniteSets

CONSTANTS
    NClients,       \* client addresses, each used by one game
    NEarly,         \* those in the lobby from the start
    MaxIds,         \* bound on the client ids given out
    MaxAsks,        \* bound on the requests of a behaviour
    MaxQuits        \* bound on the games that quit

ASSUME VisitAssumption ==
    /\ NEarly \in 0 .. NClients /\ NEarly <= MaxIds
    /\ {NClients, MaxIds, MaxAsks, MaxQuits} \subseteq Nat

Clients == 1 .. NClients
Ids == 1 .. MaxIds
HOST == 0           \* the host's PlayerId
NoId == -1          \* the address has no entry in `clients`
HUB == -2           \* the place of a player who is in no garage

VARIABLES
    nextId,         \* next_client_id
    id,             \* client id of each address, NoId without an entry
    lobby,          \* addresses whose entry has a garage
    visitors,       \* the `visitors` of each entry, in order
    toClient,       \* requests and answers on their way to each client
    told,           \* where each client was told last that the others are
    toServer,       \* events on their way from each client
    stage,          \* each game is "new", "in" the lobby or "gone"
    place,          \* the garage each game has asked for and not left, or HUB
    asked,          \* how often each game has asked for each garage
    answered,       \* how often it was answered
    overtaken       \* games an event of which was overtaken by a later one

serverVars == <<nextId, id, lobby, visitors, told>>
gameVars == <<stage, place, asked, answered>>
vars == <<serverVars, gameVars, toClient, toServer, overtaken>>

Places == Ids \cup {HOST, HUB}
NotTold == -3

\* Events to a client: a request for its garage or the garage of `who`; those
\* to the server are a request for the garage `where`, an answer, or the return
\* to the hub.  That a player has entered takes two events to the others (35
\* and 32), the return two each way (31 and 41): sent together and with the
\* same content, they count as one.
ClientEvents == [kind : {"request", "response"}, who : Ids \cup {HOST}]
ServerEvents == [kind : {"request", "response", "location"}, where : Places]

TypeOK ==
    /\ nextId \in 1 .. MaxIds + 1
    /\ id \in [Clients -> Ids \cup {NoId}] /\ \A c \in Clients : id[c] < nextId
    /\ lobby \subseteq {c \in Clients : id[c] # NoId}
    /\ visitors \in [Clients -> Seq(Clients)]
    /\ \A c \in Clients : id[c] = NoId => visitors[c] = <<>> /\ toClient[c] = <<>>
    /\ toClient \in [Clients -> Seq(ClientEvents)]
    /\ toServer \in [Clients -> Seq(ServerEvents)]
    /\ stage \in [Clients -> {"new", "in", "gone"}]
    /\ place \in [Clients -> Places]
    /\ told \in [Clients -> [Ids -> Places \cup {NotTold}]]
    /\ asked \in [Clients -> [Ids \cup {HOST} -> Nat]]
    /\ answered \in [Clients -> [Ids \cup {HOST} -> Nat]]
    /\ overtaken \subseteq Clients

Init ==
    /\ nextId = NEarly + 1 /\ lobby = 1 .. NEarly
    /\ id = [c \in Clients |-> IF c <= NEarly THEN c ELSE NoId]
    /\ visitors = [c \in Clients |-> <<>>]
    /\ toClient = [c \in Clients |-> <<>>] /\ toServer = [c \in Clients |-> <<>>]
    /\ stage = [c \in Clients |-> IF c <= NEarly THEN "in" ELSE "new"] /\ place = [c \in Clients |-> HUB]
    /\ told = [c \in Clients |-> [i \in Ids |-> NotTold]]
    /\ asked = [c \in Clients |-> [i \in Ids \cup {HOST} |-> 0]]
    /\ answered = [c \in Clients |-> [i \in Ids \cup {HOST} |-> 0]]
    /\ overtaken = {}

-----------------------------------------------------------------------------
(* Games *)

Say(kind, where) == [kind |-> kind, where |-> where]
Asks == {a \in Clients \X (Ids \cup {HOST}) \X (1 .. MaxAsks) : asked[a[1]][a[2]] >= a[3]}

\* A click on a garage in the player list, which may be out of date.
Ask(c, o) ==
    /\ stage[c] = "in" /\ place[c] = HUB
    /\ Cardinality(Asks) < MaxAsks
    /\ o < nextId /\ o # id[c]
    /\ place' = [place EXCEPT ![c] = o]
    /\ asked' = [asked EXCEPT ![c][o] = @ + 1]
    /\ toServer' = [toServer EXCEPT ![c] = Append(@, Say("request", o))]
    /\ UNCHANGED <<serverVars, stage, answered, toClient, overtaken>>

\* Back to the hub.
Return(c) ==
    /\ stage[c] = "in" /\ place[c] # HUB
    /\ place' = [place EXCEPT ![c] = HUB]
    /\ toServer' = [toServer EXCEPT ![c] = Append(@, Say("location", HUB))]
    /\ UNCHANGED <<serverVars, stage, asked, answered, toClient, overtaken>>

\* A game answers a request, and enters the garage it is given.
Hear(c) ==
    /\ stage[c] = "in" /\ toClient[c] # <<>>
    /\ toClient' = [toClient EXCEPT ![c] = Tail(@)]
    /\ LET e == Head(toClient[c])
       IN  \/ /\ e.kind = "request"
              /\ toServer' = [toServer EXCEPT ![c] = Append(@, Say("response", HUB))]
              /\ UNCHANGED answered
           \/ /\ e.kind = "response"
              /\ answered' = [answered EXCEPT ![c][e.who] = @ + 1]
              /\ UNCHANGED toServer
    /\ UNCHANGED <<serverVars, stage, place, asked, overtaken>>

\* The game quits; its Disconnect, if the server gets it, is part of RemoveClient.
Quit(c) ==
    /\ stage[c] = "in" /\ stage' = [stage EXCEPT ![c] = "gone"]
    /\ Cardinality({d \in Clients : stage[d] = "gone"}) < MaxQuits
    /\ UNCHANGED <<serverVars, place, asked, answered, toClient, toServer, overtaken>>

-----------------------------------------------------------------------------
(* Server *)

\* How often v is in s.
Count(s, v) == Cardinality({n \in DOMAIN s : s[n] = v})

\* Any datagram gives the sender an entry.
EntryOfFault(c) == IF id[c] # NoId THEN id ELSE [id EXCEPT ![c] = nextId + 1]
EntryOf(c) == IF id[c] # NoId THEN id ELSE [id EXCEPT ![c] = nextId]
Entry(c) ==
    /\ id[c] # NoId \/ nextId \in Ids
    /\ id' = EntryOf(c)
    /\ nextId' = IF id[c] # NoId THEN nextId ELSE nextId + 1

\* GarageState: the client is in the lobby.  Addresses are interchangeable, so
\* they come in this order.
Join(c) ==
    /\ stage[c] = "new" /\ stage' = [stage EXCEPT ![c] = "in"]
    /\ \A d \in 1 .. c - 1 : stage[d] # "new"
    /\ Entry(c)
    /\ lobby' = lobby \cup {c}
    /\ UNCHANGED <<visitors, told, place, asked, answered, toClient, toServer, overtaken>>

\* lobby_peers(Some(c)).
PeersOfFault(c) == {d \in lobby \ {c} : visitors[d] = <<>>}
PeersOf(c) == lobby \ {c}

\* A broadcast that `who` is at `where`.
Told(S, who, where) ==
    told' = [a \in Clients |-> IF a \in S THEN [told[a] EXCEPT ![who] = where] ELSE told[a]]

Send(a, kind, who) ==
    toClient' = [toClient EXCEPT ![a] = Append(@, [kind |-> kind, who |-> who])]

\* RequestVisitGarage: the host's garage is at hand; any other is asked for at
\* its owner, whom nobody knows may have left.  All others are told.
NoteSwappedFault(a, c) == [visitors EXCEPT ![c] = Append(@, a)]
Note(a, c) == [visitors EXCEPT ![a] = Append(@, c)]
RequestVisitGarage(c, o) ==
    LET me == EntryOf(c)[c]
    IN  \/ /\ o = HOST
           /\ Send(c, "response", HOST)
           /\ Told(PeersOf(c), me, HOST)
           /\ UNCHANGED visitors
        \/ \E owner \in Clients :
            /\ EntryOf(c)[owner] = o
            /\ visitors' = Note(owner, c)
            /\ Send(owner, "request", me)
            /\ Told(PeersOf(c), me, o)
        \/ /\ o # HOST /\ \A a \in Clients : EntryOf(c)[a] # o
           /\ UNCHANGED <<visitors, toClient, told>>

\* VisitGarageResponse: to everyone who is waiting and still has an entry, once
\* for each time it stands in the list.
ServedFirstFault(c) == SelectSeq(visitors[c], LAMBDA v : v = Head(visitors[c]))
Served(c) == visitors[c]
NotClearedFault(c) == visitors
Cleared(c) == [visitors EXCEPT ![c] = <<>>]
VisitGarageResponse(c) ==
    /\ visitors' = Cleared(c)
    /\ toClient' = [a \in Clients |->
            IF EntryOf(c)[a] = NoId THEN toClient[a]
            ELSE toClient[a] \o [n \in 1 .. Count(Served(c), a) |->
                                    [kind |-> "response", who |-> EntryOf(c)[c]]]]
    /\ UNCHANGED told

\* UpdateLocation and StopGarageVisit: passed on under the sender's id, if it
\* is in the lobby.
Tagged(c, e) ==
    /\ IF c \in lobby THEN Told(PeersOf(c), id[c], e.where) ELSE UNCHANGED told
    /\ UNCHANGED <<visitors, toClient>>

\* One event of a client arrives, the oldest or one that has overtaken it.
Receive(c) ==
    \E n \in DOMAIN toServer[c] :
        LET e == toServer[c][n]
        IN  /\ Entry(c)
            /\ \/ e.kind = "request" /\ RequestVisitGarage(c, e.where)
               \/ e.kind = "response" /\ VisitGarageResponse(c)
               \/ e.kind = "location" /\ Tagged(c, e)
            /\ toServer' = [toServer EXCEPT ![c] = RemoveAt(@, n)]
            /\ overtaken' = IF n > 1 THEN overtaken \cup {c} ELSE overtaken
            /\ UNCHANGED <<lobby, gameVars>>

\* remove_client, on the Disconnect or after the silence of a game that is
\* gone: its list of visitors goes with the entry, its place in the lists of
\* others stays.
RemoveClient(c) ==
    /\ stage[c] = "gone" /\ id[c] # NoId
    /\ id' = [id EXCEPT ![c] = NoId]
    /\ lobby' = lobby \ {c}
    /\ visitors' = [visitors EXCEPT ![c] = <<>>]
    /\ toClient' = [toClient EXCEPT ![c] = <<>>]
    /\ told' = [told EXCEPT ![c] = [i \in Ids |-> NotTold]]
    /\ UNCHANGED <<nextId, gameVars, toServer, overtaken>>

-----------------------------------------------------------------------------
Next ==
    \E c \in Clients :
        \/ Join(c) \/ \E o \in Ids \cup {HOST} : Ask(c, o)
        \/ Return(c) \/ Hear(c) \/ Quit(c)
        \/ Receive(c) \/ RemoveClient(c)

\* The link delivers (Delivery), and a game handles what it is sent.
Fairness == \A c \in Clients : WF_vars(Hear(c)) /\ WF_vars(Receive(c))

Spec == Init /\ [][Next]_vars /\ Fairness

-----------------------------------------------------------------------------
(* Safety *)

Coming(c, o) == Count(toClient[c], [kind |-> "response", who |-> o])

\* Nobody is put into a garage it has not asked for, or twice for one request:
\* the answers given and on their way are no more than the requests, although
\* an answer names no visitor and requests of several visitors and answers of
\* one owner interleave.
AnswersAreAskedFor ==
    \A c \in Clients, o \in Ids \cup {HOST} : answered[c][o] + Coming(c, o) <= asked[c][o]

\* The list of an owner who is there is never stale: as long as somebody waits
\* on it, a request is on its way to the owner or an answer on its way back.
WaitingMeansAnAnswerIsComing ==
    \A a \in Clients : (visitors[a] # <<>> /\ stage[a] = "in") =>
        \/ \E n \in DOMAIN toClient[a] : toClient[a][n].kind = "request"
        \/ \E n \in DOMAIN toServer[a] : toServer[a][n].kind = "response"

Held(o) == o = HOST \/ \E a \in Clients : id[a] = o

\* README.md:87: "the visitor's avatar, location and return to the hub are
\* relayed to the others".  Once the server has heard the last of it, a member
\* sees another where it is.  It may not see it in a garage whose owner had left, or if it
\* came later and was not told yet, or if an event of the other was overtaken.
Sees(c, v, seen) ==
    \/ seen = place[v]
    \/ seen \in {NotTold, HUB} /\ (place[v] = HUB \/ ~Held(place[v]))
    \/ seen = NotTold /\ id[c] > id[v]
LobbySeesWhereEveryoneIs ==
    \A c, v \in lobby :
        (c # v /\ v \notin overtaken /\ toServer[v] = <<>>) =>
            Sees(c, v, told[c][id[v]])

-----------------------------------------------------------------------------
(* Liveness *)

Here(o) == o = HOST \/ \E a \in Clients : id[a] = o /\ stage[a] = "in"

Waiting(c) ==
    /\ stage[c] = "in"
    /\ \E o \in Ids \cup {HOST} : asked[c][o] > answered[c][o] /\ Here(o)

\* A visitor gets into every garage it has asked for, unless it or the owner
\* leaves.
EveryVisitorIsAnswered == \A c \in Clients : Waiting(c) ~> ~Waiting(c)
=============================================================================
