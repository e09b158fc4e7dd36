------------------------------ MODULE JoinSync ------------------------------
(***************************************************************************)
(* Who is told of whom: the join handshake and the roster each player sees *)
(* (crates/server/src/main.rs, handling of ClientInfo, GarageState and     *)
(* Disconnect, remove_client, eviction by tick).                           *)
(*                                                                         *)
(* Events to a client travel over a link that keeps the promise of         *)
(* Delivery: each arrives once, in any order.  The client is the game,     *)
(* which is not in the repository: it sends ClientInfo, waits for          *)
(* ServerInfo, then sends its garage, and again whenever its car changed;  *)
(* it lists the players of ServerInfo and PlayerJoined, drops those of     *)
(* PlayerLeft, and shows the cars of garage commits.  A client evicted      *)
(* while alive gets a new entry, whose packets are numbered from 1 again:  *)
(* the game drops numbers it does not expect (comment at Client.next_seq), *)
(* so it may be deaf from then on.  The host's own entry is in every       *)
(* ServerInfo and is left out.                                             *)
(***************************************************************************)
EXTENDS Integers

CONSTANTS
    Clients,        \* client addresses
    MaxIds          \* bound on the client ids given out

ASSUME JoinAssumption == MaxIds \in Nat

Ids == 1 .. MaxIds
NoId == 0           \* the address has no entry in `clients`

VARIABLES
    nextId,         \* next_client_id
    id,             \* client id of each address, NoId without an entry
    named,          \* addresses whose entry has a ClientInfo
    lobby,          \* addresses whose entry has a garage
    inbox,          \* events on their way to each client
    stage,          \* the client is "away", "asking" for ServerInfo, or "in"
    players,        \* ids each client lists as players
    cars,           \* ids each client has a car of
    deaf,           \* clients that drop what the server sends them
    overlapped      \* pairs of ids that were in the handshake together

serverVars == <<nextId, id, named, lobby>>
clientVars == <<stage, players, cars, deaf>>
vars == <<serverVars, clientVars, inbox, overlapped>>

Events == [kind : {"info", "joined", "commit", "left"}, ids : SUBSET Ids]

TypeOK ==
    /\ nextId \in 1 .. MaxIds + 1
    /\ id \in [Clients -> Ids \cup {NoId}]
    /\ named \subseteq {c \in Clients : id[c] # NoId}
    /\ lobby \subseteq {c \in Clients : id[c] # NoId}
    /\ inbox \in [Clients -> SUBSET Events]
    /\ stage \in [Clients -> {"away", "asking", "in"}]
    /\ players \in [Clients -> SUBSET Ids] /\ cars \in [Clients -> SUBSET Ids]
    /\ deaf \subseteq Clients
    /\ overlapped \subseteq SUBSET Ids

Init ==
    /\ nextId = 1 /\ id = [c \in Clients |-> NoId]
    /\ named = {} /\ lobby = {}
    /\ inbox = [c \in Clients |-> {}]
    /\ stage = [c \in Clients |-> "away"]
    /\ players = [c \in Clients |-> {}] /\ cars = [c \in Clients |-> {}]
    /\ deaf = {} /\ overlapped = {}

-----------------------------------------------------------------------------
(* Server *)

Event(kind, S) == [kind |-> kind, ids |-> S]
IdsOf(S) == {id[c] : c \in S}

\* Any datagram gives the sender an entry under an id never used before.
EntryFault(c) ==
    IF id[c] # NoId THEN UNCHANGED <<nextId, id>>
    ELSE \E n \in Ids \ IdsOf(Clients) : id' = [id EXCEPT ![c] = n] /\ UNCHANGED nextId
Entry(c) ==
    IF id[c] # NoId THEN UNCHANGED <<nextId, id>>
    ELSE /\ nextId \in Ids
         /\ id' = [id EXCEPT ![c] = nextId]
         /\ nextId' = nextId + 1

\* A greeting or a ping; it re-creates the entry of a client that was evicted.
Datagram(c) ==
    /\ Entry(c)
    /\ UNCHANGED <<named, lobby, clientVars, inbox, overlapped>>

\* The inboxes once each client was sent its events, as far as it hears them.
Sent(events) == [d \in Clients |-> inbox[d] \cup (IF d \in deaf THEN {} ELSE events[d])]

\* What a joining client is told: the lobby, and a car of everyone in it.
WelcomeFault(others) == {Event("info", others)}
Welcome(others) == {Event("info", others)} \cup {Event("commit", {i}) : i \in others}

\* The lobby hears of the newcomer now, of its garage when that comes.
ReceiveClientInfo(c) ==
    /\ stage[c] # "in" /\ c \notin named
    /\ Entry(c)
    /\ named' = named \cup {c}
    /\ stage' = [stage EXCEPT ![c] = "asking"]
    /\ inbox' = Sent([d \in Clients |-> IF d = c THEN Welcome(IdsOf(lobby \ {c}))
                                        ELSE IF d \in lobby THEN {Event("joined", {id'[c]})}
                                        ELSE {}])
    /\ overlapped' = overlapped \cup {{id'[c], id[d]} : d \in named \ (lobby \cup {c})}
    /\ UNCHANGED <<lobby, players, cars, deaf>>

\* The first garage completes the join, ClientInfo or not; every one is
\* committed to the others.
CommitTargetsFault(c) == (lobby \cap named) \ {c}
CommitTargets(c) == lobby \ {c}
GarageState(c) ==
    /\ stage[c] = "in"
    /\ Entry(c)
    /\ lobby' = lobby \cup {c}
    /\ inbox' = Sent([d \in Clients |-> IF d \in CommitTargets(c)
                                        THEN {Event("commit", {id'[c]})} ELSE {}])
    /\ UNCHANGED <<named, clientVars, overlapped>>

\* remove_client for an entry: the lobby is told if it was in the lobby.
LobbyAfterFault(c) == lobby
LobbyAfter(c) == lobby \ {c}
RemoveClient(c) ==
    /\ id' = [id EXCEPT ![c] = NoId]
    /\ named' = named \ {c} /\ lobby' = LobbyAfter(c)
    /\ UNCHANGED <<nextId, overlapped>>

Told(c) == Sent([d \in Clients |-> IF c \in lobby /\ d \in lobby
                                   THEN {Event("left", {id[c]})} ELSE {}])

\* The client's side of a session that ends.
Forget(c) ==
    /\ stage' = [stage EXCEPT ![c] = "away"]
    /\ players' = [players EXCEPT ![c] = {}]
    /\ cars' = [cars EXCEPT ![c] = {}]
    /\ deaf' = deaf \ {c}

Disconnect(c) ==
    /\ stage[c] # "away" /\ id[c] # NoId
    /\ RemoveClient(c)
    /\ Forget(c)
    /\ inbox' = [Told(c) EXCEPT ![c] = {}]

\* tick evicts a client that died, or one that is alive and was only silent;
\* what it was still owed may not come.
TimeOut(c) ==
    /\ id[c] # NoId
    /\ RemoveClient(c)
    /\ \/ /\ Forget(c)
          /\ inbox' = [Told(c) EXCEPT ![c] = {}]
       \/ /\ UNCHANGED <<stage, players, cars>>
          /\ deaf' \in {deaf, deaf \cup {c}}
          /\ \E due \in SUBSET inbox[c] : inbox' = [Told(c) EXCEPT ![c] = due]

-----------------------------------------------------------------------------
(* Client *)

\* What c knows of others after m, if it learns from events of these kinds.
Learnt(known, m, kinds) ==
    IF m.kind \in kinds THEN known \cup m.ids
    ELSE IF m.kind = "left" THEN known \ m.ids
    ELSE known

Receive(c, m) ==
    /\ m \in inbox[c]
    /\ inbox' = [inbox EXCEPT ![c] = @ \ {m}]
    /\ stage' = [stage EXCEPT ![c] = IF m.kind = "info" THEN "in" ELSE @]
    /\ players' = [players EXCEPT ![c] = Learnt(@, m, {"info", "joined"})]
    /\ cars' = [cars EXCEPT ![c] = Learnt(@, m, {"commit"})]
    /\ UNCHANGED <<serverVars, deaf, overlapped>>

-----------------------------------------------------------------------------
Next == \E c \in Clients :
    \/ Datagram(c)
    \/ ReceiveClientInfo(c)
    \/ GarageState(c)
    \/ Disconnect(c)
    \/ TimeOut(c)
    \/ \E m \in inbox[c] : Receive(c, m)

Spec == Init /\ [][Next]_vars

-----------------------------------------------------------------------------
(* What a client knows or is about to be told *)

Due(c, kinds) == UNION {m.ids : m \in {e \in inbox[c] : e.kind \in kinds}}
NamesOf(c) == players[c] \cup Due(c, {"info", "joined"})
CarsOf(c) == cars[c] \cup Due(c, {"commit"})
Lists(a, b) == id[b] \in NamesOf(a)
Sees(a, b) == id[b] \in CarsOf(a)

\* Of two members who hear the server, whoever completed the join last is
\* seen by the other, through evictions and re-creations without a ClientInfo.
OneSeesTheOther ==
    \A a, b \in lobby \ deaf : a # b => Sees(a, b) \/ Sees(b, a)

\* A named member who hears lists and sees every other, unless their
\* handshakes overlapped: then the first to finish is not listed by the other.
MembersKnowEachOther ==
    \A a, b \in lobby \cap named :
        a # b /\ a \notin deaf /\ {id[a], id[b]} \notin overlapped
            => Lists(a, b) /\ Sees(a, b)

\* A PlayerLeft still on its way never names a player who is there: ids are not
\* reused, not even for an address that comes back.
LeavesAreForTheGone ==
    \A c \in Clients : \A i \in Due(c, {"left"}) : i \notin IdsOf(Clients)

-----------------------------------------------------------------------------
(* A statement of the documentation that the code does not keep *)

\* README: "leave (Disconnect and 15 s timeout both remove the player from
\* other lobbies)".  A member who has heard all it was sent lists nobody who
\* left.
LeaversAreRemoved ==
    \A c \in (lobby \cap named) \ deaf :
        inbox[c] = {} => players[c] \subseteq IdsOf(Clients)
=============================================================================
