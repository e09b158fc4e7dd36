------------------------------- MODULE Relay --------------------------------
(***************************************************************************)
(* The server as a relay, down to the bytes: what one player's game says   *)
(* is framed, split if it is too large, received in whatever order, put    *)
(* together, re-tagged with the player's id or passed on verbatim, framed  *)
(* and split again for every other member of the lobby, and put together   *)
(* by their games (handle, handle_unreliable and handle_event of the       *)
(* server; codec; deliver of the bridge, which reads frames for the games  *)
(* behind it, as any other game is taken to).                              *)
(*                                                                         *)
(* A reliable datagram is sent again until it is acknowledged, so that it  *)
(* may arrive any number of times, at any time: it stays in the set of     *)
(* datagrams of its channel.  The count in a datagram sent again, which    *)
(* nobody reads, acks and giving up are left to Link.  A client's id is    *)
(* its number.                                                             *)
(***************************************************************************)
EXTENDS Wire

\* Events the server answers instead of passing them on, by how they come in:
\* CrossedFinish, ClientInfo, Disconnect and garage visits; pings.
AnsweredReliable == {4, 15, 23, 33, 34}
AnsweredUnreliable == {21, 22}

CONSTANTS
    NClients,       \* games, each with a connection of its own
    NEarly,         \* those in the lobby from the start
    Reliably,       \* discriminants of the events games send reliably
    Unreliably,     \* ... and unreliably
    BodyLengths,    \* lengths of their bodies
    ShortLengths,   \* lengths of payloads too short to name an event
    MaxSaid         \* bound on the events said

ASSUME RelayAssumption ==
    /\ {NClients, NEarly, MaxSaid} \subseteq Nat /\ NEarly <= NClients
    /\ Reliably \subseteq 0 .. 48 \ AnsweredReliable
    /\ Unreliably \subseteq 0 .. 48 \ AnsweredUnreliable
    /\ BodyLengths \subseteq Nat /\ ShortLengths \subseteq 0 .. U32 - 1

Clients == 1 .. NClients

VARIABLES
    said,           \* the events said so far: by whom, reliably or not, the payload
    sender,         \* each game's next sequence number and chunk id
    toServer,       \* datagrams on their way from each game
    lobby,          \* clients with a garage
    server,         \* ... what the server keeps of each game's stream
    next,           \* next_seq, next_ordered and next_chunk of each client
    toClient,       \* datagrams on their way to each game
    reader,         \* what each game keeps of the server's stream
    heard           \* payloads each game has been handed

gameVars == <<said, sender, reader, heard>>
vars == <<gameVars, toServer, lobby, server, next, toClient>>

Payloads == Seq(Byte)

\* Somewhere in an event larger than a datagram.
HalfRead(r) ==
    \A k \in DOMAIN r.inbound :
        /\ r.inbound[k].buf \in Payloads
        /\ r.inbound[k].have \in 1 .. Len(r.inbound[k].buf) - 1

TypeOK ==
    /\ said \in Seq([from : Clients, reliable : BOOLEAN, payload : Payloads])
    /\ sender \in [Clients -> [seq : Nat, chunk : Nat]]
    /\ lobby \subseteq Clients
    /\ next \in [Clients -> [seq : Nat, ordered : Nat, chunk : Nat]]
    /\ \A c \in Clients :
            /\ toServer[c] \cup toClient[c] \cup heard[c] \subseteq Payloads
            /\ HalfRead(server[c]) /\ HalfRead(reader[c])
            /\ server[c].processed \subseteq 1 .. sender[c].seq - 1
            /\ reader[c].processed \subseteq 1 .. next[c].seq - 1

NewReader == [processed |-> {}, inbound |-> <<>>]

Init ==
    /\ said = <<>>
    /\ sender = [c \in Clients |-> [seq |-> 1, chunk |-> 1]]
    /\ lobby = 1 .. NEarly
    /\ next = [c \in Clients |-> [seq |-> 1, ordered |-> 0, chunk |-> 1]]
    /\ server = [c \in Clients |-> NewReader] /\ reader = [c \in Clients |-> NewReader]
    /\ toServer = [c \in Clients |-> {}] /\ toClient = [c \in Clients |-> {}]
    /\ heard = [c \in Clients |-> {}]

-----------------------------------------------------------------------------
(* Reliable streams *)

SentAt == Base + 1      \* the time of every packet; nobody reads it

\* slice::chunks has no piece of an empty payload; a game sends it all the same.
PiecesOf(payload) == IF payload = <<>> THEN <<payload>> ELSE Pieces(payload)

\* The packets of an event with numbers from n on: seq, chunk id, and the
\* ordered index all of them share, if the event has one.
OrderedIndexFault(n, i) == IF n.ordered = None THEN None ELSE Some(n.ordered[1] + i - 1)
OrderedIndex(n, i) == n.ordered
Packets(payload, n) ==
    LET ps == PiecesOf(payload)
    IN  {Encode(Reliable(ps[i], n.seq + i - 1, 0, SentAt, OrderedIndex(n, i),
                IF Len(payload) > ChunkSize
                THEN Some([id |-> n.chunk, offset |-> (i - 1) * ChunkSize,
                           total |-> Len(payload), count |-> Len(ps)])
                ELSE None)) : i \in DOMAIN ps}
NextSeq(n, payload) == n.seq + Len(PiecesOf(payload))
NextChunk(n, payload) == n.chunk + IF Len(payload) > ChunkSize THEN 1 ELSE 0

\* A packet as it comes in: a piece of what is in so far.
With(r, f) ==
    LET ch == f.chunk[1]
        old == IF ch.id \in DOMAIN r.inbound THEN r.inbound[ch.id]
               ELSE NewReassembly(ch.total)
    IN  IF PieceFits(old, ch, f.payload) THEN WithPiece(old, ch, f.payload) ELSE old

\* The event it completes, if it completes one.
Completed(r, f) ==
    IF f.seq \in r.processed THEN None
    ELSE IF f.chunk = None THEN Some(f.payload)
    ELSE IF IsWhole(With(r, f)) THEN Some(With(r, f).buf)
    ELSE None

AfterPacket(r, f) ==
    [processed |-> r.processed \cup {f.seq},
     inbound |->
        IF f.seq \in r.processed \/ f.chunk = None THEN r.inbound
        ELSE LET id == f.chunk[1].id
             IN  IF IsWhole(With(r, f)) THEN Restrict(r.inbound, DOMAIN r.inbound \ {id})
                 ELSE [k \in DOMAIN r.inbound \cup {id} |->
                            IF k = id THEN With(r, f) ELSE r.inbound[k]]]

-----------------------------------------------------------------------------
(* Games *)

\* Some bytes, by which to tell one payload from the other and their places
\* from each other.
Bytes(len) == [k \in 1 .. len |-> (2 * Len(said) + k - 1) % Base]

Say(c, payload, reliable) ==
    LET n == [seq |-> sender[c].seq, chunk |-> sender[c].chunk, ordered |-> None]
    IN  /\ Len(said) < MaxSaid
        /\ said' = Append(said, [from |-> c, reliable |-> reliable, payload |-> payload])
        /\ \/ /\ ~reliable
              /\ toServer' = [toServer EXCEPT ![c] = @ \cup {Encode(Unreliable(payload))}]
              /\ UNCHANGED sender
           \/ /\ reliable
              /\ toServer' = [toServer EXCEPT ![c] = @ \cup Packets(payload, n)]
              /\ sender' = [sender EXCEPT ![c] =
                    [seq |-> NextSeq(n, payload), chunk |-> NextChunk(n, payload)]]
        /\ UNCHANGED <<reader, heard, lobby, server, next, toClient>>

\* from_beatermp and deliver.
Hear(c, datagram) ==
    LET f == Parse(datagram)
    IN  /\ \/ /\ f.kind = UNRELIABLE
              /\ heard' = [heard EXCEPT ![c] = @ \cup {f.payload}]
              /\ toClient' = [toClient EXCEPT ![c] = @ \ {datagram}]
              /\ UNCHANGED reader
           \/ /\ f.kind = RELIABLE
              /\ heard' = [heard EXCEPT ![c] = @ \cup ToSet(Completed(reader[c], f))]
              /\ reader' = [reader EXCEPT ![c] = AfterPacket(@, f)]
              /\ UNCHANGED toClient
        /\ UNCHANGED <<said, sender, toServer, lobby, server, next>>

-----------------------------------------------------------------------------
(* Server *)

CHAT == 0
GARAGESTATE == 16
UPDATEAVATARSTATE == 29

Peers(c) == lobby \ {c}

SendUnreliable(S, payload) ==
    /\ toClient' = [a \in Clients |->
            IF a \in S THEN toClient[a] \cup {Encode(Unreliable(payload))} ELSE toClient[a]]
    /\ UNCHANGED next

\* broadcast_reliable, by send_reliable with an ordered index for each.  An empty
\* payload takes the index, but there is no packet of it.
Ordered(a) == [next[a] EXCEPT !.ordered = Some(@)]
BroadcastReliable(S, payload) ==
    /\ toClient' = [a \in Clients |->
            IF a \in S /\ payload # <<>> THEN toClient[a] \cup Packets(payload, Ordered(a))
            ELSE toClient[a]]
    /\ next' = [a \in Clients |->
            IF a \in S /\ payload = <<>> THEN [next[a] EXCEPT !.ordered = @ + 1]
            ELSE IF a \in S THEN [seq |-> NextSeq(Ordered(a), payload), ordered |-> next[a].ordered + 1,
                             chunk |-> NextChunk(Ordered(a), payload)]
            ELSE next[a]]
Nothing == UNCHANGED <<toClient, next>>

\* relay_twin, for a member of the lobby.
RelayTwin(c, payload) ==
    BroadcastReliable(Peers(c), WithSender(Twins[Discriminant(payload)], c, payload))

\* handle_event, for what names an event the server passes on: what GarageState
\* and Ready do besides is JoinSync's and RaceLobby's, the server's replies to
\* chat are left out.  Ready is passed on from everyone; decode_chat may refuse
\* the text of a chat event.
HandleNamed(c, payload) ==
    LET d == Discriminant(payload)
        member == c \in lobby \/ d = GARAGESTATE
        twin == d \in DOMAIN Twins \ {READY} /\ member
        ready == d = READY /\ HasReady(payload)
    IN  /\ lobby' = IF d = GARAGESTATE THEN lobby \cup {c} ELSE lobby
        /\ \/ twin /\ RelayTwin(c, payload)
           \/ ready /\ BroadcastReliable(Peers(c), EncodeReadyBroadcast(c, payload))
           \/ d = CHAT /\ member /\ BroadcastReliable(Peers(c), payload)
           \/ ~twin /\ ~ready /\ Nothing

\* What names no event is passed on as it is, from everyone.
HandleEvent(c, payload) ==
    \/ NamesEvent(payload) /\ HandleNamed(c, payload)
    \/ ~NamesEvent(payload) /\ UNCHANGED lobby /\ BroadcastReliable(Peers(c), payload)

\* handle_unreliable: car states are rewritten and stay unreliable, avatars are
\* passed on unless one was less than AVATAR_RELAY_INTERVAL ago, and what names
\* no event is passed on as chat is.
HandleUnreliable(c, payload) ==
    LET d == Discriminant(payload)
        member == c \in lobby
        car == NamesEvent(payload) /\ d = CARSTATE
        twin == NamesEvent(payload) /\ d \in DOMAIN Twins \ {CARSTATE} /\ member
        verbatim == NamesEvent(payload) => BroadcastVerbatim(d)
    IN  /\ UNCHANGED lobby
        /\ \/ /\ car /\ member /\ IsCarState(payload)
              /\ SendUnreliable(Peers(c), EncodeCarBroadcast(c, payload))
           \/ twin /\ RelayTwin(c, payload)
           \/ verbatim /\ SendUnreliable(Peers(c), payload)
           \/ /\ \/ car /\ ~(member /\ IsCarState(payload))
                 \/ twin /\ d = UPDATEAVATARSTATE
                 \/ ~car /\ ~twin /\ ~verbatim
              /\ Nothing

Handle(c, datagram) ==
    LET f == Parse(datagram)
    IN  /\ \/ /\ f.kind = UNRELIABLE
              /\ HandleUnreliable(c, f.payload)
              /\ toServer' = [toServer EXCEPT ![c] = @ \ {datagram}]
              /\ UNCHANGED server
           \/ /\ f.kind = RELIABLE
              /\ server' = [server EXCEPT ![c] = AfterPacket(@, f)]
              /\ LET event == Completed(server[c], f)
                 IN  \/ event = None /\ UNCHANGED lobby /\ Nothing
                     \/ event # None /\ HandleEvent(c, event[1])
              /\ UNCHANGED toServer
        /\ UNCHANGED gameVars

-----------------------------------------------------------------------------
GameSays(c) == \E reliable \in BOOLEAN :
    \/ \E d \in IF reliable THEN Reliably ELSE Unreliably : \E len \in BodyLengths :
            Say(c, Le(d, U32) \o Bytes(len), reliable)
    \/ \E len \in ShortLengths : Say(c, Bytes(len), reliable)
GameHears(c) == \E b \in toClient[c] : Hear(c, b)
ServerReceives(c) == \E b \in toServer[c] : Handle(c, b)

Next == \E c \in Clients : GameSays(c) \/ GameHears(c) \/ ServerReceives(c)

Spec == Init /\ [][Next]_vars

-----------------------------------------------------------------------------
(* Safety *)

\* What a payload tells of the event m, which has a twin: under the twin, the
\* sender's id and the body.  Of a reliable Ready that is whether its byte is 0;
\* a car state is read as decode_broadcast reads it.
TellsTwin(payload, m) ==
    LET d == Discriminant(m.payload)
        body == SubSeq(payload, 3 * U32 + 1, Len(payload))
        car == SubSeq(body, 2 * U32 + 1, Len(body)) \o SubSeq(body, 1, 2 * U32)
    IN  /\ d \in DOMAIN Twins
        /\ NamesEvent(payload) /\ Discriminant(payload) = Twins[d]
        /\ SubSeq(payload, U32 + 1, 3 * U32) = PlayerId(m.from)
        /\ \/ d = READY /\ m.reliable /\ HasReady(m.payload)
              /\ body = <<IF Body(m.payload)[1] = 0 THEN 0 ELSE 1>>
           \/ d = CARSTATE /\ Body(m.payload) = car
           \/ d # CARSTATE /\ ~(d = READY /\ m.reliable) /\ Body(m.payload) = body

\* Whatever a game is handed was said by another player: chat and what names no
\* event byte for byte, any other event as its twin tells it, under that
\* player's name, however the pieces of several events arrive.  The player is in
\* the lobby; only a reliable Ready, chat that came unreliably and what names no
\* event are passed on from outside.
HeardAsSaid ==
    \A c \in Clients : \A payload \in heard[c] : \E n \in DOMAIN said :
        LET m == said[n]
            d == Discriminant(m.payload)
        IN  /\ m.from # c
            /\ \/ ~NamesEvent(m.payload) /\ payload = m.payload
               \/ /\ NamesEvent(m.payload)
                  /\ (d = CHAT /\ payload = m.payload) \/ TellsTwin(payload, m)
                  /\ \/ m.from \in lobby
                     \/ d = READY /\ m.reliable
                     \/ d = CHAT /\ ~m.reliable

\* A datagram reads as the frame it was made from; with bytes after it, too;
\* and cut short it is refused, unless it is an unreliable event, whose length
\* is the datagram's.
FramesAreUnambiguous ==
    \A c \in Clients : \A b \in toServer[c] \cup toClient[c] :
        /\ Parse(b).kind \in {RELIABLE, UNRELIABLE} /\ Encode(Parse(b)) = b
        /\ Parse(b).kind = RELIABLE =>
            /\ Parse(Append(b, 1)) = Parse(b)
            /\ \A k \in 0 .. Len(b) - 1 : Parse(SubSeq(b, 1, k)) = Rejected

\* A game waits for the next index of the ordered stream: none is skipped unless
\* another player said an empty payload, which takes an index and no packet, and
\* two packets share one only as pieces of one event.
OrderedStreamIsDense ==
    \A c \in Clients :
        LET fs == {f \in {Parse(b) : b \in toClient[c]} : f.kind = RELIABLE}
            sent == {f.ordered : f \in fs}
            all == {Some(i) : i \in 0 .. next[c].ordered - 1}
        IN  /\ sent \subseteq all
            /\ sent = all \/ \E n \in DOMAIN said :
                    said[n].from # c /\ said[n].reliable /\ said[n].payload = <<>>
            /\ \A f, g \in fs : f.seq < g.seq =>
                 \/ f.ordered[1] < g.ordered[1]
                 \/ /\ f.ordered = g.ordered /\ f.chunk # None /\ g.chunk # None
                    /\ f.chunk[1].id = g.chunk[1].id

=============================================================================
