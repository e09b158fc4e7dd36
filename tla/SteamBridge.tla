----------------------------- MODULE SteamBridge -----------------------------
(***************************************************************************)
(* Games that play through Steam: the bridge process (crates/steam, its    *)
(* main loop and translate.rs) between Steam's P2P connections and the     *)
(* server's UDP port.  Steam carries bare events, reliably and in order;   *)
(* between bridge and server each event is a Frame in a datagram over the  *)
(* loopback, which may drop it.  The bridge gives every Steam peer a       *)
(* socket of its own, so the server takes it for a client of its own.      *)
(*                                                                         *)
(* Upward, a game's event becomes one numbered frame, sent once.  Downward *)
(* the server sends a packet again until it is acknowledged (Link); the    *)
(* bridge acknowledges, drops what it has forwarded before, reassembles    *)
(* chunks and hands the event to Steam, which may refuse it.  Acks,        *)
(* greetings and unreliable frames of the server leave no trace in the     *)
(* bridge and are left out.                                                *)
(***************************************************************************)
EXTENDS Integers, Sequences, SequencesExt, FiniteSets

CONSTANTS
    Ports,          \* loopback addresses the system may give to a socket
    MaxPeers,       \* bound on the Steam connections of a behaviour
    MaxClients,     \* bound on the client ids the server gives out
    MaxSaid,        \* bound on the messages of all games
    MaxPackets,     \* bound on the packets the server makes for one client
    ChunkCounts,    \* how many packets an event may take
    MaxResends,     \* MAX_RESENDS
    MaxLost,        \* bound on the datagrams the loopback drops
    MayStall,       \* may a game that stays be silent for CLIENT_TIMEOUT?
    MayReusePorts   \* may a socket get the port of a client not yet timed out?

ASSUME BridgeAssumption ==
    /\ {MaxPeers, MaxClients, MaxSaid, MaxPackets, MaxResends, MaxLost} \subseteq Nat
    /\ ChunkCounts \subseteq Nat \ {0}
    /\ {MayStall, MayReusePorts} \subseteq BOOLEAN

Ids == 1 .. MaxPeers
ClientIds == 1 .. MaxClients
Seqs == 1 .. MaxPackets

VARIABLES
    nextPeer,       \* next_peer_id
    up,             \* Steam connections that are up
    said,           \* the messages of the games so far: whose each is
    left,           \* games whose last message was their Disconnect
    inbox,          \* those the bridge has not read
    heard,          \* events Steam has taken for each game, in order
    refused,        \* events the bridge had for a game and Steam did not take
    peers,          \* the bridge's peers: socket and translation state
    nextClient,     \* next_client_id
    clients,        \* the server's entries, by address
    wire,           \* the packets made for each client id, by sequence number
    resent,         \* how often each of them was sent again
    givenUp,        \* those the server has given up on
    handled,        \* the games' messages the server has handled
    toServer,       \* datagrams on their way to the server
    toPeer,         \* datagrams on their way to each socket
    lost            \* datagrams the loopback has dropped

steamVars == <<up, said, left, inbox, heard, refused>>
bridgeVars == <<nextPeer, peers>>
serverVars == <<nextClient, clients, wire, resent, givenUp, handled>>
netVars == <<toServer, toPeer, lost>>
vars == <<steamVars, bridgeVars, serverVars, netVars>>

\* What a game says: a reliable event, an unreliable one, or its Disconnect.
Kinds == {"event", "state", "bye"}
Messages == [kind : Kinds, n : 1 .. MaxSaid]
Frames == [port : Ports, peer : Ids, kind : Kinds \cup {"ack"}, seq : Nat, n : 0 .. MaxSaid]
Packets == [event : Seqs, piece : Seqs, of : Seqs, chunk : 0 .. MaxPackets]
Copies == [client : ClientIds, seq : Seqs]

\* What is in of a chunked event: less than all of it, or there is no such event.
Half == {h \in [have : 0 .. MaxPackets, total : 0 .. MaxPackets] : h.have < h.total \/ h.total = 0}
Peers == [port : Ports, nextSeq : Nat, forwarded : SUBSET Seqs, inbound : [Seqs -> Half]]
Entries == [id : ClientIds, pending : SUBSET Seqs, processed : SUBSET Nat,
            nextEvent : Nat, nextChunk : Nat]

TypeOK ==
    /\ nextPeer \in 1 .. MaxPeers + 1
    /\ up \subseteq Ids
    /\ said \in Seq(Ids) /\ Len(said) <= MaxSaid
    /\ left \subseteq Ids
    /\ inbox \in [Ids -> Seq(Messages)]
    /\ heard \in [Ids -> Seq([client : ClientIds, event : Seqs])]
    /\ refused \subseteq [peer : Ids, client : ClientIds, event : Seqs]
    /\ \E S \in SUBSET Ids : peers \in [S -> Peers]
    /\ nextClient \in 1 .. MaxClients + 1
    /\ \E S \in SUBSET Ports : clients \in [S -> Entries]
    /\ wire \in [ClientIds -> Seq(Packets)]
    /\ resent \in [ClientIds -> [Seqs -> 0 .. MaxResends]]
    /\ givenUp \subseteq Copies
    /\ handled \subseteq [client : ClientIds, peer : Ids, n : 1 .. MaxSaid]
    /\ toServer \in Seq(Frames)
    /\ toPeer \in [Ports -> Seq(Copies)]
    /\ lost \subseteq Frames \cup Copies

Init ==
    /\ nextPeer = 1 /\ up = {} /\ left = {} /\ said = <<>>
    /\ inbox = [i \in Ids |-> <<>>] /\ heard = [i \in Ids |-> <<>>] /\ refused = {}
    /\ peers = <<>>
    /\ nextClient = 1 /\ clients = <<>> /\ wire = [c \in ClientIds |-> <<>>]
    /\ resent = [c \in ClientIds |-> [s \in Seqs |-> 0]] /\ givenUp = {} /\ handled = {}
    /\ toServer = <<>> /\ toPeer = [p \in Ports |-> <<>>] /\ lost = {}

-----------------------------------------------------------------------------
(* Steam and the games *)

Bound == {peers[i].port : i \in DOMAIN peers}
PeerAt(p) == {i \in DOMAIN peers : peers[i].port = p}

GameSays(i, kind) ==
    /\ i \in up \ left /\ Len(said) < MaxSaid
    /\ said' = Append(said, i)
    /\ left' = IF kind = "bye" THEN left \cup {i} ELSE left
    /\ inbox' = [inbox EXCEPT ![i] = Append(@, [kind |-> kind, n |-> Len(said) + 1])]
    /\ UNCHANGED <<up, heard, refused, bridgeVars, serverVars, netVars>>

\* The game quits or Steam loses it; the bridge finds out later.
ConnectionEnds(i) ==
    /\ i \in up /\ up' = up \ {i}
    /\ UNCHANGED <<said, left, inbox, heard, refused, bridgeVars, serverVars, netVars>>

\* No address the server still takes for somebody else's.
Fresh(p) ==
    /\ p \notin DOMAIN clients
    /\ \A n \in DOMAIN toServer : toServer[n].port # p

-----------------------------------------------------------------------------
(* Bridge *)

NewPeer(p) ==
    [port |-> p, nextSeq |-> 1, forwarded |-> {},
     inbound |-> [k \in Seqs |-> [have |-> 0, total |-> 0]]]

\* Connected: a socket and a translation state for the peer, or, if the socket
\* cannot be had, neither.
Connected ==
    /\ nextPeer \in Ids /\ nextPeer' = nextPeer + 1
    /\ up' = up \cup {nextPeer}
    /\ \/ \E p \in Ports \ Bound :
            /\ MayReusePorts \/ Fresh(p)
            /\ peers' = [i \in DOMAIN peers \cup {nextPeer} |->
                            IF i = nextPeer THEN NewPeer(p) ELSE peers[i]]
       \/ UNCHANGED peers
    /\ UNCHANGED <<said, left, inbox, heard, refused, serverVars, netVars>>

\* Disconnected: the peer and its socket go, with what is unread on both sides.
\* The server is not told.
ClosedFault(p) == toPeer
Closed(p) == [toPeer EXCEPT ![p] = <<>>]
Disconnected(i) ==
    /\ i \in DOMAIN peers \ up
    /\ peers' = [j \in DOMAIN peers \ {i} |-> peers[j]]
    /\ inbox' = [inbox EXCEPT ![i] = <<>>]
    /\ toPeer' = Closed(peers[i].port)
    /\ UNCHANGED <<nextPeer, up, said, left, heard, refused, serverVars, toServer, lost>>

\* from_steam: an unreliable event becomes a kind-1 frame, any other event a
\* kind-0 frame with the next sequence number.  Neither is kept.
NextSeqFault(i, kind) == peers[i].nextSeq
NextSeq(i, kind) == peers[i].nextSeq + IF kind = "state" THEN 0 ELSE 1
RelayUp(i) ==
    /\ i \in DOMAIN peers /\ inbox[i] # <<>>
    /\ LET m == Head(inbox[i])
       IN  /\ toServer' = Append(toServer,
                [port |-> peers[i].port, peer |-> i, kind |-> m.kind, n |-> m.n,
                 seq |-> IF m.kind = "state" THEN 0 ELSE peers[i].nextSeq])
           /\ peers' = [peers EXCEPT ![i].nextSeq = NextSeq(i, m.kind)]
    /\ inbox' = [inbox EXCEPT ![i] = Tail(@)]
    /\ UNCHANGED <<nextPeer, up, said, left, heard, refused, serverVars, toPeer, lost>>

\* deliver, for a packet that belongs to a chunked event: the bytes received
\* under this chunk id so far.
Halfway(i, pk) ==
    LET h == peers[i].inbound[pk.chunk]
    IN  IF h.total = 0 THEN [have |-> 0, total |-> pk.of] ELSE h

\* The event is complete with this packet; a piece past the end never counts.
CompletesLateFault(i, pk) == pk.chunk = 0 \/ Halfway(i, pk).have >= Halfway(i, pk).total
Completes(i, pk) ==
    \/ pk.chunk = 0
    \/ /\ pk.piece <= Halfway(i, pk).total
       /\ Halfway(i, pk).have + 1 >= Halfway(i, pk).total

InboundAfter(i, pk) ==
    IF pk.chunk = 0 THEN peers[i].inbound
    ELSE [peers[i].inbound EXCEPT ![pk.chunk] =
            IF Completes(i, pk) THEN [have |-> 0, total |-> 0]
            ELSE IF pk.piece > Halfway(i, pk).total THEN Halfway(i, pk)
            ELSE [Halfway(i, pk) EXCEPT !.have = @ + 1]]

NeverForwardedFault(i, s) == FALSE
ForwardedUpToFault(i, s) == \E t \in peers[i].forwarded : s <= t
Forwarded(i, s) == s \in peers[i].forwarded

\* conn.send_message: Steam takes nothing once the connection is down, and may
\* fail before; a failure is only logged.
HandToSteam(i, event) ==
    \/ /\ i \in up
       /\ heard' = [heard EXCEPT ![i] = Append(@, event)]
       /\ UNCHANGED refused
    \/ /\ refused' = refused \cup {[peer |-> i, client |-> event.client, event |-> event.event]}
       /\ UNCHANGED heard

\* A frame of the server: acknowledge it; if its number is new, apply it and
\* hand what it completes to Steam.
RelayDown(i) ==
    /\ i \in DOMAIN peers /\ toPeer[peers[i].port] # <<>>
    /\ LET p == peers[i].port
           d == Head(toPeer[p])
           pk == wire[d.client][d.seq]
       IN  /\ toServer' = Append(toServer,
                [port |-> p, peer |-> i, kind |-> "ack", n |-> 0, seq |-> d.seq])
           /\ toPeer' = [toPeer EXCEPT ![p] = Tail(@)]
           /\ \/ Forwarded(i, d.seq) /\ UNCHANGED <<peers, heard, refused>>
              \/ /\ ~Forwarded(i, d.seq)
                 /\ peers' = [peers EXCEPT ![i].forwarded = @ \cup {d.seq},
                                           ![i].inbound = InboundAfter(i, pk)]
                 /\ IF Completes(i, pk)
                    THEN HandToSteam(i, [client |-> d.client, event |-> pk.event])
                    ELSE UNCHANGED <<heard, refused>>
    /\ UNCHANGED <<nextPeer, up, said, left, inbox, serverVars, lost>>

-----------------------------------------------------------------------------
(* Server *)

NewEntry(n) ==
    [id |-> n, pending |-> {}, processed |-> {}, nextEvent |-> 1, nextChunk |-> 1]

\* Any datagram makes an entry for an address that has none.
Known(p) ==
    IF p \in DOMAIN clients THEN clients
    ELSE [q \in DOMAIN clients \cup {p} |-> IF q = p THEN NewEntry(nextClient) ELSE clients[q]]

Without(p) == [q \in DOMAIN clients \ {p} |-> clients[q]]

\* handle: an ack settles its packet; a reliable frame is handled if its number
\* is new, an unreliable one always; Disconnect removes the entry.
Handle(d) ==
    LET known == Known(d.port)
        reliable == d.kind \in {"event", "bye"}
        new == reliable /\ d.seq \notin known[d.port].processed
    IN  /\ d.port \in DOMAIN clients \/ nextClient \in ClientIds
        /\ nextClient' = IF d.port \in DOMAIN clients THEN nextClient ELSE nextClient + 1
        /\ \/ /\ d.kind = "ack"
              /\ clients' = [known EXCEPT ![d.port].pending = @ \ {d.seq}]
              /\ UNCHANGED handled
           \/ /\ reliable /\ ~new
              /\ clients' = known /\ UNCHANGED handled
           \/ /\ d.kind = "state" \/ new
              /\ clients' = IF d.kind = "bye" THEN Without(d.port)
                            ELSE IF new THEN [known EXCEPT ![d.port].processed = @ \cup {d.seq}]
                            ELSE known
              /\ handled' = handled \cup
                    {[client |-> known[d.port].id, peer |-> d.peer, n |-> d.n]}
ServerReceive ==
    /\ toServer # <<>>
    /\ Handle(Head(toServer))
    /\ toServer' = Tail(toServer)
    /\ UNCHANGED <<steamVars, bridgeVars, wire, resent, givenUp, toPeer, lost>>

\* Datagrams for an address reach the socket bound to it, if there is one.
SentFault(p, ds) == IF p \in Bound THEN [toPeer EXCEPT ![p] = ds \o @] ELSE toPeer
Sent(p, ds) == IF p \in Bound THEN [toPeer EXCEPT ![p] = @ \o ds] ELSE toPeer

\* send_reliable: one packet per chunk.  The server has events only for a
\* client it has heard one from.
SendReliable(p, n) ==
    /\ p \in DOMAIN clients /\ clients[p].processed # {}
    /\ LET c == clients[p]
           k == Len(wire[c.id])
           seqs == [j \in 1 .. n |-> k + j]
       IN  /\ k + n <= MaxPackets
           /\ wire' = [wire EXCEPT ![c.id] = @ \o [j \in 1 .. n |->
                    [event |-> c.nextEvent, piece |-> j, of |-> n,
                     chunk |-> IF n > 1 THEN c.nextChunk ELSE 0]]]
           /\ clients' = [clients EXCEPT ![p].pending = @ \cup (k + 1 .. k + n),
                                         ![p].nextEvent = @ + 1,
                                         ![p].nextChunk = @ + IF n > 1 THEN 1 ELSE 0]
           /\ toPeer' = Sent(p, [j \in 1 .. n |-> [client |-> c.id, seq |-> k + j]])
    /\ UNCHANGED <<steamVars, bridgeVars, nextClient, resent, givenUp, handled, toServer, lost>>

\* What the tick looks at is pending since a tick ago, a second.  Both processes
\* read their sockets every few milliseconds, so a packet that is still on its
\* way, or whose ack is, is younger than that.
IsDue(p, s) ==
    /\ p \in DOMAIN clients /\ s \in clients[p].pending
    /\ ~Contains(toPeer[p], [client |-> clients[p].id, seq |-> s])
    /\ \A n \in DOMAIN toServer :
            toServer[n].kind = "ack" => toServer[n].port # p \/ toServer[n].seq # s

\* tick resends it, or gives up on it once it was resent often enough.
Resend(p, s) ==
    /\ IsDue(p, s)
    /\ LET c == clients[p].id
       IN  /\ resent[c][s] < MaxResends
           /\ resent' = [resent EXCEPT ![c][s] = @ + 1]
           /\ toPeer' = Sent(p, <<[client |-> c, seq |-> s]>>)
    /\ UNCHANGED <<steamVars, bridgeVars, nextClient, clients, wire, givenUp, handled,
                   toServer, lost>>

GiveUp(p, s) ==
    /\ IsDue(p, s) /\ resent[clients[p].id][s] >= MaxResends
    /\ clients' = [clients EXCEPT ![p].pending = @ \ {s}]
    /\ givenUp' = givenUp \cup {[client |-> clients[p].id, seq |-> s]}
    /\ UNCHANGED <<steamVars, bridgeVars, nextClient, wire, resent, handled, netVars>>

SilentFault(p) ==
    /\ clients[p].pending # {}
    /\ \A n \in DOMAIN toServer : toServer[n].port # p
    /\ PeerAt(p) = {}
\* tick removes a client not heard of for CLIENT_TIMEOUT: its game is gone, or
\* has said goodbye and has nothing more to acknowledge, or stalls.
Silent(p) ==
    /\ \A n \in DOMAIN toServer : toServer[n].port # p
    /\ \A i \in PeerAt(p) :
            /\ i \notin up \/ i \in left \/ MayStall
            /\ inbox[i] = <<>> /\ toPeer[p] = <<>>
TimeOut(p) ==
    /\ p \in DOMAIN clients /\ Silent(p)
    /\ clients' = Without(p)
    /\ UNCHANGED <<steamVars, bridgeVars, nextClient, wire, resent, givenUp, handled, netVars>>

-----------------------------------------------------------------------------
(* Loopback *)

\* A full socket buffer: any datagram on its way may be dropped.
Drop ==
    /\ Cardinality(lost) < MaxLost
    /\ \/ \E n \in DOMAIN toServer :
            /\ toServer' = RemoveAt(toServer, n)
            /\ lost' = lost \cup {toServer[n]} /\ UNCHANGED toPeer
       \/ \E p \in Ports : \E n \in DOMAIN toPeer[p] :
            /\ toPeer' = [toPeer EXCEPT ![p] = RemoveAt(@, n)]
            /\ lost' = lost \cup {toPeer[p][n]} /\ UNCHANGED toServer
    /\ UNCHANGED <<steamVars, bridgeVars, serverVars>>

-----------------------------------------------------------------------------
Next ==
    \/ \E i \in Ids : (\E kind \in Kinds : GameSays(i, kind)) \/ ConnectionEnds(i)
    \/ Connected
    \/ \E i \in Ids : Disconnected(i) \/ RelayUp(i) \/ RelayDown(i)
    \/ ServerReceive
    \/ \E p \in Ports : \E n \in ChunkCounts : SendReliable(p, n)
    \/ \E p \in Ports, s \in Seqs : Resend(p, s) \/ GiveUp(p, s)
    \/ \E p \in Ports : TimeOut(p)
    \/ Drop

\* Bridge and server are loops that never block for long.
Fairness ==
    /\ \A i \in Ids : WF_vars(Disconnected(i)) /\ WF_vars(RelayUp(i)) /\ WF_vars(RelayDown(i))
    /\ WF_vars(ServerReceive)
    /\ \A p \in Ports : WF_vars(TimeOut(p)) /\ \A s \in Seqs : WF_vars(Resend(p, s) \/ GiveUp(p, s))

Spec == Init /\ [][Next]_vars /\ Fairness

-----------------------------------------------------------------------------
(* Safety *)

Copy(c, s) == [client |-> c, seq |-> s]
Event(c, e) == [client |-> c, event |-> e]

\* translate.rs:44: a retransmit is "acked but not delivered to Steam twice".
HeardOnce ==
    \A i \in Ids : \A n, m \in DOMAIN heard[i] : heard[i][n] = heard[i][m] => n = m

\* A game hears what the server sent to the client it speaks for, and to no
\* client another game spoke for.
HeardByItsOwner ==
    \A i \in Ids : \A n \in DOMAIN heard[i] : \A h \in handled :
        h.client = heard[i][n].client => h.peer = i

\* Nothing loses an acknowledged event but Steam: once all the packets of an
\* event are acknowledged, and none was given up, its game has heard it or Steam
\* has refused it.
Acked(p, s) ==
    /\ s \notin clients[p].pending
    /\ Copy(clients[p].id, s) \notin givenUp
Refused(i, c, e) == [peer |-> i, client |-> c, event |-> e] \in refused
AckedIsHeard ==
    \A i \in DOMAIN peers : \A p \in DOMAIN clients \cap {peers[i].port} :
        LET c == clients[p].id
        IN  \A e \in 1 .. clients[p].nextEvent - 1 :
                (\A s \in DOMAIN wire[c] : wire[c][s].event = e => Acked(p, s))
                    => Contains(heard[i], Event(c, e)) \/ Refused(i, c, e)

\* The bridge forwards in the order of arrival.  That is the order of sending
\* as long as the loopback drops nothing that was sent to the client.
HeardInOrderUnlessDropped ==
    \A i \in Ids : \A n, m \in DOMAIN heard[i] :
        (n < m /\ heard[i][n].client = heard[i][m].client) =>
            \/ heard[i][n].event < heard[i][m].event
            \/ \E s \in Seqs : Copy(heard[i][m].client, s) \in lost

\* A message the bridge has taken from a game that is still there is handled by
\* the server, on its way, or dropped by the loopback: nothing else loses it.
UpwardAccounted ==
    \A i \in DOMAIN peers : \A n \in DOMAIN said : said[n] = i =>
        \/ \E k \in DOMAIN inbox[i] : inbox[i][k].n = n
        \/ \E f \in ToSet(toServer) \cup (lost \cap Frames) : f.peer = i /\ f.n = n
        \/ \E h \in handled : h.peer = i /\ h.n = n

-----------------------------------------------------------------------------
(* Liveness *)

SpeaksFor(i, p) == \E h \in handled : h.peer = i /\ h.client = clients[p].id

\* steam/main.rs:266: a disconnected peer is only forgotten by the bridge; the
\* server's timeout is what takes its player out of the lobby.
PlayersDoNotOutstayTheirGame ==
    \A i \in Ids : (i < nextPeer /\ i \notin up) ~>
                        (\A p \in DOMAIN clients : ~SpeaksFor(i, p))

\* What the server sends reaches the game, unless Steam refuses it, the server
\* gives up on a packet of it, which takes more losses than resends, or one of
\* the two leaves.
EventsAreHeard ==
    \A i \in Ids, c \in ClientIds, e \in Seqs :
        (\E p \in DOMAIN clients : clients[p].id = c /\ e < clients[p].nextEvent /\ SpeaksFor(i, p))
            ~> \/ Contains(heard[i], Event(c, e)) \/ Refused(i, c, e)
               \/ \E s \in DOMAIN wire[c] : wire[c][s].event = e /\ Copy(c, s) \in givenUp
               \/ i \notin DOMAIN peers \cap up
               \/ c \notin {clients[p].id : p \in DOMAIN clients}
=============================================================================
