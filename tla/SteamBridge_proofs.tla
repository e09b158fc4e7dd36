-------------------------- MODULE SteamBridge_proofs --------------------------
(***************************************************************************)
(* Theorems of SteamBridge for any number of games, messages, packets and  *)
(* losses: types, that a message the bridge has taken is accounted for,    *)
(* and that a game hears nothing meant for another.  The last two assume   *)
(* that no port is reused early; without it they do not hold.              *)
(***************************************************************************)
EXTENDS SteamBridge, SequenceFacts, TLAPS

-----------------------------------------------------------------------------
(* Types *)

SteamOK ==
    /\ up \subseteq Ids
    /\ said \in Seq(Ids) /\ Len(said) <= MaxSaid
    /\ left \subseteq Ids
    /\ inbox \in [Ids -> Seq(Messages)]
    /\ heard \in [Ids -> Seq([client : ClientIds, event : Seqs])]
    /\ refused \subseteq [peer : Ids, client : ClientIds, event : Seqs]

\* Peers are the connections there have been.
BridgeOK ==
    /\ nextPeer \in 1 .. MaxPeers + 1
    /\ DOMAIN peers \subseteq 1 .. nextPeer - 1
    /\ peers \in [DOMAIN peers -> Peers]

\* The ids not given out have no packets, and an entry has made at least as
\* many packets as events and chunked events.
ServerOK ==
    /\ nextClient \in 1 .. MaxClients + 1
    /\ DOMAIN clients \subseteq Ports
    /\ clients \in [DOMAIN clients -> Entries]
    /\ wire \in [ClientIds -> Seq(Packets)]
    /\ resent \in [ClientIds -> [Seqs -> 0 .. MaxResends]]
    /\ givenUp \subseteq Copies
    /\ handled \subseteq [client : ClientIds, peer : Ids, n : 1 .. MaxSaid]
    /\ \A c \in ClientIds : c >= nextClient => wire[c] = <<>>
    /\ \A p \in DOMAIN clients :
            LET c == clients[p]
            IN  /\ c.id < nextClient
                /\ c.nextEvent \in 1 .. Len(wire[c.id]) + 1
                /\ c.nextChunk \in 1 .. Len(wire[c.id]) + 1
                /\ c.pending \subseteq 1 .. Len(wire[c.id])

\* All but acks carry a message; a copy on its way is of a packet that was made.
NetOK ==
    /\ toServer \in Seq(Frames)
    /\ toPeer \in [Ports -> Seq(Copies)]
    /\ lost \subseteq Frames \cup Copies
    /\ \A n \in DOMAIN toServer : toServer[n].kind # "ack" <=> toServer[n].n \in 1 .. MaxSaid
    /\ \A p \in Ports : \A n \in DOMAIN toPeer[p] :
            toPeer[p][n].seq \in 1 .. Len(wire[toPeer[p][n].client])

TypeInv == SteamOK /\ BridgeOK /\ ServerOK /\ NetOK

LEMMA TypeInvImplies == TypeInv => TypeOK
<1>. SUFFICES ASSUME TypeInv PROVE TypeOK
  OBVIOUS
<1>1. \E S \in SUBSET Ids : peers \in [S -> Peers]
  <2>. DOMAIN peers \in SUBSET Ids
    BY BridgeAssumption DEF TypeInv, BridgeOK, Ids
  <2>. QED  BY DEF TypeInv, BridgeOK
<1>2. \E S \in SUBSET Ports : clients \in [S -> Entries]
  BY DEF TypeInv, ServerOK
<1>. QED  BY <1>1, <1>2 DEF TypeInv, SteamOK, BridgeOK, ServerOK, NetOK, TypeOK

LEMMA InitTypeInv == Init => TypeInv
<1>. SUFFICES ASSUME Init PROVE TypeInv
  OBVIOUS
<1>1. SteamOK
  BY BridgeAssumption DEF Init, SteamOK
<1>2. BridgeOK
  BY BridgeAssumption DEF Init, BridgeOK
<1>3. ServerOK
  BY BridgeAssumption DEF Init, ServerOK
<1>4. NetOK
  BY DEF Init, NetOK
<1>. QED  BY <1>1, <1>2, <1>3, <1>4 DEF TypeInv

LEMMA GameSaysType ==
    ASSUME TypeInv, NEW i \in Ids, NEW kind \in Kinds, GameSays(i, kind) PROVE TypeInv'
<1>1. SteamOK'
  <2>1. [kind |-> kind, n |-> Len(said) + 1] \in Messages
    BY BridgeAssumption DEF TypeInv, SteamOK, GameSays, Messages
  <2>2. inbox' \in [Ids -> Seq(Messages)]
    BY <2>1 DEF TypeInv, SteamOK, GameSays
  <2>3. said' \in Seq(Ids) /\ Len(said') <= MaxSaid
    BY AppendElements, BridgeAssumption DEF TypeInv, SteamOK, GameSays
  <2>. QED  BY <2>2, <2>3 DEF TypeInv, SteamOK, GameSays
<1>. QED
  BY <1>1 DEF TypeInv, BridgeOK, ServerOK, NetOK, GameSays, bridgeVars, serverVars, netVars

LEMMA ConnectedType ==
    ASSUME TypeInv, Connected PROVE TypeInv'
<1>1. SteamOK'
  BY DEF TypeInv, SteamOK, Connected
<1>2. BridgeOK'
  <2>1. ASSUME NEW p \in Ports PROVE NewPeer(p) \in Peers
    BY BridgeAssumption DEF NewPeer, Peers, Half
  <2>. QED  BY <2>1, BridgeAssumption DEF TypeInv, BridgeOK, Connected, Ids
<1>. QED  BY <1>1, <1>2 DEF TypeInv, ServerOK, NetOK, Connected, serverVars, netVars

LEMMA DisconnectedType ==
    ASSUME TypeInv, NEW i \in Ids, Disconnected(i) PROVE TypeInv'
<1>1. SteamOK'
  <2>1. inbox' \in [Ids -> Seq(Messages)]
    BY DEF TypeInv, SteamOK, Disconnected
  <2>. QED  BY <2>1 DEF TypeInv, SteamOK, Disconnected
<1>2. BridgeOK'
  BY DEF TypeInv, BridgeOK, Disconnected
<1>3. NetOK'
  BY DEF TypeInv, NetOK, BridgeOK, Peers, Disconnected, Closed, serverVars
<1>. QED  BY <1>1, <1>2, <1>3 DEF TypeInv, ServerOK, Disconnected, serverVars

\* What the bridge sends upward is a frame.
LEMMA RelayUpType ==
    ASSUME TypeInv, NEW i \in Ids, RelayUp(i) PROVE TypeInv'
<1>. DEFINE m == Head(inbox[i])
            f == [port |-> peers[i].port, peer |-> i, kind |-> m.kind, n |-> m.n,
                  seq |-> IF m.kind = "state" THEN 0 ELSE peers[i].nextSeq]
<1>1. /\ m \in Messages /\ Tail(inbox[i]) \in Seq(Messages)
      /\ peers[i] \in Peers /\ i \in DOMAIN peers
  BY DEF TypeInv, SteamOK, BridgeOK, RelayUp
<1>2. f \in Frames /\ f.n \in 1 .. MaxSaid /\ f.kind # "ack"
  BY <1>1, BridgeAssumption DEF Messages, Peers, Frames, Kinds
<1>3. toServer' = Append(toServer, f)
  BY DEF RelayUp
<1>. HIDE DEF m, f
<1>4. SteamOK'
  BY <1>1 DEF TypeInv, SteamOK, RelayUp
<1>5. BridgeOK'
  <2>1. peers[i].nextSeq \in Nat /\ NextSeq(i, m.kind) \in Nat
    BY <1>1 DEF Peers, NextSeq
  <2>2. [peers[i] EXCEPT !.nextSeq = NextSeq(i, m.kind)] \in Peers
    BY <1>1, <2>1 DEF Peers
  <2>3. peers' = [peers EXCEPT ![i] = [peers[i] EXCEPT !.nextSeq = NextSeq(i, m.kind)]]
    BY DEF RelayUp, m
  <2>. QED  BY <1>1, <2>2, <2>3 DEF TypeInv, BridgeOK, RelayUp
<1>6. NetOK'
  <2>1. /\ toServer' \in Seq(Frames)
        /\ \A n \in DOMAIN toServer' : toServer'[n].kind # "ack" <=> toServer'[n].n \in 1 .. MaxSaid
    BY <1>2, <1>3, AppendElements DEF TypeInv, NetOK
  <2>. QED  BY <2>1 DEF TypeInv, NetOK, RelayUp, serverVars
<1>. QED  BY <1>4, <1>5, <1>6 DEF TypeInv, ServerOK, RelayUp, serverVars

\* What is in of an event stays less than all of it.
LEMMA InboundType ==
    ASSUME BridgeAssumption, NEW i, peers[i] \in Peers, NEW pk \in Packets
    PROVE  InboundAfter(i, pk) \in [Seqs -> Half]
<1>1. CASE pk.chunk = 0
  BY <1>1 DEF InboundAfter, Peers
<1>2. CASE pk.chunk # 0
  <2>. DEFINE h == Halfway(i, pk)
  <2>1. pk.chunk \in Seqs
    BY <1>2, BridgeAssumption DEF Packets, Seqs
  <2>2. h \in Half /\ h.total # 0
    <3>1. peers[i].inbound[pk.chunk] \in Half
      BY <2>1 DEF Peers
    <3>2. pk.of \in 1 .. MaxPackets
      BY DEF Packets, Seqs
    <3>3. CASE peers[i].inbound[pk.chunk].total = 0
      BY <3>2, <3>3, BridgeAssumption DEF Halfway, Half
    <3>4. CASE peers[i].inbound[pk.chunk].total # 0
      BY <3>1, <3>4 DEF Halfway
    <3>. QED  BY <3>3, <3>4
  <2>3. CASE Completes(i, pk)
    <3>1. [have |-> 0, total |-> 0] \in Half
      BY BridgeAssumption DEF Half
    <3>. QED  BY <1>2, <2>1, <2>3, <3>1 DEF InboundAfter, Peers
  <2>4. CASE ~Completes(i, pk) /\ pk.piece > h.total
    BY <1>2, <2>1, <2>2, <2>4 DEF InboundAfter, Peers
  <2>5. CASE ~Completes(i, pk) /\ ~(pk.piece > h.total)
    <3>1. [h EXCEPT !.have = @ + 1] \in Half
      BY <1>2, <2>2, <2>5, BridgeAssumption DEF Completes, Half, Packets, Seqs
    <3>. QED  BY <1>2, <2>1, <2>5, <3>1 DEF InboundAfter, Peers
  <2>. QED  BY <2>3, <2>4, <2>5
<1>. QED  BY <1>1, <1>2

\* What a socket holds is a copy of a packet of the server.
LEMMA RelayDownCopy ==
    ASSUME TypeInv, NEW i \in Ids, RelayDown(i)
    PROVE  LET p == peers[i].port
               d == Head(toPeer[p])
           IN  /\ i \in DOMAIN peers /\ peers[i] \in Peers /\ p \in Ports
               /\ toPeer[p] \in Seq(Copies) /\ toPeer[p] # <<>>
               /\ d \in Copies /\ d = toPeer[p][1] /\ 1 \in DOMAIN toPeer[p]
               /\ d.client \in ClientIds /\ d.seq \in Seqs /\ d.seq \in 1 .. Len(wire[d.client])
               /\ wire[d.client][d.seq] \in Packets
<1>1. i \in DOMAIN peers /\ peers[i] \in Peers /\ peers[i].port \in Ports
  BY DEF TypeInv, BridgeOK, Peers, RelayDown
<1>. DEFINE p == peers[i].port
            d == Head(toPeer[p])
<1>2. toPeer[p] \in Seq(Copies) /\ toPeer[p] # <<>>
  BY <1>1 DEF TypeInv, NetOK, RelayDown
<1>3. d \in Copies /\ d = toPeer[p][1] /\ 1 \in DOMAIN toPeer[p]
  BY <1>2, TailElements
<1>4. d.client \in ClientIds /\ d.seq \in Seqs
  BY <1>3 DEF Copies
<1>5. d.seq \in 1 .. Len(wire[d.client])
  BY <1>1, <1>3 DEF TypeInv, NetOK
<1>6. wire[d.client][d.seq] \in Packets
  BY <1>4, <1>5 DEF TypeInv, ServerOK
<1>. QED  BY <1>1, <1>2, <1>3, <1>4, <1>5, <1>6

LEMMA RelayDownType ==
    ASSUME TypeInv, NEW i \in Ids, RelayDown(i) PROVE TypeInv'
<1>. DEFINE p == peers[i].port
            d == Head(toPeer[p])
            pk == wire[d.client][d.seq]
            f == [port |-> p, peer |-> i, kind |-> "ack", n |-> 0, seq |-> d.seq]
<1>1. /\ i \in DOMAIN peers /\ peers[i] \in Peers /\ p \in Ports
      /\ toPeer[p] \in Seq(Copies) /\ toPeer[p] # <<>>
      /\ d.client \in ClientIds /\ d.seq \in Seqs /\ pk \in Packets
  BY RelayDownCopy
<1>2. f \in Frames /\ f.kind = "ack" /\ f.n = 0
  BY <1>1, BridgeAssumption DEF Frames, Seqs
<1>3. /\ toServer' = Append(toServer, f)
      /\ toPeer' = [toPeer EXCEPT ![p] = Tail(@)]
  BY DEF RelayDown
<1>4. SteamOK'
  <2>1. [client |-> d.client, event |-> pk.event] \in [client : ClientIds, event : Seqs]
    BY <1>1 DEF Packets
  <2>2. heard' \in [Ids -> Seq([client : ClientIds, event : Seqs])]
    <3>. DEFINE ev == [client |-> d.client, event |-> pk.event]
                T == [client : ClientIds, event : Seqs]
    <3>1. heard' = heard \/ heard' = [heard EXCEPT ![i] = Append(@, ev)]
      BY DEF RelayDown, HandToSteam
    <3>2. heard \in [Ids -> Seq(T)]
      BY DEF TypeInv, SteamOK
    <3>3. ev \in T
      BY <2>1
    <3>. HIDE DEF ev, T
    <3>4. Append(heard[i], ev) \in Seq(T)
      BY <3>2, <3>3, AppendElements
    <3>5. heard' \in [Ids -> Seq(T)]
      BY <3>1, <3>2, <3>4
    <3>. QED  BY <3>5 DEF T
  <2>3. refused' \subseteq [peer : Ids, client : ClientIds, event : Seqs]
    <3>1. [peer |-> i, client |-> d.client, event |-> pk.event]
                \in [peer : Ids, client : ClientIds, event : Seqs]
      BY <1>1 DEF Packets
    <3>2. \/ refused' = refused
          \/ refused' = refused \cup {[peer |-> i, client |-> d.client, event |-> pk.event]}
      BY DEF RelayDown, HandToSteam
    <3>. QED  BY <3>1, <3>2 DEF TypeInv, SteamOK
  <2>. QED  BY <2>2, <2>3 DEF TypeInv, SteamOK, RelayDown
<1>5. BridgeOK'
  <2>1. InboundAfter(i, pk) \in [Seqs -> Half]
    BY <1>1, BridgeAssumption, InboundType
  <2>2. peers' = peers
        \/ peers' = [peers EXCEPT ![i] = [peers[i] EXCEPT
                        !.forwarded = peers[i].forwarded \cup {d.seq}, !.inbound = InboundAfter(i, pk)]]
    BY DEF RelayDown
  <2>3. [peers[i] EXCEPT
            !.forwarded = peers[i].forwarded \cup {d.seq}, !.inbound = InboundAfter(i, pk)] \in Peers
    BY <1>1, <2>1 DEF Peers
  <2>. QED  BY <1>1, <2>2, <2>3, ZenonT(40) DEF TypeInv, BridgeOK, RelayDown
<1>. HIDE DEF p, d, pk, f
<1>6. NetOK'
  <2>1. /\ toServer' \in Seq(Frames)
        /\ \A n \in DOMAIN toServer' : toServer'[n].kind # "ack" <=> toServer'[n].n \in 1 .. MaxSaid
    BY <1>2, <1>3, AppendElements DEF TypeInv, NetOK
  <2>2. /\ toPeer' \in [Ports -> Seq(Copies)]
        /\ \A q \in Ports : \A n \in DOMAIN toPeer'[q] :
                toPeer'[q][n].seq \in 1 .. Len(wire[toPeer'[q][n].client])
    BY <1>1, <1>3, TailElements DEF TypeInv, NetOK
  <2>. QED  BY <2>1, <2>2 DEF TypeInv, NetOK, RelayDown, serverVars
<1>. QED  BY <1>4, <1>5, <1>6 DEF TypeInv, ServerOK, RelayDown, serverVars

\* A datagram is handled by an entry, its sender's or a new one.
LEMMA KnownType ==
    ASSUME TypeInv, NEW q \in Ports, q \in DOMAIN clients \/ nextClient \in ClientIds
    PROVE  /\ DOMAIN Known(q) = DOMAIN clients \cup {q}
           /\ Known(q) \in [DOMAIN clients \cup {q} -> Entries]
           /\ q \notin DOMAIN clients => Known(q)[q] = NewEntry(nextClient)
           /\ q \in DOMAIN clients => Known(q)[q] = clients[q]
           /\ \A r \in DOMAIN clients : Known(q)[r] = clients[r]
<1>1. CASE q \in DOMAIN clients
  BY <1>1 DEF Known, TypeInv, ServerOK
<1>2. CASE q \notin DOMAIN clients
  <2>1. NewEntry(nextClient) \in Entries
    BY <1>2 DEF NewEntry, Entries
  <2>. QED  BY <1>2, <2>1 DEF Known, TypeInv, ServerOK
<1>. QED  BY <1>1, <1>2

\* What a datagram may do to the entries: its own loses settled packets and
\* learns a number, or goes; the others stay.
LEMMA HandleClients ==
    ASSUME TypeInv, NEW d \in Frames, d.kind # "ack" => d.n \in 1 .. MaxSaid, Handle(d)
    PROVE  /\ d.port \in DOMAIN clients \/ nextClient \in ClientIds
           /\ nextClient' = IF d.port \in DOMAIN clients THEN nextClient ELSE nextClient + 1
           /\ DOMAIN clients' \subseteq DOMAIN clients \cup {d.port}
           /\ clients' \in [DOMAIN clients' -> Entries]
           /\ \A r \in DOMAIN clients' : LET k == Known(d.port)
                IN  /\ clients'[r].id = k[r].id
                    /\ clients'[r].pending \subseteq k[r].pending
                    /\ clients'[r].nextEvent = k[r].nextEvent
                    /\ clients'[r].nextChunk = k[r].nextChunk
                    /\ clients'[r].processed \subseteq
                            k[r].processed \cup (IF r = d.port THEN {d.seq} ELSE {})
           /\ handled' \subseteq handled \cup
                {[client |-> Known(d.port)[d.port].id, peer |-> d.peer, n |-> d.n]}
           /\ handled \subseteq handled'
           /\ handled' # handled => d.n \in 1 .. MaxSaid
<1>. DEFINE known == Known(d.port)
<1>0. d.port \in Ports /\ d.seq \in Nat
  BY DEF Frames
<1>1. d.port \in DOMAIN clients \/ nextClient \in ClientIds
  BY DEF Handle
<1>2. /\ DOMAIN known = DOMAIN clients \cup {d.port}
      /\ known \in [DOMAIN clients \cup {d.port} -> Entries]
      /\ \A r \in DOMAIN clients : known[r] = clients[r]
  BY <1>0, <1>1, KnownType
<1>3. nextClient' = IF d.port \in DOMAIN clients THEN nextClient ELSE nextClient + 1
  BY DEF Handle
<1>4. \/ clients' = [known EXCEPT ![d.port].pending = @ \ {d.seq}] /\ handled' = handled
      \/ clients' = known /\ handled' = handled
      \/ /\ \/ clients' = Without(d.port)
            \/ clients' = [known EXCEPT ![d.port].processed = @ \cup {d.seq}]
            \/ clients' = known
         /\ handled' = handled \cup {[client |-> known[d.port].id, peer |-> d.peer, n |-> d.n]}
         /\ d.kind # "ack"
  BY DEF Handle
<1>. HIDE DEF known
<1>5. known[d.port] \in Entries
  BY <1>2
<1>6. [known[d.port] EXCEPT !.pending = @ \ {d.seq}] \in Entries
  BY <1>5 DEF Entries
<1>7. [known[d.port] EXCEPT !.processed = @ \cup {d.seq}] \in Entries
  BY <1>0, <1>5 DEF Entries
<1>8. CASE clients' = [known EXCEPT ![d.port].pending = @ \ {d.seq}]
  BY <1>1, <1>2, <1>3, <1>4, <1>6, <1>8 DEF known, Entries
<1>9. CASE clients' = known
  BY <1>1, <1>2, <1>3, <1>4, <1>9 DEF known
<1>10. CASE clients' = [known EXCEPT ![d.port].processed = @ \cup {d.seq}]
  BY <1>1, <1>2, <1>3, <1>4, <1>7, <1>10 DEF known, Entries
<1>11. CASE clients' = Without(d.port)
  BY <1>1, <1>2, <1>3, <1>4, <1>11 DEF known, Without
<1>. QED  BY <1>4, <1>8, <1>9, <1>10, <1>11

LEMMA ServerReceiveType ==
    ASSUME TypeInv, ServerReceive PROVE TypeInv'
<1>. DEFINE d == Head(toServer)
<1>1. /\ d \in Frames
      /\ d.kind # "ack" => d.n \in 1 .. MaxSaid
      /\ Tail(toServer) \in Seq(Frames)
  BY TailElements DEF TypeInv, NetOK, ServerReceive
<1>2. Handle(d)
  BY DEF ServerReceive
<1>3. /\ d.port \in Ports /\ d.peer \in Ids /\ d.seq \in Nat
      /\ d.port \in DOMAIN clients \/ nextClient \in ClientIds
  <2>. HIDE DEF d
  <2>1. d.port \in Ports /\ d.peer \in Ids /\ d.seq \in Nat
    BY <1>1 DEF Frames
  <2>. QED  BY <1>1, <1>2, <2>1, HandleClients
<1>. DEFINE k == Known(d.port)
<1>4. /\ DOMAIN k = DOMAIN clients \cup {d.port}
      /\ k \in [DOMAIN clients \cup {d.port} -> Entries]
      /\ d.port \notin DOMAIN clients => k[d.port] = NewEntry(nextClient)
      /\ \A r \in DOMAIN clients : k[r] = clients[r]
  BY <1>3, KnownType
<1>5. /\ nextClient' = IF d.port \in DOMAIN clients THEN nextClient ELSE nextClient + 1
      /\ DOMAIN clients' \subseteq DOMAIN clients \cup {d.port}
      /\ clients' \in [DOMAIN clients' -> Entries]
      /\ \A r \in DOMAIN clients' :
            /\ clients'[r].id = k[r].id
            /\ clients'[r].pending \subseteq k[r].pending
            /\ clients'[r].nextEvent = k[r].nextEvent
            /\ clients'[r].nextChunk = k[r].nextChunk
      /\ handled' \subseteq handled \cup {[client |-> k[d.port].id, peer |-> d.peer, n |-> d.n]}
      /\ handled' # handled => d.n \in 1 .. MaxSaid
  BY <1>1, <1>2, HandleClients
<1>6. /\ wire' = wire /\ toServer' = Tail(toServer)
      /\ UNCHANGED <<resent, givenUp, toPeer, lost, steamVars, bridgeVars>>
  BY DEF ServerReceive
<1>. HIDE DEF d, k
<1>7. ServerOK'
  <2>1. nextClient' \in 1 .. MaxClients + 1 /\ nextClient <= nextClient'
    BY <1>3, <1>5, BridgeAssumption DEF TypeInv, ServerOK, ClientIds
  <2>2. DOMAIN clients' \subseteq Ports
    BY <1>3, <1>5 DEF TypeInv, ServerOK
  <2>3. k[d.port].id \in ClientIds
    BY <1>4 DEF Entries
  <2>4. handled' \subseteq [client : ClientIds, peer : Ids, n : 1 .. MaxSaid]
    BY <1>3, <1>5, <2>3 DEF TypeInv, ServerOK
  <2>5. \A c \in ClientIds : c >= nextClient' => wire'[c] = <<>>
    BY <1>6, <2>1 DEF TypeInv, ServerOK, ClientIds
  <2>6. \A r \in DOMAIN clients' :
            /\ clients'[r].id < nextClient'
            /\ clients'[r].nextEvent \in 1 .. Len(wire[clients'[r].id]) + 1
            /\ clients'[r].nextChunk \in 1 .. Len(wire[clients'[r].id]) + 1
            /\ clients'[r].pending \subseteq 1 .. Len(wire[clients'[r].id])
    <3>. SUFFICES ASSUME NEW r \in DOMAIN clients'
                  PROVE  /\ clients'[r].id < nextClient'
                         /\ clients'[r].nextEvent \in 1 .. Len(wire[clients'[r].id]) + 1
                         /\ clients'[r].nextChunk \in 1 .. Len(wire[clients'[r].id]) + 1
                         /\ clients'[r].pending \subseteq 1 .. Len(wire[clients'[r].id])
      OBVIOUS
    <3>1. CASE r \in DOMAIN clients
      <4>1. k[r] = clients[r] /\ clients[r].id \in ClientIds
        BY <1>4, <3>1 DEF TypeInv, ServerOK, Entries
      <4>2. clients[r].id < nextClient
        BY <3>1 DEF TypeInv, ServerOK
      <4>3. clients[r].id < nextClient'
        BY <2>1, <4>1, <4>2 DEF TypeInv, ServerOK, ClientIds
      <4>. QED  BY <1>5, <3>1, <4>1, <4>3 DEF TypeInv, ServerOK
    <3>2. CASE r \notin DOMAIN clients
      <4>1. r = d.port /\ k[r] = NewEntry(nextClient)
        BY <1>4, <1>5, <3>2
      <4>2. nextClient \in ClientIds /\ nextClient' = nextClient + 1
        BY <1>3, <1>5, <3>2, <4>1
      <4>3. Len(wire[nextClient]) \in Nat
        BY <4>2 DEF TypeInv, ServerOK
      <4>4. /\ clients'[r].id = nextClient /\ clients'[r].pending = {}
            /\ clients'[r].nextEvent = 1 /\ clients'[r].nextChunk = 1
        BY <1>5, <4>1 DEF NewEntry
      <4>. QED  BY <4>2, <4>3, <4>4 DEF ClientIds
    <3>. QED  BY <3>1, <3>2
  <2>. QED  BY <1>5, <1>6, <2>1, <2>2, <2>4, <2>5, <2>6 DEF TypeInv, ServerOK
<1>8. NetOK'
  <2>1. \A n \in DOMAIN toServer' : toServer'[n].kind # "ack" <=> toServer'[n].n \in 1 .. MaxSaid
    <3>1. toServer # <<>> /\ toServer \in Seq(Frames)
      BY DEF TypeInv, NetOK, ServerReceive
    <3>. QED  BY <1>6, <3>1, TailElements DEF TypeInv, NetOK
  <2>. QED  BY <1>1, <1>6, <2>1 DEF TypeInv, NetOK, d
<1>9. SteamOK' /\ BridgeOK'
  BY <1>6 DEF TypeInv, SteamOK, BridgeOK, steamVars, bridgeVars
<1>. QED  BY <1>7, <1>8, <1>9 DEF TypeInv

\* Packets and copies of an event, one for each of its n chunks.
NewPackets(c, n) == [j \in 1 .. n |-> [event |-> c.nextEvent, piece |-> j, of |-> n,
                                       chunk |-> IF n > 1 THEN c.nextChunk ELSE 0]]
NewCopies(c, n) == [j \in 1 .. n |-> [client |-> c.id, seq |-> Len(wire[c.id]) + j]]

LEMMA NewPacketTypes ==
    ASSUME TypeInv, NEW p \in Ports, NEW n \in ChunkCounts, SendReliable(p, n)
    PROVE  LET c == clients[p]
               k == Len(wire[c.id])
           IN  /\ p \in DOMAIN clients /\ c \in Entries /\ c.id \in ClientIds
               /\ k \in Nat /\ n \in Nat \ {0} /\ k + n <= MaxPackets
               /\ wire[c.id] \in Seq(Packets)
               /\ NewPackets(c, n) \in Seq(Packets) /\ Len(NewPackets(c, n)) = n
               /\ NewCopies(c, n) \in Seq(Copies) /\ Len(NewCopies(c, n)) = n
               /\ k + 1 .. k + n \subseteq Seqs
<1>. DEFINE c == clients[p]
            k == Len(wire[c.id])
<1>1. p \in DOMAIN clients /\ c \in Entries /\ c.id \in ClientIds
  BY DEF TypeInv, ServerOK, SendReliable, Entries
<1>2. /\ wire[c.id] \in Seq(Packets) /\ k \in Nat
      /\ c.nextEvent \in 1 .. k + 1 /\ c.nextChunk \in 1 .. k + 1
  BY <1>1 DEF TypeInv, ServerOK
<1>3. n \in Nat \ {0} /\ k + n <= MaxPackets /\ MaxPackets \in Nat
  BY BridgeAssumption DEF SendReliable
<1>. HIDE DEF c, k
<1>4. \A j \in 1 .. n : [event |-> c.nextEvent, piece |-> j, of |-> n,
                         chunk |-> IF n > 1 THEN c.nextChunk ELSE 0] \in Packets
  BY <1>2, <1>3 DEF Packets, Seqs
<1>5. \A j \in 1 .. n : [client |-> c.id, seq |-> k + j] \in Copies
  BY <1>1, <1>2, <1>3 DEF Copies, Seqs, c
<1>6. NewPackets(c, n) \in Seq(Packets) /\ Len(NewPackets(c, n)) = n
  <2>. NewPackets(c, n) \in [1 .. n -> Packets]
    BY <1>4 DEF NewPackets
  <2>. QED  BY <1>3, FunctionIsSeq
<1>7. NewCopies(c, n) \in Seq(Copies) /\ Len(NewCopies(c, n)) = n
  <2>. NewCopies(c, n) \in [1 .. n -> Copies]
    BY <1>5 DEF NewCopies, k
  <2>. QED  BY <1>3, FunctionIsSeq
<1>8. k + 1 .. k + n \subseteq Seqs
  BY <1>2, <1>3 DEF Seqs
<1>. QED  BY <1>1, <1>2, <1>3, <1>6, <1>7, <1>8 DEF c, k

LEMMA SendReliableType ==
    ASSUME TypeInv, NEW p \in Ports, NEW n \in ChunkCounts, SendReliable(p, n) PROVE TypeInv'
<1>. DEFINE c == clients[p]
            k == Len(wire[c.id])
            w == wire[c.id] \o NewPackets(c, n)
<1>1. /\ p \in DOMAIN clients /\ c \in Entries /\ c.id \in ClientIds
      /\ k \in Nat /\ n \in Nat \ {0} /\ k + n <= MaxPackets
      /\ wire[c.id] \in Seq(Packets)
      /\ NewPackets(c, n) \in Seq(Packets) /\ Len(NewPackets(c, n)) = n
      /\ NewCopies(c, n) \in Seq(Copies) /\ Len(NewCopies(c, n)) = n
      /\ k + 1 .. k + n \subseteq Seqs
  BY NewPacketTypes
<1>2. /\ wire' = [wire EXCEPT ![c.id] = w]
      /\ clients' = [clients EXCEPT ![p].pending = @ \cup (k + 1 .. k + n),
                                    ![p].nextEvent = @ + 1,
                                    ![p].nextChunk = @ + IF n > 1 THEN 1 ELSE 0]
      /\ toPeer' = Sent(p, NewCopies(c, n))
      /\ UNCHANGED <<steamVars, bridgeVars, nextClient, resent, givenUp, handled, toServer, lost>>
  BY DEF SendReliable, NewPackets, NewCopies
<1>3. w \in Seq(Packets) /\ Len(w) = k + n
  <2>. DEFINE u == wire[c.id]
              v == NewPackets(c, n)
  <2>1. u \in Seq(Packets) /\ v \in Seq(Packets) /\ Len(u) = k /\ Len(v) = n
    BY <1>1
  <2>2. w = u \o v
    OBVIOUS
  <2>. HIDE DEF u, v, w, k
  <2>. QED  BY <2>1, <2>2, ConcatElements
<1>4. DOMAIN wire = ClientIds /\ c.id < nextClient
  BY <1>1 DEF TypeInv, ServerOK
<1>5. clients' = [clients EXCEPT ![p] = [c EXCEPT !.pending = @ \cup (k + 1 .. k + n),
                                                  !.nextEvent = @ + 1,
                                                  !.nextChunk = @ + IF n > 1 THEN 1 ELSE 0]]
  BY <1>2
<1>6. /\ c.nextEvent \in 1 .. k + 1 /\ c.nextChunk \in 1 .. k + 1
      /\ c.pending \subseteq 1 .. k
  BY <1>1 DEF TypeInv, ServerOK
<1>. DEFINE d == [c EXCEPT !.pending = @ \cup (k + 1 .. k + n), !.nextEvent = @ + 1,
                           !.nextChunk = @ + IF n > 1 THEN 1 ELSE 0]
<1>7. /\ d \in Entries /\ d.id = c.id
      /\ d.nextEvent \in 1 .. k + n + 1 /\ d.nextChunk \in 1 .. k + n + 1
      /\ d.pending \subseteq 1 .. k + n
  <2>1. /\ d.id = c.id /\ d.pending = c.pending \cup (k + 1 .. k + n)
        /\ d.nextEvent = c.nextEvent + 1
        /\ d.nextChunk = c.nextChunk + IF n > 1 THEN 1 ELSE 0
        /\ d.processed = c.processed
    BY <1>1 DEF Entries
  <2>2. /\ d.nextEvent \in Nat /\ d.nextChunk \in Nat
        /\ d.nextEvent \in 1 .. k + n + 1 /\ d.nextChunk \in 1 .. k + n + 1
    <3>1. /\ k \in Nat /\ n \in Nat \ {0}
          /\ c.nextEvent \in 1 .. k + 1 /\ c.nextChunk \in 1 .. k + 1
      BY <1>1, <1>6
    <3>2. /\ d.nextEvent = c.nextEvent + 1
          /\ d.nextChunk \in {c.nextChunk, c.nextChunk + 1}
      BY <2>1, <3>1
    <3>. HIDE DEF c, k, d
    <3>. QED  BY <3>1, <3>2
  <2>3. d.pending \subseteq 1 .. k + n
    BY <1>1, <1>6, <2>1
  <2>4. d.pending \in SUBSET Seqs
    BY <1>1, <2>1 DEF Entries
  <2>5. d \in Entries
    BY <1>1, <2>1, <2>2, <2>4 DEF Entries
  <2>. QED  BY <2>1, <2>2, <2>3, <2>5
<1>8. \A e \in ClientIds : Len(wire'[e]) \in Nat /\ Len(wire[e]) \in Nat /\ Len(wire'[e]) >= Len(wire[e])
  BY <1>1, <1>2, <1>3 DEF TypeInv, ServerOK
<1>. HIDE DEF c, k, w, d
<1>9. ServerOK'
  <2>1. wire' \in [ClientIds -> Seq(Packets)]
    BY <1>2, <1>3 DEF TypeInv, ServerOK
  <2>2. clients' \in [DOMAIN clients' -> Entries] /\ DOMAIN clients' = DOMAIN clients
    BY <1>1, <1>5, <1>7 DEF TypeInv, ServerOK, d
  <2>3. \A e \in ClientIds : e >= nextClient => wire'[e] = <<>>
    BY <1>1, <1>2, <1>4 DEF TypeInv, ServerOK, ClientIds
  <2>4. \A r \in DOMAIN clients' :
            /\ clients'[r].id < nextClient
            /\ clients'[r].nextEvent \in 1 .. Len(wire'[clients'[r].id]) + 1
            /\ clients'[r].nextChunk \in 1 .. Len(wire'[clients'[r].id]) + 1
            /\ clients'[r].pending \subseteq 1 .. Len(wire'[clients'[r].id])
    <3>. SUFFICES ASSUME NEW r \in DOMAIN clients
                  PROVE  /\ clients'[r].id < nextClient
                         /\ clients'[r].nextEvent \in 1 .. Len(wire'[clients'[r].id]) + 1
                         /\ clients'[r].nextChunk \in 1 .. Len(wire'[clients'[r].id]) + 1
                         /\ clients'[r].pending \subseteq 1 .. Len(wire'[clients'[r].id])
      BY <2>2
    <3>1. CASE r = p
      <4>1. clients'[r] = d
        BY <1>1, <1>5, <3>1 DEF d
      <4>2. wire'[c.id] = w
        BY <1>1, <1>2, <1>4
      <4>. QED  BY <1>1, <1>3, <1>4, <1>7, <4>1, <4>2
    <3>2. CASE r # p
      <4>1. clients'[r] = clients[r] /\ clients[r] \in Entries /\ clients[r].id \in ClientIds
        BY <1>5, <3>2 DEF TypeInv, ServerOK, Entries
      <4>2. /\ clients[r].id < nextClient
            /\ clients[r].nextEvent \in 1 .. Len(wire[clients[r].id]) + 1
            /\ clients[r].nextChunk \in 1 .. Len(wire[clients[r].id]) + 1
            /\ clients[r].pending \subseteq 1 .. Len(wire[clients[r].id])
        BY DEF TypeInv, ServerOK
      <4>3. /\ Len(wire'[clients[r].id]) \in Nat /\ Len(wire[clients[r].id]) \in Nat
            /\ Len(wire'[clients[r].id]) >= Len(wire[clients[r].id])
        BY <1>8, <4>1
      <4>4. 1 .. Len(wire[clients[r].id]) \subseteq 1 .. Len(wire'[clients[r].id])
        BY <4>3
      <4>5. /\ clients[r].nextEvent \in 1 .. Len(wire'[clients[r].id]) + 1
            /\ clients[r].nextChunk \in 1 .. Len(wire'[clients[r].id]) + 1
        BY <4>2, <4>3, SMTT(30)
      <4>. QED  BY <4>1, <4>2, <4>4, <4>5, SMTT(30)
    <3>. QED  BY <3>1, <3>2
  <2>5. UNCHANGED <<nextClient, resent, givenUp, handled>>
    BY <1>2
  <2>6. DOMAIN clients' \subseteq Ports
    BY <2>2 DEF TypeInv, ServerOK
  <2>. QED  BY <2>1, <2>2, <2>3, <2>4, <2>5, <2>6 DEF TypeInv, ServerOK
<1>10. NetOK'
  <2>1. \A j \in 1 .. n : NewCopies(c, n)[j] = [client |-> c.id, seq |-> k + j]
    BY <1>1 DEF NewCopies, k
  <2>2. \A j \in 1 .. n : /\ NewCopies(c, n)[j].client = c.id
                          /\ NewCopies(c, n)[j].seq \in 1 .. Len(wire'[c.id])
    BY <1>1, <1>2, <1>3, <1>4, <2>1
  <2>3. ASSUME NEW q \in Ports
        PROVE  /\ toPeer'[q] \in Seq(Copies)
               /\ \A m \in DOMAIN toPeer'[q] : toPeer'[q][m].seq \in 1 .. Len(wire'[toPeer'[q][m].client])
    <3>0. toPeer[q] \in Seq(Copies) /\ toPeer \in [Ports -> Seq(Copies)]
      BY DEF TypeInv, NetOK
    <3>1. \A m \in DOMAIN toPeer[q] : toPeer[q][m].seq \in 1 .. Len(wire'[toPeer[q][m].client])
      <4>. SUFFICES ASSUME NEW m \in DOMAIN toPeer[q]
                    PROVE  toPeer[q][m].seq \in 1 .. Len(wire'[toPeer[q][m].client])
        OBVIOUS
      <4>1. toPeer[q][m] \in Copies /\ toPeer[q][m].client \in ClientIds
        <5>1. toPeer[q][m] \in Copies
          BY <3>0
        <5>. QED  BY <5>1 DEF Copies
      <4>2. toPeer[q][m].seq \in 1 .. Len(wire[toPeer[q][m].client])
        BY DEF TypeInv, NetOK
      <4>. QED  BY <1>8, <4>1, <4>2
    <3>2. toPeer'[q] = toPeer[q] \/ toPeer'[q] = toPeer[q] \o NewCopies(c, n)
      BY <1>2, <3>0 DEF Sent
    <3>3. CASE toPeer'[q] = toPeer[q]
      BY <3>0, <3>1, <3>3
    <3>4. CASE toPeer'[q] = toPeer[q] \o NewCopies(c, n)
      <4>. DEFINE t == toPeer[q] \o NewCopies(c, n)
      <4>1. /\ t \in Seq(Copies) /\ DOMAIN t = 1 .. Len(toPeer[q]) + n
            /\ \A m \in 1 .. Len(toPeer[q]) : t[m] = toPeer[q][m]
            /\ \A m \in 1 .. n : t[Len(toPeer[q]) + m] = NewCopies(c, n)[m]
        <5>. DEFINE u == toPeer[q]
                    v == NewCopies(c, n)
        <5>1. u \in Seq(Copies) /\ v \in Seq(Copies) /\ Len(v) = n /\ t = u \o v
          BY <1>1, <3>0
        <5>. HIDE DEF u, v, t
        <5>2. /\ t \in Seq(Copies) /\ DOMAIN t = 1 .. Len(u) + n
              /\ \A m \in 1 .. Len(u) : t[m] = u[m]
              /\ \A m \in 1 .. n : t[Len(u) + m] = v[m]
          BY <5>1, ConcatElements
        <5>. QED  BY <5>2 DEF u, v
      <4>2. ASSUME NEW m \in 1 .. Len(toPeer[q]) + n PROVE t[m].seq \in 1 .. Len(wire'[t[m].client])
        <5>. Len(toPeer[q]) \in Nat
          BY <3>0
        <5>1. CASE m <= Len(toPeer[q])
          BY <3>0, <3>1, <4>1, <5>1
        <5>2. CASE ~(m <= Len(toPeer[q]))
          <6>1. m - Len(toPeer[q]) \in 1 .. n /\ Len(toPeer[q]) + (m - Len(toPeer[q])) = m
            BY <1>1, <5>2
          <6>2. t[m] = NewCopies(c, n)[m - Len(toPeer[q])]
            BY <4>1, <6>1
          <6>. QED  BY <2>2, <6>1, <6>2
        <5>. QED  BY <5>1, <5>2
      <4>. QED  BY <3>4, <4>1, <4>2
    <3>. QED  BY <3>2, <3>3, <3>4
  <2>4. toPeer' \in [Ports -> Seq(Copies)]
    <3>. DOMAIN toPeer' = Ports /\ toPeer' = [q \in Ports |-> toPeer'[q]]
      BY <1>2 DEF Sent, TypeInv, NetOK
    <3>. QED  BY <2>3
  <2>. QED  BY <1>2, <2>3, <2>4 DEF TypeInv, NetOK
<1>11. SteamOK' /\ BridgeOK'
  BY <1>2 DEF TypeInv, SteamOK, BridgeOK, steamVars, bridgeVars
<1>. QED  BY <1>9, <1>10, <1>11 DEF TypeInv

LEMMA ResendType ==
    ASSUME TypeInv, NEW p \in Ports, NEW s \in Seqs, Resend(p, s) PROVE TypeInv'
<1>. DEFINE d == [client |-> clients[p].id, seq |-> s]
<1>1. /\ d \in Copies /\ d.client \in ClientIds /\ d.seq \in 1 .. Len(wire[d.client])
  BY DEF Resend, IsDue, TypeInv, ServerOK, Entries, Copies
<1>2. /\ toPeer' = toPeer \/ toPeer' = [toPeer EXCEPT ![p] = @ \o <<d>>]
      /\ UNCHANGED <<steamVars, bridgeVars, nextClient, clients, wire, givenUp, handled,
                     toServer, lost>>
      /\ resent[d.client][s] < MaxResends
      /\ resent' = [resent EXCEPT ![d.client][s] = @ + 1]
  BY DEF Resend, Sent
<1>. HIDE DEF d
<1>3. toPeer \in [Ports -> Seq(Copies)]
  BY DEF TypeInv, NetOK
<1>4. toPeer' = toPeer \/ toPeer' = [toPeer EXCEPT ![p] = Append(@, d)]
  <2>. toPeer[p] \o <<d>> = Append(toPeer[p], d)
    BY <1>1, <1>3
  <2>. QED  BY <1>2
<1>5. NetOK'
  <2>1. wire' = wire /\ toServer' = toServer /\ lost' = lost
    BY <1>2
  <2>2. toPeer' \in [Ports -> Seq(Copies)]
    <3>1. Append(toPeer[p], d) \in Seq(Copies)
      BY <1>1, <1>3, AppendElements
    <3>. QED  BY <1>3, <1>4, <3>1
  <2>3. ASSUME NEW q \in Ports, NEW m \in DOMAIN toPeer'[q]
        PROVE  toPeer'[q][m].seq \in 1 .. Len(wire[toPeer'[q][m].client])
    <3>1. CASE q # p \/ toPeer' = toPeer
      BY <1>3, <1>4, <3>1 DEF TypeInv, NetOK
    <3>2. CASE q = p /\ toPeer' # toPeer
      <4>1. toPeer'[q] = Append(toPeer[p], d)
        BY <1>3, <1>4, <3>2
      <4>2. \/ toPeer'[q][m] = d
            \/ m \in DOMAIN toPeer[p] /\ toPeer'[q][m] = toPeer[p][m]
        <5>1. toPeer[p] \in Seq(Copies)
          BY <1>3
        <5>2. m \in 1 .. Len(toPeer[p]) + 1 /\ Len(toPeer[p]) \in Nat
          BY <1>1, <4>1, <5>1, AppendElements
        <5>3. CASE m = Len(toPeer[p]) + 1
          BY <1>1, <4>1, <5>1, <5>3, AppendElements
        <5>4. CASE m \in 1 .. Len(toPeer[p])
          BY <1>1, <4>1, <5>1, <5>4, AppendElements
        <5>. QED  BY <5>2, <5>3, <5>4
      <4>. QED  BY <1>1, <4>2 DEF TypeInv, NetOK
    <3>. QED  BY <3>1, <3>2
  <2>. QED  BY <2>1, <2>2, <2>3 DEF TypeInv, NetOK
<1>6. resent' \in [ClientIds -> [Seqs -> 0 .. MaxResends]]
  <2>1. /\ resent \in [ClientIds -> [Seqs -> 0 .. MaxResends]] /\ MaxResends \in Nat
        /\ resent[d.client] \in [Seqs -> 0 .. MaxResends]
    BY <1>1, BridgeAssumption DEF TypeInv, ServerOK
  <2>2. [resent[d.client] EXCEPT ![s] = @ + 1] \in [Seqs -> 0 .. MaxResends]
    BY <1>2, <2>1
  <2>3. resent' = [resent EXCEPT ![d.client] = [resent[d.client] EXCEPT ![s] = @ + 1]]
    BY <1>2
  <2>. QED  BY <1>1, <2>1, <2>2, <2>3
<1>7. SteamOK' /\ BridgeOK'
  BY <1>2 DEF TypeInv, SteamOK, BridgeOK, steamVars, bridgeVars
<1>8. ServerOK'
  BY <1>2, <1>6 DEF TypeInv, ServerOK
<1>. QED  BY <1>5, <1>7, <1>8 DEF TypeInv

\* Giving up takes one packet from what is pending.
LEMMA GiveUpPending ==
    ASSUME TypeInv, NEW p \in Ports, NEW s \in Seqs, GiveUp(p, s)
    PROVE  /\ p \in DOMAIN clients /\ s \in clients[p].pending
           /\ [client |-> clients[p].id, seq |-> s] \in Copies
           /\ givenUp' = givenUp \cup {[client |-> clients[p].id, seq |-> s]}
           /\ DOMAIN clients' = DOMAIN clients
           /\ clients' \in [DOMAIN clients -> Entries]
           /\ \A q \in DOMAIN clients :
                /\ clients'[q].id = clients[q].id
                /\ clients'[q].pending = IF q = p THEN clients[p].pending \ {s} ELSE clients[q].pending
                /\ clients'[q].processed = clients[q].processed
                /\ clients'[q].nextEvent = clients[q].nextEvent
                /\ clients'[q].nextChunk = clients[q].nextChunk
           /\ UNCHANGED <<steamVars, bridgeVars, nextClient, wire, resent, handled, netVars>>
<1>1. /\ p \in DOMAIN clients /\ s \in clients[p].pending
      /\ clients \in [DOMAIN clients -> Entries] /\ clients[p] \in Entries
      /\ [client |-> clients[p].id, seq |-> s] \in Copies
  BY DEF GiveUp, IsDue, TypeInv, ServerOK, Entries, Copies
<1>. DEFINE c == [clients[p] EXCEPT !.pending = clients[p].pending \ {s}]
<1>2. clients' = [clients EXCEPT ![p] = c]
  BY DEF GiveUp
<1>3. /\ c \in Entries /\ c.id = clients[p].id /\ c.pending = clients[p].pending \ {s}
      /\ c.processed = clients[p].processed
      /\ c.nextEvent = clients[p].nextEvent /\ c.nextChunk = clients[p].nextChunk
  BY <1>1 DEF Entries
<1>. HIDE DEF c
<1>4. /\ DOMAIN clients' = DOMAIN clients /\ clients' \in [DOMAIN clients -> Entries]
      /\ clients'[p] = c /\ \A q \in DOMAIN clients \ {p} : clients'[q] = clients[q]
  BY <1>1, <1>2, <1>3
<1>. QED  BY <1>1, <1>3, <1>4 DEF GiveUp

LEMMA GiveUpType ==
    ASSUME TypeInv, NEW p \in Ports, NEW s \in Seqs, GiveUp(p, s) PROVE TypeInv'
<1>1. UNCHANGED <<steamVars, bridgeVars, nextClient, wire, resent, handled, netVars>>
  BY GiveUpPending
<1>2. ServerOK'
  <2>1. DOMAIN clients' = DOMAIN clients /\ clients' \in [DOMAIN clients' -> Entries]
    BY GiveUpPending
  <2>2. \A q \in DOMAIN clients' :
            /\ clients'[q].id = clients[q].id /\ clients'[q].pending \subseteq clients[q].pending
            /\ clients'[q].nextEvent = clients[q].nextEvent
            /\ clients'[q].nextChunk = clients[q].nextChunk
    BY GiveUpPending
  <2>3. givenUp' \subseteq Copies
    BY GiveUpPending DEF TypeInv, ServerOK
  <2>. QED  BY <1>1, <2>1, <2>2, <2>3 DEF TypeInv, ServerOK
<1>. QED
  BY <1>1, <1>2 DEF TypeInv, SteamOK, BridgeOK, NetOK, steamVars, bridgeVars, netVars

LEMMA TimeOutType ==
    ASSUME TypeInv, NEW p \in Ports, TimeOut(p) PROVE TypeInv'
<1>1. ServerOK'
  BY DEF TypeInv, ServerOK, TimeOut, Without
<1>. QED
  BY <1>1 DEF TypeInv, SteamOK, BridgeOK, NetOK, TimeOut, steamVars, bridgeVars, netVars

LEMMA DropType ==
    ASSUME TypeInv, Drop PROVE TypeInv'
<1>1. ASSUME NEW n \in DOMAIN toServer,
             toServer' = RemoveAt(toServer, n),
             lost' = lost \cup {toServer[n]}, UNCHANGED toPeer, wire' = wire
      PROVE  NetOK'
  <2>1. toServer \in Seq(Frames) /\ toServer[n] \in Frames
    BY DEF TypeInv, NetOK
  <2>2. /\ toServer' \in Seq(Frames) /\ DOMAIN toServer' = 1 .. Len(toServer) - 1
        /\ \A k \in 1 .. Len(toServer) - 1 : toServer'[k] = toServer[IF k < n THEN k ELSE k + 1]
    BY <1>1, <2>1, RemoveElements
  <2>3. \A k \in 1 .. Len(toServer) - 1 : (IF k < n THEN k ELSE k + 1) \in DOMAIN toServer
    BY <2>1
  <2>. QED  BY <1>1, <2>1, <2>2, <2>3 DEF TypeInv, NetOK
<1>2. ASSUME NEW p \in Ports, NEW n \in DOMAIN toPeer[p],
             toPeer' = [toPeer EXCEPT ![p] = RemoveAt(@, n)],
             lost' = lost \cup {toPeer[p][n]}, UNCHANGED toServer, wire' = wire
      PROVE  NetOK'
  <2>1. toPeer \in [Ports -> Seq(Copies)] /\ toPeer[p] \in Seq(Copies) /\ toPeer[p][n] \in Copies
    BY DEF TypeInv, NetOK
  <2>. DEFINE t == RemoveAt(toPeer[p], n)
  <2>2. /\ t \in Seq(Copies) /\ DOMAIN t = 1 .. Len(toPeer[p]) - 1
        /\ \A k \in 1 .. Len(toPeer[p]) - 1 : t[k] = toPeer[p][IF k < n THEN k ELSE k + 1]
    BY <2>1, RemoveElements
  <2>3. \A k \in 1 .. Len(toPeer[p]) - 1 : (IF k < n THEN k ELSE k + 1) \in DOMAIN toPeer[p]
    BY <2>1
  <2>4. toPeer' = [toPeer EXCEPT ![p] = t]
    BY <1>2
  <2>. HIDE DEF t
  <2>5. toPeer' \in [Ports -> Seq(Copies)]
    BY <2>1, <2>2, <2>4
  <2>6. ASSUME NEW q \in Ports, NEW m \in DOMAIN toPeer'[q]
        PROVE  toPeer'[q][m].seq \in 1 .. Len(wire[toPeer'[q][m].client])
    <3>1. CASE q # p
      BY <2>1, <2>4, <3>1 DEF TypeInv, NetOK
    <3>2. CASE q = p
      <4>1. toPeer'[q] = t /\ m \in 1 .. Len(toPeer[p]) - 1
        BY <2>1, <2>2, <2>4, <3>2
      <4>2. \E k \in DOMAIN toPeer[p] : t[m] = toPeer[p][k]
        BY <2>2, <2>3, <4>1
      <4>. QED  BY <4>1, <4>2 DEF TypeInv, NetOK
    <3>. QED  BY <3>1, <3>2
  <2>. QED  BY <1>2, <2>1, <2>5, <2>6 DEF TypeInv, NetOK
<1>3. UNCHANGED <<steamVars, bridgeVars, serverVars>>
  BY DEF Drop
<1>4. NetOK'
  BY <1>1, <1>2, <1>3 DEF Drop, serverVars
<1>. QED
  BY <1>3, <1>4 DEF TypeInv, SteamOK, BridgeOK, ServerOK, steamVars, bridgeVars, serverVars

LEMMA TypeStep == TypeInv /\ [Next]_vars => TypeInv'
<1>. SUFFICES ASSUME TypeInv, [Next]_vars PROVE TypeInv'
  OBVIOUS
<1>1. ASSUME NEW i \in Ids, ConnectionEnds(i) PROVE TypeInv'
  BY <1>1 DEF ConnectionEnds, TypeInv, SteamOK, BridgeOK, ServerOK, NetOK, bridgeVars, serverVars, netVars
<1>2. CASE UNCHANGED vars
  BY <1>2 DEF vars, steamVars, bridgeVars, serverVars, netVars,
              TypeInv, SteamOK, BridgeOK, ServerOK, NetOK
<1>. QED
  BY <1>1, <1>2, GameSaysType, ConnectedType, DisconnectedType, RelayUpType, RelayDownType,
     ServerReceiveType, SendReliableType, ResendType, GiveUpType, TimeOutType, DropType DEF Next

LEMMA TypesHold == Spec => []TypeInv
BY InitTypeInv, TypeStep, PTL DEF Spec

\* Ports, sequence numbers, chunks and what is put together of an event stay in
\* range, and a packet on its way is one that was made, for any bounds.
THEOREM BridgeTypeCorrect == Spec => []TypeOK
BY TypesHold, TypeInvImplies, PTL

-----------------------------------------------------------------------------
(* Who owns a port, an id, a datagram *)

HeardFrom(i) == {heard[i][n].client : n \in DOMAIN heard[i]}

\* No two sockets share a port, and what a socket has sent is its peer's.
PortsOwned ==
    /\ \A i, j \in DOMAIN peers : peers[i].port = peers[j].port => i = j
    /\ \A i \in DOMAIN peers : \A f \in ToSet(toServer) : f.port = peers[i].port => f.peer = i
    /\ \A p \in Ports \ Bound : toPeer[p] = <<>>

\* An id is one entry's, and whatever bears it was sent to that entry's address.
IdsOwned ==
    /\ \A p, q \in DOMAIN clients : clients[p].id = clients[q].id => p = q
    /\ \A h \in handled : h.client < nextClient
    /\ \A i \in Ids : \A c \in HeardFrom(i) : c < nextClient
    /\ \A p \in DOMAIN clients, q \in Ports : \A d \in ToSet(toPeer[q]) :
            d.client = clients[p].id => q = p

\* The peer at an entry's address is the one the entry has handled messages of,
\* has copies on the way to, and is heard by.
GamesOwned ==
    /\ \A i \in DOMAIN peers : \A p \in DOMAIN clients : \A h \in handled :
            (p = peers[i].port /\ h.client = clients[p].id) => h.peer = i
    /\ \A i \in DOMAIN peers : \A d \in ToSet(toPeer[peers[i].port]) : \A h \in handled :
            h.client = d.client => h.peer = i
    /\ \A i \in Ids : \A p \in DOMAIN clients :
            clients[p].id \in HeardFrom(i) =>
                /\ \A f \in ToSet(toServer) : f.port = p => f.peer = i
                /\ \A j \in DOMAIN peers : peers[j].port = p => j = i
    /\ \A i \in Ids : \A c \in HeardFrom(i) : \A h \in handled : h.client = c => h.peer = i

OwnInv == PortsOwned /\ IdsOwned /\ GamesOwned

LEMMA OwnInvImplies == OwnInv => HeardByItsOwner
BY DEF OwnInv, GamesOwned, HeardFrom, HeardByItsOwner

LEMMA InitOwnInv == Init => OwnInv
BY DEF Init, OwnInv, PortsOwned, IdsOwned, GamesOwned, HeardFrom, ToSet

\* A step that takes away peers, entries and datagrams, and adds nothing.
LEMMA LessIsOwned ==
    ASSUME TypeInv, OwnInv,
           DOMAIN peers' \subseteq DOMAIN peers,
           \A i \in DOMAIN peers' : peers'[i].port = peers[i].port,
           ToSet(toServer') \subseteq ToSet(toServer),
           \A p \in Ports : ToSet(toPeer'[p]) \subseteq ToSet(toPeer[p]),
           \A p \in Ports \ Bound' : toPeer'[p] = <<>>,
           DOMAIN clients' \subseteq DOMAIN clients,
           \A p \in DOMAIN clients' : clients'[p].id = clients[p].id,
           UNCHANGED <<nextClient, handled, heard>>
    PROVE  OwnInv'
<1>1. \A i \in DOMAIN peers : peers[i].port \in Ports
  BY DEF TypeInv, BridgeOK, Peers
<1>2. \A i \in Ids : HeardFrom(i)' = HeardFrom(i)
  BY DEF HeardFrom
<1>3. PortsOwned'
  BY DEF OwnInv, PortsOwned
<1>4. IdsOwned'
  BY <1>2 DEF OwnInv, IdsOwned
<1>5. GamesOwned'
  <2>1. \A i \in DOMAIN peers' : \A p \in DOMAIN clients' : \A h \in handled' :
            (p = peers'[i].port /\ h.client = clients'[p].id) => h.peer = i
    BY DEF OwnInv, GamesOwned
  <2>2. \A i \in DOMAIN peers' : \A d \in ToSet(toPeer'[peers'[i].port]) : \A h \in handled' :
            h.client = d.client => h.peer = i
    BY <1>1 DEF OwnInv, GamesOwned
  <2>3. ASSUME NEW i \in Ids, NEW p \in DOMAIN clients', clients'[p].id \in HeardFrom(i)'
        PROVE  /\ \A f \in ToSet(toServer') : f.port = p => f.peer = i
               /\ \A j \in DOMAIN peers' : peers'[j].port = p => j = i
    BY <1>2, <2>3 DEF OwnInv, GamesOwned
  <2>4. \A i \in Ids : \A c \in HeardFrom(i)' : \A h \in handled' : h.client = c => h.peer = i
    BY <1>2 DEF OwnInv, GamesOwned
  <2>. QED  BY <2>1, <2>2, <2>3, <2>4 DEF GamesOwned
<1>. QED  BY <1>3, <1>4, <1>5 DEF OwnInv

LEMMA ConnectedOwned ==
    ASSUME MayReusePorts = FALSE, TypeInv, OwnInv, Connected PROVE OwnInv'
<1>1. UNCHANGED <<heard, serverVars, netVars>>
  BY DEF Connected
<1>2. CASE UNCHANGED peers
  <2>. Bound' = Bound
    BY <1>2 DEF Bound
  <2>. QED
    BY <1>1, <1>2, LessIsOwned DEF serverVars, netVars, OwnInv, PortsOwned
<1>3. ASSUME NEW p \in Ports \ Bound, Fresh(p),
             peers' = [i \in DOMAIN peers \cup {nextPeer} |->
                            IF i = nextPeer THEN NewPeer(p) ELSE peers[i]]
      PROVE  OwnInv'
  <2>1. nextPeer \notin DOMAIN peers
    BY BridgeAssumption DEF TypeInv, BridgeOK
  <2>2. /\ DOMAIN peers' = DOMAIN peers \cup {nextPeer}
        /\ peers'[nextPeer].port = p
        /\ \A i \in DOMAIN peers : peers'[i].port = peers[i].port /\ peers[i].port # p
    BY <1>3, <2>1 DEF NewPeer, Bound
  <2>3. /\ p \notin DOMAIN clients
        /\ \A f \in ToSet(toServer) : f.port # p
        /\ toPeer[p] = <<>>
    BY <1>3 DEF Fresh, ToSet, OwnInv, PortsOwned
  <2>4. ToSet(toPeer[p]) = {}
    BY <2>3 DEF ToSet
  <2>5. Bound' = Bound \cup {p}
    BY <2>2 DEF Bound
  <2>6. \A i \in Ids : HeardFrom(i)' = HeardFrom(i)
    BY <1>1 DEF HeardFrom
  <2>7. PortsOwned'
    BY <1>1, <2>2, <2>3, <2>5 DEF OwnInv, PortsOwned, serverVars, netVars
  <2>8. IdsOwned'
    BY <1>1, <2>6 DEF OwnInv, IdsOwned, serverVars, netVars
  <2>9. GamesOwned'
    <3>1. \A i \in DOMAIN peers' : \A q \in DOMAIN clients' : \A h \in handled' :
                (q = peers'[i].port /\ h.client = clients'[q].id) => h.peer = i
      BY <1>1, <2>2, <2>3 DEF OwnInv, GamesOwned, serverVars, netVars
    <3>2. \A i \in DOMAIN peers' : \A d \in ToSet(toPeer'[peers'[i].port]) : \A h \in handled' :
                h.client = d.client => h.peer = i
      BY <1>1, <2>2, <2>4 DEF OwnInv, GamesOwned, serverVars, netVars
    <3>3. ASSUME NEW i \in Ids, NEW q \in DOMAIN clients', clients'[q].id \in HeardFrom(i)'
          PROVE  /\ \A f \in ToSet(toServer') : f.port = q => f.peer = i
                 /\ \A j \in DOMAIN peers' : peers'[j].port = q => j = i
      BY <1>1, <2>2, <2>3, <2>6, <3>3 DEF OwnInv, GamesOwned, serverVars, netVars
    <3>4. \A i \in Ids : \A c \in HeardFrom(i)' : \A h \in handled' : h.client = c => h.peer = i
      BY <1>1, <2>6 DEF OwnInv, GamesOwned, serverVars, netVars
    <3>. QED  BY <3>1, <3>2, <3>3, <3>4 DEF GamesOwned
  <2>. QED  BY <2>7, <2>8, <2>9 DEF OwnInv
<1>. QED  BY <1>2, <1>3 DEF Connected

\* What a peer sends up is its own, and what Steam takes for its game was on its
\* way to its own socket.
LEMMA RelayOwned ==
    ASSUME TypeInv, OwnInv, NEW i \in DOMAIN peers, NEW f \in Frames,
           NEW C \in SUBSET {d.client : d \in ToSet(toPeer[peers[i].port])},
           f.port = peers[i].port, f.peer = i,
           ToSet(toServer') \subseteq ToSet(toServer) \cup {f},
           \A p \in Ports : ToSet(toPeer'[p]) \subseteq ToSet(toPeer[p]),
           \A p \in Ports \ Bound : toPeer'[p] = <<>>,
           DOMAIN peers' = DOMAIN peers,
           \A j \in DOMAIN peers : peers'[j].port = peers[j].port,
           \A j \in Ids : HeardFrom(j)' \subseteq HeardFrom(j) \cup (IF j = i THEN C ELSE {}),
           UNCHANGED serverVars
    PROVE  OwnInv'
<1>1. \A j \in DOMAIN peers : peers[j].port \in Ports
  BY DEF TypeInv, BridgeOK, Peers
<1>2. Bound' = Bound
  BY DEF Bound
<1>3. PortsOwned'
  BY <1>2 DEF OwnInv, PortsOwned
<1>4. IdsOwned'
  <2>1. \A j \in Ids : \A c \in HeardFrom(j)' : c < nextClient
    <3>1. \A c \in C : c < nextClient
      <4>. SUFFICES ASSUME NEW d \in ToSet(toPeer[peers[i].port]) PROVE d.client < nextClient
        OBVIOUS
      <4>1. PICK n \in DOMAIN toPeer[peers[i].port] : d = toPeer[peers[i].port][n]
        BY DEF ToSet
      <4>2. d.seq \in 1 .. Len(wire[d.client]) /\ d.client \in ClientIds
        <5>1. d \in Copies
          BY <1>1, <4>1 DEF TypeInv, NetOK
        <5>. QED  BY <1>1, <4>1, <5>1 DEF TypeInv, NetOK, Copies
      <4>3. wire[d.client] # <<>>
        BY <4>2
      <4>. QED  BY <4>2, <4>3 DEF TypeInv, ServerOK, ClientIds
    <3>. QED  BY <3>1 DEF OwnInv, IdsOwned
  <2>. QED  BY <2>1 DEF OwnInv, IdsOwned, serverVars
<1>5. GamesOwned'
  <2>1. \A j \in DOMAIN peers' : \A q \in DOMAIN clients' : \A h \in handled' :
            (q = peers'[j].port /\ h.client = clients'[q].id) => h.peer = j
    BY DEF OwnInv, GamesOwned, serverVars
  <2>2. \A j \in DOMAIN peers' : \A d \in ToSet(toPeer'[peers'[j].port]) : \A h \in handled' :
            h.client = d.client => h.peer = j
    <3>. SUFFICES ASSUME NEW j \in DOMAIN peers, NEW d \in ToSet(toPeer'[peers[j].port]),
                         NEW h \in handled, h.client = d.client
                  PROVE  h.peer = j
      BY DEF serverVars
    <3>1. d \in ToSet(toPeer[peers[j].port])
      BY <1>1
    <3>. QED  BY <3>1 DEF OwnInv, GamesOwned
  <2>3. ASSUME NEW j \in Ids, NEW q \in DOMAIN clients, clients[q].id \in HeardFrom(j)'
        PROVE  /\ \A g \in ToSet(toServer') : g.port = q => g.peer = j
               /\ \A k \in DOMAIN peers' : peers'[k].port = q => k = j
    <3>1. CASE clients[q].id \in HeardFrom(j)
      <4>1. peers[i].port = q => i = j
        BY <3>1 DEF OwnInv, GamesOwned
      <4>. QED  BY <3>1, <4>1 DEF OwnInv, GamesOwned
    <3>2. CASE clients[q].id \notin HeardFrom(j)
      <4>1. j = i /\ clients[q].id \in C
        BY <2>3, <3>2
      <4>2. q = peers[i].port
        BY <1>1, <4>1 DEF OwnInv, IdsOwned
      <4>. QED  BY <4>1, <4>2 DEF OwnInv, PortsOwned
    <3>. QED  BY <3>1, <3>2
  <2>4. ASSUME NEW j \in Ids, NEW e \in HeardFrom(j)', NEW h \in handled, h.client = e
        PROVE  h.peer = j
    BY <2>4 DEF OwnInv, GamesOwned
  <2>. QED  BY <2>1, <2>2, <2>3, <2>4 DEF GamesOwned, serverVars
<1>. QED  BY <1>3, <1>4, <1>5 DEF OwnInv

LEMMA RelayUpOwned ==
    ASSUME TypeInv, OwnInv, NEW i \in Ids, RelayUp(i) PROVE OwnInv'
<1>. DEFINE m == Head(inbox[i])
            f == [port |-> peers[i].port, peer |-> i, kind |-> m.kind, n |-> m.n,
                  seq |-> IF m.kind = "state" THEN 0 ELSE peers[i].nextSeq]
<1>1. /\ m \in Messages /\ peers[i] \in Peers /\ i \in DOMAIN peers
  BY DEF TypeInv, SteamOK, BridgeOK, RelayUp
<1>2. f \in Frames /\ f.port = peers[i].port /\ f.peer = i
  BY <1>1, BridgeAssumption DEF Messages, Peers, Frames
<1>3. /\ toServer' = Append(toServer, f)
      /\ UNCHANGED <<heard, serverVars, toPeer>>
  BY DEF RelayUp
<1>. HIDE DEF m, f
<1>4. /\ DOMAIN peers' = DOMAIN peers
      /\ \A j \in DOMAIN peers : peers'[j].port = peers[j].port
  BY <1>1 DEF RelayUp, Peers, TypeInv, BridgeOK
<1>5. ToSet(toServer') = ToSet(toServer) \cup {f}
  BY <1>2, <1>3, AppendSet DEF TypeInv, NetOK
<1>6. \A p \in Ports \ Bound : toPeer'[p] = <<>>
  BY <1>3 DEF OwnInv, PortsOwned
<1>. DEFINE C == {}
<1>7. \A j \in Ids : HeardFrom(j)' \subseteq HeardFrom(j) \cup (IF j = i THEN C ELSE {})
  BY <1>3 DEF HeardFrom
<1>8. C \in SUBSET {d.client : d \in ToSet(toPeer[peers[i].port])}
  OBVIOUS
<1>. HIDE DEF C
<1>. QED  BY <1>1, <1>2, <1>3, <1>4, <1>5, <1>6, <1>7, <1>8, RelayOwned

LEMMA RelayDownOwned ==
    ASSUME TypeInv, OwnInv, NEW i \in Ids, RelayDown(i) PROVE OwnInv'
<1>. DEFINE p == peers[i].port
            d == Head(toPeer[p])
            pk == wire[d.client][d.seq]
            f == [port |-> p, peer |-> i, kind |-> "ack", n |-> 0, seq |-> d.seq]
            ev == [client |-> d.client, event |-> pk.event]
<1>1. /\ i \in DOMAIN peers /\ peers[i] \in Peers /\ p \in Ports
      /\ toPeer[p] \in Seq(Copies) /\ toPeer[p] # <<>>
      /\ d \in Copies /\ d.client \in ClientIds /\ d.seq \in Seqs
  BY RelayDownCopy
<1>2. f \in Frames /\ f.port = p /\ f.peer = i
  BY <1>1, BridgeAssumption DEF Frames, Seqs
<1>3. /\ toServer' = Append(toServer, f)
      /\ toPeer' = [toPeer EXCEPT ![p] = Tail(@)]
      /\ heard' = heard \/ heard' = [heard EXCEPT ![i] = Append(@, ev)]
      /\ UNCHANGED serverVars
  BY DEF RelayDown, HandToSteam
<1>4. /\ DOMAIN peers' = DOMAIN peers
      /\ \A j \in DOMAIN peers : peers'[j].port = peers[j].port
  <2>1. peers' = peers
        \/ peers' = [peers EXCEPT ![i] = [peers[i] EXCEPT
                        !.forwarded = peers[i].forwarded \cup {d.seq}, !.inbound = InboundAfter(i, pk)]]
    BY DEF RelayDown
  <2>. DEFINE P == [peers[i] EXCEPT
                        !.forwarded = peers[i].forwarded \cup {d.seq}, !.inbound = InboundAfter(i, pk)]
  <2>2. peers' = peers \/ peers' = [peers EXCEPT ![i] = P]
    BY <2>1
  <2>3. P.port = peers[i].port
    BY <1>1 DEF Peers
  <2>. HIDE DEF P
  <2>. QED  BY <1>1, <2>2, <2>3
<1>. DEFINE T == [client : ClientIds, event : Seqs]
<1>5. ev \in T /\ ev.client = d.client /\ heard \in [Ids -> Seq(T)]
  BY RelayDownCopy DEF Packets, TypeInv, SteamOK
<1>. HIDE DEF p, d, pk, f, ev, T
<1>6. ToSet(toServer') = ToSet(toServer) \cup {f}
  BY <1>2, <1>3, AppendSet DEF TypeInv, NetOK
<1>7. d \in ToSet(toPeer[p]) /\ ToSet(Tail(toPeer[p])) \subseteq ToSet(toPeer[p])
  BY <1>1, TailSet DEF d
<1>8. \A q \in Ports : ToSet(toPeer'[q]) \subseteq ToSet(toPeer[q])
  BY <1>1, <1>3, <1>7 DEF TypeInv, NetOK
<1>9. \A q \in Ports \ Bound : toPeer'[q] = <<>>
  <2>. p \in Bound
    BY <1>1 DEF Bound, p
  <2>. QED  BY <1>3 DEF OwnInv, PortsOwned, TypeInv, NetOK
<1>10. \A j \in Ids : HeardFrom(j)' \subseteq HeardFrom(j) \cup (IF j = i THEN {d.client} ELSE {})
  <2>1. CASE heard' = heard
    BY <2>1 DEF HeardFrom
  <2>2. CASE heard' = [heard EXCEPT ![i] = Append(@, ev)]
    <3>1. \A j \in Ids : j # i => heard'[j] = heard[j]
      BY <1>5, <2>2
    <3>2. heard'[i] = Append(heard[i], ev) /\ heard[i] \in Seq(T)
      BY <1>5, <2>2
    <3>3. \A n \in DOMAIN heard'[i] : heard'[i][n] \in ToSet(heard[i]) \cup {ev}
      <4>. ToSet(heard'[i]) = ToSet(heard[i]) \cup {ev}
        BY <1>5, <3>2, AppendSet
      <4>. QED  BY DEF ToSet
    <3>4. HeardFrom(i)' \subseteq HeardFrom(i) \cup {d.client}
      BY <1>5, <3>3 DEF HeardFrom, ToSet
    <3>. QED  BY <3>1, <3>4 DEF HeardFrom
  <2>. QED  BY <1>3, <2>1, <2>2
<1>11. {d.client} \in SUBSET {e.client : e \in ToSet(toPeer[peers[i].port])}
  BY <1>7 DEF p
<1>. QED
  BY <1>1, <1>2, <1>3, <1>4, <1>6, <1>8, <1>9, <1>10, <1>11, RelayOwned DEF p

LEMMA ServerReceiveOwned ==
    ASSUME TypeInv, OwnInv, ServerReceive PROVE OwnInv'
<1>. DEFINE d == Head(toServer)
            k == Known(d.port)
            h0 == [client |-> k[d.port].id, peer |-> d.peer, n |-> d.n]
<1>1. /\ d \in Frames
      /\ d.kind # "ack" => d.n \in 1 .. MaxSaid
  BY TailElements DEF TypeInv, NetOK, ServerReceive
<1>2. Handle(d) /\ toServer' = Tail(toServer) /\ UNCHANGED <<heard, peers, toPeer>>
  BY DEF ServerReceive, steamVars, bridgeVars
<1>3. d \in ToSet(toServer) /\ ToSet(toServer') \subseteq ToSet(toServer)
  BY <1>2, TailSet DEF TypeInv, NetOK, ServerReceive
<1>. HIDE DEF d
<1>4. d.port \in Ports
  BY <1>1 DEF Frames
<1>5. /\ d.port \in DOMAIN clients \/ nextClient \in ClientIds
      /\ nextClient' = IF d.port \in DOMAIN clients THEN nextClient ELSE nextClient + 1
      /\ DOMAIN clients' \subseteq DOMAIN clients \cup {d.port}
      /\ \A r \in DOMAIN clients' : clients'[r].id = k[r].id
      /\ handled' \subseteq handled \cup {h0}
  BY <1>1, <1>2, HandleClients
<1>6. /\ d.port \notin DOMAIN clients => k[d.port].id = nextClient
      /\ d.port \in DOMAIN clients => k[d.port].id = clients[d.port].id
      /\ \A r \in DOMAIN clients : k[r].id = clients[r].id
  <2>1. d.port \notin DOMAIN clients => k[d.port] = NewEntry(nextClient)
    BY <1>4, <1>5, KnownType
  <2>2. \A r \in DOMAIN clients : k[r] = clients[r]
    BY <1>4, <1>5, KnownType
  <2>. QED  BY <2>1, <2>2 DEF NewEntry
<1>7. h0.client = k[d.port].id /\ h0.peer = d.peer
  OBVIOUS
<1>. HIDE DEF k, h0
<1>8. \A r \in DOMAIN clients : clients[r].id < nextClient /\ clients[r].id \in Nat
  BY DEF TypeInv, ServerOK, Entries, ClientIds
<1>9. nextClient \in Nat /\ nextClient' \in Nat /\ nextClient <= nextClient'
  BY <1>5, BridgeAssumption DEF TypeInv, ServerOK
<1>10. \A q \in Ports : \A e \in ToSet(toPeer[q]) : e.client < nextClient /\ e.client \in Nat
  <2>. SUFFICES ASSUME NEW q \in Ports, NEW n \in DOMAIN toPeer[q]
                PROVE  toPeer[q][n].client < nextClient /\ toPeer[q][n].client \in Nat
    BY DEF ToSet
  <2>1. toPeer[q][n] \in Copies
    BY DEF TypeInv, NetOK
  <2>2. toPeer[q][n].seq \in 1 .. Len(wire[toPeer[q][n].client]) /\ toPeer[q][n].client \in ClientIds
    BY <2>1 DEF TypeInv, NetOK, Copies
  <2>3. wire[toPeer[q][n].client] # <<>>
    BY <2>2
  <2>. QED  BY <2>2, <2>3 DEF TypeInv, ServerOK, ClientIds
<1>11. \A h \in handled : h.client < nextClient /\ h.client \in Nat
  BY DEF OwnInv, IdsOwned, TypeInv, ServerOK, ClientIds
<1>12. \A i \in Ids : \A c \in HeardFrom(i) : c < nextClient /\ c \in Nat
  <2>. SUFFICES ASSUME NEW i \in Ids, NEW n \in DOMAIN heard[i]
                PROVE  heard[i][n].client < nextClient /\ heard[i][n].client \in Nat
    BY DEF HeardFrom
  <2>1. heard[i][n] \in [client : ClientIds, event : Seqs]
    <3>. DEFINE T == [client : ClientIds, event : Seqs]
    <3>1. heard[i] \in Seq(T)
      BY DEF TypeInv, SteamOK
    <3>. HIDE DEF T
    <3>2. heard[i][n] \in T
      BY <3>1
    <3>. QED  BY <3>2 DEF T
  <2>. QED  BY <2>1 DEF OwnInv, IdsOwned, HeardFrom, ClientIds
<1>13. \A i \in Ids : HeardFrom(i)' = HeardFrom(i)
  BY <1>2 DEF HeardFrom
<1>14. PortsOwned'
  BY <1>2, <1>3 DEF OwnInv, PortsOwned, Bound
<1>15. IdsOwned'
  <2>1. \A p, q \in DOMAIN clients' : clients'[p].id = clients'[q].id => p = q
    BY <1>5, <1>6, <1>8 DEF OwnInv, IdsOwned
  <2>2. \A h \in handled' : h.client < nextClient'
    BY <1>5, <1>6, <1>7, <1>8, <1>9, <1>11
  <2>3. \A i \in Ids : \A c \in HeardFrom(i)' : c < nextClient'
    BY <1>9, <1>12, <1>13
  <2>4. \A p \in DOMAIN clients', q \in Ports : \A e \in ToSet(toPeer[q]) :
            e.client = clients'[p].id => q = p
    BY <1>5, <1>6, <1>10 DEF OwnInv, IdsOwned
  <2>. QED  BY <1>2, <2>1, <2>2, <2>3, <2>4 DEF IdsOwned
<1>16. GamesOwned'
  <2>1. \A i \in DOMAIN peers : \A p \in DOMAIN clients' : \A h \in handled' :
            (p = peers[i].port /\ h.client = clients'[p].id) => h.peer = i
    <3>. SUFFICES ASSUME NEW i \in DOMAIN peers, NEW p \in DOMAIN clients', NEW h \in handled',
                         p = peers[i].port, h.client = clients'[p].id
                  PROVE  h.peer = i
      OBVIOUS
    <3>1. CASE h = h0
      <4>1. p = d.port
        BY <1>5, <1>6, <1>7, <1>8, <3>1 DEF OwnInv, IdsOwned
      <4>. QED  BY <1>3, <1>7, <3>1, <4>1, ZenonT(60) DEF OwnInv, PortsOwned
    <3>2. CASE h # h0
      <4>1. h \in handled
        BY <1>5, <3>2
      <4>2. p \in DOMAIN clients
        BY <1>5, <1>6, <1>11, <4>1
      <4>. QED  BY <1>5, <1>6, <4>1, <4>2 DEF OwnInv, GamesOwned
    <3>. QED  BY <3>1, <3>2
  <2>2. \A i \in DOMAIN peers : \A e \in ToSet(toPeer[peers[i].port]) : \A h \in handled' :
            h.client = e.client => h.peer = i
    <3>. SUFFICES ASSUME NEW i \in DOMAIN peers, NEW e \in ToSet(toPeer[peers[i].port]),
                         NEW h \in handled', h.client = e.client
                  PROVE  h.peer = i
      OBVIOUS
    <3>0. peers[i].port \in Ports
      BY DEF TypeInv, BridgeOK, Peers
    <3>1. CASE h = h0
      <4>1. d.port \in DOMAIN clients /\ clients[d.port].id = e.client
        BY <1>6, <1>7, <1>10, <3>0, <3>1
      <4>2. peers[i].port = d.port
        BY <3>0, <4>1 DEF OwnInv, IdsOwned
      <4>. QED  BY <1>3, <1>7, <3>1, <4>2 DEF OwnInv, PortsOwned
    <3>2. CASE h # h0
      BY <1>5, <3>2 DEF OwnInv, GamesOwned
    <3>. QED  BY <3>1, <3>2
  <2>3. ASSUME NEW i \in Ids, NEW p \in DOMAIN clients', clients'[p].id \in HeardFrom(i)
        PROVE  /\ \A f \in ToSet(toServer') : f.port = p => f.peer = i
               /\ \A j \in DOMAIN peers : peers[j].port = p => j = i
    <3>1. p \in DOMAIN clients /\ clients'[p].id = clients[p].id
      BY <1>5, <1>6, <1>12, <2>3
    <3>. QED  BY <1>3, <2>3, <3>1 DEF OwnInv, GamesOwned
  <2>4. ASSUME NEW i \in Ids, NEW c \in HeardFrom(i), NEW h \in handled', h.client = c
        PROVE  h.peer = i
    <3>1. CASE h = h0
      <4>1. d.port \in DOMAIN clients /\ clients[d.port].id = c
        BY <1>6, <1>7, <1>12, <2>4, <3>1
      <4>. QED  BY <1>3, <1>7, <3>1, <4>1 DEF OwnInv, GamesOwned
    <3>2. CASE h # h0
      BY <1>5, <2>4, <3>2 DEF OwnInv, GamesOwned
    <3>. QED  BY <3>1, <3>2
  <2>. QED  BY <1>2, <1>13, <2>1, <2>2, <2>3, <2>4 DEF GamesOwned
<1>. QED  BY <1>14, <1>15, <1>16 DEF OwnInv

\* The server sends under an entry's id to the entry's address.
LEMMA SentDownOwned ==
    ASSUME TypeInv, OwnInv, NEW p \in DOMAIN clients,
           DOMAIN clients' = DOMAIN clients,
           \A q \in DOMAIN clients : clients'[q].id = clients[q].id,
           \A q \in Ports : \A d \in ToSet(toPeer'[q]) :
                d \in ToSet(toPeer[q]) \/ (q = p /\ d.client = clients[p].id),
           \A q \in Ports \ Bound : toPeer'[q] = <<>>,
           UNCHANGED <<peers, heard, toServer, nextClient, handled>>
    PROVE  OwnInv'
<1>1. \A j \in DOMAIN peers : peers[j].port \in Ports
  BY DEF TypeInv, BridgeOK, Peers
<1>2. Bound' = Bound /\ \A j \in Ids : HeardFrom(j)' = HeardFrom(j)
  BY DEF Bound, HeardFrom
<1>3. PortsOwned'
  BY <1>2 DEF OwnInv, PortsOwned
<1>4. IdsOwned'
  BY <1>2 DEF OwnInv, IdsOwned
<1>5. GamesOwned'
  <2>1. \A i \in DOMAIN peers : \A d \in ToSet(toPeer'[peers[i].port]) : \A h \in handled :
            h.client = d.client => h.peer = i
    BY <1>1 DEF OwnInv, GamesOwned
  <2>2. \A i \in DOMAIN peers : \A q \in DOMAIN clients' : \A h \in handled :
            (q = peers[i].port /\ h.client = clients'[q].id) => h.peer = i
    BY DEF OwnInv, GamesOwned
  <2>3. \A i \in Ids : \A q \in DOMAIN clients' :
            clients'[q].id \in HeardFrom(i) =>
                /\ \A f \in ToSet(toServer) : f.port = q => f.peer = i
                /\ \A j \in DOMAIN peers : peers[j].port = q => j = i
    BY DEF OwnInv, GamesOwned
  <2>. QED  BY <1>2, <2>1, <2>2, <2>3 DEF OwnInv, GamesOwned
<1>. QED  BY <1>3, <1>4, <1>5 DEF OwnInv

LEMMA SendReliableOwned ==
    ASSUME TypeInv, OwnInv, NEW p \in Ports, NEW n \in ChunkCounts, SendReliable(p, n) PROVE OwnInv'
<1>. DEFINE c == clients[p]
            k == Len(wire[c.id])
            u == NewCopies(c, n)
<1>1. /\ p \in DOMAIN clients /\ c \in Entries /\ n \in Nat
      /\ u \in Seq(Copies) /\ Len(u) = n
  BY NewPacketTypes
<1>2. /\ clients' = [clients EXCEPT ![p] = [c EXCEPT !.pending = @ \cup (k + 1 .. k + n),
                                                     !.nextEvent = @ + 1,
                                                     !.nextChunk = @ + IF n > 1 THEN 1 ELSE 0]]
      /\ toPeer' = Sent(p, u)
      /\ UNCHANGED <<peers, heard, toServer, nextClient, handled>>
  BY DEF SendReliable, NewCopies, steamVars, bridgeVars
<1>3. \A d \in ToSet(u) : d.client = c.id
  <2>. \A j \in DOMAIN u : u[j].client = c.id
    BY DEF NewCopies
  <2>. QED  BY DEF ToSet
<1>4. DOMAIN clients' = DOMAIN clients /\ \A q \in DOMAIN clients : clients'[q].id = clients[q].id
  BY <1>1, <1>2 DEF Entries
<1>. HIDE DEF u, k, c
<1>5. toPeer \in [Ports -> Seq(Copies)]
  BY DEF TypeInv, NetOK
<1>6. \A q \in Ports : toPeer'[q] = toPeer[q] \/ (q = p /\ p \in Bound /\ toPeer'[q] = toPeer[q] \o u)
  BY <1>2, <1>5 DEF Sent
<1>7. \A q \in Ports : \A d \in ToSet(toPeer'[q]) :
            d \in ToSet(toPeer[q]) \/ (q = p /\ d.client = clients[p].id)
  <2>. SUFFICES ASSUME NEW q \in Ports, NEW d \in ToSet(toPeer'[q])
                PROVE  d \in ToSet(toPeer[q]) \/ (q = p /\ d.client = c.id)
    BY DEF c
  <2>1. ToSet(toPeer[q] \o u) \subseteq ToSet(toPeer[q]) \cup ToSet(u)
    BY <1>1, <1>5, ConcatSet
  <2>. QED  BY <1>3, <1>6, <2>1
<1>8. \A q \in Ports \ Bound : toPeer'[q] = <<>>
  BY <1>6 DEF OwnInv, PortsOwned
<1>. QED  BY <1>1, <1>2, <1>4, <1>7, <1>8, SentDownOwned

LEMMA ResendOwned ==
    ASSUME TypeInv, OwnInv, NEW p \in Ports, NEW s \in Seqs, Resend(p, s) PROVE OwnInv'
<1>. DEFINE d == [client |-> clients[p].id, seq |-> s]
<1>1. /\ p \in DOMAIN clients
      /\ d \in Copies /\ d.client = clients[p].id
  BY DEF Resend, IsDue, TypeInv, ServerOK, Entries, Copies
<1>2. /\ toPeer' = toPeer \/ (p \in Bound /\ toPeer' = [toPeer EXCEPT ![p] = @ \o <<d>>])
      /\ UNCHANGED <<peers, heard, toServer, nextClient, handled, clients>>
  BY DEF Resend, Sent, steamVars, bridgeVars
<1>3. toPeer \in [Ports -> Seq(Copies)]
  BY DEF TypeInv, NetOK
<1>. HIDE DEF d
<1>4. <<d>> \in Seq(Copies) /\ ToSet(<<d>>) = {d}
  BY <1>1 DEF ToSet
<1>5. ToSet(toPeer[p] \o <<d>>) \subseteq ToSet(toPeer[p]) \cup {d}
  BY <1>3, <1>4, ConcatSet
<1>6. \A q \in Ports : \A e \in ToSet(toPeer'[q]) :
            e \in ToSet(toPeer[q]) \/ (q = p /\ e.client = clients[p].id)
  BY <1>1, <1>2, <1>3, <1>5
<1>7. \A q \in Ports \ Bound : toPeer'[q] = <<>>
  BY <1>1, <1>2, <1>3 DEF OwnInv, PortsOwned
<1>. QED  BY <1>1, <1>2, <1>6, <1>7, SentDownOwned

LEMMA DropShrinks ==
    ASSUME TypeInv, Drop
    PROVE  /\ ToSet(toServer') \subseteq ToSet(toServer)
           /\ \A p \in Ports : ToSet(toPeer'[p]) \subseteq ToSet(toPeer[p])
           /\ ToSet(toServer) \subseteq ToSet(toServer') \cup lost'
           /\ lost \subseteq lost'
<1>. toServer \in Seq(Frames) /\ toPeer \in [Ports -> Seq(Copies)]
  BY DEF TypeInv, NetOK
<1>1. ASSUME NEW n \in DOMAIN toServer,
             toServer' = RemoveAt(toServer, n), lost' = lost \cup {toServer[n]}, UNCHANGED toPeer
      PROVE  /\ ToSet(toServer') \subseteq ToSet(toServer)
             /\ \A p \in Ports : ToSet(toPeer'[p]) \subseteq ToSet(toPeer[p])
             /\ ToSet(toServer) \subseteq ToSet(toServer') \cup lost'
             /\ lost \subseteq lost'
  BY <1>1, RemoveSet
<1>2. ASSUME NEW q \in Ports, NEW n \in DOMAIN toPeer[q],
             toPeer' = [toPeer EXCEPT ![q] = RemoveAt(@, n)],
             lost' = lost \cup {toPeer[q][n]}, UNCHANGED toServer
      PROVE  /\ ToSet(toServer') \subseteq ToSet(toServer)
             /\ \A p \in Ports : ToSet(toPeer'[p]) \subseteq ToSet(toPeer[p])
             /\ ToSet(toServer) \subseteq ToSet(toServer') \cup lost'
             /\ lost \subseteq lost'
  <2>1. ToSet(RemoveAt(toPeer[q], n)) \subseteq ToSet(toPeer[q])
    BY RemoveSet
  <2>. QED  BY <1>2, <2>1
<1>. QED  BY <1>1, <1>2 DEF Drop

LEMMA OwnStep ==
    ASSUME MayReusePorts = FALSE, TypeInv, OwnInv, [Next]_vars PROVE OwnInv'
<1>1. ASSUME NEW i \in Ids, NEW kind \in Kinds, GameSays(i, kind) PROVE OwnInv'
  BY <1>1, LessIsOwned
     DEF GameSays, bridgeVars, serverVars, netVars, Bound, OwnInv, PortsOwned
<1>2. ASSUME NEW i \in Ids, ConnectionEnds(i) PROVE OwnInv'
  BY <1>2, LessIsOwned
     DEF ConnectionEnds, bridgeVars, serverVars, netVars, Bound, OwnInv, PortsOwned
<1>3. ASSUME NEW i \in Ids, Disconnected(i) PROVE OwnInv'
  <2>1. /\ DOMAIN peers' = DOMAIN peers \ {i} /\ i \in DOMAIN peers
        /\ \A j \in DOMAIN peers' : peers'[j].port = peers[j].port
    BY <1>3 DEF Disconnected
  <2>2. toPeer' = [toPeer EXCEPT ![peers[i].port] = <<>>] /\ toPeer \in [Ports -> Seq(Copies)]
    BY <1>3 DEF Disconnected, Closed, TypeInv, NetOK
  <2>3. \A p \in Ports : ToSet(toPeer'[p]) \subseteq ToSet(toPeer[p])
    BY <2>2 DEF ToSet
  <2>4. \A p \in Ports \ Bound' : toPeer'[p] = <<>>
    <3>. SUFFICES ASSUME NEW p \in Ports \ Bound' PROVE toPeer'[p] = <<>>
      OBVIOUS
    <3>1. p \notin Bound \/ p = peers[i].port
      BY <2>1 DEF Bound
    <3>. QED  BY <2>2, <3>1 DEF OwnInv, PortsOwned
  <2>5. UNCHANGED <<nextClient, handled, heard, clients, toServer>>
    BY <1>3 DEF Disconnected, serverVars
  <2>. QED  BY <2>1, <2>3, <2>4, <2>5, LessIsOwned
<1>4. ASSUME NEW p \in Ports, TimeOut(p) PROVE OwnInv'
  <2>1. /\ DOMAIN clients' \subseteq DOMAIN clients
        /\ \A q \in DOMAIN clients' : clients'[q].id = clients[q].id
    BY <1>4 DEF TimeOut, Without
  <2>2. UNCHANGED <<nextClient, handled, heard, peers, toServer, toPeer>>
    BY <1>4 DEF TimeOut, steamVars, bridgeVars, netVars
  <2>. QED  BY <2>1, <2>2, LessIsOwned DEF Bound, OwnInv, PortsOwned
<1>5. ASSUME Drop PROVE OwnInv'
  <2>1. UNCHANGED <<nextClient, handled, heard, peers, clients>>
    BY <1>5 DEF Drop, steamVars, bridgeVars, serverVars
  <2>2. /\ ToSet(toServer') \subseteq ToSet(toServer)
        /\ \A p \in Ports : ToSet(toPeer'[p]) \subseteq ToSet(toPeer[p])
    BY <1>5, DropShrinks
  <2>3. toPeer' \in [Ports -> Seq(Copies)]
    BY <1>5, DropType DEF TypeInv, NetOK
  <2>4. \A p \in Ports \ Bound' : toPeer'[p] = <<>>
    <3>. SUFFICES ASSUME NEW p \in Ports \ Bound' PROVE toPeer'[p] = <<>>
      OBVIOUS
    <3>1. toPeer[p] = <<>>
      BY <2>1 DEF Bound, OwnInv, PortsOwned
    <3>2. ToSet(toPeer'[p]) = {}
      BY <2>2, <3>1 DEF ToSet
    <3>3. toPeer'[p] \in Seq(Copies)
      BY <2>3
    <3>. QED  BY <3>2, <3>3, NothingIn
  <2>. QED  BY <2>1, <2>2, <2>4, LessIsOwned
<1>6. ASSUME NEW p \in Ports, NEW s \in Seqs, GiveUp(p, s) PROVE OwnInv'
  <2>1. /\ DOMAIN clients' \subseteq DOMAIN clients
        /\ \A q \in DOMAIN clients' : clients'[q].id = clients[q].id
    BY <1>6, GiveUpPending
  <2>2. UNCHANGED <<nextClient, handled, heard, peers, toServer, toPeer>>
    BY <1>6 DEF GiveUp, steamVars, bridgeVars, netVars
  <2>. QED  BY <2>1, <2>2, LessIsOwned DEF Bound, OwnInv, PortsOwned
<1>7. CASE UNCHANGED vars
  BY <1>7, LessIsOwned
     DEF vars, steamVars, bridgeVars, serverVars, netVars, Bound, OwnInv, PortsOwned
<1>. QED
  BY <1>1, <1>2, <1>3, <1>4, <1>5, <1>6, <1>7, ConnectedOwned, RelayUpOwned, RelayDownOwned,
     ServerReceiveOwned, SendReliableOwned, ResendOwned DEF Next

\* A game hears what the server sends to the client that game speaks for, and
\* nothing of any other client, whatever connects, quits, is lost and times out
\* in between; ports are not given again before the server has noticed.
THEOREM GamesHearTheirOwn ==
    ASSUME MayReusePorts = FALSE
    PROVE  Spec => []HeardByItsOwner
<1>1. TypeInv /\ OwnInv /\ [Next]_vars => OwnInv'
  BY OwnStep
<1>. QED  BY <1>1, TypesHold, InitOwnInv, OwnInvImplies, PTL DEF Spec

-----------------------------------------------------------------------------
(* Messages on their way up *)

Reliable(f) == f.kind \in {"event", "bye"}

\* A number on its way has not been processed and is on its way once; the
\* peer's next number is above both.
Numbered ==
    /\ \A n \in DOMAIN toServer : Reliable(toServer[n]) =>
            \A p \in DOMAIN clients : p = toServer[n].port => toServer[n].seq \notin clients[p].processed
    /\ \A n, m \in DOMAIN toServer :
            (/\ Reliable(toServer[n]) /\ Reliable(toServer[m])
             /\ toServer[n].port = toServer[m].port /\ toServer[n].seq = toServer[m].seq) => n = m
    /\ \A i \in DOMAIN peers : \A n \in DOMAIN toServer :
            (Reliable(toServer[n]) /\ toServer[n].port = peers[i].port) => toServer[n].seq < peers[i].nextSeq
    /\ \A i \in DOMAIN peers : \A p \in DOMAIN clients : p = peers[i].port =>
            \A s \in clients[p].processed : s < peers[i].nextSeq

\* Only a game that is connected speaks.
SaidByPeers ==
    /\ up \subseteq 1 .. nextPeer - 1
    /\ \A n \in DOMAIN said : said[n] < nextPeer

UpInv == Numbered /\ SaidByPeers /\ UpwardAccounted

LEMMA InitUpInv == Init => UpInv
BY BridgeAssumption DEF Init, UpInv, Numbered, SaidByPeers, UpwardAccounted

\* A step that adds no datagram, number, peer or entry.
LEMMA FewerNumbered ==
    ASSUME Numbered,
           NEW g \in [DOMAIN toServer' -> DOMAIN toServer],
           \A n \in DOMAIN toServer' : toServer'[n] = toServer[g[n]],
           \A n, m \in DOMAIN toServer' : g[n] = g[m] => n = m,
           DOMAIN clients' \subseteq DOMAIN clients,
           \A p \in DOMAIN clients' : clients'[p].processed \subseteq clients[p].processed,
           DOMAIN peers' \subseteq DOMAIN peers,
           \A i \in DOMAIN peers' : /\ peers'[i].port = peers[i].port
                                    /\ peers'[i].nextSeq = peers[i].nextSeq
    PROVE  Numbered'
<1>1. \A n \in DOMAIN toServer' : Reliable(toServer'[n]) =>
            \A p \in DOMAIN clients' : p = toServer'[n].port => toServer'[n].seq \notin clients'[p].processed
  BY DEF Numbered
<1>2. \A n, m \in DOMAIN toServer' :
            (/\ Reliable(toServer'[n]) /\ Reliable(toServer'[m])
             /\ toServer'[n].port = toServer'[m].port /\ toServer'[n].seq = toServer'[m].seq) => n = m
  <2>. SUFFICES ASSUME NEW n \in DOMAIN toServer', NEW m \in DOMAIN toServer',
                       Reliable(toServer'[n]), Reliable(toServer'[m]),
                       toServer'[n].port = toServer'[m].port, toServer'[n].seq = toServer'[m].seq
                PROVE  n = m
    OBVIOUS
  <2>1. g[n] \in DOMAIN toServer /\ g[m] \in DOMAIN toServer
    OBVIOUS
  <2>2. g[n] = g[m]
    BY <2>1 DEF Numbered
  <2>. QED  BY <2>2
<1>3. \A i \in DOMAIN peers' : \A n \in DOMAIN toServer' :
            (Reliable(toServer'[n]) /\ toServer'[n].port = peers'[i].port) => toServer'[n].seq < peers'[i].nextSeq
  BY DEF Numbered
<1>4. \A i \in DOMAIN peers' : \A p \in DOMAIN clients' : p = peers'[i].port =>
            \A s \in clients'[p].processed : s < peers'[i].nextSeq
  BY DEF Numbered
<1>. QED  BY <1>1, <1>2, <1>3, <1>4 DEF Numbered, Reliable

\* The same with all datagrams still on their way.
LEMMA SameNumbered ==
    ASSUME Numbered, toServer' = toServer,
           DOMAIN clients' \subseteq DOMAIN clients,
           \A p \in DOMAIN clients' : clients'[p].processed \subseteq clients[p].processed,
           DOMAIN peers' \subseteq DOMAIN peers,
           \A i \in DOMAIN peers' : /\ peers'[i].port = peers[i].port
                                    /\ peers'[i].nextSeq = peers[i].nextSeq
    PROVE  Numbered'
<1>. DEFINE g == [n \in DOMAIN toServer' |-> n]
<1>1. /\ g \in [DOMAIN toServer' -> DOMAIN toServer]
      /\ \A n \in DOMAIN toServer' : toServer'[n] = toServer[g[n]]
      /\ \A n, m \in DOMAIN toServer' : g[n] = g[m] => n = m
  OBVIOUS
<1>. HIDE DEF g
<1>. QED  BY <1>1, FewerNumbered

\* A numbered datagram takes the peer's next number, which goes up.
LEMMA SendUpNumbered ==
    ASSUME TypeInv, OwnInv, Numbered, NEW i \in DOMAIN peers, NEW f \in Frames,
           f.port = peers[i].port, Reliable(f) => f.seq = peers[i].nextSeq,
           toServer' = Append(toServer, f),
           clients' = clients,
           DOMAIN peers' = DOMAIN peers,
           \A j \in DOMAIN peers : /\ peers'[j].port = peers[j].port
                                   /\ peers'[j].nextSeq \in Nat
                                   /\ peers[j].nextSeq <= peers'[j].nextSeq,
           Reliable(f) => peers'[i].nextSeq = peers[i].nextSeq + 1
    PROVE  Numbered'
<1>1. /\ DOMAIN toServer' = 1 .. Len(toServer) + 1 /\ DOMAIN toServer = 1 .. Len(toServer)
      /\ Len(toServer) \in Nat
      /\ \A n \in 1 .. Len(toServer) : toServer'[n] = toServer[n]
      /\ toServer'[Len(toServer) + 1] = f
  BY AppendElements DEF TypeInv, NetOK
<1>2. \A n \in DOMAIN toServer' : n \in DOMAIN toServer \/ n = Len(toServer) + 1
  BY <1>1
<1>3. \A j \in DOMAIN peers : peers[j].nextSeq \in Nat
  BY DEF TypeInv, BridgeOK, Peers
<1>4. \A n \in DOMAIN toServer : toServer[n].seq \in Nat
  <2>. \A n \in DOMAIN toServer : toServer[n] \in Frames
    BY DEF TypeInv, NetOK
  <2>. QED  BY DEF Frames
<1>5. \A n \in DOMAIN toServer : Reliable(f) /\ Reliable(toServer[n]) /\ toServer[n].port = f.port =>
            toServer[n].seq < f.seq
  BY DEF Numbered
<1>6. \A n \in DOMAIN toServer' : Reliable(toServer'[n]) =>
            \A p \in DOMAIN clients' : p = toServer'[n].port => toServer'[n].seq \notin clients'[p].processed
  <2>. SUFFICES ASSUME NEW n \in DOMAIN toServer', Reliable(toServer'[n]),
                       NEW p \in DOMAIN clients, p = toServer'[n].port,
                       toServer'[n].seq \in clients[p].processed
                PROVE  FALSE
    BY DEF Numbered
  <2>1. CASE n \in DOMAIN toServer
    BY <1>1, <2>1 DEF Numbered
  <2>2. CASE n = Len(toServer) + 1
    <3>1. peers[i].nextSeq < peers[i].nextSeq
      BY <1>1, <2>2 DEF Numbered
    <3>. QED  BY <1>3, <3>1
  <2>. QED  BY <1>2, <2>1, <2>2
<1>7. ASSUME NEW n \in DOMAIN toServer', NEW m \in DOMAIN toServer',
             Reliable(toServer'[n]), Reliable(toServer'[m]),
             toServer'[n].port = toServer'[m].port, toServer'[n].seq = toServer'[m].seq
      PROVE  n = m
  <2>1. CASE n \in DOMAIN toServer /\ m \in DOMAIN toServer
    BY <1>1, <1>7, <2>1 DEF Numbered
  <2>2. CASE n = Len(toServer) + 1 /\ m \in DOMAIN toServer
    BY <1>1, <1>4, <1>5, <1>7, <2>2
  <2>3. CASE n \in DOMAIN toServer /\ m = Len(toServer) + 1
    BY <1>1, <1>4, <1>5, <1>7, <2>3
  <2>. QED  BY <1>2, <2>1, <2>2, <2>3
<1>8. \A j \in DOMAIN peers' : \A n \in DOMAIN toServer' :
            (Reliable(toServer'[n]) /\ toServer'[n].port = peers'[j].port) => toServer'[n].seq < peers'[j].nextSeq
  <2>. SUFFICES ASSUME NEW j \in DOMAIN peers, NEW n \in DOMAIN toServer',
                       Reliable(toServer'[n]), toServer'[n].port = peers[j].port
                PROVE  toServer'[n].seq < peers'[j].nextSeq
    OBVIOUS
  <2>1. CASE n \in DOMAIN toServer
    <3>1. toServer[n].seq < peers[j].nextSeq
      BY <1>1, <2>1 DEF Numbered
    <3>. QED  BY <1>1, <1>3, <1>4, <2>1, <3>1
  <2>2. CASE n = Len(toServer) + 1
    <3>1. j = i
      BY <1>1, <2>2 DEF OwnInv, PortsOwned
    <3>. QED  BY <1>1, <1>3, <2>2, <3>1
  <2>. QED  BY <1>2, <2>1, <2>2
<1>9. \A j \in DOMAIN peers' : \A p \in DOMAIN clients' : p = peers'[j].port =>
            \A s \in clients'[p].processed : s < peers'[j].nextSeq
  <2>. SUFFICES ASSUME NEW j \in DOMAIN peers, NEW p \in DOMAIN clients, p = peers[j].port,
                       NEW s \in clients[p].processed
                PROVE  s < peers'[j].nextSeq
    OBVIOUS
  <2>1. s < peers[j].nextSeq /\ s \in Nat
    BY DEF Numbered, TypeInv, ServerOK, Entries
  <2>. QED  BY <1>3, <2>1
<1>. QED  BY <1>6, <1>7, <1>8, <1>9 DEF Numbered

LEMMA ConnectedNumbered ==
    ASSUME MayReusePorts = FALSE, TypeInv, OwnInv, Numbered, Connected PROVE Numbered'
<1>1. UNCHANGED <<serverVars, netVars>>
  BY DEF Connected
<1>2. CASE UNCHANGED peers
  BY <1>1, <1>2, SameNumbered DEF serverVars, netVars
<1>3. ASSUME NEW p \in Ports \ Bound, Fresh(p),
             peers' = [i \in DOMAIN peers \cup {nextPeer} |->
                            IF i = nextPeer THEN NewPeer(p) ELSE peers[i]]
      PROVE  Numbered'
  <2>1. nextPeer \notin DOMAIN peers
    BY BridgeAssumption DEF TypeInv, BridgeOK
  <2>2. /\ DOMAIN peers' = DOMAIN peers \cup {nextPeer}
        /\ peers'[nextPeer].port = p
        /\ \A i \in DOMAIN peers : peers'[i] = peers[i]
    BY <1>3, <2>1 DEF NewPeer
  <2>3. /\ p \notin DOMAIN clients
        /\ \A n \in DOMAIN toServer : toServer[n].port # p
    BY <1>3 DEF Fresh
  <2>. QED  BY <1>1, <2>2, <2>3 DEF Numbered, serverVars, netVars
<1>. QED  BY <1>2, <1>3 DEF Connected

\* The server handles a message that comes: its number is new.
LEMMA ReceivedIsHandled ==
    ASSUME TypeInv, Numbered, ServerReceive, Head(toServer).kind # "ack"
    PROVE  \E h \in handled' : h.peer = Head(toServer).peer /\ h.n = Head(toServer).n
<1>. DEFINE d == Head(toServer)
<1>1. d \in Frames /\ d = toServer[1] /\ 1 \in DOMAIN toServer
  BY TailElements DEF TypeInv, NetOK, ServerReceive
<1>2. Handle(d) /\ d.kind # "ack"
  BY DEF ServerReceive
<1>. HIDE DEF d
<1>3. d.port \in Ports /\ d.kind \in {"event", "state", "bye", "ack"}
  BY <1>1 DEF Frames, Kinds
<1>4. d.port \in DOMAIN clients \/ nextClient \in ClientIds
  BY <1>1, <1>2, HandleClients DEF TypeInv, NetOK
<1>5. d.kind \in {"event", "bye"} => d.seq \notin Known(d.port)[d.port].processed
  <2>1. CASE d.port \in DOMAIN clients
    <3>1. Known(d.port)[d.port] = clients[d.port]
      BY <1>3, <1>4, <2>1, KnownType
    <3>. QED  BY <1>1, <2>1, <3>1 DEF Numbered, Reliable
  <2>2. CASE d.port \notin DOMAIN clients
    <3>1. Known(d.port)[d.port] = NewEntry(nextClient)
      BY <1>3, <1>4, <2>2, KnownType
    <3>. QED  BY <3>1 DEF NewEntry
  <2>. QED  BY <2>1, <2>2
<1>6. [client |-> Known(d.port)[d.port].id, peer |-> d.peer, n |-> d.n] \in handled'
  BY <1>2, <1>3, <1>5 DEF Handle
<1>. QED  BY <1>6 DEF d

LEMMA ServerReceiveNumbered ==
    ASSUME TypeInv, OwnInv, Numbered, ServerReceive PROVE Numbered'
<1>. DEFINE d == Head(toServer)
            k == Known(d.port)
<1>1. /\ d \in Frames /\ d = toServer[1]
      /\ d.kind # "ack" => d.n \in 1 .. MaxSaid
      /\ DOMAIN toServer' = 1 .. Len(toServer) - 1 /\ DOMAIN toServer = 1 .. Len(toServer)
      /\ Len(toServer) \in Nat /\ 1 \in DOMAIN toServer
      /\ \A n \in 1 .. Len(toServer) - 1 : n + 1 \in DOMAIN toServer /\ toServer'[n] = toServer[n + 1]
  BY TailElements DEF TypeInv, NetOK, ServerReceive
<1>2. Handle(d) /\ peers' = peers
  BY DEF ServerReceive, bridgeVars
<1>. HIDE DEF d
<1>3. d.port \in Ports /\ d.seq \in Nat
  BY <1>1 DEF Frames
<1>4. /\ d.port \in DOMAIN clients \/ nextClient \in ClientIds
      /\ DOMAIN clients' \subseteq DOMAIN clients \cup {d.port}
      /\ \A r \in DOMAIN clients' :
            clients'[r].processed \subseteq k[r].processed \cup (IF r = d.port THEN {d.seq} ELSE {})
  BY <1>1, <1>2, HandleClients
<1>5. \A r \in DOMAIN clients : k[r] = clients[r]
  BY <1>3, <1>4, KnownType
<1>6. d.port \notin DOMAIN clients => k[d.port].processed = {}
  <2>1. d.port \notin DOMAIN clients => k[d.port] = NewEntry(nextClient)
    BY <1>3, <1>4, KnownType
  <2>. QED  BY <2>1 DEF NewEntry
<1>7. ~Reliable(d) => \A r \in DOMAIN clients' : clients'[r].processed \subseteq k[r].processed
  <2>. SUFFICES ASSUME ~Reliable(d), NEW r \in DOMAIN clients'
                PROVE  clients'[r].processed \subseteq k[r].processed
    OBVIOUS
  <2>1. clients' = [k EXCEPT ![d.port].pending = @ \ {d.seq}] \/ clients' = k
    BY <1>2 DEF Handle, Reliable
  <2>2. k \in [DOMAIN clients \cup {d.port} -> Entries]
    BY <1>3, <1>4, KnownType
  <2>. HIDE DEF k
  <2>3. \A q \in DOMAIN clients \cup {d.port} : k[q] \in Entries
    BY <2>2
  <2>. QED  BY <1>4, <2>1, <2>2, <2>3 DEF Entries
<1>. HIDE DEF k
<1>8. \A r \in DOMAIN clients' : \A s \in clients'[r].processed :
            \/ r \in DOMAIN clients /\ s \in clients[r].processed
            \/ r = d.port /\ s = d.seq /\ Reliable(d)
  BY <1>4, <1>5, <1>6, <1>7
<1>9. \A n \in DOMAIN toServer' : Reliable(toServer'[n]) =>
            \A p \in DOMAIN clients' : p = toServer'[n].port => toServer'[n].seq \notin clients'[p].processed
  <2>. SUFFICES ASSUME NEW n \in DOMAIN toServer', Reliable(toServer'[n]),
                       NEW p \in DOMAIN clients', p = toServer'[n].port,
                       toServer'[n].seq \in clients'[p].processed
                PROVE  FALSE
    OBVIOUS
  <2>1. n + 1 \in DOMAIN toServer /\ toServer'[n] = toServer[n + 1] /\ n + 1 # 1
    BY <1>1
  <2>2. CASE p \in DOMAIN clients /\ toServer'[n].seq \in clients[p].processed
    BY <2>1, <2>2 DEF Numbered
  <2>3. CASE p = d.port /\ toServer'[n].seq = d.seq /\ Reliable(d)
    BY <1>1, <2>1, <2>3 DEF Numbered
  <2>. QED  BY <1>8, <2>2, <2>3
<1>10. ASSUME NEW n \in DOMAIN toServer', NEW m \in DOMAIN toServer',
             Reliable(toServer'[n]), Reliable(toServer'[m]),
             toServer'[n].port = toServer'[m].port, toServer'[n].seq = toServer'[m].seq
      PROVE  n = m
  <2>1. /\ n + 1 \in DOMAIN toServer /\ toServer'[n] = toServer[n + 1]
        /\ m + 1 \in DOMAIN toServer /\ toServer'[m] = toServer[m + 1]
    BY <1>1
  <2>2. n + 1 = m + 1
    BY <1>10, <2>1 DEF Numbered
  <2>. QED  BY <1>1, <2>2
<1>11. \A i \in DOMAIN peers' : \A n \in DOMAIN toServer' :
            (Reliable(toServer'[n]) /\ toServer'[n].port = peers'[i].port) => toServer'[n].seq < peers'[i].nextSeq
  BY <1>1, <1>2, SMTT(30) DEF Numbered
<1>12. \A i \in DOMAIN peers' : \A p \in DOMAIN clients' : p = peers'[i].port =>
            \A s \in clients'[p].processed : s < peers'[i].nextSeq
  BY <1>1, <1>2, <1>8 DEF Numbered
<1>. QED  BY <1>9, <1>10, <1>11, <1>12 DEF Numbered

LEMMA DropNumbered ==
    ASSUME TypeInv, Numbered, Drop PROVE Numbered'
<1>1. UNCHANGED <<peers, clients>>
  BY DEF Drop, bridgeVars, serverVars
<1>2. CASE toServer' = toServer
  BY <1>1, <1>2, SameNumbered
<1>3. ASSUME NEW n \in DOMAIN toServer, toServer' = RemoveAt(toServer, n) PROVE Numbered'
  <2>. DEFINE g == [k \in DOMAIN toServer' |-> IF k < n THEN k ELSE k + 1]
  <2>1. /\ DOMAIN toServer' = 1 .. Len(toServer) - 1 /\ DOMAIN toServer = 1 .. Len(toServer)
        /\ Len(toServer) \in Nat
        /\ \A k \in 1 .. Len(toServer) - 1 : toServer'[k] = toServer[IF k < n THEN k ELSE k + 1]
    BY <1>3, RemoveElements DEF TypeInv, NetOK
  <2>2. /\ g \in [DOMAIN toServer' -> DOMAIN toServer]
        /\ \A k \in DOMAIN toServer' : toServer'[k] = toServer[g[k]]
    BY <2>1
  <2>3. \A k, m \in DOMAIN toServer' : g[k] = g[m] => k = m
    BY <2>1
  <2>. HIDE DEF g
  <2>. QED  BY <1>1, <2>2, <2>3, FewerNumbered
<1>. QED  BY <1>2, <1>3 DEF Drop

LEMMA NumberedStep ==
    ASSUME MayReusePorts = FALSE, TypeInv, OwnInv, Numbered, [Next]_vars PROVE Numbered'
<1>1. ASSUME NEW i \in Ids, NEW kind \in Kinds, GameSays(i, kind) PROVE Numbered'
  BY <1>1, SameNumbered DEF GameSays, bridgeVars, serverVars, netVars
<1>2. ASSUME NEW i \in Ids, ConnectionEnds(i) PROVE Numbered'
  BY <1>2, SameNumbered DEF ConnectionEnds, bridgeVars, serverVars, netVars
<1>3. ASSUME NEW i \in Ids, Disconnected(i) PROVE Numbered'
  BY <1>3, SameNumbered DEF Disconnected, serverVars
<1>4. ASSUME NEW i \in Ids, RelayUp(i) PROVE Numbered'
  <2>. DEFINE m == Head(inbox[i])
              f == [port |-> peers[i].port, peer |-> i, kind |-> m.kind, n |-> m.n,
                    seq |-> IF m.kind = "state" THEN 0 ELSE peers[i].nextSeq]
  <2>1. /\ m \in Messages /\ peers[i] \in Peers /\ i \in DOMAIN peers
        /\ peers \in [DOMAIN peers -> Peers]
    BY <1>4 DEF TypeInv, SteamOK, BridgeOK, RelayUp
  <2>2. /\ f \in Frames /\ f.port = peers[i].port
        /\ Reliable(f) => (f.seq = peers[i].nextSeq /\ m.kind # "state")
    BY <2>1, BridgeAssumption DEF Messages, Peers, Frames, Reliable
  <2>3. /\ toServer' = Append(toServer, f) /\ clients' = clients
        /\ peers' = [peers EXCEPT ![i].nextSeq = NextSeq(i, m.kind)]
    BY <1>4 DEF RelayUp, serverVars
  <2>. HIDE DEF m, f
  <2>4. \A j \in DOMAIN peers : peers[j].nextSeq \in Nat
    BY <2>1 DEF Peers
  <2>5. /\ NextSeq(i, m.kind) \in Nat /\ peers[i].nextSeq <= NextSeq(i, m.kind)
        /\ m.kind # "state" => NextSeq(i, m.kind) = peers[i].nextSeq + 1
    BY <2>1, <2>4 DEF NextSeq
  <2>6. /\ DOMAIN peers' = DOMAIN peers
        /\ \A j \in DOMAIN peers : /\ peers'[j].port = peers[j].port
                                   /\ peers'[j].nextSeq \in Nat
                                   /\ peers[j].nextSeq <= peers'[j].nextSeq
        /\ peers'[i].nextSeq = NextSeq(i, m.kind)
    <3>1. /\ DOMAIN peers' = DOMAIN peers /\ \A j \in DOMAIN peers \ {i} : peers'[j] = peers[j]
          /\ peers'[i] = [peers[i] EXCEPT !.nextSeq = NextSeq(i, m.kind)]
      BY <2>1, <2>3
    <3>2. peers'[i].port = peers[i].port /\ peers'[i].nextSeq = NextSeq(i, m.kind)
      BY <2>1, <3>1 DEF Peers
    <3>3. peers[i].nextSeq <= peers'[i].nextSeq /\ peers'[i].nextSeq \in Nat
      BY <2>5, <3>2
    <3>4. ASSUME NEW j \in DOMAIN peers
          PROVE  /\ peers'[j].port = peers[j].port
                 /\ peers'[j].nextSeq \in Nat
                 /\ peers[j].nextSeq <= peers'[j].nextSeq
      <4>1. CASE j = i
        BY <3>2, <3>3, <4>1
      <4>2. CASE j # i
        BY <2>4, <3>1, <4>2
      <4>. QED  BY <4>1, <4>2
    <3>. QED  BY <3>1, <3>2, <3>4
  <2>. QED  BY <2>1, <2>2, <2>3, <2>5, <2>6, SendUpNumbered
<1>5. ASSUME NEW i \in Ids, RelayDown(i) PROVE Numbered'
  <2>. DEFINE d == Head(toPeer[peers[i].port])
              pk == wire[d.client][d.seq]
              f == [port |-> peers[i].port, peer |-> i, kind |-> "ack", n |-> 0, seq |-> d.seq]
              P == [peers[i] EXCEPT
                        !.forwarded = peers[i].forwarded \cup {d.seq}, !.inbound = InboundAfter(i, pk)]
  <2>1. /\ i \in DOMAIN peers /\ peers[i] \in Peers /\ peers[i].port \in Ports /\ d.seq \in Seqs
        /\ peers \in [DOMAIN peers -> Peers]
    BY <1>5, RelayDownCopy DEF TypeInv, BridgeOK
  <2>2. f \in Frames /\ f.port = peers[i].port /\ ~Reliable(f)
    BY <2>1, BridgeAssumption DEF Frames, Seqs, Reliable
  <2>3. /\ toServer' = Append(toServer, f) /\ clients' = clients
        /\ peers' = peers \/ peers' = [peers EXCEPT ![i] = P]
    BY <1>5 DEF RelayDown, serverVars
  <2>4. P.port = peers[i].port /\ P.nextSeq = peers[i].nextSeq
    BY <2>1 DEF Peers
  <2>. HIDE DEF f, P
  <2>5. \A j \in DOMAIN peers : peers[j].nextSeq \in Nat
    BY <2>1 DEF Peers
  <2>6. /\ DOMAIN peers' = DOMAIN peers
        /\ \A j \in DOMAIN peers : /\ peers'[j].port = peers[j].port
                                   /\ peers'[j].nextSeq \in Nat
                                   /\ peers[j].nextSeq <= peers'[j].nextSeq
    BY <2>1, <2>3, <2>4, <2>5
  <2>. QED  BY <2>1, <2>2, <2>3, <2>6, SendUpNumbered
<1>6. ASSUME NEW p \in Ports, NEW n \in ChunkCounts, SendReliable(p, n) PROVE Numbered'
  <2>1. /\ DOMAIN clients' = DOMAIN clients
        /\ \A q \in DOMAIN clients : clients'[q].processed = clients[q].processed
    <3>. p \in DOMAIN clients /\ clients[p] \in Entries
      BY <1>6, NewPacketTypes
    <3>. QED  BY <1>6 DEF SendReliable, Entries
  <2>. QED  BY <1>6, <2>1, SameNumbered DEF SendReliable, bridgeVars
<1>7. ASSUME NEW p \in Ports, NEW s \in Seqs, Resend(p, s) PROVE Numbered'
  BY <1>7, SameNumbered DEF Resend, bridgeVars
<1>10. ASSUME NEW p \in Ports, NEW s \in Seqs, GiveUp(p, s) PROVE Numbered'
  <2>1. /\ DOMAIN clients' = DOMAIN clients
        /\ \A q \in DOMAIN clients : clients'[q].processed = clients[q].processed
    BY <1>10, GiveUpPending
  <2>. QED  BY <1>10, <2>1, SameNumbered DEF GiveUp, bridgeVars, netVars
<1>8. ASSUME NEW p \in Ports, TimeOut(p) PROVE Numbered'
  BY <1>8, SameNumbered DEF TimeOut, Without, bridgeVars, netVars
<1>9. CASE UNCHANGED vars
  BY <1>9, SameNumbered DEF vars, bridgeVars, serverVars, netVars
<1>. QED
  BY <1>1, <1>2, <1>3, <1>4, <1>5, <1>6, <1>7, <1>8, <1>9, <1>10,
     ConnectedNumbered, ServerReceiveNumbered, DropNumbered DEF Next

LEMMA SaidByPeersStep ==
    ASSUME TypeInv, SaidByPeers, [Next]_vars PROVE SaidByPeers'
<1>1. nextPeer \in Nat
  BY BridgeAssumption DEF TypeInv, BridgeOK
<1>2. ASSUME NEW i \in Ids, NEW kind \in Kinds, GameSays(i, kind) PROVE SaidByPeers'
  <2>1. /\ DOMAIN said' = 1 .. Len(said) + 1 /\ DOMAIN said = 1 .. Len(said) /\ Len(said) \in Nat
        /\ \A n \in 1 .. Len(said) : said'[n] = said[n]
        /\ said'[Len(said) + 1] = i
    BY <1>2, AppendElements DEF GameSays, TypeInv, SteamOK
  <2>2. i < nextPeer /\ nextPeer' = nextPeer /\ up' = up
    BY <1>1, <1>2 DEF GameSays, SaidByPeers, bridgeVars
  <2>3. \A n \in DOMAIN said' : n \in DOMAIN said \/ n = Len(said) + 1
    BY <2>1
  <2>4. \A n \in DOMAIN said : said[n] < nextPeer
    BY DEF SaidByPeers
  <2>5. \A n \in DOMAIN said' : said'[n] < nextPeer'
    BY <2>1, <2>2, <2>3, <2>4
  <2>. QED  BY <2>2, <2>5 DEF SaidByPeers
<1>3. CASE Connected
  <2>1. nextPeer' = nextPeer + 1 /\ up' = up \cup {nextPeer} /\ said' = said
    BY <1>3 DEF Connected
  <2>2. \A n \in DOMAIN said : said[n] \in Nat
    <3>. \A n \in DOMAIN said : said[n] \in Ids
      BY DEF TypeInv, SteamOK
    <3>. QED  BY DEF Ids
  <2>3. 1 .. nextPeer - 1 \subseteq 1 .. nextPeer' - 1 /\ nextPeer \in 1 .. nextPeer' - 1
    BY <2>1, BridgeAssumption DEF TypeInv, BridgeOK
  <2>. QED  BY <1>1, <2>1, <2>2, <2>3 DEF SaidByPeers
<1>4. ASSUME UNCHANGED <<said, nextPeer>>, up' \subseteq up PROVE SaidByPeers'
  BY <1>4 DEF SaidByPeers
<1>5. ASSUME NEW i \in Ids, ConnectionEnds(i) \/ Disconnected(i) \/ RelayUp(i) \/ RelayDown(i)
      PROVE  SaidByPeers'
  BY <1>4, <1>5 DEF ConnectionEnds, Disconnected, RelayUp, RelayDown, bridgeVars
<1>6. CASE ServerReceive \/ Drop \/ UNCHANGED vars
  BY <1>4, <1>6 DEF ServerReceive, Drop, vars, steamVars, bridgeVars
<1>7. ASSUME NEW p \in Ports,
             \/ \E n \in ChunkCounts : SendReliable(p, n)
             \/ \E s \in Seqs : Resend(p, s) \/ GiveUp(p, s)
             \/ TimeOut(p)
      PROVE  SaidByPeers'
  BY <1>4, <1>7 DEF SendReliable, Resend, GiveUp, TimeOut, steamVars, bridgeVars
<1>. QED  BY <1>2, <1>3, <1>5, <1>6, <1>7 DEF Next

\* Where message n of peer i is.
Unread(i, n) == \E k \in DOMAIN inbox[i] : inbox[i][k].n = n
OnItsWay(i, n) == \E f \in ToSet(toServer) \cup (lost \cap Frames) : f.peer = i /\ f.n = n
WasHandled(i, n) == \E h \in handled : h.peer = i /\ h.n = n

\* A step that moves no message.
LEMMA NothingMoves ==
    ASSUME UpwardAccounted, DOMAIN peers' \subseteq DOMAIN peers, said' = said,
           \A i \in DOMAIN peers' : inbox'[i] = inbox[i],
           ToSet(toServer) \subseteq ToSet(toServer') \cup (lost' \cap Frames),
           lost \subseteq lost', handled \subseteq handled'
    PROVE  UpwardAccounted'
<1>. SUFFICES ASSUME NEW i \in DOMAIN peers', NEW n \in DOMAIN said', said'[n] = i
              PROVE  Unread(i, n)' \/ OnItsWay(i, n)' \/ WasHandled(i, n)'
  BY DEF UpwardAccounted, Unread, OnItsWay, WasHandled
<1>1. Unread(i, n) \/ OnItsWay(i, n) \/ WasHandled(i, n)
  BY DEF UpwardAccounted, Unread, OnItsWay, WasHandled
<1>2. Unread(i, n) => Unread(i, n)'
  BY DEF Unread
<1>3. OnItsWay(i, n) => OnItsWay(i, n)'
  BY DEF OnItsWay
<1>4. WasHandled(i, n) => WasHandled(i, n)'
  BY DEF WasHandled
<1>. QED  BY <1>1, <1>2, <1>3, <1>4

LEMMA GameSaysAccounted ==
    ASSUME TypeInv, UpwardAccounted, NEW i \in Ids, NEW kind \in Kinds, GameSays(i, kind)
    PROVE  UpwardAccounted'
<1>. DEFINE m == [kind |-> kind, n |-> Len(said) + 1]
<1>1. /\ said' = Append(said, i) /\ inbox' = [inbox EXCEPT ![i] = Append(@, m)]
      /\ UNCHANGED <<peers, handled, toServer, lost>>
  BY DEF GameSays, bridgeVars, serverVars, netVars
<1>2. /\ DOMAIN said' = 1 .. Len(said) + 1 /\ DOMAIN said = 1 .. Len(said) /\ Len(said) \in Nat
      /\ \A n \in 1 .. Len(said) : said'[n] = said[n]
      /\ said'[Len(said) + 1] = i
  BY <1>1, AppendElements DEF TypeInv, SteamOK
<1>3. m \in Messages /\ m.n = Len(said) + 1 /\ inbox \in [Ids -> Seq(Messages)]
  <2>1. Len(said) + 1 \in 1 .. MaxSaid
    BY <1>2, BridgeAssumption DEF GameSays
  <2>. QED  BY <2>1 DEF TypeInv, SteamOK, Messages
<1>. HIDE DEF m
<1>4. /\ DOMAIN inbox'[i] = 1 .. Len(inbox[i]) + 1 /\ DOMAIN inbox[i] = 1 .. Len(inbox[i])
      /\ Len(inbox[i]) \in Nat
      /\ \A k \in 1 .. Len(inbox[i]) : inbox'[i][k] = inbox[i][k]
      /\ inbox'[i][Len(inbox[i]) + 1] = m
  <2>. inbox'[i] = Append(inbox[i], m) /\ inbox[i] \in Seq(Messages)
    BY <1>1, <1>3
  <2>. QED  BY <1>3, AppendElements
<1>5. \A j \in Ids : j # i => inbox'[j] = inbox[j]
  BY <1>1, <1>3
<1>. SUFFICES ASSUME NEW j \in DOMAIN peers, NEW n \in DOMAIN said', said'[n] = j
              PROVE  Unread(j, n)' \/ OnItsWay(j, n)' \/ WasHandled(j, n)'
  BY <1>1 DEF UpwardAccounted, Unread, OnItsWay, WasHandled
<1>6. CASE n = Len(said) + 1
  <2>1. j = i /\ Len(inbox[i]) + 1 \in DOMAIN inbox'[i]
    BY <1>2, <1>4, <1>6
  <2>2. Unread(j, n)'
    BY <1>3, <1>4, <1>6, <2>1 DEF Unread
  <2>. QED  BY <2>2
<1>7. CASE n \in DOMAIN said
  <2>1. j \in Ids
    BY BridgeAssumption DEF TypeInv, BridgeOK, Ids
  <2>2. Unread(j, n) \/ OnItsWay(j, n) \/ WasHandled(j, n)
    BY <1>2, <1>7 DEF UpwardAccounted, Unread, OnItsWay, WasHandled
  <2>3. Unread(j, n) => Unread(j, n)'
    <3>1. CASE j # i
      BY <1>5, <2>1, <3>1 DEF Unread
    <3>2. CASE j = i
      <4>1. \A k \in DOMAIN inbox[i] : k \in DOMAIN inbox'[i] /\ inbox'[i][k] = inbox[i][k]
        BY <1>4
      <4>. QED  BY <3>2, <4>1 DEF Unread
    <3>. QED  BY <3>1, <3>2
  <2>4. OnItsWay(j, n) => OnItsWay(j, n)'
    BY <1>1 DEF OnItsWay
  <2>5. WasHandled(j, n) => WasHandled(j, n)'
    BY <1>1 DEF WasHandled
  <2>. QED  BY <2>2, <2>3, <2>4, <2>5
<1>. QED  BY <1>2, <1>6, <1>7

LEMMA ConnectedAccounted ==
    ASSUME TypeInv, SaidByPeers, UpwardAccounted, Connected
    PROVE  UpwardAccounted'
<1>1. UNCHANGED <<said, inbox, handled, toServer, lost>>
  BY DEF Connected, serverVars, netVars
<1>2. DOMAIN peers' \subseteq DOMAIN peers \cup {nextPeer}
  BY DEF Connected
<1>3. \A n \in DOMAIN said : said[n] # nextPeer
  <2>1. nextPeer \in Nat
    BY BridgeAssumption DEF TypeInv, BridgeOK
  <2>. QED  BY <2>1 DEF SaidByPeers
<1>. QED  BY <1>1, <1>2, <1>3 DEF UpwardAccounted

LEMMA RelayUpAccounted ==
    ASSUME TypeInv, UpwardAccounted, NEW i \in Ids, RelayUp(i)
    PROVE  UpwardAccounted'
<1>. DEFINE m == Head(inbox[i])
            f == [port |-> peers[i].port, peer |-> i, kind |-> m.kind, n |-> m.n,
                  seq |-> IF m.kind = "state" THEN 0 ELSE peers[i].nextSeq]
<1>1. /\ m \in Messages /\ peers[i] \in Peers /\ i \in DOMAIN peers
      /\ inbox \in [Ids -> Seq(Messages)] /\ inbox[i] # <<>>
  BY DEF TypeInv, SteamOK, BridgeOK, RelayUp
<1>2. f \in Frames /\ f.peer = i /\ f.n = m.n
  BY <1>1, BridgeAssumption DEF Messages, Peers, Frames
<1>3. /\ toServer' = Append(toServer, f) /\ inbox' = [inbox EXCEPT ![i] = Tail(@)]
      /\ UNCHANGED <<said, handled, lost>> /\ DOMAIN peers' = DOMAIN peers
  BY DEF RelayUp, serverVars
<1>. HIDE DEF f
<1>4. ToSet(toServer') = ToSet(toServer) \cup {f}
  BY <1>2, <1>3, AppendSet DEF TypeInv, NetOK
<1>5. \A k \in DOMAIN inbox[i] : inbox[i][k] = m \/ \E l \in DOMAIN inbox'[i] : inbox'[i][l] = inbox[i][k]
  <2>1. inbox'[i] = Tail(inbox[i]) /\ inbox[i] \in Seq(Messages)
    BY <1>1, <1>3
  <2>2. ToSet(inbox[i]) \subseteq ToSet(inbox'[i]) \cup {m}
    BY <1>1, <2>1, TailSet
  <2>. QED  BY <2>2 DEF ToSet
<1>. HIDE DEF m
<1>. SUFFICES ASSUME NEW j \in DOMAIN peers, NEW n \in DOMAIN said, said[n] = j
              PROVE  Unread(j, n)' \/ OnItsWay(j, n)' \/ WasHandled(j, n)'
  BY <1>3 DEF UpwardAccounted, Unread, OnItsWay, WasHandled
<1>6. Unread(j, n) \/ OnItsWay(j, n) \/ WasHandled(j, n)
  BY DEF UpwardAccounted, Unread, OnItsWay, WasHandled
<1>7. Unread(j, n) => Unread(j, n)' \/ OnItsWay(j, n)'
  <2>1. CASE j # i
    BY <1>1, <1>3, <2>1 DEF Unread
  <2>2. CASE j = i
    <3>. SUFFICES ASSUME NEW k \in DOMAIN inbox[i], inbox[i][k].n = n
                  PROVE  Unread(j, n)' \/ OnItsWay(j, n)'
      BY <2>2 DEF Unread
    <3>1. CASE inbox[i][k] = m
      <4>. f \in ToSet(toServer') /\ f.peer = j /\ f.n = n
        BY <1>2, <1>4, <2>2, <3>1
      <4>. QED  BY DEF OnItsWay
    <3>2. CASE \E l \in DOMAIN inbox'[i] : inbox'[i][l] = inbox[i][k]
      BY <2>2, <3>2 DEF Unread
    <3>. QED  BY <1>5, <3>1, <3>2
  <2>. QED  BY <2>1, <2>2
<1>8. OnItsWay(j, n) => OnItsWay(j, n)'
  BY <1>3, <1>4 DEF OnItsWay
<1>9. WasHandled(j, n) => WasHandled(j, n)'
  BY <1>3 DEF WasHandled
<1>. QED  BY <1>6, <1>7, <1>8, <1>9

LEMMA ServerReceiveAccounted ==
    ASSUME TypeInv, Numbered, UpwardAccounted, ServerReceive
    PROVE  UpwardAccounted'
<1>. DEFINE d == Head(toServer)
<1>1. /\ ToSet(toServer) \subseteq ToSet(toServer') \cup {d}
      /\ UNCHANGED <<said, inbox, peers, lost>>
  BY TailSet DEF ServerReceive, steamVars, bridgeVars, TypeInv, NetOK
<1>2. handled \subseteq handled'
  <2>1. d \in Frames /\ (d.kind # "ack" => d.n \in 1 .. MaxSaid) /\ Handle(d)
    BY TailElements DEF TypeInv, NetOK, ServerReceive
  <2>. HIDE DEF d
  <2>. QED  BY <2>1, HandleClients
<1>0. d.kind = "ack" => d.n = 0
  <2>. d \in Frames /\ (d.kind # "ack" <=> d.n \in 1 .. MaxSaid)
    BY TailElements DEF TypeInv, NetOK, ServerReceive
  <2>. QED  BY BridgeAssumption DEF Frames
<1>3. d.kind = "ack" \/ \E h \in handled' : h.peer = d.peer /\ h.n = d.n
  BY ReceivedIsHandled
<1>. HIDE DEF d
<1>. SUFFICES ASSUME NEW j \in DOMAIN peers, NEW n \in DOMAIN said, said[n] = j
              PROVE  Unread(j, n)' \/ OnItsWay(j, n)' \/ WasHandled(j, n)'
  BY <1>1 DEF UpwardAccounted, Unread, OnItsWay, WasHandled
<1>4. Unread(j, n) \/ OnItsWay(j, n) \/ WasHandled(j, n)
  BY DEF UpwardAccounted, Unread, OnItsWay, WasHandled
<1>5. Unread(j, n) => Unread(j, n)'
  BY <1>1 DEF Unread
<1>6. WasHandled(j, n) => WasHandled(j, n)'
  BY <1>2 DEF WasHandled
<1>7. ASSUME NEW f \in ToSet(toServer) \cup (lost \cap Frames), f.peer = j, f.n = n
      PROVE  OnItsWay(j, n)' \/ WasHandled(j, n)'
  <2>1. CASE f \in ToSet(toServer') \cup (lost \cap Frames)
    BY <1>1, <1>7, <2>1 DEF OnItsWay
  <2>2. CASE f = d
    <3>1. d.kind # "ack"
      BY <1>0, <1>7, <2>2 DEF TypeInv, SteamOK
    <3>. QED  BY <1>3, <1>7, <2>2, <3>1 DEF WasHandled
  <2>. QED  BY <1>1, <2>1, <2>2
<1>. QED  BY <1>4, <1>5, <1>6, <1>7 DEF OnItsWay

LEMMA AccountedStep ==
    ASSUME TypeInv, Numbered, SaidByPeers, UpwardAccounted, [Next]_vars
    PROVE  UpwardAccounted'
<1>1. ASSUME NEW i \in Ids, ConnectionEnds(i) PROVE UpwardAccounted'
  <2>. ToSet(toServer) \subseteq ToSet(toServer') \cup (lost' \cap Frames)
    BY <1>1 DEF ConnectionEnds, netVars
  <2>. QED  BY <1>1, NothingMoves DEF ConnectionEnds, bridgeVars, serverVars, netVars
<1>2. ASSUME NEW i \in Ids, Disconnected(i) PROVE UpwardAccounted'
  <2>1. \A j \in DOMAIN peers' : inbox'[j] = inbox[j]
    <3>. DOMAIN peers' = DOMAIN peers \ {i} /\ DOMAIN peers \subseteq Ids /\ DOMAIN inbox = Ids
      BY <1>2, BridgeAssumption DEF Disconnected, TypeInv, BridgeOK, SteamOK, Ids
    <3>. QED  BY <1>2 DEF Disconnected
  <2>2. /\ DOMAIN peers' \subseteq DOMAIN peers
        /\ UNCHANGED <<said, toServer, lost, handled>>
    BY <1>2 DEF Disconnected, serverVars
  <2>. QED  BY <2>1, <2>2, NothingMoves
<1>3. ASSUME NEW i \in Ids, RelayDown(i) PROVE UpwardAccounted'
  <2>. DEFINE d == Head(toPeer[peers[i].port])
              f == [port |-> peers[i].port, peer |-> i, kind |-> "ack", n |-> 0, seq |-> d.seq]
  <2>1. peers[i] \in Peers /\ i \in DOMAIN peers /\ peers[i].port \in Ports /\ d.seq \in Seqs
    BY <1>3, RelayDownCopy
  <2>2. f \in Frames
    BY <2>1, BridgeAssumption DEF Frames, Seqs
  <2>3. toServer' = Append(toServer, f) /\ UNCHANGED <<said, inbox, lost, handled>>
    BY <1>3 DEF RelayDown, serverVars
  <2>4. DOMAIN peers' \subseteq DOMAIN peers
    BY <1>3 DEF RelayDown
  <2>. HIDE DEF f
  <2>5. ToSet(toServer) \subseteq ToSet(toServer')
    BY <2>2, <2>3, AppendSet DEF TypeInv, NetOK
  <2>. QED  BY <2>3, <2>4, <2>5, NothingMoves
<1>4. CASE Drop
  <2>1. UNCHANGED <<said, inbox, peers, handled>>
    BY <1>4 DEF Drop, steamVars, bridgeVars, serverVars
  <2>2. ToSet(toServer) \subseteq ToSet(toServer') \cup lost' /\ lost \subseteq lost'
    BY <1>4, DropShrinks
  <2>3. ToSet(toServer) \subseteq Frames
    BY DEF TypeInv, NetOK, ToSet
  <2>. QED  BY <2>1, <2>2, <2>3, NothingMoves
<1>5. ASSUME NEW p \in Ports,
             \/ \E n \in ChunkCounts : SendReliable(p, n)
             \/ \E s \in Seqs : Resend(p, s) \/ GiveUp(p, s)
             \/ TimeOut(p)
      PROVE  UpwardAccounted'
  <2>. UNCHANGED <<said, inbox, peers, handled, toServer, lost>>
    BY <1>5 DEF SendReliable, Resend, GiveUp, TimeOut, steamVars, bridgeVars, serverVars, netVars
  <2>. QED  BY NothingMoves
<1>6. CASE UNCHANGED vars
  <2>. UNCHANGED <<said, inbox, peers, handled, toServer, lost>>
    BY <1>6 DEF vars, steamVars, bridgeVars, serverVars, netVars
  <2>. QED  BY NothingMoves
<1>. QED
  BY <1>1, <1>2, <1>3, <1>4, <1>5, <1>6,
     GameSaysAccounted, ConnectedAccounted, RelayUpAccounted, ServerReceiveAccounted DEF Next

\* A message the bridge has taken from a game that is still connected is not
\* lost but by the loopback: neither the bridge's numbers nor the server's
\* dedup window drop one, as long as ports are not given again early.
THEOREM MessagesAreAccounted ==
    ASSUME MayReusePorts = FALSE
    PROVE  Spec => []UpwardAccounted
<1>1. TypeInv /\ OwnInv /\ [Next]_vars => OwnInv'
  BY OwnStep
<1>2. TypeInv /\ OwnInv /\ UpInv /\ [Next]_vars => UpInv'
  BY NumberedStep, SaidByPeersStep, AccountedStep DEF UpInv
<1>3. UpInv => UpwardAccounted
  BY DEF UpInv
<1>. QED  BY <1>1, <1>2, <1>3, TypesHold, InitOwnInv, InitUpInv, PTL DEF Spec
=============================================================================
