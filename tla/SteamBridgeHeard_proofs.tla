----------------------- MODULE SteamBridgeHeard_proofs -----------------------
(***************************************************************************)
(* What Steam hears of the server: each event once (for all values of the  *)
(* constants), in the order of sending (if no port is reused early), and   *)
(* whole once all its packets are acknowledged (if also no game stalls).   *)
(*                                                                         *)
(* PacketInv: how the packets of an event lie in wire.  TurnInv: the       *)
(* clients of a socket follow each other, so that copies and what is heard *)
(* never go back to an earlier one.  OnceInv: an event heard has too few   *)
(* packets left to complete again.  OrderInv: what waits for the first     *)
(* time does so in the order of sending, behind what was heard.  AckInv:   *)
(* an acknowledged packet was read by the bridge, and a complete event     *)
(* taken or refused by Steam.                                              *)
(***************************************************************************)
EXTENDS SteamBridge_proofs
-----------------------------------------------------------------------------
(* Packets of an event *)

\* The packets of an event are consecutive pieces of it, share its length and
\* its chunk id, and no two chunked events share an id; events are in order.
Packed ==
    \A c \in ClientIds : \A s, t \in DOMAIN wire[c] :
        LET a == wire[c][s]
            b == wire[c][t]
        IN  /\ a.piece <= a.of
            /\ a.chunk = 0 => a.of = 1
            /\ a.event = b.event => a.of = b.of /\ a.chunk = b.chunk /\ s - a.piece = t - b.piece
            /\ (a.chunk = b.chunk /\ a.chunk # 0) => a.event = b.event
            /\ s <= t => a.event <= b.event

\* Every piece of an event was made with the others.
Whole ==
    \A c \in ClientIds : \A s \in DOMAIN wire[c] : \A j \in 1 .. wire[c][s].of :
        LET t == s - wire[c][s].piece + j
        IN  t \in DOMAIN wire[c] /\ wire[c][t].event = wire[c][s].event

\* An entry is ahead of the packets made for it, and the only one of its id.
Ahead ==
    \A p \in DOMAIN clients : \A s \in DOMAIN wire[clients[p].id] :
        /\ wire[clients[p].id][s].event < clients[p].nextEvent
        /\ wire[clients[p].id][s].chunk < clients[p].nextChunk

IdsApart == \A p, q \in DOMAIN clients : clients[p].id = clients[q].id => p = q

PacketInv == Packed /\ Whole /\ Ahead /\ IdsApart

LEMMA InitPacketInv == Init => PacketInv
BY DEF Init, PacketInv, Packed, Whole, Ahead, IdsApart

\* An entry a step leaves or makes.
SameId(p) == p \in DOMAIN clients /\ clients'[p].id = clients[p].id
SameEntry(p) ==
    /\ SameId(p)
    /\ clients'[p].nextEvent = clients[p].nextEvent
    /\ clients'[p].nextChunk = clients[p].nextChunk
MadeEntry(p) ==
    /\ p \notin DOMAIN clients /\ nextClient \in ClientIds
    /\ clients'[p].id = nextClient

LEMMA ReceiveEntries ==
    ASSUME TypeInv, ServerReceive
    PROVE  /\ UNCHANGED <<steamVars, bridgeVars, wire, toPeer, lost>>
           /\ \A p \in DOMAIN clients' : SameEntry(p) \/ (MadeEntry(p) /\ p = Head(toServer).port)
<1>. DEFINE d == Head(toServer)
            k == Known(d.port)
<1>1. /\ d \in Frames
      /\ d.kind # "ack" => d.n \in 1 .. MaxSaid
  BY TailElements DEF TypeInv, NetOK, ServerReceive
<1>2. Handle(d) /\ UNCHANGED <<steamVars, bridgeVars, wire, toPeer, lost>>
  BY DEF ServerReceive
<1>. HIDE DEF d, k
<1>3. d.port \in Ports
  BY <1>1 DEF Frames
<1>4. /\ d.port \in DOMAIN clients \/ nextClient \in ClientIds
      /\ DOMAIN clients' \subseteq DOMAIN clients \cup {d.port}
      /\ \A r \in DOMAIN clients' :
            /\ clients'[r].id = k[r].id
            /\ clients'[r].nextEvent = k[r].nextEvent
            /\ clients'[r].nextChunk = k[r].nextChunk
  BY <1>1, <1>2, HandleClients DEF k
<1>5. /\ d.port \notin DOMAIN clients => k[d.port].id = nextClient
      /\ \A r \in DOMAIN clients : k[r] = clients[r]
  <2>1. d.port \notin DOMAIN clients => k[d.port] = NewEntry(nextClient)
    BY <1>3, <1>4, KnownType DEF k
  <2>2. \A r \in DOMAIN clients : k[r] = clients[r]
    BY <1>3, <1>4, KnownType DEF k
  <2>. QED  BY <2>1, <2>2 DEF NewEntry
<1>. QED  BY <1>2, <1>4, <1>5 DEF SameEntry, SameId, MadeEntry, d

\* A step that makes no packet.
LEMMA SamePackets ==
    ASSUME TypeInv, PacketInv, NEW q,
           wire' = wire,
           \A p \in DOMAIN clients' : SameEntry(p) \/ (MadeEntry(p) /\ p = q)
    PROVE  PacketInv'
<1>1. Packed' /\ Whole'
  BY DEF PacketInv, Packed, Whole
<1>2. \A p \in DOMAIN clients : clients[p].id < nextClient /\ clients[p].id \in Nat
  BY DEF TypeInv, ServerOK, Entries, ClientIds
<1>3. nextClient \in ClientIds => wire[nextClient] = <<>> /\ nextClient \in Nat
  BY DEF TypeInv, ServerOK, ClientIds
<1>4. Ahead'
  <2>. SUFFICES ASSUME NEW p \in DOMAIN clients', NEW s \in DOMAIN wire[clients'[p].id]
                PROVE  /\ wire[clients'[p].id][s].event < clients'[p].nextEvent
                       /\ wire[clients'[p].id][s].chunk < clients'[p].nextChunk
    BY DEF Ahead
  <2>1. SameEntry(p)
    BY <1>3 DEF MadeEntry
  <2>. QED  BY <2>1 DEF SameEntry, SameId, PacketInv, Ahead
<1>5. IdsApart'
  <2>. SUFFICES ASSUME NEW p \in DOMAIN clients', NEW r \in DOMAIN clients',
                       clients'[p].id = clients'[r].id
                PROVE  p = r
    BY DEF IdsApart
  <2>0. (SameEntry(p) \/ p = q) /\ (SameEntry(r) \/ r = q)
    OBVIOUS
  <2>1. CASE SameEntry(p) /\ SameEntry(r)
    BY <2>1 DEF SameEntry, SameId, PacketInv, IdsApart
  <2>2. CASE MadeEntry(p) /\ p = q
    BY <1>2, <1>3, <2>0, <2>2 DEF SameEntry, SameId, MadeEntry
  <2>3. CASE MadeEntry(r) /\ r = q
    BY <1>2, <1>3, <2>0, <2>3 DEF SameEntry, SameId, MadeEntry
  <2>. QED  BY <2>1, <2>2, <2>3
<1>. QED  BY <1>1, <1>4, <1>5 DEF PacketInv

\* What send_reliable adds to the packets and the copies.
LEMMA SendReliableAdds ==
    ASSUME TypeInv, NEW p \in Ports, NEW n \in ChunkCounts, SendReliable(p, n)
    PROVE  LET c == clients[p]
               k == Len(wire[c.id])
               w == wire'[c.id]
           IN  /\ p \in DOMAIN clients /\ c.id \in ClientIds /\ n \in Nat \ {0} /\ k \in Nat
               /\ c.nextEvent \in Nat \ {0} /\ c.nextChunk \in Nat \ {0}
               /\ DOMAIN wire[c.id] = 1 .. k /\ DOMAIN w = 1 .. k + n
               /\ \A s \in 1 .. k : w[s] = wire[c.id][s]
               /\ \A s \in k + 1 .. k + n :
                    w[s] = [event |-> c.nextEvent, piece |-> s - k, of |-> n,
                            chunk |-> IF n > 1 THEN c.nextChunk ELSE 0]
               /\ \A b \in ClientIds : b # c.id => wire'[b] = wire[b]
               /\ DOMAIN clients' = DOMAIN clients
               /\ \A q \in DOMAIN clients : clients'[q].id = clients[q].id
               /\ \A q \in DOMAIN clients : q # p => clients'[q] = clients[q]
               /\ clients'[p].nextEvent = c.nextEvent + 1
               /\ clients'[p].nextChunk = c.nextChunk + IF n > 1 THEN 1 ELSE 0
               /\ clients'[p].pending = c.pending \cup (k + 1 .. k + n)
               /\ clients'[p].processed = c.processed
<1>. DEFINE c == clients[p]
            k == Len(wire[c.id])
            u == wire[c.id]
            v == NewPackets(c, n)
<1>1. /\ p \in DOMAIN clients /\ c \in Entries /\ c.id \in ClientIds
      /\ k \in Nat /\ n \in Nat \ {0}
      /\ u \in Seq(Packets) /\ v \in Seq(Packets) /\ Len(v) = n
  BY NewPacketTypes
<1>2. /\ wire' = [wire EXCEPT ![c.id] = u \o v]
      /\ clients' = [clients EXCEPT ![p] = [c EXCEPT !.pending = @ \cup (k + 1 .. k + n),
                                                     !.nextEvent = @ + 1,
                                                     !.nextChunk = @ + IF n > 1 THEN 1 ELSE 0]]
  BY DEF SendReliable, NewPackets
<1>3. c.nextEvent \in 1 .. k + 1 /\ c.nextChunk \in 1 .. k + 1
  BY <1>1 DEF TypeInv, ServerOK
<1>4. /\ DOMAIN clients' = DOMAIN clients
      /\ \A q \in DOMAIN clients : clients'[q].id = clients[q].id
      /\ \A q \in DOMAIN clients : q # p => clients'[q] = clients[q]
      /\ clients'[p].nextEvent = c.nextEvent + 1
      /\ clients'[p].nextChunk = c.nextChunk + IF n > 1 THEN 1 ELSE 0
      /\ clients'[p].pending = c.pending \cup (k + 1 .. k + n)
      /\ clients'[p].processed = c.processed
  BY <1>1, <1>2 DEF Entries
<1>5. wire \in [ClientIds -> Seq(Packets)]
  BY DEF TypeInv, ServerOK
<1>6. \A j \in 1 .. n : v[j] = [event |-> c.nextEvent, piece |-> j, of |-> n,
                               chunk |-> IF n > 1 THEN c.nextChunk ELSE 0]
  BY DEF NewPackets
<1>7. k = Len(u)
  OBVIOUS
<1>. HIDE DEF c, k, u, v
<1>8. /\ wire'[c.id] = u \o v
      /\ \A b \in ClientIds : b # c.id => wire'[b] = wire[b]
  BY <1>1, <1>2, <1>5
<1>9. /\ DOMAIN (u \o v) = 1 .. k + n
      /\ \A s \in 1 .. k : (u \o v)[s] = u[s]
      /\ \A j \in 1 .. n : (u \o v)[k + j] = v[j]
  <2>1. u \in Seq(Packets) /\ v \in Seq(Packets) /\ Len(u) = k /\ Len(v) = n
    BY <1>1, <1>7
  <2>. DEFINE t == u \o v
  <2>2. t = u \o v
    OBVIOUS
  <2>. HIDE DEF t
  <2>3. /\ DOMAIN t = 1 .. Len(u) + Len(v)
        /\ \A s \in 1 .. Len(u) : t[s] = u[s]
        /\ \A j \in 1 .. Len(v) : t[Len(u) + j] = v[j]
    BY <2>1, <2>2, ConcatElements, SMTT(30)
  <2>. QED  BY <2>1, <2>3 DEF t
<1>10. ASSUME NEW s \in k + 1 .. k + n
       PROVE  (u \o v)[s] = [event |-> c.nextEvent, piece |-> s - k, of |-> n,
                             chunk |-> IF n > 1 THEN c.nextChunk ELSE 0]
  <2>1. s - k \in 1 .. n /\ k + (s - k) = s
    BY <1>1
  <2>. QED  BY <1>6, <1>9, <2>1
<1>11. DOMAIN u = 1 .. k
  BY <1>1, <1>7
<1>12. c.nextEvent \in Nat \ {0} /\ c.nextChunk \in Nat \ {0}
  BY <1>1, <1>3
<1>13. \A s \in k + 1 .. k + n : (u \o v)[s] = [event |-> c.nextEvent, piece |-> s - k, of |-> n,
                             chunk |-> IF n > 1 THEN c.nextChunk ELSE 0]
  BY <1>10
<1>. QED  BY <1>1, <1>4, <1>8, <1>9, <1>11, <1>12, <1>13 DEF c, k, u

LEMMA SendReliablePackets ==
    ASSUME TypeInv, PacketInv, NEW p \in Ports, NEW n \in ChunkCounts, SendReliable(p, n)
    PROVE  PacketInv'
<1>. DEFINE c == clients[p]
            k == Len(wire[c.id])
            w == wire'[c.id]
            x == IF n > 1 THEN c.nextChunk ELSE 0
<1>1. /\ p \in DOMAIN clients /\ c.id \in ClientIds /\ n \in Nat \ {0} /\ k \in Nat
      /\ c.nextEvent \in Nat \ {0} /\ c.nextChunk \in Nat \ {0}
      /\ DOMAIN wire[c.id] = 1 .. k /\ DOMAIN w = 1 .. k + n
      /\ \A s \in 1 .. k : w[s] = wire[c.id][s]
      /\ \A s \in k + 1 .. k + n :
            w[s] = [event |-> c.nextEvent, piece |-> s - k, of |-> n, chunk |-> x]
      /\ \A b \in ClientIds : b # c.id => wire'[b] = wire[b]
  BY SendReliableAdds
<1>2. /\ DOMAIN clients' = DOMAIN clients
      /\ \A q \in DOMAIN clients : clients'[q].id = clients[q].id
      /\ \A q \in DOMAIN clients : q # p => clients'[q] = clients[q]
      /\ clients'[p].nextEvent = c.nextEvent + 1
      /\ clients'[p].nextChunk = c.nextChunk + IF n > 1 THEN 1 ELSE 0
  BY SendReliableAdds
<1>3. \A s \in 1 .. k : w[s].event < c.nextEvent /\ w[s].chunk < c.nextChunk
  BY <1>1 DEF PacketInv, Ahead
<1>4. \A s \in 1 .. k : /\ w[s].event \in Nat /\ w[s].chunk \in Nat
                        /\ w[s].piece \in Nat /\ w[s].of \in Nat
  <2>. SUFFICES ASSUME NEW s \in 1 .. k
                PROVE  /\ w[s].event \in Nat /\ w[s].chunk \in Nat
                       /\ w[s].piece \in Nat /\ w[s].of \in Nat
    OBVIOUS
  <2>1. w[s] \in Packets
    BY <1>1, SMTT(30) DEF TypeInv, ServerOK
  <2>. QED  BY <2>1, SMTT(30) DEF Packets, Seqs
<1>5. \A s \in k + 1 .. k + n :
            w[s].event = c.nextEvent /\ w[s].piece = s - k /\ w[s].of = n /\ w[s].chunk = x
  <2>. HIDE DEF c, k, w, x
  <2>. SUFFICES ASSUME NEW s \in k + 1 .. k + n
                PROVE  w[s].event = c.nextEvent /\ w[s].piece = s - k /\ w[s].of = n /\ w[s].chunk = x
    OBVIOUS
  <2>1. w[s] = [event |-> c.nextEvent, piece |-> s - k, of |-> n, chunk |-> x]
    BY <1>1
  <2>. QED  BY <2>1
<1>6. \A s \in DOMAIN w : s \in 1 .. k \/ s \in k + 1 .. k + n
  BY <1>1
<1>. HIDE DEF c, k, w
<1>7. ASSUME NEW s \in DOMAIN w, NEW t \in DOMAIN w
      PROVE  /\ w[s].piece <= w[s].of
             /\ w[s].chunk = 0 => w[s].of = 1
             /\ w[s].event = w[t].event =>
                    w[s].of = w[t].of /\ w[s].chunk = w[t].chunk /\ s - w[s].piece = t - w[t].piece
             /\ (w[s].chunk = w[t].chunk /\ w[s].chunk # 0) => w[s].event = w[t].event
             /\ s <= t => w[s].event <= w[t].event
  <2>1. CASE s \in 1 .. k /\ t \in 1 .. k
    BY <1>1, <2>1, SMTT(30) DEF PacketInv, Packed, c
  <2>2. CASE s \in 1 .. k /\ t \in k + 1 .. k + n
    <3>1. w[s].piece <= w[s].of /\ (w[s].chunk = 0 => w[s].of = 1)
      BY <1>1, <2>2 DEF PacketInv, Packed, c
    <3>. QED  BY <1>1, <1>3, <1>4, <1>5, <2>2, <3>1, SMTT(30)
  <2>3. CASE s \in k + 1 .. k + n /\ t \in 1 .. k
    <3>1. s > t
      BY <1>1, <2>3
    <3>. QED  BY <1>1, <1>3, <1>4, <1>5, <2>3, <3>1, SMTT(30)
  <2>4. CASE s \in k + 1 .. k + n /\ t \in k + 1 .. k + n
    BY <1>1, <1>5, <2>4
  <2>. QED  BY <1>6, <2>1, <2>2, <2>3, <2>4
<1>8. Packed'
  <2>. SUFFICES ASSUME NEW b \in ClientIds, NEW s \in DOMAIN wire'[b], NEW t \in DOMAIN wire'[b]
                PROVE  LET f == wire'[b][s]
                           g == wire'[b][t]
                       IN  /\ f.piece <= f.of
                           /\ f.chunk = 0 => f.of = 1
                           /\ f.event = g.event =>
                                f.of = g.of /\ f.chunk = g.chunk /\ s - f.piece = t - g.piece
                           /\ (f.chunk = g.chunk /\ f.chunk # 0) => f.event = g.event
                           /\ s <= t => f.event <= g.event
    BY DEF Packed
  <2>1. CASE b = c.id
    BY <1>7, <2>1 DEF w
  <2>2. CASE b # c.id
    BY <1>1, <2>2 DEF PacketInv, Packed
  <2>. QED  BY <2>1, <2>2
<1>9. ASSUME NEW s \in DOMAIN w, NEW j \in 1 .. w[s].of
      PROVE  s - w[s].piece + j \in DOMAIN w /\ w[s - w[s].piece + j].event = w[s].event
  <2>1. CASE s \in 1 .. k
    <3>1. LET t == s - w[s].piece + j IN t \in 1 .. k /\ wire[c.id][t].event = w[s].event
      BY <1>1, <2>1, SMTT(30) DEF PacketInv, Whole
    <3>. QED  BY <1>1, <3>1
  <2>2. CASE s \in k + 1 .. k + n
    <3>1. w[s].piece = s - k /\ w[s].of = n
      BY <1>5, <2>2
    <3>2. s - w[s].piece + j = k + j /\ k + j \in k + 1 .. k + n
      BY <1>1, <2>2, <3>1
    <3>3. w[k + j].event = c.nextEvent /\ w[s].event = c.nextEvent
      BY <1>5, <2>2, <3>2
    <3>4. k + j \in DOMAIN w
      BY <1>1, <3>2
    <3>. QED  BY <3>2, <3>3, <3>4
  <2>. QED  BY <1>6, <2>1, <2>2
<1>10. Whole'
  <2>. SUFFICES ASSUME NEW b \in ClientIds, NEW s \in DOMAIN wire'[b], NEW j \in 1 .. wire'[b][s].of
                PROVE  LET t == s - wire'[b][s].piece + j
                       IN  t \in DOMAIN wire'[b] /\ wire'[b][t].event = wire'[b][s].event
    BY DEF Whole
  <2>1. CASE b = c.id
    BY <1>9, <2>1 DEF w
  <2>2. CASE b # c.id
    BY <1>1, <2>2 DEF PacketInv, Whole
  <2>. QED  BY <2>1, <2>2
<1>11. IdsApart'
  BY <1>2 DEF PacketInv, IdsApart
<1>12. Ahead'
  <2>. SUFFICES ASSUME NEW q \in DOMAIN clients, NEW s \in DOMAIN wire'[clients[q].id]
                PROVE  /\ wire'[clients[q].id][s].event < clients'[q].nextEvent
                       /\ wire'[clients[q].id][s].chunk < clients'[q].nextChunk
    BY <1>2 DEF Ahead
  <2>1. CASE q = p
    <3>1. w[s].event <= c.nextEvent /\ w[s].chunk <= c.nextChunk /\ (n = 1 => w[s].chunk < c.nextChunk)
      <4>1. CASE s \in 1 .. k
        BY <1>1, <1>3, <1>4, <4>1
      <4>2. CASE s \in k + 1 .. k + n
        BY <1>1, <1>5, <4>2
      <4>. QED  BY <1>6, <2>1, <4>1, <4>2 DEF c, w
    <3>2. w[s].event \in Nat /\ w[s].chunk \in Nat
      <4>1. CASE s \in 1 .. k
        BY <1>4, <4>1
      <4>2. CASE s \in k + 1 .. k + n
        BY <1>1, <1>5, <4>2
      <4>. QED  BY <1>6, <2>1, <4>1, <4>2 DEF c, w
    <3>3. w[s].event < clients'[p].nextEvent /\ w[s].chunk < clients'[p].nextChunk
      BY <1>1, <1>2, <3>1, <3>2
    <3>. QED  BY <2>1, <3>3 DEF c, w
  <2>2. CASE q # p
    <3>1. clients[q].id # c.id /\ clients[q].id \in ClientIds
      BY <1>1, <2>2 DEF PacketInv, IdsApart, c, TypeInv, ServerOK, Entries
    <3>. QED  BY <1>1, <1>2, <2>2, <3>1 DEF PacketInv, Ahead
  <2>. QED  BY <2>1, <2>2
<1>. QED  BY <1>8, <1>10, <1>11, <1>12 DEF PacketInv

LEMMA PacketStep ==
    ASSUME TypeInv, PacketInv, [Next]_vars PROVE PacketInv'
<1>. DEFINE q == Head(toServer).port
<1>1. CASE wire' = wire /\ \A p \in DOMAIN clients' : p \in DOMAIN clients /\ clients'[p] = clients[p]
  BY <1>1, SamePackets DEF SameEntry, SameId
<1>2. CASE ServerReceive
  BY <1>2, ReceiveEntries, SamePackets
<1>3. ASSUME NEW p \in Ports, TimeOut(p) PROVE PacketInv'
  BY <1>1, <1>3 DEF TimeOut, Without
<1>4. ASSUME NEW p \in Ports, NEW s \in Seqs, GiveUp(p, s) PROVE PacketInv'
  <2>1. \A r \in DOMAIN clients' : SameEntry(r)
    BY <1>4, GiveUpPending DEF SameEntry, SameId
  <2>2. wire' = wire
    BY <1>4 DEF GiveUp
  <2>. QED  BY <2>1, <2>2, SamePackets
<1>. QED
  BY <1>1, <1>2, <1>3, <1>4, SendReliablePackets
     DEF Next, vars, serverVars, GameSays, ConnectionEnds, Connected, Disconnected,
         RelayUp, RelayDown, Resend, Drop

-----------------------------------------------------------------------------
(* Clients take turns at a socket *)

\* The clients that copies at a peer's socket are of, and the one copies will
\* be of.
Now(i) ==
    {clients[p].id : p \in DOMAIN clients \cap {peers[i].port}}
        \cup {d.client : d \in ToSet(toPeer[peers[i].port])}

\* No two sockets share a port, and nothing waits where there is no socket.
PortsApart ==
    /\ \A i, j \in DOMAIN peers : peers[i].port = peers[j].port => i = j
    /\ \A p \in Ports \ Bound : toPeer[p] = <<>>

\* Copies of an older client come before those of a newer one.
CopiesInTurn ==
    /\ \A p \in Ports : \A n, m \in DOMAIN toPeer[p] :
            n < m => toPeer[p][n].client <= toPeer[p][m].client
    /\ \A p \in DOMAIN clients : \A d \in ToSet(toPeer[p]) : d.client <= clients[p].id

\* So a game hears of a newer client only when it is done with the older ones.
HeardInTurn == \A i \in DOMAIN peers : \A b \in HeardFrom(i), c \in Now(i) : b <= c

\* What a game has heard was sent, and nobody hears before being there.
HeardIsMade ==
    /\ \A i \in Ids : \A v \in ToSet(heard[i]) :
            \E s \in DOMAIN wire[v.client] : wire[v.client][s].event = v.event
    /\ \A i \in Ids : i >= nextPeer => heard[i] = <<>>

TurnInv == PortsApart /\ CopiesInTurn /\ HeardInTurn /\ HeardIsMade

LEMMA InitTurnInv == Init => TurnInv
BY DEF Init, TurnInv, PortsApart, CopiesInTurn, HeardInTurn, HeardIsMade, HeardFrom, Now, ToSet

\* Elements of one queue that are, in their order, elements of another.
Drawn(t, s) ==
    /\ ToSet(t) \subseteq ToSet(s)
    /\ \A n, m \in DOMAIN t : n < m =>
            \E a, b \in DOMAIN s : a < b /\ s[a] = t[n] /\ s[b] = t[m]

LEMMA DrawnSame == ASSUME NEW s PROVE Drawn(s, s)
BY DEF Drawn

LEMMA DrawnNothing == ASSUME NEW s PROVE Drawn(<<>>, s)
BY DEF Drawn, ToSet

LEMMA DrawnTail == ASSUME NEW S, NEW s \in Seq(S), s # <<>> PROVE Drawn(Tail(s), s)
<1>1. ToSet(Tail(s)) \subseteq ToSet(s)
  BY TailSet
<1>2. /\ DOMAIN Tail(s) = 1 .. Len(s) - 1
      /\ \A n \in 1 .. Len(s) - 1 : n + 1 \in DOMAIN s /\ Tail(s)[n] = s[n + 1]
  BY TailElements
<1>3. ASSUME NEW n \in DOMAIN Tail(s), NEW m \in DOMAIN Tail(s), n < m
      PROVE  \E a, b \in DOMAIN s : a < b /\ s[a] = Tail(s)[n] /\ s[b] = Tail(s)[m]
  BY <1>2, <1>3
<1>. QED  BY <1>1, <1>3 DEF Drawn

LEMMA DrawnRemove == ASSUME NEW S, NEW s \in Seq(S), NEW k \in DOMAIN s PROVE Drawn(RemoveAt(s, k), s)
<1>. DEFINE t == RemoveAt(s, k)
<1>1. ToSet(t) \subseteq ToSet(s)
  BY RemoveSet
<1>2. /\ DOMAIN t = 1 .. Len(s) - 1 /\ DOMAIN s = 1 .. Len(s) /\ Len(s) \in Nat
      /\ \A n \in 1 .. Len(s) - 1 : t[n] = s[IF n < k THEN n ELSE n + 1]
  <2>1. DOMAIN s = 1 .. Len(s) /\ Len(s) \in Nat
    OBVIOUS
  <2>2. /\ DOMAIN t = 1 .. Len(s) - 1
        /\ \A n \in 1 .. Len(s) - 1 : t[n] = s[IF n < k THEN n ELSE n + 1]
    BY RemoveElements, Zenon
  <2>. QED  BY <2>1, <2>2
<1>. HIDE DEF t
<1>3. ASSUME NEW n \in DOMAIN t, NEW m \in DOMAIN t, n < m
      PROVE  \E a, b \in DOMAIN s : a < b /\ s[a] = t[n] /\ s[b] = t[m]
  <2>. DEFINE a == IF n < k THEN n ELSE n + 1
              b == IF m < k THEN m ELSE m + 1
  <2>1. t[n] = s[a] /\ t[m] = s[b]
    BY <1>2
  <2>2. a \in DOMAIN s /\ b \in DOMAIN s /\ a < b
    BY <1>2, <1>3
  <2>. HIDE DEF a, b
  <2>. QED  BY <2>1, <2>2
<1>. QED  BY <1>1, <1>3 DEF Drawn, t

\* A queue that has lost copies, or gained some of its address's client.
Own(p, d) == SameId(p) /\ p \in DOMAIN clients' /\ d.client = clients[p].id
Fed(p) ==
    /\ \A d \in ToSet(toPeer'[p]) : d \in ToSet(toPeer[p]) \/ Own(p, d)
    /\ \A n, m \in DOMAIN toPeer'[p] : n < m =>
            \/ Own(p, toPeer'[p][m])
            \/ \E a, b \in DOMAIN toPeer[p] :
                    a < b /\ toPeer[p][a] = toPeer'[p][n] /\ toPeer[p][b] = toPeer'[p][m]

LEMMA DrawnIsFed == ASSUME NEW p, Drawn(toPeer'[p], toPeer[p]) PROVE Fed(p)
BY DEF Drawn, Fed

\* Ids of copies and of what was heard have been given out.
LEMMA IdsGivenOut ==
    ASSUME TypeInv, HeardIsMade
    PROVE  /\ nextClient \in Nat
           /\ \A p \in DOMAIN clients : clients[p].id \in ClientIds /\ clients[p].id < nextClient
           /\ \A p \in Ports : \A d \in ToSet(toPeer[p]) : d.client \in ClientIds /\ d.client < nextClient
           /\ \A i \in Ids : \A v \in ToSet(heard[i]) :
                v.client \in ClientIds /\ v.client < nextClient /\ v.event \in Seqs
<1>1. nextClient \in Nat
  BY BridgeAssumption DEF TypeInv, ServerOK
<1>2. \A p \in DOMAIN clients : clients[p].id \in ClientIds /\ clients[p].id < nextClient
  BY DEF TypeInv, ServerOK, Entries
<1>3. ASSUME NEW c \in ClientIds, wire[c] # <<>> PROVE c < nextClient
  BY <1>1, <1>3 DEF TypeInv, ServerOK, ClientIds
<1>4. ASSUME NEW p \in Ports, NEW d \in ToSet(toPeer[p])
      PROVE  d.client \in ClientIds /\ d.client < nextClient
  <2>1. PICK n \in DOMAIN toPeer[p] : d = toPeer[p][n]
    BY DEF ToSet
  <2>2. d.client \in ClientIds
    <3>1. d \in Copies
      BY <2>1 DEF TypeInv, NetOK
    <3>. QED  BY <3>1 DEF Copies
  <2>3. d.seq \in 1 .. Len(wire[d.client])
    BY <2>1 DEF TypeInv, NetOK
  <2>4. wire[d.client] # <<>>
    BY <2>3
  <2>. QED  BY <1>3, <2>2, <2>4
<1>5. ASSUME NEW i \in Ids, NEW v \in ToSet(heard[i])
      PROVE  v.client \in ClientIds /\ v.client < nextClient /\ v.event \in Seqs
  <2>. DEFINE T == [client : ClientIds, event : Seqs]
  <2>1. v \in T
    <3>1. heard[i] \in Seq(T)
      BY DEF TypeInv, SteamOK
    <3>. HIDE DEF T
    <3>. QED  BY <3>1 DEF ToSet
  <2>2. wire[v.client] # <<>>
    BY DEF HeardIsMade
  <2>. QED  BY <1>3, <2>1, <2>2
<1>. QED  BY <1>1, <1>2, <1>4, <1>5

\* The turns stay, whatever a step takes away or sends in an entry's name.
LEMMA CopiesKept ==
    ASSUME TypeInv, TurnInv,
           \A p \in Ports : Fed(p),
           DOMAIN clients' \subseteq Ports,
           \A p \in DOMAIN clients' : SameId(p) \/ MadeEntry(p)
    PROVE  /\ CopiesInTurn'
           /\ \A i \in DOMAIN peers \cap DOMAIN peers' : peers'[i].port = peers[i].port =>
                    \A c \in Now(i)' : c \in Now(i) \/ c = nextClient
<1>1. /\ nextClient \in Nat
      /\ \A p \in DOMAIN clients : clients[p].id \in Nat /\ clients[p].id < nextClient
      /\ \A p \in Ports : \A d \in ToSet(toPeer[p]) : d.client \in Nat /\ d.client < nextClient
  BY IdsGivenOut DEF TurnInv, ClientIds
<1>2. DOMAIN clients \subseteq Ports
  BY DEF TypeInv, ServerOK
<1>3. \A p \in DOMAIN clients' :
            \/ p \in DOMAIN clients /\ clients'[p].id = clients[p].id
            \/ p \notin DOMAIN clients /\ clients'[p].id = nextClient
  BY DEF SameId, MadeEntry
<1>4. ASSUME NEW p \in DOMAIN clients', p \in Ports, NEW d \in ToSet(toPeer'[p])
      PROVE  d.client <= clients'[p].id
  <2>1. CASE Own(p, d)
    <3>1. d.client = clients'[p].id /\ clients'[p].id \in Nat
      BY <1>1, <2>1 DEF Own, SameId
    <3>. QED  BY <3>1
  <2>2. CASE d \in ToSet(toPeer[p])
    <3>1. CASE p \in DOMAIN clients /\ clients'[p].id = clients[p].id
      BY <2>2, <3>1 DEF TurnInv, CopiesInTurn
    <3>2. CASE clients'[p].id = nextClient
      <4>1. d.client \in Nat /\ d.client < nextClient
        BY <1>1, <1>4, <2>2
      <4>. QED  BY <1>1, <3>2, <4>1
    <3>. QED  BY <1>3, <3>1, <3>2
  <2>. QED  BY <1>4, <2>1, <2>2 DEF Fed
<1>5. ASSUME NEW p \in Ports, NEW n \in DOMAIN toPeer'[p], NEW m \in DOMAIN toPeer'[p], n < m
      PROVE  toPeer'[p][n].client <= toPeer'[p][m].client
  <2>1. CASE Own(p, toPeer'[p][m])
    <3>1. toPeer'[p][n] \in ToSet(toPeer'[p])
      BY DEF ToSet
    <3>2. p \in DOMAIN clients' /\ toPeer'[p][m].client = clients'[p].id
      BY <2>1 DEF Own, SameId
    <3>. QED  BY <1>4, <3>1, <3>2
  <2>2. CASE ~Own(p, toPeer'[p][m])
    <3>1. PICK a \in DOMAIN toPeer[p], b \in DOMAIN toPeer[p] :
                a < b /\ toPeer[p][a] = toPeer'[p][n] /\ toPeer[p][b] = toPeer'[p][m]
      BY <1>5, <2>2 DEF Fed
    <3>2. toPeer[p][a].client <= toPeer[p][b].client
      BY <3>1 DEF TurnInv, CopiesInTurn
    <3>. QED  BY <3>1, <3>2
  <2>. QED  BY <2>1, <2>2
<1>6. ASSUME NEW i \in DOMAIN peers, peers'[i].port = peers[i].port, NEW c \in Now(i)'
      PROVE  c \in Now(i) \/ c = nextClient
  <2>. DEFINE p == peers[i].port
  <2>0. p \in Ports
    BY DEF TypeInv, BridgeOK, Peers
  <2>1. CASE p \in DOMAIN clients' /\ c = clients'[p].id
    BY <1>3, <2>1 DEF Now
  <2>2. CASE \E d \in ToSet(toPeer'[p]) : c = d.client
    <3>1. PICK d \in ToSet(toPeer'[p]) : c = d.client
      BY <2>2
    <3>2. CASE d \in ToSet(toPeer[p])
      BY <3>1, <3>2 DEF Now
    <3>3. CASE Own(p, d)
      BY <3>1, <3>3 DEF Own, SameId, Now
    <3>. QED  BY <2>0, <3>1, <3>2, <3>3 DEF Fed
  <2>. QED  BY <1>6, <2>1, <2>2 DEF Now
<1>. QED  BY <1>4, <1>5, <1>6 DEF CopiesInTurn

-----------------------------------------------------------------------------
(* Heard once *)

\* The packets of an event still to come to a peer.
Due(i, v) ==
    {s \in DOMAIN wire[v.client] : wire[v.client][s].event = v.event /\ ~Forwarded(i, s)}

\* An event that cannot complete again: too few of its packets are to come.
Spent(i, v) ==
    \A s \in Due(i, v) :
        LET pk == wire[v.client][s]
        IN  /\ pk.chunk # 0
            /\ Halfway(i, pk).total = pk.of
            /\ Halfway(i, pk).have + Cardinality(Due(i, v)) < pk.of

OnceInv ==
    /\ HeardOnce
    /\ \A i \in DOMAIN peers : \A v \in ToSet(heard[i]) : v.client \in Now(i) => Spent(i, v)

LEMMA InitOnceInv == Init => OnceInv
BY DEF Init, OnceInv, HeardOnce, ToSet

\* The packets of an event are as they were.
SamePacketsOf(v) ==
    LET w == wire[v.client]
        u == wire'[v.client]
    IN  \A s : /\ (s \in DOMAIN w /\ w[s].event = v.event) => (s \in DOMAIN u /\ u[s] = w[s])
               /\ (s \in DOMAIN u /\ u[s].event = v.event) => (s \in DOMAIN w /\ u[s] = w[s])

LEMMA SpentKept ==
    ASSUME NEW i, NEW v, Spent(i, v), SamePacketsOf(v),
           peers'[i].forwarded = peers[i].forwarded,
           peers'[i].inbound = peers[i].inbound
    PROVE  Spent(i, v)'
<1>1. \A s : Forwarded(i, s)' <=> Forwarded(i, s)
  BY DEF Forwarded
<1>2. Due(i, v)' = Due(i, v)
  BY <1>1 DEF Due, SamePacketsOf
<1>3. ASSUME NEW s \in Due(i, v) PROVE wire'[v.client][s] = wire[v.client][s]
  BY <1>3 DEF Due, SamePacketsOf
<1>4. ASSUME NEW pk PROVE Halfway(i, pk)' = Halfway(i, pk)
  BY DEF Halfway
<1>. QED  BY <1>2, <1>3, <1>4 DEF Spent

\* A step in which no game hears anything and no peer comes.
LEMMA OnceKept ==
    ASSUME TypeInv, TurnInv, OnceInv,
           DOMAIN peers' \subseteq DOMAIN peers,
           \A i \in DOMAIN peers' :
                /\ peers'[i].port = peers[i].port
                /\ peers'[i].forwarded = peers[i].forwarded
                /\ peers'[i].inbound = peers[i].inbound,
           nextPeer' = nextPeer, heard' = heard,
           \A p \in Ports : Fed(p),
           \A p \in Ports \ Bound' : toPeer'[p] = <<>>,
           DOMAIN clients' \subseteq Ports,
           \A p \in DOMAIN clients' : SameId(p) \/ MadeEntry(p),
           \A i \in Ids : \A v \in ToSet(heard[i]) : SamePacketsOf(v)
    PROVE  TurnInv' /\ OnceInv'
<1>1. /\ CopiesInTurn'
      /\ \A i \in DOMAIN peers' : \A c \in Now(i)' : c \in Now(i) \/ c = nextClient
  BY CopiesKept
<1>2. /\ nextClient \in Nat
      /\ \A i \in Ids : \A v \in ToSet(heard[i]) : v.client \in Nat /\ v.client < nextClient
  BY IdsGivenOut DEF TurnInv, ClientIds
<1>3. DOMAIN peers \subseteq Ids
  BY BridgeAssumption DEF TypeInv, BridgeOK, Ids
<1>4. \A i : HeardFrom(i)' = HeardFrom(i)
  BY DEF HeardFrom
<1>5. \A i \in Ids : \A b \in HeardFrom(i) : b \in Nat /\ b < nextClient
  BY <1>2 DEF HeardFrom, ToSet
<1>6. HeardInTurn'
  <2>. SUFFICES ASSUME NEW i \in DOMAIN peers', NEW b \in HeardFrom(i), NEW c \in Now(i)'
                PROVE  b <= c
    BY <1>4 DEF HeardInTurn
  <2>1. CASE c \in Now(i)
    BY <2>1 DEF TurnInv, HeardInTurn
  <2>2. CASE c = nextClient
    BY <1>2, <1>3, <1>5, <2>2
  <2>. QED  BY <1>1, <2>1, <2>2
<1>7. HeardIsMade'
  <2>1. ASSUME NEW i \in Ids, NEW v \in ToSet(heard[i])
        PROVE  \E s \in DOMAIN wire'[v.client] : wire'[v.client][s].event = v.event
    <3>1. PICK s \in DOMAIN wire[v.client] : wire[v.client][s].event = v.event
      BY DEF TurnInv, HeardIsMade
    <3>2. s \in DOMAIN wire'[v.client] /\ wire'[v.client][s] = wire[v.client][s]
      BY <3>1 DEF SamePacketsOf
    <3>. QED  BY <3>1, <3>2
  <2>. QED  BY <2>1 DEF TurnInv, HeardIsMade
<1>8. PortsApart'
  BY DEF TurnInv, PortsApart
<1>9. HeardOnce'
  BY DEF OnceInv, HeardOnce
<1>10. ASSUME NEW i \in DOMAIN peers', NEW v \in ToSet(heard[i]), v.client \in Now(i)'
       PROVE  Spent(i, v)'
  <2>1. v.client \in Now(i)
    BY <1>1, <1>2, <1>3, <1>10
  <2>2. Spent(i, v)
    BY <2>1 DEF OnceInv
  <2>. QED  BY <1>3, <2>2, SpentKept
<1>. QED  BY <1>1, <1>6, <1>7, <1>8, <1>9, <1>10 DEF TurnInv, OnceInv

\* A new peer has heard nothing, and nothing is on the way to it.
LEMMA ConnectedOnce ==
    ASSUME TypeInv, TurnInv, OnceInv, Connected PROVE TurnInv' /\ OnceInv'
<1>1. /\ UNCHANGED <<heard, clients, nextClient, wire, toPeer>>
      /\ nextPeer \in Ids /\ nextPeer' = nextPeer + 1
  BY DEF Connected, serverVars, netVars
<1>2. CASE UNCHANGED peers
  <2>1. HeardIsMade'
    BY <1>1, <1>2 DEF TurnInv, HeardIsMade, Ids
  <2>2. \A i : HeardFrom(i)' = HeardFrom(i) /\ Now(i)' = Now(i)
    BY <1>1, <1>2 DEF HeardFrom, Now
  <2>3. PortsApart' /\ CopiesInTurn'
    BY <1>1, <1>2 DEF TurnInv, PortsApart, CopiesInTurn, Bound
  <2>4. HeardInTurn'
    BY <1>2, <2>2 DEF TurnInv, HeardInTurn
  <2>5. HeardOnce'
    BY <1>1 DEF OnceInv, HeardOnce
  <2>6. ASSUME NEW i \in DOMAIN peers, NEW v \in ToSet(heard[i]), v.client \in Now(i)'
        PROVE  Spent(i, v)'
    <3>1. Spent(i, v)
      BY <2>2, <2>6 DEF OnceInv
    <3>2. SamePacketsOf(v)
      BY <1>1 DEF SamePacketsOf
    <3>. QED  BY <1>2, <3>1, <3>2, SpentKept
  <2>. QED  BY <1>1, <1>2, <2>1, <2>3, <2>4, <2>5, <2>6 DEF TurnInv, OnceInv
<1>3. ASSUME NEW p \in Ports \ Bound, NEW o, o = nextPeer,
             peers' = [i \in DOMAIN peers \cup {o} |-> IF i = o THEN NewPeer(p) ELSE peers[i]]
      PROVE  TurnInv' /\ OnceInv'
  <2>1. o \notin DOMAIN peers /\ heard[o] = <<>>
    BY <1>1, <1>3 DEF TypeInv, BridgeOK, TurnInv, HeardIsMade, Ids
  <2>2. /\ DOMAIN peers' = DOMAIN peers \cup {o}
        /\ peers'[o].port = p
        /\ \A i \in DOMAIN peers : peers'[i] = peers[i] /\ peers[i].port # p
    BY <1>3, <2>1 DEF NewPeer, Bound
  <2>3. Bound' = Bound \cup {p}
    BY <2>2 DEF Bound
  <2>4. HeardFrom(o)' = {} /\ ToSet(heard'[o]) = {}
    <3>. heard'[o] = <<>>
      BY <1>1, <2>1
    <3>. QED  BY DEF HeardFrom, ToSet
  <2>5. \A i \in DOMAIN peers : HeardFrom(i)' = HeardFrom(i) /\ Now(i)' = Now(i)
    BY <1>1, <2>2 DEF HeardFrom, Now
  <2>6. PortsApart'
    BY <1>1, <2>2, <2>3 DEF TurnInv, PortsApart
  <2>7. CopiesInTurn'
    BY <1>1 DEF TurnInv, CopiesInTurn
  <2>8. HeardInTurn'
    BY <2>2, <2>4, <2>5 DEF TurnInv, HeardInTurn
  <2>9. HeardIsMade'
    BY <1>1 DEF TurnInv, HeardIsMade, Ids
  <2>10. HeardOnce'
    BY <1>1 DEF OnceInv, HeardOnce
  <2>11. ASSUME NEW i \in DOMAIN peers', NEW v \in ToSet(heard'[i]), v.client \in Now(i)'
         PROVE  Spent(i, v)'
    <3>1. i \in DOMAIN peers
      BY <2>2, <2>4
    <3>2. Spent(i, v)
      BY <1>1, <2>5, <2>11, <3>1 DEF OnceInv
    <3>3. SamePacketsOf(v)
      BY <1>1 DEF SamePacketsOf
    <3>. QED  BY <2>2, <3>1, <3>2, <3>3, SpentKept
  <2>. QED  BY <2>6, <2>7, <2>8, <2>9, <2>10, <2>11 DEF TurnInv, OnceInv
<1>. QED  BY <1>2, <1>3 DEF Connected

\* What is put behind a queue leaves the order of what was there.
Extended(t, s, u) ==
    /\ ToSet(t) \subseteq ToSet(s) \cup ToSet(u)
    /\ \A n, m \in DOMAIN t : n < m =>
            \/ t[m] \in ToSet(u)
            \/ \E a, b \in DOMAIN s : a < b /\ s[a] = t[n] /\ s[b] = t[m]

LEMMA ConcatExtends == ASSUME NEW S, NEW s \in Seq(S), NEW u \in Seq(S) PROVE Extended(s \o u, s, u)
<1>. DEFINE t == s \o u
<1>0. ToSet(t) \subseteq ToSet(s) \cup ToSet(u)
  BY ConcatSet
<1>1. /\ DOMAIN t = 1 .. Len(s) + Len(u) /\ Len(s) \in Nat /\ Len(u) \in Nat
      /\ DOMAIN s = 1 .. Len(s) /\ DOMAIN u = 1 .. Len(u)
      /\ \A n \in 1 .. Len(s) : t[n] = s[n]
      /\ \A n \in 1 .. Len(u) : t[Len(s) + n] = u[n]
  BY ConcatElements
<1>. HIDE DEF t
<1>2. ASSUME NEW m \in DOMAIN t, ~(m \in DOMAIN s) PROVE t[m] \in ToSet(u)
  <2>1. m - Len(s) \in 1 .. Len(u) /\ Len(s) + (m - Len(s)) = m
    BY <1>1, <1>2
  <2>2. t[m] = u[m - Len(s)]
    BY <1>1, <2>1
  <2>. QED  BY <1>1, <2>1, <2>2 DEF ToSet
<1>3. ASSUME NEW n \in DOMAIN t, NEW m \in DOMAIN t, n < m
      PROVE  \/ t[m] \in ToSet(u)
             \/ \E a, b \in DOMAIN s : a < b /\ s[a] = t[n] /\ s[b] = t[m]
  <2>1. CASE m \in DOMAIN s
    <3>1. n \in DOMAIN s /\ t[n] = s[n] /\ t[m] = s[m]
      BY <1>1, <1>3, <2>1
    <3>. QED  BY <1>3, <2>1, <3>1
  <2>2. CASE ~(m \in DOMAIN s)
    BY <1>2, <2>2
  <2>. QED  BY <2>1, <2>2
<1>. QED  BY <1>0, <1>3 DEF Extended, t

\* What is sent to an entry's address is the entry's.
LEMMA SentIsFed ==
    ASSUME TypeInv, NEW p \in Ports, NEW u \in Seq(Copies),
           p \in DOMAIN clients', SameId(p),
           \A d \in ToSet(u) : d.client = clients[p].id,
           toPeer' = Sent(p, u)
    PROVE  /\ \A q \in Ports : Fed(q)
           /\ \A q \in Ports \ Bound : toPeer'[q] = toPeer[q]
<1>1. toPeer \in [Ports -> Seq(Copies)]
  BY DEF TypeInv, NetOK
<1>2. \A q \in Ports : toPeer'[q] = toPeer[q] \/ (q = p /\ p \in Bound /\ toPeer'[q] = toPeer[q] \o u)
  BY <1>1 DEF Sent
<1>3. ASSUME NEW q \in Ports, toPeer'[q] = toPeer[q] PROVE Fed(q)
  BY <1>3, DrawnSame, DrawnIsFed
<1>4. ASSUME toPeer'[p] = toPeer[p] \o u PROVE Fed(p)
  <2>1. toPeer[p] \in Seq(Copies)
    BY <1>1
  <2>2. Extended(toPeer'[p], toPeer[p], u)
    BY <1>4, <2>1, ConcatExtends
  <2>3. \A d \in ToSet(u) : Own(p, d)
    BY DEF Own
  <2>. QED  BY <2>2, <2>3 DEF Extended, Fed
<1>5. ASSUME NEW q \in Ports PROVE Fed(q)
  BY <1>2, <1>3, <1>4
<1>. QED  BY <1>2, <1>5

LEMMA SendReliableOnce ==
    ASSUME TypeInv, TypeInv', PacketInv, TurnInv, OnceInv,
           NEW p \in Ports, NEW n \in ChunkCounts, SendReliable(p, n)
    PROVE  TurnInv' /\ OnceInv'
<1>. DEFINE c == clients[p]
            k == Len(wire[c.id])
            w == wire'[c.id]
            u == NewCopies(c, n)
<1>1. /\ p \in DOMAIN clients /\ c.id \in ClientIds /\ n \in Nat \ {0} /\ k \in Nat
      /\ DOMAIN wire[c.id] = 1 .. k /\ DOMAIN w = 1 .. k + n
      /\ \A s \in 1 .. k : w[s] = wire[c.id][s]
      /\ \A s \in k + 1 .. k + n :
            w[s] = [event |-> c.nextEvent, piece |-> s - k, of |-> n,
                    chunk |-> IF n > 1 THEN c.nextChunk ELSE 0]
      /\ \A b \in ClientIds : b # c.id => wire'[b] = wire[b]
      /\ DOMAIN clients' = DOMAIN clients
      /\ \A q \in DOMAIN clients : clients'[q].id = clients[q].id
  BY SendReliableAdds
<1>2. u \in Seq(Copies)
  BY NewPacketTypes
<1>3. \A d \in ToSet(u) : d.client = c.id
  <2>. \A j \in DOMAIN u : u[j].client = c.id
    BY DEF NewCopies
  <2>. QED  BY DEF ToSet
<1>4. /\ toPeer' = Sent(p, u)
      /\ UNCHANGED <<heard, nextPeer, peers>>
  BY DEF SendReliable, NewCopies, steamVars, bridgeVars
<1>5. \A s \in k + 1 .. k + n : w[s].event = c.nextEvent
  <2>. HIDE DEF c, k, w
  <2>. SUFFICES ASSUME NEW s \in k + 1 .. k + n PROVE w[s].event = c.nextEvent
    OBVIOUS
  <2>1. w[s] = [event |-> c.nextEvent, piece |-> s - k, of |-> n,
                chunk |-> IF n > 1 THEN c.nextChunk ELSE 0]
    BY <1>1
  <2>. QED  BY <2>1
<1>6. \A i \in Ids : \A v \in ToSet(heard[i]) : v.client \in ClientIds
  BY IdsGivenOut DEF TurnInv
<1>. HIDE DEF u, k, w
<1>7. ASSUME NEW i \in Ids, NEW v \in ToSet(heard[i]) PROVE SamePacketsOf(v)
  <2>1. CASE v.client # c.id
    BY <1>1, <1>6, <2>1 DEF SamePacketsOf
  <2>2. CASE v.client = c.id
    <3>1. PICK s \in DOMAIN wire[c.id] : wire[c.id][s].event = v.event
      BY <2>2 DEF TurnInv, HeardIsMade
    <3>2. v.event < c.nextEvent
      BY <1>1, <3>1 DEF PacketInv, Ahead
    <3>3. v.event # c.nextEvent
      <4>1. c.nextEvent \in Int
        BY <1>1 DEF TypeInv, ServerOK, Entries
      <4>. QED  BY <3>2, <4>1
    <3>4. \A t \in DOMAIN w : t \in 1 .. k \/ t \in k + 1 .. k + n
      BY <1>1
    <3>5. \A t \in DOMAIN w : w[t].event = v.event => t \in 1 .. k
      BY <1>5, <3>3, <3>4
    <3>6. \A t \in 1 .. k : t \in DOMAIN w
      BY <1>1
    <3>. QED  BY <1>1, <2>2, <3>5, <3>6 DEF SamePacketsOf, w
  <2>. QED  BY <2>1, <2>2
<1>8. SameId(p)
  BY <1>1 DEF SameId
<1>9. /\ \A q \in Ports : Fed(q)
      /\ \A q \in Ports \ Bound : toPeer'[q] = toPeer[q]
  BY <1>1, <1>2, <1>3, <1>4, <1>8, SentIsFed
<1>10. /\ DOMAIN clients' \subseteq Ports
       /\ \A q \in DOMAIN clients' : SameId(q) \/ MadeEntry(q)
  BY <1>1 DEF TypeInv, ServerOK, SameId
<1>11. \A q \in Ports \ Bound' : toPeer'[q] = <<>>
  BY <1>4, <1>9 DEF Bound, TurnInv, PortsApart
<1>. QED  BY <1>4, <1>7, <1>9, <1>10, <1>11, OnceKept

LEMMA ResendOnce ==
    ASSUME TypeInv, TurnInv, OnceInv, NEW p \in Ports, NEW s \in Seqs, Resend(p, s)
    PROVE  TurnInv' /\ OnceInv'
<1>. DEFINE d == [client |-> clients[p].id, seq |-> s]
            u == <<d>>
<1>1. p \in DOMAIN clients /\ d \in Copies /\ d.client = clients[p].id
  BY DEF Resend, IsDue, TypeInv, ServerOK, Entries, Copies
<1>2. /\ toPeer' = Sent(p, u)
      /\ UNCHANGED <<heard, nextPeer, peers, clients, wire>>
  BY DEF Resend, steamVars, bridgeVars
<1>. HIDE DEF d
<1>3. u \in Seq(Copies) /\ \A e \in ToSet(u) : e.client = clients[p].id
  BY <1>1 DEF ToSet
<1>4. \A q \in DOMAIN clients' : q \in DOMAIN clients /\ SameId(q)
  BY <1>2 DEF SameId
<1>. HIDE DEF u
<1>5. /\ \A q \in Ports : Fed(q)
      /\ \A q \in Ports \ Bound : toPeer'[q] = toPeer[q]
  BY <1>1, <1>2, <1>3, <1>4, SentIsFed
<1>6. \A q \in Ports \ Bound' : toPeer'[q] = <<>>
  BY <1>2, <1>5 DEF Bound, TurnInv, PortsApart
<1>7. \A i \in Ids : \A v \in ToSet(heard[i]) : SamePacketsOf(v)
  BY <1>2 DEF SamePacketsOf
<1>8. DOMAIN clients' \subseteq Ports
  BY <1>2 DEF TypeInv, ServerOK
<1>. QED  BY <1>2, <1>4, <1>5, <1>6, <1>7, <1>8, OnceKept

\* A step that leaves the packets, and at most takes peers, entries and copies.
LEMMA FewerOnce ==
    ASSUME TypeInv, TypeInv', TurnInv, OnceInv,
           DOMAIN peers' \subseteq DOMAIN peers,
           \A i \in DOMAIN peers' :
                /\ peers'[i].port = peers[i].port
                /\ peers'[i].forwarded = peers[i].forwarded
                /\ peers'[i].inbound = peers[i].inbound,
           UNCHANGED <<nextPeer, heard, wire>>,
           \A p \in Ports : Drawn(toPeer'[p], toPeer[p]),
           \A p \in Ports \ Bound' : toPeer'[p] = <<>>,
           \A p \in DOMAIN clients' : SameId(p) \/ MadeEntry(p)
    PROVE  TurnInv' /\ OnceInv'
<1>1. \A p \in Ports : Fed(p)
  BY DrawnIsFed
<1>2. \A i \in Ids : \A v \in ToSet(heard[i]) : SamePacketsOf(v)
  BY DEF SamePacketsOf
<1>3. DOMAIN clients' \subseteq Ports
  BY DEF TypeInv, ServerOK
<1>. QED  BY <1>1, <1>2, <1>3, OnceKept

\* An event has as many packets as its packets say, all of them consecutive.
EventPackets(c, e) == {s \in DOMAIN wire[c] : wire[c][s].event = e}

LEMMA PacketFields ==
    ASSUME TypeInv, NEW c \in ClientIds, NEW s \in DOMAIN wire[c]
    PROVE  LET k == wire[c][s]
           IN  /\ k \in Packets /\ s \in Nat \ {0}
               /\ k.event \in Nat \ {0} /\ k.piece \in Nat \ {0} /\ k.of \in Nat \ {0}
               /\ k.chunk \in 0 .. MaxPackets
<1>1. wire[c] \in Seq(Packets)
  BY DEF TypeInv, ServerOK
<1>2. wire[c][s] \in Packets /\ s \in Nat \ {0}
  BY <1>1
<1>. QED  BY <1>2 DEF Packets, Seqs

LEMMA PacketsOfEvent ==
    ASSUME TypeInv, PacketInv, NEW c \in ClientIds, NEW s \in DOMAIN wire[c]
    PROVE  LET E == EventPackets(c, wire[c][s].event)
           IN  s \in E /\ IsFiniteSet(E) /\ Cardinality(E) = wire[c][s].of
<1>. DEFINE a == wire[c][s]
            E == EventPackets(c, a.event)
            b == s - a.piece
<1>1. /\ a \in Packets /\ s \in Nat /\ a.piece \in Nat \ {0} /\ a.of \in Nat \ {0}
  BY PacketFields
<1>2. E \subseteq b + 1 .. b + a.of
  <2>. SUFFICES ASSUME NEW t \in E PROVE t \in b + 1 .. b + a.of
    OBVIOUS
  <2>1. t \in DOMAIN wire[c] /\ wire[c][t].event = a.event
    BY DEF EventPackets
  <2>2. t \in Nat /\ wire[c][t].piece \in Nat \ {0}
    BY <2>1, PacketFields
  <2>3. /\ wire[c][t].piece <= wire[c][t].of /\ wire[c][t].of = a.of
        /\ t - wire[c][t].piece = b
    BY <2>1 DEF PacketInv, Packed
  <2>. HIDE DEF a, b, E
  <2>. QED  BY <1>1, <2>2, <2>3 DEF b
<1>3. b + 1 .. b + a.of \subseteq E
  <2>. SUFFICES ASSUME NEW t \in b + 1 .. b + a.of PROVE t \in E
    OBVIOUS
  <2>1. t - b \in 1 .. a.of /\ s - a.piece + (t - b) = t
    <3>. HIDE DEF a
    <3>. QED  BY <1>1
  <2>2. t \in DOMAIN wire[c] /\ wire[c][t].event = a.event
    BY <2>1 DEF PacketInv, Whole
  <2>. QED  BY <2>2 DEF EventPackets
<1>4. /\ IsFiniteSet(b + 1 .. b + a.of)
      /\ Cardinality(b + 1 .. b + a.of) = a.of
  <2>. HIDE DEF a
  <2>1. b + 1 \in Int /\ b + a.of \in Int /\ a.of > 0 /\ a.of \in Int
    BY <1>1
  <2>2. ~(b + 1 > b + a.of) /\ (b + a.of) - (b + 1) + 1 = a.of
    BY <1>1
  <2>3. Cardinality(b + 1 .. b + a.of) =
            IF b + 1 > b + a.of THEN 0 ELSE (b + a.of) - (b + 1) + 1
    BY <2>1, FS_Interval
  <2>. QED  BY <2>1, <2>2, <2>3, FS_Interval
<1>5. E = b + 1 .. b + a.of
  BY <1>2, <1>3
<1>6. s \in E
  BY DEF EventPackets
<1>. QED  BY <1>4, <1>5, <1>6

\* What the bridge does with a packet it has not forwarded.
LEMMA RelayDownEffect ==
    ASSUME TypeInv, NEW i \in Ids, RelayDown(i)
    PROVE  LET p == peers[i].port
               d == Head(toPeer[p])
               pk == wire[d.client][d.seq]
               v == Event(d.client, pk.event)
           IN  /\ UNCHANGED <<nextPeer, up, left, inbox, serverVars, lost>>
               /\ DOMAIN peers' = DOMAIN peers
               /\ \A j \in DOMAIN peers : j # i => peers'[j] = peers[j]
               /\ peers'[i].port = p
               /\ \A j \in Ids : j # i => heard'[j] = heard[j]
               /\ \A q \in Ports : q # p => toPeer'[q] = toPeer[q]
               /\ toPeer'[p] = Tail(toPeer[p])
               /\ refused \subseteq refused'
               /\ Forwarded(i, d.seq) => peers' = peers /\ heard' = heard
               /\ ~Forwarded(i, d.seq) =>
                    /\ peers'[i].forwarded = peers[i].forwarded \cup {d.seq}
                    /\ peers'[i].inbound = InboundAfter(i, pk)
                    /\ heard'[i] = heard[i] \/ (Completes(i, pk) /\ heard'[i] = Append(heard[i], v))
                    /\ Completes(i, pk) =>
                        \/ heard'[i] = Append(heard[i], v)
                        \/ [peer |-> i, client |-> d.client, event |-> pk.event] \in refused'
<1>. DEFINE p == peers[i].port
            d == Head(toPeer[p])
            pk == wire[d.client][d.seq]
            v == Event(d.client, pk.event)
<1>1. /\ i \in DOMAIN peers /\ peers[i] \in Peers /\ p \in Ports
  BY RelayDownCopy
<1>2. /\ UNCHANGED <<nextPeer, up, left, inbox, serverVars, lost>>
      /\ toPeer' = [toPeer EXCEPT ![p] = Tail(@)]
      /\ \/ Forwarded(i, d.seq) /\ UNCHANGED <<peers, heard>>
         \/ /\ ~Forwarded(i, d.seq)
            /\ peers' = [peers EXCEPT ![i].forwarded = @ \cup {d.seq},
                                      ![i].inbound = InboundAfter(i, pk)]
            /\ \/ heard' = heard /\ ~Completes(i, pk)
               \/ Completes(i, pk) /\ heard' = [heard EXCEPT ![i] = Append(@, v)]
               \/ /\ Completes(i, pk) /\ heard' = heard
                  /\ [peer |-> i, client |-> v.client, event |-> v.event] \in refused'
      /\ refused \subseteq refused'
  BY DEF RelayDown, HandToSteam, Event
<1>0. v.client = d.client /\ v.event = pk.event
  BY DEF Event
<1>3. toPeer \in [Ports -> Seq(Copies)] /\ heard \in [Ids -> Seq([client : ClientIds, event : Seqs])]
  BY DEF TypeInv, NetOK, SteamOK
<1>4. peers = [j \in DOMAIN peers |-> peers[j]]
  BY DEF TypeInv, BridgeOK
<1>. HIDE DEF d, pk, v
<1>5. /\ \A q \in Ports : q # p => toPeer'[q] = toPeer[q]
      /\ toPeer'[p] = Tail(toPeer[p])
  BY <1>1, <1>2, <1>3
<1>6. CASE Forwarded(i, d.seq)
  BY <1>1, <1>2, <1>5, <1>6 DEF d, pk, v
<1>7. CASE ~Forwarded(i, d.seq)
  <2>1. peers' = [peers EXCEPT ![i] = [peers[i] EXCEPT !.forwarded = @ \cup {d.seq},
                                                       !.inbound = InboundAfter(i, pk)]]
    BY <1>2, <1>7
  <2>2. /\ DOMAIN peers' = DOMAIN peers
        /\ \A j \in DOMAIN peers : j # i => peers'[j] = peers[j]
        /\ peers'[i].port = p
        /\ peers'[i].forwarded = peers[i].forwarded \cup {d.seq}
        /\ peers'[i].inbound = InboundAfter(i, pk)
    BY <1>1, <1>4, <2>1 DEF Peers
  <2>3. /\ \A j \in Ids : j # i => heard'[j] = heard[j]
        /\ heard'[i] = heard[i] \/ (Completes(i, pk) /\ heard'[i] = Append(heard[i], v))
        /\ Completes(i, pk) =>
                \/ heard'[i] = Append(heard[i], v)
                \/ [peer |-> i, client |-> d.client, event |-> pk.event] \in refused'
    <3>1. CASE heard' = heard /\ ~Completes(i, pk)
      BY <3>1
    <3>2. CASE Completes(i, pk) /\ heard' = [heard EXCEPT ![i] = Append(@, v)]
      BY <1>3, <3>2
    <3>3. CASE /\ Completes(i, pk) /\ heard' = heard
               /\ [peer |-> i, client |-> v.client, event |-> v.event] \in refused'
      BY <1>0, <3>3
    <3>. QED  BY <1>2, <1>7, <3>1, <3>2, <3>3
  <2>. QED  BY <1>2, <1>5, <1>7, <2>2, <2>3 DEF d, pk, v
<1>. QED  BY <1>6, <1>7

\* A packet of an event that cannot complete any more does not complete it.
LEMMA SpentStays ==
    ASSUME TypeInv, PacketInv, NEW i \in DOMAIN peers,
           NEW c \in ClientIds, NEW s \in DOMAIN wire[c], ~Forwarded(i, s),
           wire' = wire,
           peers'[i].forwarded = peers[i].forwarded \cup {s},
           peers'[i].inbound = InboundAfter(i, wire[c][s]),
           NEW v, v.client = c, Spent(i, v)
    PROVE  /\ Spent(i, v)'
           /\ wire[c][s].event = v.event => ~Completes(i, wire[c][s])
<1>. DEFINE pk == wire[c][s]
            E == EventPackets(c, v.event)
            D == Due(i, v)
<1>0. wire[c] \in Seq(Packets)
  BY DEF TypeInv, ServerOK
<1>1. \A t \in DOMAIN wire[c] : wire[c][t] \in Packets
  BY <1>0
<1>2. \A t \in DOMAIN wire[c] :
            /\ wire[c][t].of \in Nat /\ wire[c][t].piece \in Nat /\ wire[c][t].chunk \in 0 .. MaxPackets
            /\ wire[c][t].piece <= wire[c][t].of
  BY <1>1 DEF Packets, Seqs, PacketInv, Packed
<1>3. peers[i] \in Peers /\ peers[i].inbound \in [Seqs -> Half]
  BY DEF TypeInv, BridgeOK, Peers
<1>4. \A t \in Due(i, v)' : t \in D /\ t # s
  BY DEF Due, Forwarded
<1>5. \A t \in D : t # s => t \in Due(i, v)'
  BY DEF Due, Forwarded
<1>6. IsFiniteSet(D)
  <2>1. IsFiniteSet(DOMAIN wire[c])
    <3>1. DOMAIN wire[c] = 1 .. Len(wire[c]) /\ Len(wire[c]) \in Int
      BY <1>0
    <3>. QED  BY <3>1, FS_Interval
  <2>2. D \in SUBSET DOMAIN wire[c]
    BY DEF Due
  <2>. HIDE DEF D
  <2>. QED  BY <2>1, <2>2, FS_Subset
<1>7. \A t \in D : t \in DOMAIN wire[c] /\ wire[c][t].event = v.event
  BY DEF Due
<1>8. CASE pk.event = v.event
  <2>1. s \in D
    BY <1>8 DEF Due
  <2>2. /\ pk.chunk # 0
        /\ Halfway(i, pk).total = pk.of
        /\ Halfway(i, pk).have + Cardinality(D) < pk.of
    BY <2>1 DEF Spent
  <2>3. pk.chunk \in Seqs /\ pk.of \in Nat /\ pk.piece <= pk.of /\ pk.piece \in Nat
    <3>1. pk.chunk \in 0 .. MaxPackets
      BY <1>2
    <3>. QED  BY <1>2, <2>2, <3>1, BridgeAssumption DEF Seqs
  <2>4. Halfway(i, pk).have \in Nat
    <3>1. peers[i].inbound[pk.chunk] \in Half
      BY <1>3, <2>3
    <3>. QED  BY <3>1 DEF Half, Halfway
  <2>5. /\ Cardinality(D) \in Nat /\ Cardinality(D \ {s}) = Cardinality(D) - 1
        /\ Cardinality(D \ {s}) \in Nat
    <3>. HIDE DEF D
    <3>. QED  BY <1>6, <2>1, FS_RemoveElement, FS_CardinalityType
  <2>6. ~Completes(i, pk)
    <3>. HIDE DEF pk, D
    <3>. QED  BY <2>2, <2>4, <2>5, <2>3 DEF Completes
  <2>7. peers'[i].inbound[pk.chunk] = [have |-> Halfway(i, pk).have + 1, total |-> pk.of]
    <3>1. peers'[i].inbound[pk.chunk] = [Halfway(i, pk) EXCEPT !.have = @ + 1]
      BY <1>3, <2>2, <2>3, <2>6 DEF InboundAfter
    <3>2. Halfway(i, pk) = [have |-> Halfway(i, pk).have, total |-> Halfway(i, pk).total]
      <4>1. peers[i].inbound[pk.chunk] \in Half
        BY <1>3, <2>3
      <4>. QED  BY <4>1 DEF Half, Halfway
    <3>. HIDE DEF pk
    <3>. QED  BY <2>2, <3>1, <3>2
  <2>8. Due(i, v)' = D \ {s}
    BY <1>4, <1>5
  <2>9. ASSUME NEW t \in Due(i, v)'
        PROVE  /\ wire[c][t].chunk # 0
               /\ Halfway(i, wire[c][t])'.total = wire[c][t].of
               /\ Halfway(i, wire[c][t])'.have + Cardinality(D \ {s}) < wire[c][t].of
    <3>1. t \in D /\ wire[c][t].chunk = pk.chunk /\ wire[c][t].of = pk.of
      BY <1>4, <1>7, <1>8 DEF PacketInv, Packed
    <3>2. pk.of # 0
      <4>1. pk \in Packets
        BY <1>1
      <4>. QED  BY <4>1 DEF Packets, Seqs
    <3>3. Halfway(i, wire[c][t])' = [have |-> Halfway(i, pk).have + 1, total |-> pk.of]
      BY <2>7, <3>1, <3>2 DEF Halfway
    <3>. HIDE DEF pk, D
    <3>. QED  BY <2>2, <2>3, <2>4, <2>5, <3>1, <3>3
  <2>10. Spent(i, v)'
    BY <2>8, <2>9 DEF Spent
  <2>. QED  BY <2>6, <2>10
<1>9. CASE pk.event # v.event
  <2>1. s \notin D
    BY <1>9 DEF Due
  <2>2. Due(i, v)' = D
    BY <1>4, <1>5, <2>1
  <2>3. ASSUME NEW t \in D
        PROVE  /\ wire[c][t].chunk # 0
               /\ Halfway(i, wire[c][t])'.total = wire[c][t].of
               /\ Halfway(i, wire[c][t])'.have + Cardinality(D) < wire[c][t].of
    <3>1. /\ wire[c][t].chunk # 0
          /\ Halfway(i, wire[c][t]).total = wire[c][t].of
          /\ Halfway(i, wire[c][t]).have + Cardinality(D) < wire[c][t].of
      BY DEF Spent
    <3>2. wire[c][t].chunk # pk.chunk
      BY <1>7, <1>9, <3>1 DEF PacketInv, Packed
    <3>3. peers'[i].inbound[wire[c][t].chunk] = peers[i].inbound[wire[c][t].chunk]
      BY <1>3, <3>2 DEF InboundAfter
    <3>. QED  BY <3>1, <3>3 DEF Halfway
  <2>4. Spent(i, v)'
    BY <2>2, <2>3 DEF Spent
  <2>. QED  BY <1>9, <2>4
<1>. QED  BY <1>8, <1>9

\* An event that has just completed cannot complete again.
LEMMA CompletedIsSpent ==
    ASSUME TypeInv, PacketInv, NEW i \in DOMAIN peers,
           NEW c \in ClientIds, NEW s \in DOMAIN wire[c], Completes(i, wire[c][s]),
           wire' = wire,
           peers'[i].forwarded = peers[i].forwarded \cup {s},
           peers'[i].inbound = InboundAfter(i, wire[c][s]),
           NEW v, v = Event(c, wire[c][s].event)
    PROVE  Spent(i, v)'
<1>. DEFINE pk == wire[c][s]
            E == EventPackets(c, pk.event)
            D == Due(i, v)'
<1>0. v.client = c /\ v.event = pk.event
  BY DEF Event
<1>1. pk \in Packets
  BY DEF TypeInv, ServerOK
<1>2. s \in E /\ IsFiniteSet(E) /\ Cardinality(E) = pk.of
  BY PacketsOfEvent
<1>3. D \subseteq E \ {s}
  BY <1>0 DEF Due, EventPackets, Forwarded
<1>4. Cardinality(D) \in Nat /\ Cardinality(D) < pk.of
  <2>1. pk.of \in Nat
    BY <1>1 DEF Packets, Seqs
  <2>. HIDE DEF D, E, pk
  <2>2. IsFiniteSet(E \ {s}) /\ Cardinality(E \ {s}) = pk.of - 1
    BY <1>2, FS_RemoveElement
  <2>3. D \in SUBSET (E \ {s})
    BY <1>3
  <2>4. IsFiniteSet(D) /\ Cardinality(D) <= Cardinality(E \ {s})
    BY <2>2, <2>3, FS_Subset
  <2>5. Cardinality(D) \in Nat
    BY <2>4, FS_CardinalityType
  <2>. QED  BY <2>1, <2>2, <2>4, <2>5
<1>5. ASSUME NEW t \in D
      PROVE  /\ wire[c][t].chunk # 0
             /\ Halfway(i, wire[c][t])'.total = wire[c][t].of
             /\ Halfway(i, wire[c][t])'.have + Cardinality(D) < wire[c][t].of
  <2>1. t \in DOMAIN wire[c] /\ wire[c][t].event = pk.event /\ t # s
    BY <1>3 DEF EventPackets
  <2>2. /\ wire[c][t].chunk = pk.chunk /\ wire[c][t].of = pk.of
        /\ s - pk.piece = t - wire[c][t].piece
        /\ pk.piece <= pk.of /\ wire[c][t].piece <= wire[c][t].of
        /\ pk.chunk = 0 => pk.of = 1
    BY <2>1 DEF PacketInv, Packed
  <2>3. wire[c][t] \in Packets /\ t \in Nat /\ s \in Nat
    <3>1. wire[c] \in Seq(Packets)
      BY DEF TypeInv, ServerOK
    <3>. QED  BY <2>1, <3>1
  <2>4. /\ pk.piece \in Nat \ {0} /\ wire[c][t].piece \in Nat \ {0} /\ pk.of \in Nat
        /\ pk.chunk \in 0 .. MaxPackets
    BY <1>1, <2>3 DEF Packets, Seqs
  <2>5. pk.of # 1
    <3>1. ASSUME pk.of = 1 PROVE FALSE
      <4>1. pk.piece = 1 /\ wire[c][t].piece = 1
        BY <2>2, <2>4, <3>1
      <4>. QED  BY <2>1, <2>2, <2>3, <4>1
    <3>. QED  BY <3>1
  <2>6. pk.chunk \in Seqs
    BY <2>2, <2>4, <2>5, BridgeAssumption DEF Seqs
  <2>7. peers[i].inbound \in [Seqs -> Half]
    BY DEF TypeInv, BridgeOK, Peers
  <2>8. peers'[i].inbound[pk.chunk] = [have |-> 0, total |-> 0]
    BY <2>2, <2>5, <2>6, <2>7 DEF InboundAfter
  <2>9. Halfway(i, wire[c][t])' = [have |-> 0, total |-> pk.of]
    BY <2>2, <2>8 DEF Halfway
  <2>. HIDE DEF D
  <2>. QED  BY <1>4, <2>2, <2>4, <2>5, <2>9
<1>6. \A t \in D : wire'[v.client][t] = wire[c][t]
  BY <1>0
<1>. QED  BY <1>5, <1>6 DEF Spent

LEMMA RelayDownOnce ==
    ASSUME TypeInv, PacketInv, TurnInv, OnceInv, NEW i \in Ids, RelayDown(i)
    PROVE  TurnInv' /\ OnceInv'
<1>. DEFINE p == peers[i].port
            d == Head(toPeer[p])
            c == d.client
            s == d.seq
            pk == wire[c][s]
            v == Event(c, pk.event)
            T == [client : ClientIds, event : Seqs]
<1>1. /\ i \in DOMAIN peers /\ p \in Ports
      /\ toPeer[p] \in Seq(Copies) /\ toPeer[p] # <<>>
      /\ d = toPeer[p][1] /\ 1 \in DOMAIN toPeer[p]
      /\ c \in ClientIds /\ s \in 1 .. Len(wire[c]) /\ pk \in Packets
  BY RelayDownCopy
<1>2. s \in DOMAIN wire[c]
  BY <1>1 DEF TypeInv, ServerOK
<1>3. /\ UNCHANGED <<nextPeer, serverVars>>
      /\ DOMAIN peers' = DOMAIN peers
      /\ \A j \in DOMAIN peers : j # i => peers'[j] = peers[j]
      /\ peers'[i].port = p
      /\ \A j \in Ids : j # i => heard'[j] = heard[j]
      /\ \A q \in Ports : q # p => toPeer'[q] = toPeer[q]
      /\ toPeer'[p] = Tail(toPeer[p])
      /\ Forwarded(i, s) => peers' = peers /\ heard' = heard
      /\ ~Forwarded(i, s) =>
            /\ peers'[i].forwarded = peers[i].forwarded \cup {s}
            /\ peers'[i].inbound = InboundAfter(i, pk)
            /\ heard'[i] = heard[i] \/ (Completes(i, pk) /\ heard'[i] = Append(heard[i], v))
  BY RelayDownEffect
<1>4. /\ wire' = wire /\ clients' = clients /\ nextClient' = nextClient
      /\ \A j \in DOMAIN peers : peers'[j].port = peers[j].port
  BY <1>3 DEF serverVars
<1>5. v \in T /\ v.client = c /\ v.event = pk.event
  BY <1>1 DEF Packets, Event
<1>6. heard \in [Ids -> Seq(T)]
  BY DEF TypeInv, SteamOK
<1>7. DOMAIN peers \subseteq Ids
  BY BridgeAssumption DEF TypeInv, BridgeOK, Ids
<1>. HIDE DEF p, d, c, s, pk, v, T
<1>8. c \in Now(i)
  BY <1>1 DEF Now, p, c, ToSet
<1>9. \A q \in Ports : Fed(q)
  <2>1. Fed(p)
    BY <1>1, <1>3, DrawnTail, DrawnIsFed
  <2>2. ASSUME NEW q \in Ports, q # p PROVE Fed(q)
    BY <1>3, <2>2, DrawnSame, DrawnIsFed
  <2>. QED  BY <2>1, <2>2
<1>10. CopiesInTurn'
  <2>1. \A q \in DOMAIN clients' : SameId(q)
    BY <1>4 DEF SameId
  <2>2. DOMAIN clients' \subseteq Ports
    BY <1>4 DEF TypeInv, ServerOK
  <2>. QED  BY <1>9, <2>1, <2>2, CopiesKept
<1>11. \A q \in Ports : ToSet(toPeer'[q]) \subseteq ToSet(toPeer[q])
  BY <1>1, <1>3, TailSet
<1>12. ASSUME NEW j \in DOMAIN peers PROVE Now(j)' \subseteq Now(j)
  <2>1. peers[j].port \in Ports
    BY DEF TypeInv, BridgeOK, Peers
  <2>. QED  BY <1>4, <1>11, <2>1 DEF Now
<1>13. \A b \in Now(i)' : c <= b
  <2>1. ASSUME NEW e \in ToSet(toPeer'[p]) PROVE c <= e.client
    <3>1. PICK n \in DOMAIN Tail(toPeer[p]) : e = Tail(toPeer[p])[n]
      BY <1>3 DEF ToSet
    <3>2. n + 1 \in DOMAIN toPeer[p] /\ e = toPeer[p][n + 1] /\ 1 < n + 1
      BY <1>1, <3>1, TailElements
    <3>3. toPeer[p][1].client <= toPeer[p][n + 1].client
      BY <1>1, <3>2 DEF TurnInv, CopiesInTurn
    <3>. QED  BY <1>1, <3>2, <3>3 DEF c
  <2>2. ASSUME p \in DOMAIN clients PROVE c <= clients[p].id
    <3>1. d \in ToSet(toPeer[p])
      BY <1>1 DEF ToSet
    <3>. QED  BY <2>2, <3>1 DEF TurnInv, CopiesInTurn, c
  <2>3. Now(i)' = {clients[q].id : q \in DOMAIN clients \cap {p}} \cup {e.client : e \in ToSet(toPeer'[p])}
    BY <1>3, <1>4 DEF Now
  <2>. QED  BY <2>1, <2>2, <2>3
<1>14. ASSUME NEW j \in Ids
       PROVE  \A e \in ToSet(heard'[j]) : e \in ToSet(heard[j]) \/ (j = i /\ e = v)
  <2>1. CASE heard'[j] = heard[j]
    BY <2>1
  <2>2. CASE j = i /\ heard'[j] = Append(heard[j], v)
    <3>1. ToSet(Append(heard[j], v)) = ToSet(heard[j]) \cup {v}
      BY <1>5, <1>6, AppendSet
    <3>. QED  BY <2>2, <3>1
  <2>. QED  BY <1>3, <2>1, <2>2
<1>15. HeardInTurn'
  <2>1. ASSUME NEW j \in DOMAIN peers, NEW e \in ToSet(heard'[j]), NEW b \in Now(j)'
        PROVE  e.client <= b
    <3>1. CASE e \in ToSet(heard[j])
      <4>1. e.client \in HeardFrom(j)
        BY <3>1 DEF HeardFrom, ToSet
      <4>. QED  BY <1>12, <4>1 DEF TurnInv, HeardInTurn
    <3>2. CASE j = i /\ e = v
      BY <1>5, <1>13, <3>2
    <3>. QED  BY <1>7, <1>14, <3>1, <3>2
  <2>. QED  BY <1>3, <2>1 DEF HeardInTurn, HeardFrom, ToSet
<1>16. HeardIsMade'
  <2>1. ASSUME NEW j \in Ids, NEW e \in ToSet(heard'[j])
        PROVE  \E t \in DOMAIN wire[e.client] : wire[e.client][t].event = e.event
    BY <1>2, <1>5, <1>14 DEF TurnInv, HeardIsMade, pk
  <2>2. ASSUME NEW j \in Ids, j >= nextPeer PROVE heard'[j] = <<>>
    <3>1. j # i
      BY <1>1, <1>7, <2>2 DEF TypeInv, BridgeOK, Ids
    <3>. QED  BY <1>3, <2>2, <3>1 DEF TurnInv, HeardIsMade
  <2>. QED  BY <1>3, <1>4, <2>1, <2>2 DEF HeardIsMade
<1>17. PortsApart'
  <2>1. Bound' = Bound /\ p \in Bound
    BY <1>1, <1>3, <1>4 DEF Bound, p
  <2>. QED  BY <1>3, <1>4, <2>1 DEF TurnInv, PortsApart
<1>18. ASSUME NEW e \in ToSet(heard[i]), e.client \in Now(i)' PROVE e.client = c
  <2>1. e.client <= c
    <3>1. e.client \in HeardFrom(i)
      BY DEF HeardFrom, ToSet
    <3>. QED  BY <1>1, <1>8, <3>1 DEF TurnInv, HeardInTurn
  <2>2. c <= e.client
    BY <1>13, <1>18
  <2>3. e.client \in Int /\ c \in Int
    BY <1>1, IdsGivenOut DEF TurnInv, ClientIds
  <2>. QED  BY <2>1, <2>2, <2>3
<1>19. ASSUME NEW e \in ToSet(heard[i]), e.client = c PROVE Spent(i, e)
  BY <1>1, <1>8, <1>19 DEF OnceInv
<1>20. ASSUME NEW j \in DOMAIN peers, peers'[j] = peers[j], NEW e, Spent(j, e) PROVE Spent(j, e)'
  <2>1. SamePacketsOf(e)
    BY <1>4 DEF SamePacketsOf
  <2>. QED  BY <1>20, <2>1, SpentKept
<1>21. CASE Forwarded(i, s)
  <2>1. HeardOnce'
    BY <1>3, <1>21 DEF OnceInv, HeardOnce
  <2>2. ASSUME NEW j \in DOMAIN peers, NEW e \in ToSet(heard[j]), e.client \in Now(j)' PROVE Spent(j, e)'
    <3>1. Spent(j, e)
      BY <1>12, <2>2 DEF OnceInv
    <3>. QED  BY <1>3, <1>20, <1>21, <3>1
  <2>3. OnceInv'
    BY <1>3, <1>21, <2>1, <2>2 DEF OnceInv
  <2>. QED  BY <1>10, <1>15, <1>16, <1>17, <2>3 DEF TurnInv
<1>22. CASE ~Forwarded(i, s)
  <2>1. /\ peers'[i].forwarded = peers[i].forwarded \cup {s}
        /\ peers'[i].inbound = InboundAfter(i, wire[c][s])
        /\ heard'[i] = heard[i] \/ (Completes(i, pk) /\ heard'[i] = Append(heard[i], v))
    BY <1>3, <1>22 DEF pk
  <2>2. ASSUME NEW e \in ToSet(heard[i]), e.client = c
        PROVE  Spent(i, e)' /\ (e.event = pk.event => ~Completes(i, pk))
    BY <1>1, <1>2, <1>4, <1>19, <1>22, <2>1, <2>2, SpentStays DEF pk
  <2>3. ASSUME NEW j \in DOMAIN peers, NEW e \in ToSet(heard'[j]), e.client \in Now(j)' PROVE Spent(j, e)'
    <3>1. CASE j # i
      <4>1. heard'[j] = heard[j]
        BY <1>3, <1>7, <3>1
      <4>2. Spent(j, e)
        BY <1>12, <2>3, <4>1 DEF OnceInv
      <4>. QED  BY <1>3, <1>20, <3>1, <4>2
    <3>2. CASE j = i /\ e \in ToSet(heard[i])
      BY <1>18, <2>2, <2>3, <3>2
    <3>3. CASE j = i /\ e \notin ToSet(heard[i])
      <4>1. e = v /\ Completes(i, pk)
        BY <1>7, <1>14, <2>1, <3>3
      <4>2. Completes(i, wire[c][s])
        BY <4>1 DEF pk
      <4>3. e = Event(c, wire[c][s].event)
        BY <4>1 DEF v, pk
      <4>4. Spent(i, e)'
        BY <1>1, <1>2, <1>4, <2>1, <4>2, <4>3, CompletedIsSpent
      <4>. QED  BY <3>3, <4>4
    <3>. QED  BY <3>1, <3>2, <3>3
  <2>4. HeardOnce'
    <3>. SUFFICES ASSUME NEW j \in Ids, NEW n \in DOMAIN heard'[j], NEW m \in DOMAIN heard'[j],
                         heard'[j][n] = heard'[j][m]
                  PROVE  n = m
      BY DEF HeardOnce
    <3>1. CASE heard'[j] = heard[j]
      BY <3>1 DEF OnceInv, HeardOnce
    <3>2. CASE j = i /\ Completes(i, pk) /\ heard'[i] = Append(heard[i], v)
      <4>1. v \notin ToSet(heard[i])
        BY <1>5, <2>2, <3>2
      <4>2. /\ heard[i] \in Seq(T)
            /\ DOMAIN heard'[i] = 1 .. Len(heard[i]) + 1
            /\ \A k \in 1 .. Len(heard[i]) : heard'[i][k] = heard[i][k]
            /\ heard'[i][Len(heard[i]) + 1] = v
        BY <1>5, <1>6, <3>2, AppendElements
      <4>3. \A k \in 1 .. Len(heard[i]) : heard[i][k] # v
        BY <4>1, <4>2 DEF ToSet
      <4>4. \A k, l \in 1 .. Len(heard[i]) : heard[i][k] = heard[i][l] => k = l
        BY <4>2 DEF OnceInv, HeardOnce
      <4>5. \A k \in DOMAIN heard'[i] : k \in 1 .. Len(heard[i]) \/ k = Len(heard[i]) + 1
        BY <4>2
      <4>. QED  BY <3>2, <4>2, <4>3, <4>4, <4>5
    <3>. QED  BY <1>3, <2>1, <3>1, <3>2
  <2>5. OnceInv'
    BY <1>3, <2>3, <2>4 DEF OnceInv
  <2>. QED  BY <1>10, <1>15, <1>16, <1>17, <2>5 DEF TurnInv
<1>. QED  BY <1>21, <1>22

LEMMA DisconnectedQueues ==
    ASSUME TypeInv, TurnInv, NEW i \in Ids, Disconnected(i)
    PROVE  /\ DOMAIN peers' = DOMAIN peers \ {i} /\ i \in DOMAIN peers
           /\ \A j \in DOMAIN peers' : peers'[j] = peers[j]
           /\ \A p \in Ports : toPeer'[p] = IF p = peers[i].port THEN <<>> ELSE toPeer[p]
           /\ \A p \in Ports \ Bound' : toPeer'[p] = <<>>
<1>1. /\ DOMAIN peers' = DOMAIN peers \ {i} /\ i \in DOMAIN peers
      /\ \A j \in DOMAIN peers' : peers'[j] = peers[j]
  BY DEF Disconnected
<1>2. \A p \in Ports : toPeer'[p] = IF p = peers[i].port THEN <<>> ELSE toPeer[p]
  BY <1>1 DEF Disconnected, Closed, TypeInv, NetOK
<1>3. \A p \in Ports \ Bound' : toPeer'[p] = <<>>
  <2>. SUFFICES ASSUME NEW p \in Ports \ Bound', p # peers[i].port PROVE toPeer[p] = <<>>
    BY <1>2
  <2>1. p \notin Bound
    BY <1>1 DEF Bound
  <2>. QED  BY <2>1 DEF TurnInv, PortsApart
<1>. QED  BY <1>1, <1>2, <1>3

LEMMA DropDrawn ==
    ASSUME TypeInv, Drop
    PROVE  \A p \in Ports : Drawn(toPeer'[p], toPeer[p])
<1>. toPeer \in [Ports -> Seq(Copies)]
  BY DEF TypeInv, NetOK
<1>1. CASE UNCHANGED toPeer
  BY <1>1, DrawnSame
<1>2. ASSUME NEW q \in Ports, NEW n \in DOMAIN toPeer[q],
             toPeer' = [toPeer EXCEPT ![q] = RemoveAt(@, n)]
      PROVE  \A p \in Ports : Drawn(toPeer'[p], toPeer[p])
  <2>1. Drawn(RemoveAt(toPeer[q], n), toPeer[q])
    BY DrawnRemove
  <2>2. \A p \in Ports : toPeer'[p] = IF p = q THEN RemoveAt(toPeer[q], n) ELSE toPeer[p]
    BY <1>2
  <2>. QED  BY <2>1, <2>2, DrawnSame
<1>. QED  BY <1>1, <1>2 DEF Drop

LEMMA DrawnFromNothing ==
    ASSUME NEW S, NEW t \in Seq(S), Drawn(t, <<>>) PROVE t = <<>>
<1>1. ToSet(t) = {}
  BY DEF Drawn, ToSet
<1>. QED  BY <1>1, NothingIn

LEMMA OnceStep ==
    ASSUME TypeInv, TypeInv', PacketInv, TurnInv, OnceInv, [Next]_vars PROVE TurnInv' /\ OnceInv'
<1>0. \A p \in Ports \ Bound : toPeer[p] = <<>>
  BY DEF TurnInv, PortsApart
<1>1. ASSUME UNCHANGED <<nextPeer, heard, peers, wire, toPeer>>,
             \A p \in DOMAIN clients' : SameId(p) \/ MadeEntry(p)
      PROVE  TurnInv' /\ OnceInv'
  <2>1. \A p \in Ports : Drawn(toPeer'[p], toPeer[p])
    BY <1>1, DrawnSame
  <2>2. Bound' = Bound
    BY <1>1 DEF Bound
  <2>. QED  BY <1>0, <1>1, <2>1, <2>2, FewerOnce
<1>2. \A p \in DOMAIN clients : clients' = clients => SameId(p)
  BY DEF SameId
<1>3. ASSUME NEW i \in Ids, NEW kind \in Kinds, GameSays(i, kind) PROVE TurnInv' /\ OnceInv'
  BY <1>1, <1>2, <1>3 DEF GameSays, bridgeVars, serverVars, netVars
<1>4. ASSUME NEW i \in Ids, ConnectionEnds(i) PROVE TurnInv' /\ OnceInv'
  BY <1>1, <1>2, <1>4 DEF ConnectionEnds, bridgeVars, serverVars, netVars
<1>5. ASSUME NEW i \in Ids, Disconnected(i) PROVE TurnInv' /\ OnceInv'
  <2>1. /\ DOMAIN peers' = DOMAIN peers \ {i}
        /\ \A j \in DOMAIN peers' : peers'[j] = peers[j]
        /\ \A p \in Ports : toPeer'[p] = IF p = peers[i].port THEN <<>> ELSE toPeer[p]
        /\ \A p \in Ports \ Bound' : toPeer'[p] = <<>>
    BY <1>5, DisconnectedQueues
  <2>2. \A p \in Ports : Drawn(toPeer'[p], toPeer[p])
    BY <2>1, DrawnSame, DrawnNothing
  <2>3. UNCHANGED <<nextPeer, heard, wire, clients>>
    BY <1>5 DEF Disconnected, serverVars
  <2>. QED  BY <1>2, <2>1, <2>2, <2>3, FewerOnce
<1>6. ASSUME NEW i \in Ids, RelayUp(i) PROVE TurnInv' /\ OnceInv'
  <2>1. /\ DOMAIN peers' = DOMAIN peers
        /\ \A j \in DOMAIN peers : /\ peers'[j].port = peers[j].port
                                   /\ peers'[j].forwarded = peers[j].forwarded
                                   /\ peers'[j].inbound = peers[j].inbound
    BY <1>6 DEF RelayUp, TypeInv, BridgeOK, Peers
  <2>2. UNCHANGED <<nextPeer, heard, wire, clients, toPeer>>
    BY <1>6 DEF RelayUp, serverVars
  <2>3. Bound' = Bound
    BY <2>1 DEF Bound
  <2>4. \A p \in Ports : Drawn(toPeer'[p], toPeer[p])
    BY <2>2, DrawnSame
  <2>. QED  BY <1>0, <1>2, <2>1, <2>2, <2>3, <2>4, FewerOnce
<1>7. ASSUME ServerReceive PROVE TurnInv' /\ OnceInv'
  BY <1>1, <1>7, ReceiveEntries DEF steamVars, bridgeVars, SameEntry
<1>8. ASSUME NEW p \in Ports, TimeOut(p) PROVE TurnInv' /\ OnceInv'
  <2>1. \A q \in DOMAIN clients' : SameId(q)
    BY <1>8 DEF TimeOut, Without, SameId
  <2>. QED  BY <1>1, <1>8, <2>1 DEF TimeOut, steamVars, bridgeVars, netVars
<1>9. ASSUME Drop PROVE TurnInv' /\ OnceInv'
  <2>1. UNCHANGED <<nextPeer, heard, peers, wire, clients>>
    BY <1>9 DEF Drop, steamVars, bridgeVars, serverVars
  <2>2. \A p \in Ports : Drawn(toPeer'[p], toPeer[p])
    BY <1>9, DropDrawn
  <2>3. ASSUME NEW p \in Ports \ Bound' PROVE toPeer'[p] = <<>>
    <3>1. toPeer[p] = <<>>
      BY <1>0, <2>1 DEF Bound
    <3>2. toPeer'[p] \in Seq(Copies)
      BY DEF TypeInv, NetOK
    <3>. QED  BY <2>2, <3>1, <3>2, DrawnFromNothing
  <2>. QED  BY <1>2, <2>1, <2>2, <2>3, FewerOnce
<1>10. CASE UNCHANGED vars
  BY <1>1, <1>2, <1>10 DEF vars, steamVars, bridgeVars, serverVars, netVars
<1>11. ASSUME NEW p \in Ports, NEW s \in Seqs, GiveUp(p, s) PROVE TurnInv' /\ OnceInv'
  <2>1. \A q \in DOMAIN clients' : SameId(q)
    BY <1>11, GiveUpPending DEF SameId
  <2>. QED  BY <1>1, <1>11, <2>1 DEF GiveUp, steamVars, bridgeVars, netVars
<1>. QED
  BY <1>3, <1>4, <1>5, <1>6, <1>7, <1>8, <1>9, <1>10, <1>11,
     ConnectedOnce, RelayDownOnce, SendReliableOnce, ResendOnce DEF Next

LEMMA OnceHolds == Spec => [](PacketInv /\ TurnInv /\ OnceInv)
<1>1. Init => PacketInv /\ TurnInv /\ OnceInv
  BY InitPacketInv, InitTurnInv, InitOnceInv
<1>2. TypeInv /\ TypeInv' /\ (PacketInv /\ TurnInv /\ OnceInv) /\ [Next]_vars
            => (PacketInv /\ TurnInv /\ OnceInv)'
  BY PacketStep, OnceStep
<1>. QED  BY <1>1, <1>2, TypesHold, PTL DEF Spec

\* Steam is handed no event twice, whatever the server sends again, however
\* copies and acknowledgements are lost, and though entries time out, ids
\* change and ports are given again while copies are on their way.
THEOREM EventsAreHeardOnce == Spec => []HeardOnce
<1>1. OnceInv => HeardOnce
  BY DEF OnceInv
<1>. QED  BY <1>1, OnceHolds, PTL

-----------------------------------------------------------------------------
(* Heard in order *)

Dropped(c) == \E s \in Seqs : Copy(c, s) \in lost

\* Every packet of the client at a peer's address has reached the peer or waits
\* at its socket, unless something sent to the client was dropped.
AllSent ==
    \A i \in DOMAIN peers : \A p \in DOMAIN clients \cap {peers[i].port} :
        ~Dropped(clients[p].id) =>
            \A s \in DOMAIN wire[clients[p].id] :
                Forwarded(i, s) \/ Copy(clients[p].id, s) \in ToSet(toPeer[p])

\* Then what waits for the first time does so in the order of sending,
QueueInOrder ==
    \A i \in DOMAIN peers : \A n, m \in DOMAIN toPeer[peers[i].port] :
        LET q == toPeer[peers[i].port]
        IN  (/\ n < m /\ q[n].client = q[m].client
             /\ ~Dropped(q[m].client) /\ ~Forwarded(i, q[m].seq)) => q[n].seq < q[m].seq

\* and is of no earlier event than those heard.
HeardBefore ==
    \A i \in DOMAIN peers : \A d \in ToSet(toPeer[peers[i].port]), v \in ToSet(heard[i]) :
        (d.client = v.client /\ ~Dropped(d.client) /\ ~Forwarded(i, d.seq))
            => v.event <= wire[d.client][d.seq].event

OrderInv == AllSent /\ QueueInOrder /\ HeardBefore /\ HeardInOrderUnlessDropped

LEMMA InitOrderInv == Init => OrderInv
BY DEF Init, OrderInv, AllSent, QueueInOrder, HeardBefore, HeardInOrderUnlessDropped

LEMMA OutOfOrderKept ==
    ASSUME HeardInOrderUnlessDropped, heard' = heard, lost \subseteq lost'
    PROVE  HeardInOrderUnlessDropped'
BY DEF HeardInOrderUnlessDropped

\* A step in which no game hears anything and nothing is sent.
LEMMA OrderKept ==
    ASSUME TypeInv, OrderInv,
           DOMAIN peers' \subseteq DOMAIN peers,
           \A i \in DOMAIN peers' :
                /\ peers'[i].port = peers[i].port
                /\ peers'[i].forwarded = peers[i].forwarded,
           UNCHANGED <<heard, wire>>, lost \subseteq lost',
           \A p \in Ports : Drawn(toPeer'[p], toPeer[p]),
           \A i \in DOMAIN peers' :
                ToSet(toPeer[peers[i].port]) \subseteq ToSet(toPeer'[peers[i].port]) \cup lost',
           \A p \in DOMAIN clients' : SameId(p) \/ MadeEntry(p)
    PROVE  OrderInv'
<1>1. \A i \in DOMAIN peers : peers[i].port \in Ports
  BY DEF TypeInv, BridgeOK, Peers
<1>2. \A c : ~Dropped(c)' => ~Dropped(c)
  BY DEF Dropped
<1>3. \A i \in DOMAIN peers' : \A s : Forwarded(i, s)' <=> Forwarded(i, s)
  BY DEF Forwarded
<1>4. AllSent'
  <2>. SUFFICES ASSUME NEW i \in DOMAIN peers', NEW p \in DOMAIN clients', p = peers[i].port,
                       NEW c, c = clients'[p].id, ~Dropped(c)',
                       NEW s \in DOMAIN wire[c], ~Forwarded(i, s)
                PROVE  Copy(c, s) \in ToSet(toPeer'[p])
    BY <1>3 DEF AllSent
  <2>1. SameId(p)
    <3>1. ~MadeEntry(p)
      <4>1. nextClient \in ClientIds => wire[nextClient] = <<>>
        BY DEF TypeInv, ServerOK, ClientIds
      <4>. QED  BY <4>1 DEF MadeEntry
    <3>. QED  BY <3>1
  <2>2. p \in DOMAIN clients /\ c = clients[p].id
    BY <2>1 DEF SameId
  <2>3. Copy(c, s) \in ToSet(toPeer[p])
    BY <1>2, <2>2 DEF OrderInv, AllSent
  <2>4. Copy(c, s) \notin lost'
    <3>1. s \in Seqs
      <4>1. c \in ClientIds
        BY <2>2 DEF TypeInv, ServerOK, Entries
      <4>2. Copy(c, s) \in Copies
        BY <1>1, <2>3 DEF TypeInv, NetOK, ToSet
      <4>. QED  BY <4>2 DEF Copies, Copy
    <3>. QED  BY <3>1 DEF Dropped
  <2>. QED  BY <2>3, <2>4
<1>5. QueueInOrder'
  <2>. SUFFICES ASSUME NEW i \in DOMAIN peers', NEW q, q = toPeer'[peers[i].port],
                       NEW n \in DOMAIN q, NEW m \in DOMAIN q, n < m,
                       q[n].client = q[m].client, ~Dropped(q[m].client)', ~Forwarded(i, q[m].seq)
                PROVE  q[n].seq < q[m].seq
    BY <1>3 DEF QueueInOrder
  <2>. DEFINE o == toPeer[peers[i].port]
  <2>1. PICK a \in DOMAIN o, b \in DOMAIN o : a < b /\ o[a] = q[n] /\ o[b] = q[m]
    BY <1>1 DEF Drawn
  <2>2. ~Dropped(o[b].client) /\ o[a].client = o[b].client /\ ~Forwarded(i, o[b].seq)
    BY <1>2, <2>1
  <2>3. o[a].seq < o[b].seq
    BY <2>1, <2>2 DEF OrderInv, QueueInOrder
  <2>. QED  BY <2>1, <2>3
<1>6. HeardBefore'
  <2>1. \A i \in DOMAIN peers' : ToSet(toPeer'[peers[i].port]) \subseteq ToSet(toPeer[peers[i].port])
    BY <1>1 DEF Drawn
  <2>. QED  BY <1>2, <1>3, <2>1 DEF OrderInv, HeardBefore
<1>. QED  BY <1>4, <1>5, <1>6, OutOfOrderKept DEF OrderInv

LEMMA ConnectedOrder ==
    ASSUME MayReusePorts = FALSE, TypeInv, TurnInv, OrderInv, Connected PROVE OrderInv'
<1>1. /\ UNCHANGED <<heard, clients, wire, toPeer, lost>>
      /\ nextPeer \in Ids
  BY DEF Connected, serverVars, netVars
<1>2. CASE UNCHANGED peers
  BY <1>1, <1>2
     DEF OrderInv, AllSent, QueueInOrder, HeardBefore, HeardInOrderUnlessDropped, Dropped, Forwarded
<1>3. ASSUME NEW p \in Ports \ Bound, Fresh(p), NEW o, o = nextPeer,
             peers' = [i \in DOMAIN peers \cup {o} |-> IF i = o THEN NewPeer(p) ELSE peers[i]]
      PROVE  OrderInv'
  <2>1. o \notin DOMAIN peers
    BY <1>1, <1>3 DEF TypeInv, BridgeOK, Ids
  <2>2. /\ DOMAIN peers' = DOMAIN peers \cup {o}
        /\ peers'[o].port = p
        /\ \A i \in DOMAIN peers : peers'[i] = peers[i]
    BY <1>3, <2>1 DEF NewPeer
  <2>3. toPeer'[p] = <<>> /\ p \notin DOMAIN clients'
    BY <1>1, <1>3 DEF TurnInv, PortsApart, Fresh
  <2>4. DOMAIN toPeer'[p] = {} /\ ToSet(toPeer'[p]) = {}
    BY <2>3 DEF ToSet
  <2>5. \A c : Dropped(c)' <=> Dropped(c)
    BY <1>1 DEF Dropped
  <2>6. \A i \in DOMAIN peers : \A s : Forwarded(i, s)' <=> Forwarded(i, s)
    BY <2>2 DEF Forwarded
  <2>7. AllSent'
    BY <1>1, <2>2, <2>3, <2>5, <2>6 DEF OrderInv, AllSent
  <2>8. QueueInOrder'
    BY <1>1, <2>2, <2>4, <2>5, <2>6 DEF OrderInv, QueueInOrder
  <2>9. HeardBefore'
    BY <1>1, <2>2, <2>4, <2>5, <2>6 DEF OrderInv, HeardBefore
  <2>. QED  BY <1>1, <2>7, <2>8, <2>9, OutOfOrderKept DEF OrderInv
<1>. QED  BY <1>2, <1>3 DEF Connected

LEMMA ConcatHas ==
    ASSUME NEW S, NEW s \in Seq(S), NEW u \in Seq(S)
    PROVE  ToSet(s) \subseteq ToSet(s \o u) /\ ToSet(u) \subseteq ToSet(s \o u)
<1>. DEFINE t == s \o u
<1>1. /\ DOMAIN t = 1 .. Len(s) + Len(u) /\ Len(s) \in Nat /\ Len(u) \in Nat
      /\ DOMAIN s = 1 .. Len(s) /\ DOMAIN u = 1 .. Len(u)
      /\ \A n \in 1 .. Len(s) : t[n] = s[n]
      /\ \A n \in 1 .. Len(u) : t[Len(s) + n] = u[n]
  BY ConcatElements
<1>. HIDE DEF t
<1>2. \A n \in DOMAIN s : n \in DOMAIN t /\ t[n] = s[n]
  BY <1>1
<1>3. \A n \in DOMAIN u : Len(s) + n \in DOMAIN t /\ t[Len(s) + n] = u[n]
  BY <1>1
<1>. QED  BY <1>2, <1>3 DEF ToSet, t

LEMMA SendReliableOrder ==
    ASSUME TypeInv, PacketInv, TurnInv, OrderInv,
           NEW p \in Ports, NEW n \in ChunkCounts, SendReliable(p, n)
    PROVE  OrderInv'
<1>. DEFINE c == clients[p]
            k == Len(wire[c.id])
            w == wire'[c.id]
            u == NewCopies(c, n)
            o == toPeer[p]
            t == o \o u
<1>1. /\ p \in DOMAIN clients /\ c.id \in ClientIds /\ n \in Nat \ {0} /\ k \in Nat
      /\ DOMAIN wire[c.id] = 1 .. k /\ DOMAIN w = 1 .. k + n
      /\ \A s \in 1 .. k : w[s] = wire[c.id][s]
      /\ \A s \in k + 1 .. k + n :
            w[s] = [event |-> c.nextEvent, piece |-> s - k, of |-> n,
                    chunk |-> IF n > 1 THEN c.nextChunk ELSE 0]
      /\ \A b \in ClientIds : b # c.id => wire'[b] = wire[b]
      /\ DOMAIN clients' = DOMAIN clients
      /\ \A q \in DOMAIN clients : clients'[q].id = clients[q].id
  BY SendReliableAdds
<1>2. u \in Seq(Copies) /\ Len(u) = n /\ o \in Seq(Copies)
  BY NewPacketTypes DEF TypeInv, NetOK
<1>3. \A j \in 1 .. n : u[j] = Copy(c.id, k + j)
  BY DEF NewCopies, Copy
<1>4. /\ toPeer' = Sent(p, u)
      /\ UNCHANGED <<heard, nextPeer, peers, lost>>
  BY DEF SendReliable, NewCopies, steamVars, bridgeVars
<1>5. \A s \in k + 1 .. k + n : w[s].event = c.nextEvent
  <2>. HIDE DEF c, k, w
  <2>. SUFFICES ASSUME NEW s \in k + 1 .. k + n PROVE w[s].event = c.nextEvent
    OBVIOUS
  <2>1. w[s] = [event |-> c.nextEvent, piece |-> s - k, of |-> n,
                chunk |-> IF n > 1 THEN c.nextChunk ELSE 0]
    BY <1>1
  <2>. QED  BY <2>1
<1>. HIDE DEF u, k, w, t, o
<1>6. /\ DOMAIN t = 1 .. Len(o) + n /\ Len(o) \in Nat
      /\ \A m \in 1 .. Len(o) : t[m] = o[m]
      /\ \A j \in 1 .. n : t[Len(o) + j] = u[j]
      /\ DOMAIN o = 1 .. Len(o) /\ DOMAIN u = 1 .. n
      /\ t \in Seq(Copies)
  <2>1. /\ DOMAIN t = 1 .. Len(o) + Len(u) /\ Len(o) \in Nat /\ t \in Seq(Copies)
        /\ \A m \in 1 .. Len(o) : t[m] = o[m]
        /\ \A j \in 1 .. Len(u) : t[Len(o) + j] = u[j]
    <3>1. t = o \o u
      BY DEF t
    <3>. QED  BY <1>2, <3>1, ConcatElements
  <2>. QED  BY <1>2, <2>1
<1>7. \A c1 : Dropped(c1)' <=> Dropped(c1)
  BY <1>4 DEF Dropped
<1>8. \A i : \A s : Forwarded(i, s)' <=> Forwarded(i, s)
  BY <1>4 DEF Forwarded
<1>9. ASSUME NEW i \in DOMAIN peers
      PROVE  toPeer'[peers[i].port] = IF peers[i].port = p THEN t ELSE toPeer[peers[i].port]
  <2>1. peers[i].port \in Ports /\ peers[i].port \in Bound
    BY DEF TypeInv, BridgeOK, Peers, Bound
  <2>. QED  BY <1>4, <2>1 DEF Sent, TypeInv, NetOK, t, o
<1>10. \A d \in ToSet(t) : d \in ToSet(o) \/ \E j \in 1 .. n : d = u[j]
  BY <1>2, <1>6, ConcatSet DEF t, ToSet
<1>11. \A q \in Ports : \A d \in ToSet(toPeer[q]) : d.client \in ClientIds /\ d.seq \in 1 .. Len(wire[d.client])
  <2>. SUFFICES ASSUME NEW q \in Ports, NEW m \in DOMAIN toPeer[q]
                PROVE  toPeer[q][m].client \in ClientIds
                       /\ toPeer[q][m].seq \in 1 .. Len(wire[toPeer[q][m].client])
    BY DEF ToSet
  <2>1. toPeer[q][m] \in Copies
    BY DEF TypeInv, NetOK
  <2>. QED  BY <2>1 DEF TypeInv, NetOK, Copies
<1>12. \A b \in ClientIds : \A s \in 1 .. Len(wire[b]) : wire'[b][s] = wire[b][s]
  BY <1>1 DEF k, w
<1>13. AllSent'
  <2>. SUFFICES ASSUME NEW i \in DOMAIN peers, NEW q \in DOMAIN clients, q = peers[i].port,
                       NEW b, b = clients[q].id, ~Dropped(b),
                       NEW s \in DOMAIN wire'[b], ~Forwarded(i, s)
                PROVE  Copy(b, s) \in ToSet(toPeer'[q])
    BY <1>1, <1>4, <1>7, <1>8 DEF AllSent
  <2>1. CASE q = p
    <3>1. b = c.id /\ toPeer'[q] = t /\ s \in 1 .. k + n
      BY <1>1, <1>9, <2>1 DEF w
    <3>2. ToSet(o) \subseteq ToSet(t) /\ ToSet(u) \subseteq ToSet(t)
      BY <1>2, ConcatHas DEF t
    <3>3. CASE s \in 1 .. k
      <4>1. Copy(b, s) \in ToSet(o)
        BY <1>1, <2>1, <3>1, <3>3 DEF OrderInv, AllSent, o
      <4>. QED  BY <3>1, <3>2, <4>1
    <3>4. CASE ~(s \in 1 .. k)
      <4>1. s - k \in 1 .. n /\ k + (s - k) = s
        BY <1>1, <3>1, <3>4
      <4>2. u[s - k] = Copy(b, s)
        BY <1>3, <3>1, <4>1
      <4>3. u[s - k] \in ToSet(u)
        BY <1>6, <4>1 DEF ToSet
      <4>. QED  BY <3>1, <3>2, <4>2, <4>3
    <3>. QED  BY <3>3, <3>4
  <2>2. CASE q # p
    <3>1. b # c.id /\ b \in ClientIds
      BY <1>1, <2>2 DEF PacketInv, IdsApart, c, TypeInv, ServerOK, Entries
    <3>. QED  BY <1>1, <1>9, <2>2, <3>1 DEF OrderInv, AllSent
  <2>. QED  BY <2>1, <2>2
<1>14. QueueInOrder'
  <2>. SUFFICES ASSUME NEW i \in DOMAIN peers, NEW q, q = toPeer'[peers[i].port],
                       NEW a \in DOMAIN q, NEW b \in DOMAIN q, a < b,
                       q[a].client = q[b].client, ~Dropped(q[b].client), ~Forwarded(i, q[b].seq)
                PROVE  q[a].seq < q[b].seq
    BY <1>4, <1>7, <1>8 DEF QueueInOrder
  <2>1. CASE peers[i].port # p
    BY <1>9, <2>1 DEF OrderInv, QueueInOrder
  <2>2. CASE peers[i].port = p
    <3>1. q = t /\ a \in 1 .. Len(o) + n /\ b \in 1 .. Len(o) + n
      BY <1>6, <1>9, <2>2
    <3>2. CASE b \in 1 .. Len(o)
      <4>1. a \in 1 .. Len(o)
        BY <1>6, <3>1, <3>2
      <4>2. q[a] = o[a] /\ q[b] = o[b] /\ a \in DOMAIN o /\ b \in DOMAIN o
        BY <1>6, <3>1, <3>2, <4>1
      <4>. QED  BY <2>2, <4>2 DEF OrderInv, QueueInOrder, o
    <3>3. CASE ~(b \in 1 .. Len(o))
      <4>1. b - Len(o) \in 1 .. n /\ Len(o) + (b - Len(o)) = b
        BY <1>1, <1>6, <3>1, <3>3
      <4>2. q[b] = Copy(c.id, k + (b - Len(o)))
        BY <1>3, <1>6, <3>1, <4>1
      <4>3. q[b].client = c.id /\ q[b].seq = k + (b - Len(o))
        BY <4>2 DEF Copy
      <4>4. CASE a \in 1 .. Len(o)
        <5>1. q[a] = o[a] /\ q[a] \in ToSet(o)
          BY <1>6, <3>1, <4>4 DEF ToSet
        <5>2. q[a].seq \in 1 .. k
          BY <1>11, <4>3, <5>1 DEF o, k
        <5>. QED  BY <1>1, <4>1, <4>3, <5>2
      <4>5. CASE ~(a \in 1 .. Len(o))
        <5>1. a - Len(o) \in 1 .. n /\ Len(o) + (a - Len(o)) = a
          BY <1>1, <1>6, <3>1, <4>5
        <5>2. q[a] = Copy(c.id, k + (a - Len(o)))
          BY <1>3, <1>6, <3>1, <5>1
        <5>3. q[a].seq = k + (a - Len(o))
          BY <5>2 DEF Copy
        <5>. QED  BY <1>1, <1>6, <3>1, <4>3, <5>3
      <4>. QED  BY <4>4, <4>5
    <3>. QED  BY <3>2, <3>3
  <2>. QED  BY <2>1, <2>2
<1>15. HeardBefore'
  <2>. SUFFICES ASSUME NEW i \in DOMAIN peers, NEW d \in ToSet(toPeer'[peers[i].port]), NEW v \in ToSet(heard[i]),
                       d.client = v.client, ~Dropped(d.client), ~Forwarded(i, d.seq)
                PROVE  v.event <= wire'[d.client][d.seq].event
    BY <1>4, <1>7, <1>8 DEF HeardBefore
  <2>0. peers[i].port \in Ports /\ i \in Ids
    BY BridgeAssumption DEF TypeInv, BridgeOK, Peers, Ids
  <2>1. CASE d \in ToSet(toPeer[peers[i].port])
    <3>1. v.event <= wire[d.client][d.seq].event
      BY <2>1 DEF OrderInv, HeardBefore
    <3>. QED  BY <1>11, <1>12, <2>0, <2>1, <3>1
  <2>2. CASE ~(d \in ToSet(toPeer[peers[i].port]))
    <3>1. peers[i].port = p
      BY <1>9, <2>2
    <3>2. PICK j \in 1 .. n : d = u[j]
      BY <1>9, <1>10, <2>2, <3>1 DEF o
    <3>3. d.client = c.id /\ d.seq = k + j
      <4>1. d = Copy(c.id, k + j)
        BY <1>3, <3>2
      <4>. QED  BY <4>1 DEF Copy
    <3>4. wire'[d.client][d.seq].event = c.nextEvent
      <4>1. k + j \in k + 1 .. k + n
        BY <1>1
      <4>. QED  BY <1>5, <3>3, <4>1 DEF w
    <3>5. PICK s \in DOMAIN wire[c.id] : wire[c.id][s].event = v.event
      <4>1. v.client = c.id
        BY <3>3
      <4>2. \E s \in DOMAIN wire[v.client] : wire[v.client][s].event = v.event
        BY <2>0 DEF TurnInv, HeardIsMade
      <4>. QED  BY <4>1, <4>2
    <3>6. v.event < c.nextEvent
      BY <1>1, <3>5 DEF PacketInv, Ahead
    <3>7. v.event \in Nat /\ c.nextEvent \in Nat
      <4>1. c.nextEvent \in Nat
        BY <1>1 DEF TypeInv, ServerOK, Entries, c
      <4>2. v.event \in Nat
        BY <1>1, <3>5, PacketFields
      <4>. QED  BY <4>1, <4>2
    <3>. QED  BY <3>4, <3>6, <3>7
  <2>. QED  BY <2>1, <2>2
<1>16. HeardInOrderUnlessDropped'
  BY <1>4, OutOfOrderKept DEF OrderInv
<1>. QED  BY <1>13, <1>14, <1>15, <1>16 DEF OrderInv

LEMMA ResendOrder ==
    ASSUME TypeInv, OrderInv, NEW p \in Ports, p \in Bound, NEW s \in Seqs, Resend(p, s)
    PROVE  OrderInv'
<1>. DEFINE c == clients[p].id
            d == Copy(c, s)
            o == toPeer[p]
            t == o \o <<d>>
<1>1. p \in DOMAIN clients /\ c \in ClientIds /\ d \in Copies /\ s \in DOMAIN wire[c]
  BY DEF Resend, IsDue, TypeInv, ServerOK, Entries, Copies, Copy
<1>2. /\ toPeer' = [toPeer EXCEPT ![p] = t] /\ o \in Seq(Copies)
      /\ UNCHANGED <<heard, peers, clients, wire, lost>>
  <2>1. toPeer' = Sent(p, <<d>>)
    BY DEF Resend, Copy
  <2>2. UNCHANGED <<heard, peers, clients, wire, lost>>
    BY DEF Resend, steamVars, bridgeVars
  <2>3. o \in Seq(Copies)
    BY DEF TypeInv, NetOK
  <2>4. toPeer' = [toPeer EXCEPT ![p] = @ \o <<d>>]
    <3>. HIDE DEF d
    <3>. QED  BY <2>1 DEF Sent
  <2>5. toPeer' = [toPeer EXCEPT ![p] = t]
    <3>. HIDE DEF d
    <3>. QED  BY <2>4
  <2>. HIDE DEF o, t
  <2>. QED  BY <2>2, <2>3, <2>5
<1>3. d \notin ToSet(o)
  <2>1. ~Contains(o, d)
    BY DEF Resend, IsDue, Copy
  <2>2. DOMAIN o = 1 .. Len(o)
    BY <1>2
  <2>. HIDE DEF d, o
  <2>. QED  BY <2>1, <2>2 DEF Contains, ToSet
<1>4. \A i \in DOMAIN peers : peers[i].port = p /\ ~Dropped(c) => Forwarded(i, s)
  BY <1>1, <1>3 DEF OrderInv, AllSent
<1>5. d.client = c /\ d.seq = s
  BY DEF Copy
<1>. HIDE DEF d
<1>6. /\ DOMAIN t = 1 .. Len(o) + 1 /\ DOMAIN o = 1 .. Len(o) /\ Len(o) \in Nat
      /\ \A m \in 1 .. Len(o) : t[m] = o[m]
      /\ t[Len(o) + 1] = d
      /\ ToSet(t) = ToSet(o) \cup {d}
  <2>1. t = Append(o, d)
    BY <1>1, <1>2
  <2>2. DOMAIN o = 1 .. Len(o) /\ Len(o) \in Nat
    BY <1>2
  <2>. HIDE DEF o, t
  <2>. QED  BY <1>1, <1>2, <2>1, <2>2, AppendElements, AppendSet
<1>. HIDE DEF o, t, c
<1>7. \A b : Dropped(b)' <=> Dropped(b)
  BY <1>2 DEF Dropped
<1>8. \A i : \A n : Forwarded(i, n)' <=> Forwarded(i, n)
  BY <1>2 DEF Forwarded
<1>9. ASSUME NEW i \in DOMAIN peers
      PROVE  toPeer'[peers[i].port] = IF peers[i].port = p THEN t ELSE toPeer[peers[i].port]
  <2>1. peers[i].port \in Ports
    BY DEF TypeInv, BridgeOK, Peers
  <2>. QED  BY <1>2, <2>1 DEF TypeInv, NetOK
<1>10. AllSent'
  <2>1. \A i \in DOMAIN peers : ToSet(toPeer[peers[i].port]) \subseteq ToSet(toPeer'[peers[i].port])
    BY <1>6, <1>9 DEF o
  <2>. QED  BY <1>2, <1>7, <1>8, <2>1 DEF OrderInv, AllSent
<1>11. QueueInOrder'
  <2>. SUFFICES ASSUME NEW i \in DOMAIN peers, NEW q, q = toPeer'[peers[i].port],
                       NEW a \in DOMAIN q, NEW b \in DOMAIN q, a < b,
                       q[a].client = q[b].client, ~Dropped(q[b].client), ~Forwarded(i, q[b].seq)
                PROVE  q[a].seq < q[b].seq
    BY <1>2, <1>7, <1>8 DEF QueueInOrder
  <2>1. CASE peers[i].port # p
    BY <1>9, <2>1 DEF OrderInv, QueueInOrder
  <2>2. CASE peers[i].port = p
    <3>1. q = t /\ a \in 1 .. Len(o) + 1 /\ b \in 1 .. Len(o) + 1
      BY <1>6, <1>9, <2>2
    <3>2. b # Len(o) + 1
      BY <1>4, <1>5, <1>6, <2>2, <3>1
    <3>3. a \in 1 .. Len(o) /\ b \in 1 .. Len(o)
      BY <1>6, <3>1, <3>2
    <3>4. q[a] = o[a] /\ q[b] = o[b] /\ a \in DOMAIN o /\ b \in DOMAIN o
      BY <1>6, <3>1, <3>3
    <3>. QED  BY <2>2, <3>4 DEF OrderInv, QueueInOrder, o
  <2>. QED  BY <2>1, <2>2
<1>12. HeardBefore'
  <2>. SUFFICES ASSUME NEW i \in DOMAIN peers, NEW e \in ToSet(toPeer'[peers[i].port]), NEW v \in ToSet(heard[i]),
                       e.client = v.client, ~Dropped(e.client), ~Forwarded(i, e.seq)
                PROVE  v.event <= wire[e.client][e.seq].event
    BY <1>2, <1>7, <1>8 DEF HeardBefore
  <2>1. e \in ToSet(toPeer[peers[i].port])
    <3>1. CASE peers[i].port # p
      BY <1>9, <3>1
    <3>2. CASE peers[i].port = p
      BY <1>4, <1>5, <1>6, <1>9, <3>2 DEF o
    <3>. QED  BY <3>1, <3>2
  <2>. QED  BY <2>1 DEF OrderInv, HeardBefore
<1>13. HeardInOrderUnlessDropped'
  BY <1>2, OutOfOrderKept DEF OrderInv
<1>. QED  BY <1>10, <1>11, <1>12, <1>13 DEF OrderInv

LEMMA RelayDownOrder ==
    ASSUME TypeInv, PacketInv, TurnInv, OnceInv', OrderInv, NEW i \in Ids, RelayDown(i)
    PROVE  OrderInv'
<1>. DEFINE p == peers[i].port
            o == toPeer[p]
            d == Head(o)
            c == d.client
            s == d.seq
            pk == wire[c][s]
            v == Event(c, pk.event)
            T == [client : ClientIds, event : Seqs]
<1>1. /\ i \in DOMAIN peers /\ p \in Ports
      /\ o \in Seq(Copies) /\ o # <<>>
      /\ d = o[1] /\ 1 \in DOMAIN o
      /\ c \in ClientIds /\ s \in 1 .. Len(wire[c]) /\ pk \in Packets
  BY RelayDownCopy
<1>2. s \in DOMAIN wire[c]
  BY <1>1 DEF TypeInv, ServerOK
<1>3. /\ UNCHANGED <<lost, serverVars>>
      /\ DOMAIN peers' = DOMAIN peers
      /\ \A j \in DOMAIN peers : j # i => peers'[j] = peers[j]
      /\ peers'[i].port = p
      /\ \A j \in Ids : j # i => heard'[j] = heard[j]
      /\ \A q \in Ports : q # p => toPeer'[q] = toPeer[q]
      /\ toPeer'[p] = Tail(o)
      /\ Forwarded(i, s) => peers' = peers /\ heard' = heard
      /\ ~Forwarded(i, s) =>
            /\ peers'[i].forwarded = peers[i].forwarded \cup {s}
            /\ heard'[i] = heard[i] \/ (Completes(i, pk) /\ heard'[i] = Append(heard[i], v))
  BY RelayDownEffect
<1>4. /\ wire' = wire /\ clients' = clients
      /\ \A j \in DOMAIN peers : peers'[j].port = peers[j].port
  BY <1>3 DEF serverVars
<1>5. v \in T /\ v.client = c /\ v.event = pk.event
  BY <1>1 DEF Packets, Event
<1>6. heard \in [Ids -> Seq(T)]
  BY DEF TypeInv, SteamOK
<1>7. DOMAIN peers \subseteq Ids
  BY BridgeAssumption DEF TypeInv, BridgeOK, Ids
<1>. HIDE DEF p, o, d, c, s, pk, v, T
<1>8. \A b : Dropped(b)' <=> Dropped(b)
  BY <1>3 DEF Dropped
<1>9. /\ \A j \in DOMAIN peers : j # i => \A n : Forwarded(j, n)' <=> Forwarded(j, n)
      /\ \A n : Forwarded(i, n)' <=> (Forwarded(i, n) \/ n = s)
  BY <1>3 DEF Forwarded
<1>10. \A j \in DOMAIN peers : j # i => peers[j].port \in Ports /\ peers[j].port # p
  BY <1>1 DEF TypeInv, BridgeOK, Peers, TurnInv, PortsApart, p
<1>11. /\ DOMAIN toPeer'[p] = 1 .. Len(o) - 1 /\ Len(o) \in Nat
       /\ \A n \in 1 .. Len(o) - 1 : n + 1 \in DOMAIN o /\ toPeer'[p][n] = o[n + 1]
       /\ ToSet(toPeer'[p]) \subseteq ToSet(o)
       /\ ToSet(o) \subseteq ToSet(toPeer'[p]) \cup {d}
  <2>1. d = Head(o)
    BY DEF d
  <2>. QED  BY <1>1, <1>3, <2>1, TailElements, TailSet
<1>12. AllSent'
  <2>. SUFFICES ASSUME NEW j \in DOMAIN peers, NEW q \in DOMAIN clients, q = peers[j].port,
                       NEW b, b = clients[q].id, ~Dropped(b),
                       NEW n \in DOMAIN wire[b], ~Forwarded(j, n)'
                PROVE  Copy(b, n) \in ToSet(toPeer'[q])
    BY <1>3, <1>4, <1>8 DEF AllSent
  <2>1. CASE j # i
    BY <1>3, <1>9, <1>10, <2>1 DEF OrderInv, AllSent
  <2>2. CASE j = i
    <3>1. q = p /\ ~Forwarded(i, n) /\ n # s
      BY <1>9, <2>2 DEF p
    <3>2. Copy(b, n) \in ToSet(o)
      BY <1>1, <2>2, <3>1 DEF OrderInv, AllSent, o
    <3>3. Copy(b, n) # d
      BY <3>1 DEF Copy, s
    <3>. QED  BY <1>11, <3>1, <3>2, <3>3
  <2>. QED  BY <2>1, <2>2
<1>13. QueueInOrder'
  <2>. SUFFICES ASSUME NEW j \in DOMAIN peers, NEW q, q = toPeer'[peers[j].port],
                       NEW a \in DOMAIN q, NEW b \in DOMAIN q, a < b,
                       q[a].client = q[b].client, ~Dropped(q[b].client), ~Forwarded(j, q[b].seq)'
                PROVE  q[a].seq < q[b].seq
    BY <1>3, <1>4, <1>8 DEF QueueInOrder
  <2>1. CASE j # i
    BY <1>3, <1>9, <1>10, <2>1 DEF OrderInv, QueueInOrder
  <2>2. CASE j = i
    <3>1. /\ a \in 1 .. Len(o) - 1 /\ b \in 1 .. Len(o) - 1
          /\ q[a] = o[a + 1] /\ q[b] = o[b + 1] /\ a + 1 < b + 1
          /\ a + 1 \in DOMAIN o /\ b + 1 \in DOMAIN o
      BY <1>11, <2>2 DEF p
    <3>2. ~Forwarded(i, q[b].seq)
      BY <1>9, <2>2
    <3>. QED  BY <1>1, <3>1, <3>2 DEF OrderInv, QueueInOrder, o, p
  <2>. QED  BY <2>1, <2>2
<1>14. ASSUME NEW j \in Ids
       PROVE  \/ heard'[j] = heard[j]
              \/ j = i /\ ~Forwarded(i, s) /\ heard'[j] = Append(heard[j], v)
  BY <1>3
<1>15. ASSUME NEW e \in ToSet(toPeer'[p]), e.client = c, ~Dropped(c), ~Forwarded(i, s), ~Forwarded(i, e.seq)
       PROVE  pk.event <= wire[c][e.seq].event
  <2>1. PICK n \in 1 .. Len(o) - 1 : e = o[n + 1] /\ n + 1 \in DOMAIN o
    BY <1>11 DEF ToSet
  <2>2. o[1].seq < o[n + 1].seq
    <3>1. n + 1 \in DOMAIN o /\ 1 < n + 1
      BY <1>11, <2>1
    <3>2. o[1].client = o[n + 1].client /\ ~Dropped(o[n + 1].client) /\ ~Forwarded(i, o[n + 1].seq)
      BY <1>1, <1>15, <2>1 DEF c
    <3>. QED  BY <1>1, <3>1, <3>2 DEF OrderInv, QueueInOrder, o, p
  <2>3. e.seq \in DOMAIN wire[c]
    <3>1. e.seq \in 1 .. Len(wire[c])
      BY <1>1, <1>15, <2>1 DEF TypeInv, NetOK, o
    <3>. QED  BY <1>1, <3>1 DEF TypeInv, ServerOK
  <2>4. s <= e.seq
    <3>1. s \in Nat /\ e.seq \in Nat
      BY <1>1, <1>2, <2>3, PacketFields
    <3>. QED  BY <1>1, <2>1, <2>2, <3>1 DEF s
  <2>. QED  BY <1>1, <1>2, <2>3, <2>4 DEF PacketInv, Packed, pk
<1>16. HeardBefore'
  <2>. SUFFICES ASSUME NEW j \in DOMAIN peers, NEW e \in ToSet(toPeer'[peers[j].port]), NEW x \in ToSet(heard'[j]),
                       e.client = x.client, ~Dropped(e.client), ~Forwarded(j, e.seq)'
                PROVE  x.event <= wire[e.client][e.seq].event
    BY <1>3, <1>4, <1>8 DEF HeardBefore
  <2>0. e \in ToSet(toPeer[peers[j].port]) /\ ~Forwarded(j, e.seq)
    BY <1>3, <1>9, <1>10, <1>11 DEF o, p
  <2>1. CASE x \in ToSet(heard[j])
    BY <2>0, <2>1 DEF OrderInv, HeardBefore
  <2>2. CASE x \notin ToSet(heard[j])
    <3>1. j = i /\ ~Forwarded(i, s) /\ heard'[j] = Append(heard[j], v)
      BY <1>7, <1>14, <2>2
    <3>2. x = v
      <4>1. ToSet(Append(heard[j], v)) = ToSet(heard[j]) \cup {v}
        BY <1>5, <1>6, <1>7, AppendSet
      <4>. QED  BY <2>2, <3>1, <4>1
    <3>. QED  BY <1>5, <1>15, <2>0, <3>1, <3>2 DEF p
  <2>. QED  BY <2>1, <2>2
<1>17. ASSUME NEW e \in ToSet(heard[i]), e.client = c, ~Dropped(c), ~Forwarded(i, s)
       PROVE  e.event <= pk.event
  <2>1. d \in ToSet(o)
    BY <1>1 DEF ToSet
  <2>. QED  BY <1>1, <1>17, <2>1 DEF OrderInv, HeardBefore, pk, s, c, o, p
<1>18. HeardInOrderUnlessDropped'
  <2>. SUFFICES ASSUME NEW j \in Ids, NEW n \in DOMAIN heard'[j], NEW m \in DOMAIN heard'[j], n < m,
                       heard'[j][n].client = heard'[j][m].client, ~Dropped(heard'[j][m].client)
                PROVE  heard'[j][n].event < heard'[j][m].event
    BY <1>8 DEF HeardInOrderUnlessDropped, Dropped
  <2>1. CASE heard'[j] = heard[j]
    BY <2>1 DEF OrderInv, HeardInOrderUnlessDropped, Dropped
  <2>2. CASE j = i /\ ~Forwarded(i, s) /\ heard'[j] = Append(heard[j], v)
    <3>1. /\ heard[j] \in Seq(T) /\ DOMAIN heard[j] = 1 .. Len(heard[j]) /\ Len(heard[j]) \in Nat
          /\ DOMAIN heard'[j] = 1 .. Len(heard[j]) + 1
          /\ \A k \in 1 .. Len(heard[j]) : heard'[j][k] = heard[j][k]
          /\ heard'[j][Len(heard[j]) + 1] = v
      <4>1. heard[j] \in Seq(T)
        BY <1>6
      <4>2. DOMAIN heard[j] = 1 .. Len(heard[j]) /\ Len(heard[j]) \in Nat
        BY <4>1
      <4>. QED  BY <1>5, <2>2, <4>1, <4>2, AppendElements
    <3>2. n \in 1 .. Len(heard[j]) /\ (m \in 1 .. Len(heard[j]) \/ m = Len(heard[j]) + 1)
      BY <3>1
    <3>3. CASE m \in 1 .. Len(heard[j])
      BY <3>1, <3>2, <3>3 DEF OrderInv, HeardInOrderUnlessDropped, Dropped
    <3>4. CASE m = Len(heard[j]) + 1
      <4>. DEFINE e == heard[j][n]
      <4>1. heard'[j][n] = e /\ heard'[j][m] = v /\ e \in ToSet(heard[j]) /\ e \in T
        BY <3>1, <3>2, <3>4 DEF ToSet
      <4>2. e.event <= v.event
        BY <1>5, <1>17, <2>2, <4>1
      <4>3. e # v
        <5>1. heard'[j][n] # heard'[j][m]
          <6>1. n # m
            BY <3>1, <3>2, <3>4
          <6>. QED  BY <6>1 DEF OnceInv, HeardOnce
        <5>. QED  BY <4>1, <5>1
      <4>4. e.event # v.event /\ e.event \in Nat /\ v.event \in Nat
        <5>1. e.client = v.client
          BY <4>1
        <5>. QED  BY <1>5, <4>1, <4>3, <5>1 DEF T, Seqs
      <4>. QED  BY <4>1, <4>2, <4>4
    <3>. QED  BY <3>2, <3>3, <3>4
  <2>. QED  BY <1>14, <2>1, <2>2
<1>. QED  BY <1>12, <1>13, <1>16, <1>18 DEF OrderInv

\* Dropping a datagram that is on its way to a socket leaves it in lost.
LEMMA DropKeepsCopies ==
    ASSUME TypeInv, Drop
    PROVE  \A p \in Ports : ToSet(toPeer[p]) \subseteq ToSet(toPeer'[p]) \cup lost'
<1>. toPeer \in [Ports -> Seq(Copies)]
  BY DEF TypeInv, NetOK
<1>1. CASE UNCHANGED toPeer
  BY <1>1
<1>2. ASSUME NEW q \in Ports, NEW n \in DOMAIN toPeer[q],
             toPeer' = [toPeer EXCEPT ![q] = RemoveAt(@, n)],
             lost' = lost \cup {toPeer[q][n]}
      PROVE  \A p \in Ports : ToSet(toPeer[p]) \subseteq ToSet(toPeer'[p]) \cup lost'
  <2>1. ToSet(toPeer[q]) \subseteq ToSet(RemoveAt(toPeer[q], n)) \cup {toPeer[q][n]}
    BY RemoveSet
  <2>2. \A p \in Ports : toPeer'[p] = IF p = q THEN RemoveAt(toPeer[q], n) ELSE toPeer[p]
    BY <1>2
  <2>. QED  BY <1>2, <2>1, <2>2
<1>. QED  BY <1>1, <1>2 DEF Drop

LEMMA OrderStep ==
    ASSUME MayReusePorts = FALSE, TypeInv, TypeInv', PacketInv, TurnInv, OnceInv',
           OrderInv, [Next]_vars
    PROVE  OrderInv'
<1>0. \A i \in DOMAIN peers : peers[i].port \in Ports
  BY DEF TypeInv, BridgeOK, Peers
<1>1. ASSUME UNCHANGED <<heard, peers, wire, toPeer, lost>>,
             \A p \in DOMAIN clients' : SameId(p) \/ MadeEntry(p)
      PROVE  OrderInv'
  BY <1>1, OrderKept, DrawnSame
<1>2. \A p \in DOMAIN clients : clients' = clients => SameId(p)
  BY DEF SameId
<1>3. ASSUME NEW i \in Ids, NEW kind \in Kinds, GameSays(i, kind) PROVE OrderInv'
  BY <1>1, <1>2, <1>3 DEF GameSays, bridgeVars, serverVars, netVars
<1>4. ASSUME NEW i \in Ids, ConnectionEnds(i) PROVE OrderInv'
  BY <1>1, <1>2, <1>4 DEF ConnectionEnds, bridgeVars, serverVars, netVars
<1>5. ASSUME NEW i \in Ids, Disconnected(i) PROVE OrderInv'
  <2>1. /\ DOMAIN peers' = DOMAIN peers \ {i} /\ i \in DOMAIN peers
        /\ \A j \in DOMAIN peers' : peers'[j] = peers[j]
        /\ \A p \in Ports : toPeer'[p] = IF p = peers[i].port THEN <<>> ELSE toPeer[p]
    BY <1>5, DisconnectedQueues
  <2>2. \A p \in Ports : Drawn(toPeer'[p], toPeer[p])
    BY <2>1, DrawnSame, DrawnNothing
  <2>3. UNCHANGED <<heard, wire, clients, lost>>
    BY <1>5 DEF Disconnected, serverVars
  <2>4. \A j \in DOMAIN peers' : toPeer'[peers[j].port] = toPeer[peers[j].port]
    BY <1>0, <2>1 DEF TurnInv, PortsApart
  <2>5. \A j \in DOMAIN peers' : ToSet(toPeer[peers[j].port]) \subseteq ToSet(toPeer'[peers[j].port]) \cup lost'
    BY <2>4
  <2>. QED  BY <1>2, <2>1, <2>2, <2>3, <2>5, OrderKept
<1>6. ASSUME NEW i \in Ids, RelayUp(i) PROVE OrderInv'
  <2>1. /\ DOMAIN peers' = DOMAIN peers
        /\ \A j \in DOMAIN peers : /\ peers'[j].port = peers[j].port
                                   /\ peers'[j].forwarded = peers[j].forwarded
    BY <1>6 DEF RelayUp, TypeInv, BridgeOK, Peers
  <2>2. UNCHANGED <<heard, wire, clients, toPeer, lost>>
    BY <1>6 DEF RelayUp, serverVars
  <2>3. \A p \in Ports : Drawn(toPeer'[p], toPeer[p])
    BY <2>2, DrawnSame
  <2>. QED  BY <1>2, <2>1, <2>2, <2>3, OrderKept
<1>7. ASSUME ServerReceive PROVE OrderInv'
  BY <1>1, <1>7, ReceiveEntries DEF steamVars, bridgeVars, SameEntry
<1>8. ASSUME NEW p \in Ports, TimeOut(p) PROVE OrderInv'
  <2>1. \A q \in DOMAIN clients' : SameId(q)
    BY <1>8 DEF TimeOut, Without, SameId
  <2>. QED  BY <1>1, <1>8, <2>1 DEF TimeOut, steamVars, bridgeVars, netVars
<1>9. ASSUME Drop PROVE OrderInv'
  <2>1. UNCHANGED <<heard, peers, wire, clients>>
    BY <1>9 DEF Drop, steamVars, bridgeVars, serverVars
  <2>2. lost \subseteq lost'
    BY <1>9 DEF Drop
  <2>3. \A p \in Ports : Drawn(toPeer'[p], toPeer[p])
    BY <1>9, DropDrawn
  <2>4. \A i \in DOMAIN peers' : ToSet(toPeer[peers[i].port]) \subseteq ToSet(toPeer'[peers[i].port]) \cup lost'
    BY <1>0, <1>9, <2>1, DropKeepsCopies
  <2>. QED  BY <1>2, <2>1, <2>2, <2>3, <2>4, OrderKept
<1>10. CASE UNCHANGED vars
  BY <1>1, <1>2, <1>10 DEF vars, steamVars, bridgeVars, serverVars, netVars
<1>11. ASSUME NEW p \in Ports, NEW s \in Seqs, GiveUp(p, s) PROVE OrderInv'
  <2>1. \A q \in DOMAIN clients' : SameId(q)
    BY <1>11, GiveUpPending DEF SameId
  <2>. QED  BY <1>1, <1>11, <2>1 DEF GiveUp, steamVars, bridgeVars, netVars
<1>12. ASSUME NEW p \in Ports, NEW s \in Seqs, Resend(p, s) PROVE OrderInv'
  <2>1. CASE p \in Bound
    BY <1>12, <2>1, ResendOrder
  <2>2. CASE p \notin Bound
    BY <1>1, <1>2, <1>12, <2>2 DEF Resend, Sent, steamVars, bridgeVars
  <2>. QED  BY <2>1, <2>2
<1>. QED
  BY <1>3, <1>4, <1>5, <1>6, <1>7, <1>8, <1>9, <1>10, <1>11, <1>12,
     ConnectedOrder, RelayDownOrder, SendReliableOrder DEF Next

\* What the server sends to a client reaches Steam in the order in which it was
\* sent, unless the loopback drops something sent to that client; ports are not
\* given again before the server has noticed.
THEOREM EventsAreHeardInOrder ==
    ASSUME MayReusePorts = FALSE
    PROVE  Spec => []HeardInOrderUnlessDropped
<1>1. TypeInv /\ TypeInv' /\ (PacketInv /\ TurnInv /\ OnceInv) /\ (PacketInv /\ TurnInv /\ OnceInv)'
            /\ OrderInv /\ [Next]_vars => OrderInv'
  BY OrderStep
<1>2. OrderInv => HeardInOrderUnlessDropped
  BY DEF OrderInv
<1>. QED  BY <1>1, <1>2, TypesHold, OnceHolds, InitOrderInv, PTL DEF Spec

-----------------------------------------------------------------------------
(* Acknowledged is heard *)

\* The bridge acknowledges what it has forwarded.
AcksForwarded ==
    \A i \in DOMAIN peers : \A f \in ToSet(toServer) :
        (f.kind = "ack" /\ f.port = peers[i].port) => Forwarded(i, f.seq)

\* A Disconnect is the last a game says.
GoodbyeIsLast ==
    /\ \A i \in Ids : \A n \in DOMAIN inbox[i] :
            inbox[i][n].kind = "bye" => n = Len(inbox[i]) /\ i \in left
    /\ \A n \in DOMAIN toServer : LET i == toServer[n].peer IN
            toServer[n].kind = "bye" =>
                /\ i \in left /\ inbox[i] = <<>>
                /\ \A m \in DOMAIN toServer : (n < m /\ toServer[m].peer = i) => toServer[m].kind = "ack"

\* Every event of an entry has packets, and an entry that has heard no event has
\* made none.
EventsMade ==
    \A p \in DOMAIN clients :
        /\ clients[p].processed = {} => clients[p].nextEvent = 1
        /\ \A e \in 1 .. clients[p].nextEvent - 1 : EventPackets(clients[p].id, e) # {}

\* What became of a complete event: Steam has taken it or refused it.
Had(i, c, e) == Event(c, e) \in ToSet(heard[i]) \/ Refused(i, c, e)

\* The packets of an event a peer has applied; all of them count for the event
\* until it is complete.
Arrived(i, c, e) == {s \in EventPackets(c, e) : Forwarded(i, s)}
Counted(i, c, s) ==
    LET pk == wire[c][s]
    IN  \/ Had(i, c, pk.event)
        \/ pk.chunk = 0 /\ ~Forwarded(i, s)
        \/ /\ pk.chunk # 0
           /\ Halfway(i, pk).total = pk.of
           /\ Halfway(i, pk).have = Cardinality(Arrived(i, c, pk.event))
           /\ Halfway(i, pk).have < pk.of

\* All a peer has and gets is of client c.
Follows(i, c) ==
    /\ \A d \in ToSet(toPeer[peers[i].port]) : d.client = c
    /\ \A k \in Seqs : peers[i].inbound[k].total # 0 =>
            \E s \in DOMAIN wire[c] : wire[c][s].chunk = k
    /\ peers[i].forwarded \subseteq DOMAIN wire[c]
    /\ \A s \in DOMAIN wire[c] : Counted(i, c, s)

\* A peer has an entry that it alone follows and for which every packet that
\* waits no more was forwarded or given up,
Served(i) ==
    \E p \in DOMAIN clients \cap {peers[i].port} :
        /\ Follows(i, clients[p].id)
        /\ \A s \in DOMAIN wire[clients[p].id] \ clients[p].pending :
                Forwarded(i, s) \/ Copy(clients[p].id, s) \in givenUp

\* or has not been noticed yet,
Blank(i) ==
    /\ peers[i].port \notin DOMAIN clients
    /\ toPeer[peers[i].port] = <<>> /\ peers[i].forwarded = {}
    /\ \A k \in Seqs : peers[i].inbound[k].total = 0

\* or its game is gone or has said goodbye, and it at most acknowledges what is
\* still on its way.
Gone(i) == i \in left \/ i \notin up
Parted(i) ==
    /\ Gone(i) /\ inbox[i] = <<>>
    /\ \A f \in ToSet(toServer) : f.port = peers[i].port => f.kind = "ack"
    /\ \A p \in DOMAIN clients \cap {peers[i].port} : clients[p].processed = {}

Answered(i) == Served(i) \/ Blank(i) \/ Parted(i)

AckInv ==
    /\ AcksForwarded /\ GoodbyeIsLast /\ EventsMade
    /\ \A i \in DOMAIN peers : Answered(i)

LEMMA InitAckInv == Init => AckInv
BY DEF Init, AckInv, AcksForwarded, GoodbyeIsLast, EventsMade

LEMMA AckInvImplies ==
    ASSUME TypeInv, PacketInv, AckInv PROVE AckedIsHeard
<1>. SUFFICES ASSUME NEW i \in DOMAIN peers, NEW p \in DOMAIN clients \cap {peers[i].port},
                     NEW c, c = clients[p].id,
                     NEW e \in 1 .. clients[p].nextEvent - 1,
                     \A s \in DOMAIN wire[c] : wire[c][s].event = e => Acked(p, s)
              PROVE  Contains(heard[i], Event(c, e)) \/ Refused(i, c, e)
  BY DEF AckedIsHeard
<1>1. c \in ClientIds /\ clients[p].nextEvent \in Nat
  BY DEF TypeInv, ServerOK, Entries
<1>2. Served(i)
  <2>1. clients[p].nextEvent # 1
    BY <1>1
  <2>2. ~Blank(i) /\ ~Parted(i)
    BY <2>1 DEF Blank, Parted, AckInv, EventsMade
  <2>. QED  BY <2>2 DEF AckInv, Answered
<1>3. /\ \A s \in DOMAIN wire[c] \ clients[p].pending : Forwarded(i, s) \/ Copy(c, s) \in givenUp
      /\ \A s \in DOMAIN wire[c] : Counted(i, c, s)
  BY <1>2 DEF Served, Follows
<1>4. PICK s \in DOMAIN wire[c] : wire[c][s].event = e
  <2>1. EventPackets(c, e) # {}
    BY DEF AckInv, EventsMade
  <2>. QED  BY <2>1 DEF EventPackets
<1>5. Arrived(i, c, e) = EventPackets(c, e)
  <2>1. \A n \in EventPackets(c, e) : n \in DOMAIN wire[c] \ clients[p].pending /\ Copy(c, n) \notin givenUp
    BY DEF EventPackets, Acked
  <2>2. \A n \in EventPackets(c, e) : Forwarded(i, n)
    BY <1>3, <2>1
  <2>. QED  BY <2>2 DEF Arrived
<1>6. Cardinality(Arrived(i, c, e)) = wire[c][s].of /\ wire[c][s].of \in Nat
  BY <1>1, <1>4, <1>5, PacketsOfEvent, PacketFields
<1>7. Forwarded(i, s)
  BY <1>4, <1>5 DEF Arrived, EventPackets
<1>8. Had(i, c, e)
  <2>1. Counted(i, c, s)
    BY <1>3
  <2>2. \/ Had(i, c, wire[c][s].event)
        \/ /\ Halfway(i, wire[c][s]).have = Cardinality(Arrived(i, c, wire[c][s].event))
           /\ Halfway(i, wire[c][s]).have < wire[c][s].of
    BY <1>7, <2>1 DEF Counted
  <2>. QED  BY <1>4, <1>6, <2>2
<1>9. i \in Ids /\ heard[i] \in Seq([client : ClientIds, event : Seqs])
  <2>1. i \in Ids
    BY BridgeAssumption DEF TypeInv, BridgeOK, Ids
  <2>. QED  BY <2>1 DEF TypeInv, SteamOK
<1>. QED  BY <1>8, <1>9 DEF Contains, ToSet, Had

\* A packet a peer applies counts for its event.
LEMMA CountedStays ==
    ASSUME TypeInv, PacketInv, NEW i \in DOMAIN peers,
           NEW c \in ClientIds, NEW s \in DOMAIN wire[c], ~Forwarded(i, s),
           wire' = wire,
           peers'[i].forwarded = peers[i].forwarded \cup {s},
           peers'[i].inbound = InboundAfter(i, wire[c][s]),
           ToSet(heard[i]) \subseteq ToSet(heard'[i]), refused \subseteq refused',
           Completes(i, wire[c][s]) => Had(i, c, wire[c][s].event)',
           \A t \in DOMAIN wire[c] : Counted(i, c, t),
           NEW t \in DOMAIN wire[c]
    PROVE  Counted(i, c, t)'
<1>. DEFINE pk == wire[c][s]
            b == wire[c][t]
            A == Arrived(i, c, b.event)
<1>1. /\ pk.event \in Nat /\ pk.piece \in Nat /\ pk.of \in Nat \ {0} /\ pk.chunk \in 0 .. MaxPackets
      /\ b.event \in Nat /\ b.piece \in Nat /\ b.of \in Nat \ {0} /\ b.chunk \in 0 .. MaxPackets
      /\ s \in Nat /\ t \in Nat
  BY PacketFields
<1>2. /\ pk.piece <= pk.of /\ b.piece <= b.of
      /\ pk.chunk = 0 => pk.of = 1
      /\ b.event = pk.event => b.of = pk.of /\ b.chunk = pk.chunk /\ t - b.piece = s - pk.piece
      /\ (b.chunk = pk.chunk /\ b.chunk # 0) => b.event = pk.event
  BY DEF PacketInv, Packed
<1>3. peers[i].inbound \in [Seqs -> Half]
  BY DEF TypeInv, BridgeOK, Peers
<1>4. \A n : Forwarded(i, n)' <=> (Forwarded(i, n) \/ n = s)
  BY DEF Forwarded
<1>5. CASE Had(i, c, b.event)
  BY <1>5 DEF Counted, Had, Refused
<1>6. CASE b.event # pk.event /\ ~Had(i, c, b.event)
  <2>1. t # s
    BY <1>6
  <2>2. Arrived(i, c, b.event)' = A
    BY <1>4, <1>6 DEF Arrived, EventPackets
  <2>3. b.chunk # 0 => Halfway(i, b)' = Halfway(i, b)
    <3>1. ASSUME b.chunk # 0 PROVE peers'[i].inbound[b.chunk] = peers[i].inbound[b.chunk]
      <4>1. b.chunk # pk.chunk
        BY <1>2, <1>6, <3>1
      <4>. QED  BY <1>3, <4>1 DEF InboundAfter
    <3>. QED  BY <3>1 DEF Halfway
  <2>4. \/ b.chunk = 0 /\ ~Forwarded(i, t)
        \/ /\ b.chunk # 0
           /\ Halfway(i, b).total = b.of
           /\ Halfway(i, b).have = Cardinality(A)
           /\ Halfway(i, b).have < b.of
    <3>1. Counted(i, c, t)
      OBVIOUS
    <3>. QED  BY <1>6, <3>1 DEF Counted
  <2>5. CASE b.chunk = 0
    BY <1>4, <2>1, <2>4, <2>5 DEF Counted
  <2>6. CASE b.chunk # 0
    <3>1. /\ Halfway(i, b)'.total = b.of
          /\ Halfway(i, b)'.have = Cardinality(A)
          /\ Halfway(i, b)'.have < b.of
      BY <2>3, <2>4, <2>6
    <3>. HIDE DEF A
    <3>. QED  BY <2>2, <2>6, <3>1 DEF Counted
  <2>. QED  BY <2>5, <2>6
<1>7. CASE b.event = pk.event /\ ~Had(i, c, b.event)
  <2>1. CASE Completes(i, pk)
    BY <1>7, <2>1 DEF Counted
  <2>2. CASE ~Completes(i, pk)
    <3>1. /\ pk.chunk # 0
          /\ Halfway(i, pk).total = pk.of
          /\ Halfway(i, pk).have = Cardinality(A)
          /\ Halfway(i, pk).have < pk.of
      <4>1. Counted(i, c, s)
        OBVIOUS
      <4>2. pk.chunk # 0
        BY <2>2 DEF Completes
      <4>. QED  BY <1>7, <4>1, <4>2 DEF Counted
    <3>2. pk.chunk \in Seqs
      BY <1>1, <3>1, BridgeAssumption DEF Seqs
    <3>3. Halfway(i, pk).have \in Nat /\ Halfway(i, pk) = [have |-> Halfway(i, pk).have, total |-> pk.of]
      <4>1. peers[i].inbound[pk.chunk] \in Half
        BY <1>3, <3>2
      <4>2. Halfway(i, pk).have \in Nat /\ Halfway(i, pk) = [have |-> Halfway(i, pk).have, total |-> Halfway(i, pk).total]
        BY <4>1 DEF Half, Halfway
      <4>. HIDE DEF pk
      <4>. QED  BY <3>1, <4>2
    <3>4. Halfway(i, pk).have + 1 < pk.of
      <4>. HIDE DEF pk
      <4>. QED  BY <1>1, <1>2, <2>2, <3>1, <3>3 DEF Completes
    <3>5. peers'[i].inbound[pk.chunk] = [have |-> Halfway(i, pk).have + 1, total |-> pk.of]
      <4>1. peers'[i].inbound[pk.chunk] = [Halfway(i, pk) EXCEPT !.have = @ + 1]
        <5>1. ~(pk.piece > Halfway(i, pk).total)
          <6>. HIDE DEF pk
          <6>. QED  BY <1>1, <1>2, <3>1
        <5>. QED  BY <1>3, <2>2, <3>1, <3>2, <5>1 DEF InboundAfter
      <4>. HIDE DEF pk
      <4>. QED  BY <3>3, <4>1
    <3>6. b.chunk = pk.chunk /\ b.of = pk.of
      BY <1>2, <1>7
    <3>7. Halfway(i, b)' = [have |-> Halfway(i, pk).have + 1, total |-> pk.of]
      BY <1>1, <3>5, <3>6 DEF Halfway
    <3>8. Cardinality(Arrived(i, c, b.event)') = Cardinality(A) + 1
      <4>1. Arrived(i, c, b.event)' = A \cup {s} /\ s \notin A
        BY <1>4, <1>7 DEF Arrived, EventPackets
      <4>2. IsFiniteSet(A)
        <5>1. IsFiniteSet(EventPackets(c, b.event))
          BY PacketsOfEvent
        <5>2. A \in SUBSET EventPackets(c, b.event)
          BY DEF Arrived
        <5>. HIDE DEF A
        <5>. QED  BY <5>1, <5>2, FS_Subset
      <4>. HIDE DEF A
      <4>. QED  BY <4>1, <4>2, FS_AddElement
    <3>. QED  BY <3>1, <3>4, <3>6, <3>7, <3>8 DEF Counted
  <2>. QED  BY <2>1, <2>2
<1>. QED  BY <1>5, <1>6, <1>7

\* A step that leaves what a peer and its entry know of each other.
LEMMA AnsweredKept ==
    ASSUME NEW i, Answered(i), NEW p, p = peers[i].port,
           peers'[i].port = p,
           peers'[i].forwarded = peers[i].forwarded,
           peers'[i].inbound = peers[i].inbound,
           heard'[i] = heard[i], refused \subseteq refused', givenUp \subseteq givenUp',
           toPeer'[p] \in Seq(Copies), ToSet(toPeer'[p]) \subseteq ToSet(toPeer[p]),
           p \in DOMAIN clients' <=> p \in DOMAIN clients,
           p \in DOMAIN clients => /\ clients'[p] = clients[p]
                                   /\ wire'[clients[p].id] = wire[clients[p].id],
           Parted(i) => /\ Gone(i)' /\ inbox'[i] = <<>>
                        /\ \A f \in ToSet(toServer') : f.port = p => f.kind = "ack"
    PROVE  Answered(i)'
<1>1. \A s : Forwarded(i, s)' <=> Forwarded(i, s)
  BY DEF Forwarded
<1>2. ASSUME Parted(i) PROVE Parted(i)'
  BY <1>2 DEF Parted
<1>3. ASSUME Blank(i) PROVE Blank(i)'
  <2>1. toPeer'[p] = <<>>
    <3>1. ToSet(toPeer[p]) = {}
      BY <1>3 DEF Blank, ToSet
    <3>. QED  BY <3>1, NothingIn
  <2>. QED  BY <1>3, <2>1 DEF Blank
<1>4. ASSUME Served(i) PROVE Served(i)'
  <2>0. PICK c : c = clients[p].id
    OBVIOUS
  <2>1. /\ p \in DOMAIN clients
        /\ Follows(i, c)
        /\ \A s \in DOMAIN wire[c] \ clients[p].pending : Forwarded(i, s) \/ Copy(c, s) \in givenUp
    BY <1>4, <2>0 DEF Served
  <2>2. wire'[c] = wire[c] /\ p \in DOMAIN clients' /\ clients'[p] = clients[p]
    BY <2>0, <2>1
  <2>3. ASSUME NEW s \in DOMAIN wire[c], Counted(i, c, s) PROVE Counted(i, c, s)'
    <3>1. \A e : Arrived(i, c, e)' = Arrived(i, c, e)
      BY <1>1, <2>2 DEF Arrived, EventPackets
    <3>2. \A pk : Halfway(i, pk)' = Halfway(i, pk)
      BY DEF Halfway
    <3>3. \A e : Had(i, c, e) => Had(i, c, e)'
      BY DEF Had, Refused
    <3>. QED  BY <1>1, <2>2, <2>3, <3>1, <3>2, <3>3 DEF Counted
  <2>4. Follows(i, c)'
    BY <2>1, <2>2, <2>3 DEF Follows
  <2>. QED  BY <1>1, <2>0, <2>1, <2>2, <2>4 DEF Served
<1>. QED  BY <1>2, <1>3, <1>4 DEF Answered

\* What ServerReceive does for a datagram d with the sender's entry k; the other
\* entries stay.
EntryOf(p) == IF p \in DOMAIN clients THEN clients[p] ELSE NewEntry(nextClient)
Received(d, p, k) ==
    /\ toServer \in Seq(Frames) /\ toServer # <<>> /\ toServer' = Tail(toServer)
    /\ UNCHANGED <<steamVars, bridgeVars, wire, givenUp, toPeer, lost>>
    /\ d \in Frames /\ p \in Ports /\ k \in Entries
    /\ p \in DOMAIN clients \/ nextClient \in ClientIds
    /\ \A q \in Ports : q # p =>
            /\ q \in DOMAIN clients' <=> q \in DOMAIN clients
            /\ q \in DOMAIN clients => clients'[q] = clients[q]
    /\ p \notin DOMAIN clients' => d.kind = "bye"
    /\ p \in DOMAIN clients' =>
            /\ d.kind = "bye" => p \in DOMAIN clients
            /\ clients'[p].id = k.id /\ clients'[p].nextEvent = k.nextEvent
            /\ clients'[p].pending = IF d.kind = "ack" THEN k.pending \ {d.seq} ELSE k.pending
            /\ k.processed \subseteq clients'[p].processed
            /\ d.kind = "ack" => clients'[p].processed = k.processed

LEMMA ReceivedEntry ==
    ASSUME TypeInv, ServerReceive,
           NEW d, d = Head(toServer), NEW p, p = d.port, NEW k, k = EntryOf(p)
    PROVE  Received(d, p, k)
<1>. DEFINE known == Known(p)
<1>1. toServer \in Seq(Frames) /\ toServer # <<>> /\ toServer' = Tail(toServer) /\ Handle(d)
  BY DEF TypeInv, NetOK, ServerReceive
<1>2. d \in Frames
  BY <1>1, TailElements
<1>3. /\ p \in Ports
      /\ p \in DOMAIN clients \/ nextClient \in ClientIds
  BY <1>1, <1>2 DEF Frames, Handle
<1>4. /\ DOMAIN known = DOMAIN clients \cup {p}
      /\ known \in [DOMAIN clients \cup {p} -> Entries]
      /\ known[p] = k
      /\ \A r \in DOMAIN clients : known[r] = clients[r]
  BY <1>3, KnownType DEF EntryOf
<1>5. k \in Entries
  BY <1>4
<1>6. \/ d.kind = "ack" /\ clients' = [known EXCEPT ![p].pending = @ \ {d.seq}]
      \/ d.kind = "event" /\ clients' = [known EXCEPT ![p].processed = @ \cup {d.seq}]
      \/ d.kind \in {"state", "event"} /\ clients' = known
      \/ d.kind = "bye" /\ d.seq \in k.processed /\ clients' = known
      \/ d.kind = "bye" /\ clients' = Without(p)
  BY <1>1, <1>2, <1>4 DEF Handle, Frames, Kinds
<1>. HIDE DEF known
<1>7. p \notin DOMAIN clients => k.processed = {}
  BY DEF EntryOf, NewEntry
<1>8. CASE d.kind = "ack" /\ clients' = [known EXCEPT ![p].pending = @ \ {d.seq}]
  <2>1. clients'[p] = [k EXCEPT !.pending = @ \ {d.seq}]
    BY <1>4, <1>8
  <2>2. DOMAIN clients' = DOMAIN clients \cup {p} /\ \A q \in DOMAIN clients : q # p => clients'[q] = clients[q]
    BY <1>4, <1>8
  <2>3. /\ clients'[p].id = k.id /\ clients'[p].nextEvent = k.nextEvent
        /\ clients'[p].pending = k.pending \ {d.seq} /\ clients'[p].processed = k.processed
    BY <1>5, <2>1 DEF Entries
  <2>. QED  BY <1>1, <1>2, <1>3, <1>5, <1>8, <2>2, <2>3 DEF ServerReceive, Received
<1>9. CASE d.kind = "event" /\ clients' = [known EXCEPT ![p].processed = @ \cup {d.seq}]
  <2>1. clients'[p] = [k EXCEPT !.processed = @ \cup {d.seq}]
    BY <1>4, <1>9
  <2>2. DOMAIN clients' = DOMAIN clients \cup {p} /\ \A q \in DOMAIN clients : q # p => clients'[q] = clients[q]
    BY <1>4, <1>9
  <2>3. /\ clients'[p].id = k.id /\ clients'[p].nextEvent = k.nextEvent
        /\ clients'[p].pending = k.pending /\ k.processed \subseteq clients'[p].processed
    BY <1>5, <2>1 DEF Entries
  <2>. QED  BY <1>1, <1>2, <1>3, <1>5, <1>9, <2>2, <2>3 DEF ServerReceive, Received
<1>10. CASE d.kind # "ack" /\ clients' = known /\ (d.kind = "bye" => d.seq \in k.processed)
  BY <1>1, <1>2, <1>3, <1>4, <1>5, <1>7, <1>10 DEF ServerReceive, Received
<1>11. CASE d.kind = "bye" /\ clients' = Without(p)
  BY <1>1, <1>2, <1>3, <1>5, <1>11 DEF ServerReceive, Without, Received
<1>. QED  BY <1>6, <1>8, <1>9, <1>10, <1>11

\* A step that leaves the order of the datagrams that stay.
LEMMA GoodbyeKept ==
    ASSUME TypeInv, GoodbyeIsLast, Drawn(toServer', toServer),
           left \subseteq left',
           \A i \in Ids : \/ inbox'[i] = inbox[i]
                          \/ inbox'[i] = <<>>
                          \/ /\ i \notin left
                             /\ \A n \in DOMAIN inbox'[i] :
                                    inbox'[i][n].kind = "bye" => n = Len(inbox'[i]) /\ i \in left'
    PROVE  GoodbyeIsLast'
<1>1. ASSUME NEW i \in Ids, NEW n \in DOMAIN inbox'[i], inbox'[i][n].kind = "bye"
      PROVE  n = Len(inbox'[i]) /\ i \in left'
  BY <1>1 DEF GoodbyeIsLast
<1>2. ASSUME NEW n \in DOMAIN toServer', NEW i, i = toServer'[n].peer, toServer'[n].kind = "bye"
      PROVE  /\ i \in left' /\ inbox'[i] = <<>>
             /\ \A m \in DOMAIN toServer' : (n < m /\ toServer'[m].peer = i) => toServer'[m].kind = "ack"
  <2>1. PICK a \in DOMAIN toServer : toServer[a] = toServer'[n]
    <3>1. toServer'[n] \in ToSet(toServer')
      BY DEF ToSet
    <3>2. toServer'[n] \in ToSet(toServer)
      BY <3>1 DEF Drawn
    <3>. QED  BY <3>2 DEF ToSet
  <2>2. i \in left /\ inbox[i] = <<>>
    BY <1>2, <2>1 DEF GoodbyeIsLast
  <2>3. i \in left' /\ inbox'[i] = <<>>
    BY <2>2 DEF TypeInv, SteamOK
  <2>4. ASSUME NEW m \in DOMAIN toServer', n < m, toServer'[m].peer = i
        PROVE  toServer'[m].kind = "ack"
    <3>1. PICK x \in DOMAIN toServer, y \in DOMAIN toServer :
                x < y /\ toServer[x] = toServer'[n] /\ toServer[y] = toServer'[m]
      BY <2>4 DEF Drawn
    <3>. QED  BY <1>2, <2>4, <3>1 DEF GoodbyeIsLast
  <2>. QED  BY <2>3, <2>4
<1>. QED  BY <1>1, <1>2 DEF GoodbyeIsLast

\* A step that neither server nor games see.
LEMMA AckKept ==
    ASSUME TypeInv, TypeInv', AckInv,
           DOMAIN peers' \subseteq DOMAIN peers,
           refused \subseteq refused', givenUp \subseteq givenUp',
           \A i \in DOMAIN peers' :
                /\ peers'[i].port = peers[i].port
                /\ peers'[i].forwarded = peers[i].forwarded
                /\ peers'[i].inbound = peers[i].inbound,
           UNCHANGED <<heard, wire, clients>>,
           \A i \in DOMAIN peers' : ToSet(toPeer'[peers[i].port]) \subseteq ToSet(toPeer[peers[i].port]),
           \A f \in ToSet(toServer') : f \in ToSet(toServer) \/ f.kind # "ack",
           \A i \in DOMAIN peers' : Parted(i) =>
                /\ Gone(i)' /\ inbox'[i] = <<>>
                /\ \A f \in ToSet(toServer') : f.port = peers[i].port => f.kind = "ack",
           GoodbyeIsLast'
    PROVE  AckInv'
<1>1. AcksForwarded'
  BY DEF AckInv, AcksForwarded, Forwarded
<1>2. EventsMade'
  BY DEF AckInv, EventsMade, EventPackets
<1>3. ASSUME NEW i \in DOMAIN peers' PROVE Answered(i)'
  <2>1. i \in DOMAIN peers /\ peers[i].port \in Ports
    BY <1>3 DEF TypeInv, BridgeOK, Peers
  <2>2. Answered(i)
    BY <2>1 DEF AckInv
  <2>3. toPeer'[peers[i].port] \in Seq(Copies)
    BY <2>1 DEF TypeInv, NetOK
  <2>. QED  BY <2>2, <2>3, AnsweredKept
<1>. QED  BY <1>1, <1>2, <1>3 DEF AckInv

LEMMA GameSaysAck ==
    ASSUME TypeInv, TypeInv', AckInv, NEW i \in Ids, NEW kind \in Kinds, GameSays(i, kind)
    PROVE  AckInv'
<1>. DEFINE m == [kind |-> kind, n |-> Len(said) + 1]
            o == inbox[i]
<1>1. /\ i \in up \ left /\ left' = IF kind = "bye" THEN left \cup {i} ELSE left
      /\ inbox' = [inbox EXCEPT ![i] = Append(o, m)]
      /\ UNCHANGED <<up, refused, givenUp, heard, peers, wire, clients, toServer, toPeer>>
  BY DEF GameSays, bridgeVars, serverVars, netVars
<1>2. inbox \in [Ids -> Seq(Messages)] /\ m \in Messages
  <2>1. Len(said) + 1 \in 1 .. MaxSaid
    BY BridgeAssumption DEF GameSays, TypeInv, SteamOK
  <2>. QED  BY <2>1 DEF TypeInv, SteamOK, Messages
<1>3. m.kind = kind
  OBVIOUS
<1>. HIDE DEF m
<1>4. /\ Len(o) \in Nat /\ DOMAIN inbox'[i] = 1 .. Len(o) + 1 /\ Len(inbox'[i]) = Len(o) + 1
      /\ \A n \in 1 .. Len(o) : n \in DOMAIN o /\ inbox'[i][n] = o[n]
      /\ inbox'[i][Len(o) + 1] = m
  <2>1. o \in Seq(Messages) /\ inbox'[i] = Append(o, m)
    BY <1>1, <1>2
  <2>2. Len(o) \in Nat /\ DOMAIN o = 1 .. Len(o)
    BY <2>1
  <2>. HIDE DEF o
  <2>. QED  BY <1>2, <2>1, <2>2, AppendElements
<1>5. \A j \in Ids : j # i => inbox'[j] = inbox[j]
  BY <1>1, <1>2
<1>6. \A n \in DOMAIN o : o[n].kind # "bye"
  BY <1>1 DEF AckInv, GoodbyeIsLast
<1>7. \A n \in DOMAIN inbox'[i] : inbox'[i][n].kind = "bye" => n = Len(inbox'[i]) /\ i \in left'
  <2>. HIDE DEF o
  <2>. SUFFICES ASSUME NEW n \in 1 .. Len(o) + 1, inbox'[i][n].kind = "bye"
                PROVE  n = Len(o) + 1 /\ kind = "bye"
    BY <1>1, <1>4
  <2>1. n \notin 1 .. Len(o)
    BY <1>4, <1>6
  <2>. QED  BY <1>3, <1>4, <2>1
<1>8. GoodbyeIsLast'
  BY <1>1, <1>5, <1>7, DrawnSame, GoodbyeKept DEF AckInv
<1>9. \A j \in DOMAIN peers : Parted(j) => Gone(j)' /\ inbox'[j] = <<>>
  <2>1. DOMAIN peers \subseteq Ids
    BY BridgeAssumption DEF TypeInv, BridgeOK, Ids
  <2>. QED  BY <1>1, <1>5, <2>1 DEF Parted, Gone
<1>10. \A j \in DOMAIN peers : Parted(j) => \A f \in ToSet(toServer') : f.port = peers[j].port => f.kind = "ack"
  BY <1>1 DEF Parted
<1>. QED  BY <1>1, <1>8, <1>9, <1>10, AckKept

LEMMA RelayUpAck ==
    ASSUME TypeInv, TypeInv', TurnInv, AckInv, NEW i \in Ids, RelayUp(i) PROVE AckInv'
<1>. DEFINE o == inbox[i]
            m == Head(o)
            f == [port |-> peers[i].port, peer |-> i, kind |-> m.kind, n |-> m.n,
                  seq |-> IF m.kind = "state" THEN 0 ELSE peers[i].nextSeq]
<1>1. /\ i \in DOMAIN peers /\ o # <<>> /\ toServer' = Append(toServer, f)
      /\ inbox' = [inbox EXCEPT ![i] = Tail(o)]
      /\ UNCHANGED <<up, left, heard, refused, givenUp, wire, clients, toPeer>>
  BY DEF RelayUp, serverVars
<1>2. /\ DOMAIN peers' = DOMAIN peers
      /\ \A j \in DOMAIN peers : /\ peers'[j].port = peers[j].port
                                 /\ peers'[j].forwarded = peers[j].forwarded
                                 /\ peers'[j].inbound = peers[j].inbound
  BY DEF RelayUp, TypeInv, BridgeOK, Peers
<1>3. /\ inbox \in [Ids -> Seq(Messages)] /\ o \in Seq(Messages)
      /\ m = o[1] /\ 1 \in DOMAIN o /\ DOMAIN o = 1 .. Len(o) /\ Len(o) \in Nat
      /\ DOMAIN Tail(o) = 1 .. Len(o) - 1 /\ Tail(o) \in Seq(Messages)
      /\ \A n \in 1 .. Len(o) - 1 : n + 1 \in DOMAIN o /\ Tail(o)[n] = o[n + 1]
  <2>1. inbox \in [Ids -> Seq(Messages)] /\ o \in Seq(Messages)
    BY DEF TypeInv, SteamOK
  <2>2. DOMAIN o = 1 .. Len(o) /\ Len(o) \in Nat
    BY <2>1
  <2>. HIDE DEF o
  <2>. QED  BY <1>1, <2>1, <2>2, TailElements
<1>4. m \in Messages
  BY <1>3
<1>5. f.port = peers[i].port /\ f.peer = i /\ f.kind = m.kind /\ f.kind # "ack"
  BY <1>4 DEF Messages, Kinds
<1>6. toServer \in Seq(Frames) /\ toServer' \in Seq(Frames)
  BY DEF TypeInv, NetOK
<1>. HIDE DEF f, o, m
<1>7. /\ Len(toServer) \in Nat /\ DOMAIN toServer = 1 .. Len(toServer)
      /\ DOMAIN toServer' = 1 .. Len(toServer) + 1
      /\ \A n \in 1 .. Len(toServer) : toServer'[n] = toServer[n]
      /\ toServer'[Len(toServer) + 1] = f
  BY <1>1, <1>6
<1>8. \A g \in ToSet(toServer') : g \in ToSet(toServer) \/ g = f
  BY <1>7 DEF ToSet
<1>9. \A j \in DOMAIN peers : Parted(j) => j # i /\ peers[j].port # peers[i].port
  BY <1>1, <1>2 DEF Parted, o, TurnInv, PortsApart
<1>10. DOMAIN peers \subseteq Ids
  BY BridgeAssumption DEF TypeInv, BridgeOK, Ids
<1>11. \A j \in DOMAIN peers : Parted(j) =>
            /\ Gone(j)' /\ inbox'[j] = <<>>
            /\ \A g \in ToSet(toServer') : g.port = peers[j].port => g.kind = "ack"
  BY <1>1, <1>3, <1>5, <1>8, <1>9, <1>10 DEF Parted, Gone
<1>12. /\ \A j \in Ids : j # i => inbox'[j] = inbox[j]
       /\ inbox'[i] = Tail(o)
  BY <1>1, <1>3
<1>13. ASSUME NEW j \in Ids, NEW n \in DOMAIN inbox'[j], inbox'[j][n].kind = "bye"
       PROVE  n = Len(inbox'[j]) /\ j \in left'
  <2>1. CASE j # i
    BY <1>1, <1>12, <1>13, <2>1 DEF AckInv, GoodbyeIsLast
  <2>2. CASE j = i
    <3>1. n \in 1 .. Len(o) - 1 /\ n + 1 \in DOMAIN o /\ o[n + 1].kind = "bye"
      BY <1>3, <1>12, <1>13, <2>2
    <3>2. n + 1 = Len(o) /\ i \in left
      BY <3>1 DEF AckInv, GoodbyeIsLast, o
    <3>3. Len(inbox'[i]) = Len(o) - 1
      BY <1>1, <1>3, <1>12
    <3>. QED  BY <1>1, <1>3, <2>2, <3>1, <3>2, <3>3
  <2>. QED  BY <2>1, <2>2
<1>14. ASSUME NEW n \in DOMAIN toServer', NEW j, j = toServer'[n].peer, toServer'[n].kind = "bye"
       PROVE  /\ j \in left' /\ inbox'[j] = <<>>
              /\ \A a \in DOMAIN toServer' : (n < a /\ toServer'[a].peer = j) => toServer'[a].kind = "ack"
  <2>1. CASE n \in 1 .. Len(toServer)
    <3>1. /\ j \in left /\ inbox[j] = <<>>
          /\ \A a \in DOMAIN toServer : (n < a /\ toServer[a].peer = j) => toServer[a].kind = "ack"
      BY <1>7, <1>14, <2>1 DEF AckInv, GoodbyeIsLast
    <3>2. j # i /\ j \in Ids
      BY <1>1, <3>1 DEF o, TypeInv, SteamOK
    <3>. QED  BY <1>1, <1>5, <1>7, <1>12, <3>1, <3>2
  <2>2. CASE ~(n \in 1 .. Len(toServer))
    <3>1. n = Len(toServer) + 1 /\ j = i /\ m.kind = "bye"
      BY <1>5, <1>7, <1>14, <2>2
    <3>2. Len(o) = 1 /\ i \in left
      BY <1>3, <3>1 DEF AckInv, GoodbyeIsLast, o
    <3>3. Tail(o) = <<>>
      BY <1>3, <3>2
    <3>. QED  BY <1>1, <1>7, <1>12, <3>1, <3>2, <3>3
  <2>. QED  BY <2>1, <2>2
<1>15. GoodbyeIsLast'
  BY <1>13, <1>14 DEF GoodbyeIsLast
<1>16. \A j \in DOMAIN peers' : ToSet(toPeer'[peers[j].port]) \subseteq ToSet(toPeer[peers[j].port])
  BY <1>1
<1>17. \A g \in ToSet(toServer') : g \in ToSet(toServer) \/ g.kind # "ack"
  BY <1>5, <1>8
<1>. QED  BY <1>1, <1>2, <1>11, <1>15, <1>16, <1>17, AckKept

LEMMA ConnectedAck ==
    ASSUME MayReusePorts = FALSE, TypeInv, TypeInv', TurnInv, AckInv, Connected PROVE AckInv'
<1>1. /\ UNCHANGED <<left, inbox, heard, refused, givenUp, clients, wire, toServer, toPeer>>
      /\ nextPeer \in Ids /\ up' = up \cup {nextPeer}
  BY DEF Connected, serverVars, netVars
<1>2. nextPeer \notin DOMAIN peers
  BY <1>1 DEF TypeInv, BridgeOK, Ids
<1>3. GoodbyeIsLast'
  BY <1>1, DrawnSame, GoodbyeKept DEF AckInv
<1>4. CASE UNCHANGED peers
  <2>1. \A i \in DOMAIN peers' : Parted(i) =>
            /\ Gone(i)' /\ inbox'[i] = <<>>
            /\ \A f \in ToSet(toServer') : f.port = peers[i].port => f.kind = "ack"
    BY <1>1, <1>2, <1>4 DEF Parted, Gone
  <2>. QED  BY <1>1, <1>3, <1>4, <2>1, AckKept
<1>5. ASSUME NEW p \in Ports \ Bound, Fresh(p), NEW o, o = nextPeer,
             peers' = [i \in DOMAIN peers \cup {o} |-> IF i = o THEN NewPeer(p) ELSE peers[i]]
      PROVE  AckInv'
  <2>1. /\ DOMAIN peers' = DOMAIN peers \cup {o}
        /\ peers'[o] = NewPeer(p)
        /\ \A i \in DOMAIN peers : peers'[i] = peers[i]
    BY <1>2, <1>5
  <2>2. AcksForwarded'
    <3>1. \A f \in ToSet(toServer) : f.port # p
      BY <1>5 DEF Fresh, ToSet
    <3>2. peers'[o].port = p
      BY <2>1 DEF NewPeer
    <3>. QED  BY <1>1, <2>1, <3>1, <3>2 DEF AckInv, AcksForwarded, Forwarded
  <2>3. EventsMade'
    BY <1>1 DEF AckInv, EventsMade, EventPackets
  <2>4. Blank(o)'
    <3>1. /\ peers'[o].port = p /\ peers'[o].forwarded = {}
          /\ \A k \in Seqs : peers'[o].inbound[k].total = 0
      BY <2>1 DEF NewPeer
    <3>2. toPeer'[p] = <<>> /\ p \notin DOMAIN clients'
      BY <1>1, <1>5 DEF TurnInv, PortsApart, Fresh
    <3>. QED  BY <3>1, <3>2 DEF Blank
  <2>5. ASSUME NEW i \in DOMAIN peers', i # o PROVE Answered(i)'
    <3>1. i \in DOMAIN peers /\ peers[i].port \in Ports
      BY <1>1, <1>5, <2>1, <2>5 DEF TypeInv, BridgeOK, Peers
    <3>2. Answered(i)
      BY <3>1 DEF AckInv
    <3>3. toPeer'[peers[i].port] \in Seq(Copies)
      BY <3>1 DEF TypeInv, NetOK
    <3>4. Parted(i) =>
            /\ Gone(i)' /\ inbox'[i] = <<>>
            /\ \A f \in ToSet(toServer') : f.port = peers[i].port => f.kind = "ack"
      BY <1>1, <1>5, <2>5 DEF Parted, Gone
    <3>. QED  BY <1>1, <2>1, <3>1, <3>2, <3>3, <3>4, AnsweredKept
  <2>. QED  BY <1>3, <2>2, <2>3, <2>4, <2>5 DEF AckInv, Answered
<1>. QED  BY <1>4, <1>5 DEF Connected

LEMMA RelayDownAck ==
    ASSUME TypeInv, TypeInv', PacketInv, TurnInv, AckInv, NEW i \in Ids, RelayDown(i)
    PROVE  AckInv'
<1>. DEFINE p == peers[i].port
            o == toPeer[p]
            d == Head(o)
            f == [port |-> p, peer |-> i, kind |-> "ack", n |-> 0, seq |-> d.seq]
            T == [client : ClientIds, event : Seqs]
<1>0. PICK c, s, pk, v : c = d.client /\ s = d.seq /\ pk = wire[c][s] /\ v = Event(c, pk.event)
  OBVIOUS
<1>1. /\ i \in DOMAIN peers /\ p \in Ports
      /\ o \in Seq(Copies) /\ o # <<>>
      /\ d = o[1] /\ 1 \in DOMAIN o
      /\ c \in ClientIds /\ s \in 1 .. Len(wire[c]) /\ pk \in Packets
  <2>1. /\ i \in DOMAIN peers /\ p \in Ports
        /\ o \in Seq(Copies) /\ o # <<>>
        /\ d = o[1] /\ 1 \in DOMAIN o
        /\ d.client \in ClientIds /\ d.seq \in 1 .. Len(wire[d.client]) /\ wire[d.client][d.seq] \in Packets
    BY RelayDownCopy
  <2>. HIDE DEF p, o, d
  <2>. QED  BY <1>0, <2>1
<1>2. s \in DOMAIN wire[c] /\ v \in T
  <2>1. wire[c] \in Seq(Packets)
    BY <1>1 DEF TypeInv, ServerOK
  <2>2. pk.event \in Seqs
    BY <1>1 DEF Packets
  <2>. HIDE DEF p, o, d
  <2>. QED  BY <1>0, <1>1, <2>1, <2>2 DEF Event
<1>3. /\ UNCHANGED <<up, left, inbox, lost, serverVars>>
      /\ DOMAIN peers' = DOMAIN peers
      /\ \A j \in DOMAIN peers : j # i => peers'[j] = peers[j]
      /\ peers'[i].port = p
      /\ \A j \in Ids : j # i => heard'[j] = heard[j]
      /\ refused \subseteq refused'
      /\ \A q \in Ports : q # p => toPeer'[q] = toPeer[q]
      /\ toPeer'[p] = Tail(o)
      /\ Forwarded(i, s) => peers' = peers /\ heard' = heard
      /\ ~Forwarded(i, s) =>
            /\ peers'[i].forwarded = peers[i].forwarded \cup {s}
            /\ peers'[i].inbound = InboundAfter(i, pk)
            /\ heard'[i] = heard[i] \/ (Completes(i, pk) /\ heard'[i] = Append(heard[i], v))
            /\ Completes(i, pk) => heard'[i] = Append(heard[i], v) \/ Refused(i, c, pk.event)'
  BY <1>0, RelayDownEffect DEF Refused
<1>4. UNCHANGED <<clients, wire, givenUp>>
  BY <1>3 DEF serverVars
<1>5. toServer' = Append(toServer, f) /\ f.port = p /\ f.peer = i /\ f.kind = "ack" /\ f.seq = s
  BY <1>0 DEF RelayDown
<1>6. toServer \in Seq(Frames) /\ toServer' \in Seq(Frames)
  BY DEF TypeInv, NetOK
<1>7. heard[i] \in Seq(T)
  BY DEF TypeInv, SteamOK
<1>8. DOMAIN peers \subseteq Ids
  BY BridgeAssumption DEF TypeInv, BridgeOK, Ids
<1>9. ToSet(Tail(o)) \subseteq ToSet(o) /\ d \in ToSet(o)
  BY <1>1, TailSet
<1>. HIDE DEF p, o, d, f, T
<1>10. /\ Len(toServer) \in Nat /\ DOMAIN toServer = 1 .. Len(toServer)
       /\ DOMAIN toServer' = 1 .. Len(toServer) + 1
       /\ \A n \in 1 .. Len(toServer) : toServer'[n] = toServer[n]
       /\ toServer'[Len(toServer) + 1] = f
  BY <1>5, <1>6
<1>11. \A g \in ToSet(toServer') : g \in ToSet(toServer) \/ g = f
  BY <1>10 DEF ToSet
<1>12. /\ \A j \in DOMAIN peers : j # i => \A n : Forwarded(j, n)' <=> Forwarded(j, n)
       /\ \A n : Forwarded(i, n)' <=> (Forwarded(i, n) \/ n = s)
  BY <1>3 DEF Forwarded
<1>13. \A j \in DOMAIN peers : peers'[j].port = peers[j].port
                               /\ (j # i => peers[j].port \in Ports /\ peers[j].port # p)
  BY <1>1, <1>3 DEF TypeInv, BridgeOK, Peers, TurnInv, PortsApart, p
<1>14. AcksForwarded'
  <2>. SUFFICES ASSUME NEW j \in DOMAIN peers, NEW g \in ToSet(toServer'),
                       g.kind = "ack", g.port = peers[j].port
                PROVE  Forwarded(j, g.seq)'
    BY <1>3, <1>13 DEF AcksForwarded
  <2>1. CASE g \in ToSet(toServer)
    BY <1>12, <2>1 DEF AckInv, AcksForwarded
  <2>2. CASE g = f
    BY <1>5, <1>12, <1>13, <2>2
  <2>. QED  BY <1>11, <2>1, <2>2
<1>15. GoodbyeIsLast'
  <2>1. \A j \in Ids : \A n \in DOMAIN inbox'[j] :
            inbox'[j][n].kind = "bye" => n = Len(inbox'[j]) /\ j \in left'
    BY <1>3 DEF AckInv, GoodbyeIsLast
  <2>2. ASSUME NEW n \in DOMAIN toServer', NEW j, j = toServer'[n].peer, toServer'[n].kind = "bye"
        PROVE  /\ j \in left' /\ inbox'[j] = <<>>
               /\ \A a \in DOMAIN toServer' : (n < a /\ toServer'[a].peer = j) => toServer'[a].kind = "ack"
    <3>1. n \in 1 .. Len(toServer)
      BY <1>5, <1>10, <2>2
    <3>2. /\ j \in left /\ inbox[j] = <<>>
          /\ \A a \in DOMAIN toServer : (n < a /\ toServer[a].peer = j) => toServer[a].kind = "ack"
      BY <1>10, <2>2, <3>1 DEF AckInv, GoodbyeIsLast
    <3>. QED  BY <1>3, <1>5, <1>10, <3>2
  <2>. QED  BY <2>1, <2>2 DEF GoodbyeIsLast
<1>16. EventsMade'
  BY <1>4 DEF AckInv, EventsMade, EventPackets
<1>17. \A j \in DOMAIN peers : Parted(j) =>
            /\ Gone(j)' /\ inbox'[j] = <<>>
            /\ \A g \in ToSet(toServer') : g.port = peers[j].port => g.kind = "ack"
  BY <1>3, <1>5, <1>11 DEF Parted, Gone
<1>18. ASSUME NEW j \in DOMAIN peers, j # i, Answered(j) PROVE Answered(j)'
  <2>1. /\ toPeer'[peers[j].port] = toPeer[peers[j].port]
        /\ toPeer'[peers[j].port] \in Seq(Copies)
    BY <1>3, <1>13, <1>18 DEF TypeInv, NetOK
  <2>. QED  BY <1>3, <1>4, <1>8, <1>17, <1>18, <2>1, AnsweredKept
<1>19. ASSUME Answered(i) PROVE Answered(i)'
  <2>1. CASE Parted(i)
    BY <1>1, <1>3, <1>4, <1>17, <2>1 DEF Answered, Parted, p
  <2>2. ~Blank(i)
    BY <1>1 DEF Blank, o, p
  <2>3. CASE Served(i) /\ Forwarded(i, s)
    <3>1. toPeer'[p] \in Seq(Copies) /\ ToSet(toPeer'[p]) \subseteq ToSet(toPeer[p])
      BY <1>1, <1>3, <1>9 DEF TypeInv, NetOK, o
    <3>. QED  BY <1>1, <1>3, <1>4, <1>17, <1>19, <2>3, <3>1, AnsweredKept DEF p
  <2>4. CASE Served(i) /\ ~Forwarded(i, s)
    <3>1. p \in DOMAIN clients /\ Follows(i, clients[p].id)
          /\ \A n \in DOMAIN wire[clients[p].id] \ clients[p].pending :
                Forwarded(i, n) \/ Copy(clients[p].id, n) \in givenUp
      BY <2>4 DEF Served, p
    <3>2. c = clients[p].id
      BY <1>0, <1>9, <3>1 DEF Follows, o, p
    <3>3. Follows(i, c)
      BY <3>1, <3>2
    <3>4. ToSet(heard[i]) \subseteq ToSet(heard'[i])
          /\ (Completes(i, pk) => Had(i, c, pk.event)')
      <4>1. CASE heard'[i] = Append(heard[i], v)
        <5>1. ToSet(heard'[i]) = ToSet(heard[i]) \cup {v}
          BY <1>2, <1>7, <4>1, AppendSet
        <5>. QED  BY <1>0, <5>1 DEF Had
      <4>2. CASE heard'[i] # Append(heard[i], v)
        BY <1>3, <2>4, <4>2 DEF Had
      <4>. QED  BY <4>1, <4>2
    <3>5. \A n \in DOMAIN wire[c] : Counted(i, c, n)'
      <4>1. peers'[i].inbound = InboundAfter(i, wire[c][s])
        BY <1>0, <1>3, <2>4
      <4>2. Completes(i, wire[c][s]) => Had(i, c, wire[c][s].event)'
        BY <1>0, <1>4, <3>4
      <4>3. \A n \in DOMAIN wire[c] : Counted(i, c, n)
        BY <3>3 DEF Follows
      <4>. QED  BY <1>1, <1>2, <1>3, <1>4, <2>4, <3>4, <4>1, <4>2, <4>3, CountedStays
    <3>6. ASSUME NEW k \in Seqs, peers'[i].inbound[k].total # 0
          PROVE  \E n \in DOMAIN wire[c] : wire[c][n].chunk = k
      <4>1. CASE k = pk.chunk
        BY <1>0, <1>2, <4>1
      <4>2. CASE k # pk.chunk
        <5>1. peers[i].inbound \in [Seqs -> Half]
          BY <1>1 DEF TypeInv, BridgeOK, Peers
        <5>2. peers'[i].inbound[k] = peers[i].inbound[k]
          BY <1>3, <2>4, <4>2, <5>1 DEF InboundAfter
        <5>. QED  BY <3>3, <3>6, <5>2 DEF Follows
      <4>. QED  BY <4>1, <4>2
    <3>7. \A e \in ToSet(toPeer'[p]) : e.client = c
      BY <1>3, <1>9, <3>3 DEF Follows, o, p
    <3>8. Follows(i, c)'
      <4>1. peers'[i].forwarded \subseteq DOMAIN wire[c]
        BY <1>2, <1>3, <2>4, <3>3 DEF Follows
      <4>. QED  BY <1>3, <1>4, <3>5, <3>6, <3>7, <4>1 DEF Follows
    <3>9. Served(i)'
      BY <1>3, <1>4, <1>12, <3>1, <3>2, <3>8 DEF Served
    <3>. QED  BY <3>9 DEF Answered
  <2>. QED  BY <1>19, <2>1, <2>2, <2>3, <2>4 DEF Answered
<1>. QED  BY <1>3, <1>14, <1>15, <1>16, <1>18, <1>19 DEF AckInv

LEMMA ServerReceiveAck ==
    ASSUME TypeInv, TypeInv', OwnInv, AckInv, ServerReceive PROVE AckInv'
<1>0. PICK d, p, k : d = Head(toServer) /\ p = d.port
                     /\ k = EntryOf(p)
  OBVIOUS
<1>1. /\ toServer \in Seq(Frames) /\ toServer # <<>> /\ toServer' = Tail(toServer)
      /\ UNCHANGED <<steamVars, bridgeVars, wire, givenUp, toPeer, lost>>
      /\ d \in Frames /\ p \in Ports /\ k \in Entries
      /\ p \in DOMAIN clients \/ nextClient \in ClientIds
      /\ \A q \in Ports : q # p =>
                /\ q \in DOMAIN clients' <=> q \in DOMAIN clients
                /\ q \in DOMAIN clients => clients'[q] = clients[q]
      /\ p \notin DOMAIN clients' => d.kind = "bye"
      /\ p \in DOMAIN clients' =>
                /\ d.kind = "bye" => p \in DOMAIN clients
                /\ clients'[p].id = k.id /\ clients'[p].nextEvent = k.nextEvent
                /\ clients'[p].pending = IF d.kind = "ack" THEN k.pending \ {d.seq} ELSE k.pending
                /\ k.processed \subseteq clients'[p].processed
                /\ d.kind = "ack" => clients'[p].processed = k.processed
  <2>1. Received(d, p, k)
    BY <1>0, ReceivedEntry
  <2>. QED  BY <2>1 DEF Received
<1>2. UNCHANGED <<up, left, inbox, heard, refused, givenUp, nextPeer, peers, wire, toPeer>>
  BY <1>1 DEF steamVars, bridgeVars
<1>3. /\ ToSet(toServer') \subseteq ToSet(toServer) /\ d \in ToSet(toServer)
      /\ Drawn(toServer', toServer)
  BY <1>0, <1>1, TailSet, DrawnTail
<1>4. AcksForwarded'
  BY <1>2, <1>3 DEF AckInv, AcksForwarded, Forwarded
<1>5. GoodbyeIsLast'
  BY <1>2, <1>3, GoodbyeKept DEF AckInv
<1>6. EventsMade'
  <2>1. \A c, e : EventPackets(c, e)' = EventPackets(c, e)
    BY <1>2 DEF EventPackets
  <2>2. /\ k.processed = {} => k.nextEvent = 1
        /\ \A e \in 1 .. k.nextEvent - 1 : EventPackets(k.id, e) # {}
    <3>1. CASE p \in DOMAIN clients
      BY <1>0, <3>1 DEF EntryOf, AckInv, EventsMade
    <3>2. CASE p \notin DOMAIN clients
      <4>1. k.nextEvent = 1
        BY <1>0, <3>2 DEF EntryOf, NewEntry
      <4>. QED  BY <4>1
    <3>. QED  BY <3>1, <3>2
  <2>3. ASSUME NEW q \in DOMAIN clients'
        PROVE  /\ clients'[q].processed = {} => clients'[q].nextEvent = 1
               /\ \A e \in 1 .. clients'[q].nextEvent - 1 : EventPackets(clients'[q].id, e) # {}
    <3>1. q \in Ports
      BY DEF TypeInv, ServerOK
    <3>2. CASE q = p
      BY <1>1, <2>2, <3>2
    <3>3. CASE q # p
      BY <1>1, <3>1, <3>3 DEF AckInv, EventsMade
    <3>. QED  BY <3>2, <3>3
  <2>. QED  BY <2>1, <2>3 DEF EventsMade
<1>7. \A i \in DOMAIN peers : peers[i].port \in Ports /\ i \in Ids
  BY BridgeAssumption DEF TypeInv, BridgeOK, Peers, Ids
<1>8. ASSUME NEW i \in DOMAIN peers, peers[i].port # p, Answered(i) PROVE Answered(i)'
  <2>1. toPeer'[peers[i].port] \in Seq(Copies)
    BY <1>7 DEF TypeInv, NetOK
  <2>2. Parted(i) =>
            /\ Gone(i)' /\ inbox'[i] = <<>>
            /\ \A f \in ToSet(toServer') : f.port = peers[i].port => f.kind = "ack"
    BY <1>2, <1>3 DEF Parted, Gone
  <2>. QED  BY <1>1, <1>2, <1>7, <1>8, <2>1, <2>2, AnsweredKept
<1>9. ASSUME NEW i \in DOMAIN peers, peers[i].port = p, d.kind = "bye", p \notin DOMAIN clients'
      PROVE  Parted(i)'
  <2>1. \A f \in ToSet(toServer) : f.port = p => f.peer = i
    BY <1>9 DEF OwnInv, PortsOwned
  <2>2. /\ 1 \in DOMAIN toServer /\ d = toServer[1]
        /\ DOMAIN Tail(toServer) = 1 .. Len(toServer) - 1
        /\ \A n \in 1 .. Len(toServer) - 1 : n + 1 \in DOMAIN toServer /\ Tail(toServer)[n] = toServer[n + 1]
    BY <1>0, <1>1, TailElements
  <2>3. d.peer = i
    BY <1>0, <1>3, <2>1
  <2>4. /\ i \in left /\ inbox[i] = <<>>
        /\ \A m \in DOMAIN toServer : (1 < m /\ toServer[m].peer = i) => toServer[m].kind = "ack"
    BY <1>9, <2>2, <2>3 DEF AckInv, GoodbyeIsLast
  <2>5. ASSUME NEW f \in ToSet(toServer'), f.port = p PROVE f.kind = "ack"
    <3>1. f.peer = i
      BY <1>3, <2>1, <2>5
    <3>2. PICK n \in 1 .. Len(toServer) - 1 : f = toServer[n + 1] /\ n + 1 \in DOMAIN toServer
      <4>1. PICK n \in DOMAIN toServer' : f = toServer'[n]
        BY DEF ToSet
      <4>. QED  BY <1>1, <2>2, <4>1
    <3>. QED  BY <2>4, <3>1, <3>2
  <2>. QED  BY <1>2, <1>9, <2>4, <2>5 DEF Parted, Gone
<1>10. ASSUME NEW i \in DOMAIN peers, peers[i].port = p, Answered(i) PROVE Answered(i)'
  <2>1. CASE Parted(i)
    <3>1. d.kind = "ack"
      BY <1>0, <1>3, <1>10, <2>1 DEF Parted
    <3>2. k.processed = {}
      <4>1. p \notin DOMAIN clients => k.processed = {}
        BY <1>0 DEF EntryOf, NewEntry
      <4>. QED  BY <1>0, <1>10, <2>1, <4>1 DEF EntryOf, Parted
    <3>3. p \in DOMAIN clients' => clients'[p].processed = {}
      BY <1>1, <3>1, <3>2
    <3>. QED  BY <1>2, <1>3, <1>10, <2>1, <3>3 DEF Parted, Gone, Answered
  <2>2. CASE Blank(i)
    <3>1. p \notin DOMAIN clients /\ nextClient \in ClientIds
      BY <1>1, <1>10, <2>2 DEF Blank
    <3>2. d.kind # "ack"
      BY <1>0, <1>3, <1>10, <2>2 DEF Blank, AckInv, AcksForwarded, Forwarded
    <3>3. CASE p \notin DOMAIN clients'
      BY <1>1, <1>9, <1>10, <3>3 DEF Answered
    <3>4. CASE p \in DOMAIN clients'
      <4>1. clients'[p].id = nextClient
        BY <1>0, <1>1, <3>1, <3>4 DEF EntryOf, NewEntry
      <4>2. DOMAIN wire[nextClient] = {}
        <5>1. wire[nextClient] = <<>>
          BY <3>1 DEF TypeInv, ServerOK, ClientIds
        <5>. QED  BY <5>1
      <4>3. ToSet(toPeer[p]) = {}
        BY <1>10, <2>2 DEF Blank, ToSet
      <4>4. Follows(i, clients[p].id)'
        BY <1>2, <1>10, <2>2, <4>1, <4>2, <4>3 DEF Follows, Blank
      <4>. QED  BY <1>2, <1>10, <3>4, <4>1, <4>2, <4>4 DEF Answered, Served
    <3>. QED  BY <3>3, <3>4
  <2>3. CASE Served(i)
    <3>1. CASE p \notin DOMAIN clients'
      BY <1>1, <1>9, <1>10, <3>1 DEF Answered
    <3>2. CASE p \in DOMAIN clients'
      <4>1. /\ p \in DOMAIN clients
            /\ Follows(i, clients[p].id)
            /\ \A s \in DOMAIN wire[clients[p].id] \ clients[p].pending :
                    Forwarded(i, s) \/ Copy(clients[p].id, s) \in givenUp
        BY <1>10, <2>3 DEF Served
      <4>2. /\ clients'[p].id = clients[p].id
            /\ clients'[p].pending = IF d.kind = "ack" THEN clients[p].pending \ {d.seq} ELSE clients[p].pending
        BY <1>0, <1>1, <3>2, <4>1 DEF EntryOf
      <4>3. d.kind = "ack" => Forwarded(i, d.seq)
        BY <1>0, <1>3, <1>10 DEF AckInv, AcksForwarded
      <4>4. Follows(i, clients[p].id)'
        <5>1. PICK c : c = clients[p].id
          OBVIOUS
        <5>2. \A s \in DOMAIN wire[c] : Counted(i, c, s) => Counted(i, c, s)'
          BY <1>2 DEF Counted, Had, Refused, Halfway, Arrived, EventPackets, Forwarded
        <5>3. Follows(i, c)'
          BY <1>2, <4>1, <5>1, <5>2 DEF Follows
        <5>. QED  BY <4>2, <5>1, <5>3
      <4>5. \A s \in DOMAIN wire[clients[p].id] \ clients'[p].pending :
                Forwarded(i, s) \/ Copy(clients[p].id, s) \in givenUp
        BY <4>1, <4>2, <4>3
      <4>. QED  BY <1>2, <1>10, <3>2, <4>2, <4>4, <4>5 DEF Answered, Served, Forwarded
    <3>. QED  BY <3>1, <3>2
  <2>. QED  BY <1>10, <2>1, <2>2, <2>3 DEF Answered
<1>. QED  BY <1>2, <1>4, <1>5, <1>6, <1>8, <1>10 DEF AckInv

LEMMA TimeOutAck ==
    ASSUME MayStall = FALSE, TypeInv, TypeInv', AckInv, NEW p \in Ports, TimeOut(p) PROVE AckInv'
<1>1. /\ UNCHANGED <<up, left, inbox, heard, refused, givenUp, nextPeer, peers, wire, toServer, toPeer>>
      /\ DOMAIN clients' = DOMAIN clients \ {p}
      /\ \A q \in DOMAIN clients' : clients'[q] = clients[q]
  BY DEF TimeOut, Without, steamVars, bridgeVars, netVars
<1>2. /\ \A f \in ToSet(toServer) : f.port # p
      /\ \A i \in PeerAt(p) : (i \in up => i \in left) /\ inbox[i] = <<>>
  BY DEF TimeOut, Silent, ToSet
<1>3. AcksForwarded'
  BY <1>1 DEF AckInv, AcksForwarded, Forwarded
<1>4. GoodbyeIsLast'
  BY <1>1 DEF AckInv, GoodbyeIsLast
<1>5. EventsMade'
  BY <1>1 DEF AckInv, EventsMade, EventPackets
<1>6. ASSUME NEW i \in DOMAIN peers PROVE Answered(i)'
  <2>1. CASE peers[i].port = p
    BY <1>1, <1>2, <2>1 DEF PeerAt, Parted, Gone, Answered
  <2>2. CASE peers[i].port # p
    <3>1. Answered(i) /\ peers[i].port \in Ports
      BY DEF AckInv, TypeInv, BridgeOK, Peers
    <3>2. toPeer'[peers[i].port] \in Seq(Copies)
      BY <3>1 DEF TypeInv, NetOK
    <3>3. Parted(i) =>
            /\ Gone(i)' /\ inbox'[i] = <<>>
            /\ \A f \in ToSet(toServer') : f.port = peers[i].port => f.kind = "ack"
      BY <1>1 DEF Parted, Gone
    <3>4. /\ peers[i].port \in DOMAIN clients' <=> peers[i].port \in DOMAIN clients
          /\ peers[i].port \in DOMAIN clients =>
                /\ clients'[peers[i].port] = clients[peers[i].port]
                /\ wire'[clients[peers[i].port].id] = wire[clients[peers[i].port].id]
      BY <1>1, <2>2
    <3>. QED  BY <1>1, <3>1, <3>2, <3>3, <3>4, AnsweredKept
  <2>. QED  BY <2>1, <2>2
<1>. QED  BY <1>1, <1>3, <1>4, <1>5, <1>6 DEF AckInv

LEMMA SendReliableAck ==
    ASSUME TypeInv, TypeInv', PacketInv, TurnInv, AckInv,
           NEW p \in Ports, NEW n \in ChunkCounts, SendReliable(p, n)
    PROVE  AckInv'
<1>0. PICK c, k, w, x, e0 : /\ c = clients[p] /\ x = c.id /\ k = Len(wire[x])
                            /\ w = wire'[x] /\ e0 = c.nextEvent
  OBVIOUS
<1>1. /\ p \in DOMAIN clients /\ x \in ClientIds /\ n \in Nat \ {0} /\ k \in Nat
      /\ e0 \in Nat \ {0} /\ c.nextChunk \in Nat \ {0}
      /\ DOMAIN wire[x] = 1 .. k /\ DOMAIN w = 1 .. k + n
      /\ \A s \in 1 .. k : w[s] = wire[x][s]
      /\ \A s \in k + 1 .. k + n :
            w[s] = [event |-> e0, piece |-> s - k, of |-> n,
                    chunk |-> IF n > 1 THEN c.nextChunk ELSE 0]
      /\ \A b \in ClientIds : b # x => wire'[b] = wire[b]
      /\ DOMAIN clients' = DOMAIN clients
      /\ \A q \in DOMAIN clients : clients'[q].id = clients[q].id
      /\ \A q \in DOMAIN clients : q # p => clients'[q] = clients[q]
      /\ clients'[p].nextEvent = e0 + 1
      /\ clients'[p].pending = c.pending \cup (k + 1 .. k + n)
      /\ clients'[p].processed = c.processed
  <2>. DEFINE C == clients[p]
              K == Len(wire[C.id])
              W == wire'[C.id]
  <2>1. /\ p \in DOMAIN clients /\ C.id \in ClientIds /\ n \in Nat \ {0} /\ K \in Nat
        /\ C.nextEvent \in Nat \ {0} /\ C.nextChunk \in Nat \ {0}
        /\ DOMAIN wire[C.id] = 1 .. K /\ DOMAIN W = 1 .. K + n
        /\ \A s \in 1 .. K : W[s] = wire[C.id][s]
        /\ \A s \in K + 1 .. K + n :
            W[s] = [event |-> C.nextEvent, piece |-> s - K, of |-> n,
                    chunk |-> IF n > 1 THEN C.nextChunk ELSE 0]
        /\ \A b \in ClientIds : b # C.id => wire'[b] = wire[b]
        /\ DOMAIN clients' = DOMAIN clients
        /\ \A q \in DOMAIN clients : clients'[q].id = clients[q].id
        /\ \A q \in DOMAIN clients : q # p => clients'[q] = clients[q]
        /\ clients'[p].nextEvent = C.nextEvent + 1
        /\ clients'[p].pending = C.pending \cup (K + 1 .. K + n)
        /\ clients'[p].processed = C.processed
    BY SendReliableAdds
  <2>2. C = c /\ K = k /\ W = w
    BY <1>0
  <2>. HIDE DEF C, K, W
  <2>. QED  BY <1>0, <2>1, <2>2
<1>2. /\ UNCHANGED <<up, left, inbox, heard, refused, givenUp, nextPeer, peers, toServer>>
      /\ c.processed # {}
      /\ toPeer' = Sent(p, NewCopies(c, n))
  BY <1>0 DEF SendReliable, NewCopies, steamVars, bridgeVars
<1>3. /\ NewCopies(c, n) \in Seq(Copies)
      /\ \A d \in ToSet(NewCopies(c, n)) : d.client = x
  <2>1. NewCopies(c, n) \in Seq(Copies)
    BY <1>0, NewPacketTypes
  <2>2. \A j \in DOMAIN NewCopies(c, n) : NewCopies(c, n)[j].client = x
    BY <1>0 DEF NewCopies
  <2>. QED  BY <2>1, <2>2 DEF ToSet
<1>4. ASSUME NEW s \in k + 1 .. k + n
      PROVE  /\ w[s].event = e0 /\ w[s].of = n
             /\ w[s].chunk = IF n > 1 THEN c.nextChunk ELSE 0
  <2>1. w[s] = [event |-> e0, piece |-> s - k, of |-> n,
                chunk |-> IF n > 1 THEN c.nextChunk ELSE 0]
    BY <1>1
  <2>. QED  BY <2>1
<1>5. /\ \A s \in 1 .. k + n : s \in 1 .. k \/ s \in k + 1 .. k + n
      /\ 1 .. k \subseteq 1 .. k + n /\ k + 1 .. k + n \subseteq 1 .. k + n
      /\ \A s \in k + 1 .. k + n : s \notin 1 .. k
      /\ k + 1 \in k + 1 .. k + n
  BY <1>1
<1>6. \A s \in 1 .. k : /\ wire[x][s].event < e0 /\ wire[x][s].chunk < c.nextChunk
                        /\ wire[x][s].event \in Nat /\ wire[x][s].chunk \in Nat
  <2>1. \A s \in 1 .. k : wire[x][s].event < e0 /\ wire[x][s].chunk < c.nextChunk
    BY <1>0, <1>1 DEF PacketInv, Ahead
  <2>2. \A s \in 1 .. k : wire[x][s].event \in Nat /\ wire[x][s].chunk \in Nat
    BY <1>1, PacketFields
  <2>. QED  BY <2>1, <2>2
<1>7. /\ \A e \in Nat : e < e0 => EventPackets(x, e)' = EventPackets(x, e)
      /\ EventPackets(x, e0)' = k + 1 .. k + n
      /\ \A b \in ClientIds : b # x => \A e : EventPackets(b, e)' = EventPackets(b, e)
  <2>1. ASSUME NEW e \in Nat, e < e0 PROVE EventPackets(x, e)' = EventPackets(x, e)
    <3>1. \A s \in DOMAIN w : w[s].event = e => s \in 1 .. k
      BY <1>1, <1>4, <1>5, <2>1
    <3>. QED  BY <1>0, <1>1, <1>5, <3>1, SMTT(30) DEF EventPackets
  <2>2. EventPackets(x, e0)' = k + 1 .. k + n
    <3>1. \A s \in DOMAIN w : w[s].event = e0 <=> s \in k + 1 .. k + n
      BY <1>1, <1>4, <1>5, <1>6
    <3>. QED  BY <1>0, <1>1, <1>5, <3>1 DEF EventPackets
  <2>3. \A b \in ClientIds : b # x => \A e : EventPackets(b, e)' = EventPackets(b, e)
    BY <1>1 DEF EventPackets
  <2>. QED  BY <2>1, <2>2, <2>3
<1>8. \A q \in DOMAIN clients : q # p => clients[q].id # x /\ clients[q].id \in ClientIds
  BY <1>0, <1>1 DEF PacketInv, IdsApart, TypeInv, ServerOK, Entries
<1>9. EventsMade'
  <2>1. ASSUME NEW q \in DOMAIN clients, q # p
        PROVE  /\ clients'[q].processed = {} => clients'[q].nextEvent = 1
               /\ \A e \in 1 .. clients'[q].nextEvent - 1 : EventPackets(clients[q].id, e)' # {}
    <3>1. PICK b : b = clients[q].id
      OBVIOUS
    <3>2. clients'[q] = clients[q] /\ \A e : EventPackets(b, e)' = EventPackets(b, e)
      BY <1>1, <1>7, <1>8, <2>1, <3>1
    <3>3. /\ clients[q].processed = {} => clients[q].nextEvent = 1
          /\ \A e \in 1 .. clients[q].nextEvent - 1 : EventPackets(b, e) # {}
      BY <3>1 DEF AckInv, EventsMade
    <3>4. \A e \in 1 .. clients[q].nextEvent - 1 : EventPackets(b, e)' # {}
      BY <3>2, <3>3
    <3>. QED  BY <3>1, <3>2, <3>3, <3>4 DEF EventPackets
  <2>2. /\ clients'[p].processed = {} => clients'[p].nextEvent = 1
        /\ \A e \in 1 .. clients'[p].nextEvent - 1 : EventPackets(clients[p].id, e)' # {}
    <3>1. ASSUME NEW e \in 1 .. e0 PROVE EventPackets(x, e)' # {}
      <4>1. CASE e = e0
        BY <1>5, <1>7, <4>1
      <4>2. CASE e # e0
        <5>1. e \in Nat /\ e < e0 /\ e \in 1 .. e0 - 1
          BY <1>1, <4>2
        <5>. QED  BY <1>0, <1>1, <1>7, <5>1 DEF AckInv, EventsMade
      <4>. QED  BY <4>1, <4>2
    <3>2. clients'[p].nextEvent - 1 = e0 /\ clients'[p].id = x /\ clients'[p].processed # {}
      BY <1>0, <1>1, <1>2
    <3>. QED  BY <3>1, <3>2 DEF EventPackets
  <2>. QED  BY <1>1, <2>1, <2>2 DEF EventsMade
<1>10. AcksForwarded' /\ GoodbyeIsLast'
  BY <1>2 DEF AckInv, AcksForwarded, GoodbyeIsLast, Forwarded
<1>11. ASSUME NEW i \in DOMAIN peers, peers[i].port # p, Answered(i) PROVE Answered(i)'
  <2>1. peers[i].port \in Ports
    BY DEF TypeInv, BridgeOK, Peers
  <2>2. /\ toPeer'[peers[i].port] \in Seq(Copies)
        /\ toPeer'[peers[i].port] = toPeer[peers[i].port]
    BY <1>2, <1>11, <2>1 DEF TypeInv, NetOK, Sent
  <2>3. Parted(i) =>
            /\ Gone(i)' /\ inbox'[i] = <<>>
            /\ \A f \in ToSet(toServer') : f.port = peers[i].port => f.kind = "ack"
    BY <1>2 DEF Parted, Gone
  <2>4. /\ peers[i].port \in DOMAIN clients' <=> peers[i].port \in DOMAIN clients
        /\ peers[i].port \in DOMAIN clients =>
                /\ clients'[peers[i].port] = clients[peers[i].port]
                /\ wire'[clients[peers[i].port].id] = wire[clients[peers[i].port].id]
    BY <1>1, <1>8, <1>11
  <2>. QED  BY <1>2, <1>11, <2>2, <2>3, <2>4, AnsweredKept
<1>12. ASSUME NEW i \in DOMAIN peers, peers[i].port = p, Answered(i) PROVE Answered(i)'
  <2>1. Served(i)
    BY <1>0, <1>1, <1>2, <1>12 DEF Answered, Blank, Parted
  <2>2. /\ Follows(i, x)
        /\ \A s \in DOMAIN wire[x] \ c.pending : Forwarded(i, s) \/ Copy(x, s) \in givenUp
    BY <1>0, <1>12, <2>1 DEF Served
  <2>0. \A j \in Seqs : peers[i].inbound[j].total # 0 => \E s \in 1 .. k : wire[x][s].chunk = j
    BY <1>1, <2>2 DEF Follows
  <2>3. \A s : Forwarded(i, s)' <=> Forwarded(i, s)
    BY <1>2 DEF Forwarded
  <2>4. \A s : Forwarded(i, s) => s \in 1 .. k
    BY <1>1, <2>2 DEF Follows, Forwarded
  <2>5. \A d \in ToSet(toPeer'[p]) : d.client = x
    <3>1. p \in Bound /\ toPeer[p] \in Seq(Copies)
      BY <1>12 DEF Bound, TypeInv, NetOK
    <3>2. toPeer'[p] = toPeer[p] \o NewCopies(c, n)
      BY <1>2, <3>1 DEF Sent, TypeInv, NetOK
    <3>3. ToSet(toPeer'[p]) \subseteq ToSet(toPeer[p]) \cup ToSet(NewCopies(c, n))
      BY <1>3, <3>1, <3>2, ConcatSet
    <3>. QED  BY <1>3, <1>12, <2>2, <3>3 DEF Follows
  <2>6. \A j \in Seqs : peers'[i].inbound[j].total # 0 => \E s \in DOMAIN wire'[x] : wire'[x][s].chunk = j
    <3>1. \A s \in 1 .. k : s \in DOMAIN wire'[x] /\ wire'[x][s] = wire[x][s]
      BY <1>0, <1>1, <1>5
    <3>. QED  BY <1>2, <2>0, <3>1
  <2>7. ASSUME NEW s \in 1 .. k PROVE Counted(i, x, s)'
    <3>1. Counted(i, x, s)
      BY <1>1, <2>2 DEF Follows
    <3>2. wire'[x][s] = wire[x][s]
      BY <1>0, <1>1
    <3>3. PICK e : e = wire[x][s].event
      OBVIOUS
    <3>4. Arrived(i, x, e)' = Arrived(i, x, e)
      BY <1>6, <1>7, <2>3, <3>3 DEF Arrived
    <3>. QED  BY <1>2, <2>3, <3>1, <3>2, <3>3, <3>4 DEF Counted, Had, Refused, Halfway, Arrived, EventPackets
  <2>8. ASSUME NEW s \in k + 1 .. k + n PROVE Counted(i, x, s)'
    <3>1. PICK pk : pk = w[s]
      OBVIOUS
    <3>2. /\ pk = wire'[x][s] /\ pk.event = e0 /\ pk.of = n
          /\ pk.chunk = IF n > 1 THEN c.nextChunk ELSE 0
          /\ ~Forwarded(i, s)
      BY <1>0, <1>4, <1>5, <2>4, <3>1
    <3>3. CASE pk.chunk = 0
      BY <2>3, <3>2, <3>3 DEF Counted
    <3>4. CASE pk.chunk # 0
      <4>1. Arrived(i, x, e0)' = {}
        BY <1>5, <1>7, <2>3, <2>4 DEF Arrived
      <4>2. pk.chunk = c.nextChunk
        BY <3>2, <3>4
      <4>3. pk.chunk \in Seqs
        <5>1. wire'[x] \in Seq(Packets)
          BY <1>1 DEF TypeInv, ServerOK
        <5>2. s \in DOMAIN wire'[x]
          BY <1>0, <1>1, <1>5
        <5>3. pk \in Packets
          BY <3>2, <5>1, <5>2
        <5>. QED  BY <3>4, <5>3, BridgeAssumption DEF Packets, Seqs
      <4>4. peers[i].inbound[pk.chunk].total = 0
        <5>1. \A j \in 1 .. k : wire[x][j].chunk # pk.chunk
          BY <1>1, <1>6, <4>2
        <5>. QED  BY <2>0, <4>3, <5>1
      <4>5. Halfway(i, pk)' = [have |-> 0, total |-> n]
        BY <1>2, <3>2, <4>4 DEF Halfway
      <4>6. Cardinality(Arrived(i, x, e0)') = 0
        BY <4>1, FS_EmptySet
      <4>. QED  BY <1>1, <3>2, <3>4, <4>5, <4>6 DEF Counted
    <3>. QED  BY <3>3, <3>4
  <2>9. Follows(i, x)'
    BY <1>0, <1>1, <1>2, <1>5, <1>12, <2>2, <2>5, <2>6, <2>7, <2>8 DEF Follows
  <2>10. \A s \in DOMAIN wire'[x] \ clients'[p].pending : Forwarded(i, s) \/ Copy(x, s) \in givenUp
    BY <1>0, <1>1, <1>5, <2>2
  <2>. QED  BY <1>0, <1>1, <1>2, <1>12, <2>3, <2>9, <2>10, SMTT(30) DEF Answered, Served
<1>. QED  BY <1>2, <1>9, <1>10, <1>11, <1>12 DEF AckInv

LEMMA ResendAck ==
    ASSUME TypeInv, TypeInv', AckInv, NEW p \in Ports, NEW s \in Seqs, Resend(p, s)
    PROVE  AckInv'
<1>0. PICK d, c : d = Copy(c, s) /\ c = clients[p].id
  OBVIOUS
<1>1. /\ UNCHANGED <<up, left, inbox, heard, refused, givenUp, nextPeer, peers, clients, wire, toServer>>
      /\ p \in DOMAIN clients
      /\ toPeer' = Sent(p, <<d>>)
  BY <1>0 DEF Resend, IsDue, Copy, steamVars, bridgeVars
<1>2. d.client = c
  BY <1>0 DEF Copy
<1>3. AcksForwarded' /\ GoodbyeIsLast' /\ EventsMade'
  BY <1>1 DEF AckInv, AcksForwarded, GoodbyeIsLast, EventsMade, EventPackets, Forwarded
<1>4. ASSUME NEW i \in DOMAIN peers, Answered(i) PROVE Answered(i)'
  <2>1. peers[i].port \in Ports
    BY DEF TypeInv, BridgeOK, Peers
  <2>2. Parted(i) =>
            /\ Gone(i)' /\ inbox'[i] = <<>>
            /\ \A f \in ToSet(toServer') : f.port = peers[i].port => f.kind = "ack"
    BY <1>1 DEF Parted, Gone
  <2>3. CASE peers[i].port # p
    <3>1. /\ toPeer'[peers[i].port] \in Seq(Copies)
          /\ toPeer'[peers[i].port] = toPeer[peers[i].port]
      BY <1>1, <2>1, <2>3 DEF TypeInv, NetOK, Sent
    <3>. QED  BY <1>1, <1>4, <2>2, <3>1, AnsweredKept
  <2>4. CASE peers[i].port = p /\ Parted(i)
    BY <1>1, <2>4 DEF Answered, Parted, Gone
  <2>5. CASE peers[i].port = p /\ Blank(i)
    BY <1>1, <2>5 DEF Blank
  <2>6. CASE peers[i].port = p /\ Served(i)
    <3>1. /\ Follows(i, c)
          /\ \A n \in DOMAIN wire[c] \ clients[p].pending : Forwarded(i, n) \/ Copy(c, n) \in givenUp
      BY <1>0, <2>6 DEF Served
    <3>2. \A e \in ToSet(toPeer'[p]) : e.client = c
      <4>1. /\ toPeer'[p] = toPeer[p] \o <<d>> /\ toPeer[p] \in Seq(Copies)
            /\ d \in Copies
        <5>1. p \in Bound
          BY <2>6 DEF Bound
        <5>2. d \in Copies
          BY <1>0, <1>1 DEF Copies, Copy, TypeInv, ServerOK, Entries
        <5>. QED  BY <1>1, <5>1, <5>2 DEF Sent, TypeInv, NetOK
      <4>2. <<d>> \in Seq(Copies) /\ ToSet(<<d>>) = {d}
        BY <4>1 DEF ToSet
      <4>3. ToSet(toPeer'[p]) \subseteq ToSet(toPeer[p]) \cup {d}
        BY <4>1, <4>2, ConcatSet
      <4>. QED  BY <1>2, <2>6, <3>1, <4>3 DEF Follows
    <3>3. \A n \in DOMAIN wire[c] : Counted(i, c, n) => Counted(i, c, n)'
      BY <1>1 DEF Counted, Had, Refused, Halfway, Arrived, EventPackets, Forwarded
    <3>4. Follows(i, c)'
      BY <1>1, <2>6, <3>1, <3>2, <3>3 DEF Follows
    <3>. QED  BY <1>0, <1>1, <2>6, <3>1, <3>4 DEF Answered, Served, Forwarded
  <2>. QED  BY <1>4, <2>3, <2>4, <2>5, <2>6 DEF Answered
<1>. QED  BY <1>1, <1>3, <1>4 DEF AckInv

LEMMA GiveUpAck ==
    ASSUME TypeInv, TypeInv', PacketInv, AckInv, NEW p \in Ports, NEW s \in Seqs, GiveUp(p, s)
    PROVE  AckInv'
<1>1. /\ UNCHANGED <<up, left, inbox, heard, refused, peers, wire, toServer, toPeer>>
      /\ p \in DOMAIN clients
      /\ givenUp' = givenUp \cup {Copy(clients[p].id, s)}
      /\ DOMAIN clients' = DOMAIN clients
      /\ \A q \in DOMAIN clients :
            /\ clients'[q].id = clients[q].id
            /\ clients'[q].processed = clients[q].processed
            /\ clients'[q].nextEvent = clients[q].nextEvent
      /\ \A q \in DOMAIN clients \ {p} : clients'[q] = clients[q]
      /\ clients'[p].pending = clients[p].pending \ {s}
  <2>1. \A q \in DOMAIN clients \ {p} : clients'[q] = clients[q]
    BY DEF GiveUp, IsDue, TypeInv, ServerOK
  <2>. QED  BY <2>1, GiveUpPending DEF Copy, steamVars, bridgeVars, netVars
<1>2. AcksForwarded' /\ GoodbyeIsLast'
  BY <1>1 DEF AckInv, AcksForwarded, GoodbyeIsLast, Forwarded
<1>3. EventsMade'
  BY <1>1 DEF AckInv, EventsMade, EventPackets
<1>4. ASSUME NEW i \in DOMAIN peers PROVE Answered(i)'
  <2>1. /\ Answered(i) /\ peers[i].port \in Ports
        /\ toPeer'[peers[i].port] \in Seq(Copies)
    BY <1>1 DEF AckInv, TypeInv, BridgeOK, Peers, NetOK
  <2>2. Parted(i) => Gone(i)' /\ Parted(i)'
    BY <1>1 DEF Parted, Gone
  <2>3. CASE peers[i].port # p
    <3>1. Parted(i) =>
            /\ Gone(i)' /\ inbox'[i] = <<>>
            /\ \A f \in ToSet(toServer') : f.port = peers[i].port => f.kind = "ack"
      BY <1>1, <2>2 DEF Parted
    <3>. QED  BY <1>1, <2>1, <2>3, <3>1, AnsweredKept
  <2>4. CASE peers[i].port = p /\ Served(i)
    <3>1. PICK c : c = clients[p].id
      OBVIOUS
    <3>2. /\ Follows(i, c)
          /\ \A n \in DOMAIN wire[c] \ clients[p].pending : Forwarded(i, n) \/ Copy(c, n) \in givenUp
      BY <2>4, <3>1 DEF Served
    <3>3. \A n \in DOMAIN wire[c] : Counted(i, c, n) => Counted(i, c, n)'
      BY <1>1 DEF Counted, Had, Refused, Halfway, Arrived, EventPackets, Forwarded
    <3>4. Follows(i, c)'
      BY <1>1, <3>2, <3>3 DEF Follows
    <3>5. \A n \in DOMAIN wire[c] \ clients'[p].pending : Forwarded(i, n) \/ Copy(c, n) \in givenUp'
      BY <1>1, <3>1, <3>2
    <3>. QED  BY <1>1, <2>4, <3>1, <3>4, <3>5 DEF Answered, Served, Forwarded
  <2>5. ~(peers[i].port = p /\ Blank(i))
    BY <1>1 DEF Blank
  <2>. QED  BY <2>1, <2>2, <2>3, <2>4, <2>5 DEF Answered
<1>. QED  BY <1>1, <1>2, <1>3, <1>4 DEF AckInv

LEMMA AckStep ==
    ASSUME MayStall = FALSE, MayReusePorts = FALSE, TypeInv, TypeInv',
           PacketInv, TurnInv, OwnInv, AckInv, [Next]_vars
    PROVE  AckInv'
<1>1. ASSUME UNCHANGED <<left, inbox, heard, refused, givenUp, wire, clients, nextPeer, peers,
                         toServer, toPeer>>,
             up' \subseteq up
      PROVE  AckInv'
  <2>1. GoodbyeIsLast'
    BY <1>1, DrawnSame, GoodbyeKept DEF AckInv
  <2>2. \A i \in DOMAIN peers' : Parted(i) =>
            /\ Gone(i)' /\ inbox'[i] = <<>>
            /\ \A f \in ToSet(toServer') : f.port = peers[i].port => f.kind = "ack"
    BY <1>1 DEF Parted, Gone
  <2>. QED  BY <1>1, <2>1, <2>2, AckKept
<1>2. ASSUME NEW i \in Ids, ConnectionEnds(i) PROVE AckInv'
  BY <1>1, <1>2 DEF ConnectionEnds, bridgeVars, serverVars, netVars
<1>3. ASSUME NEW i \in Ids, Disconnected(i) PROVE AckInv'
  <2>1. /\ DOMAIN peers' = DOMAIN peers \ {i} /\ i \in DOMAIN peers
        /\ \A j \in DOMAIN peers' : peers'[j] = peers[j]
        /\ \A p \in Ports : toPeer'[p] = IF p = peers[i].port THEN <<>> ELSE toPeer[p]
    BY <1>3, DisconnectedQueues
  <2>2. /\ UNCHANGED <<up, left, heard, refused, givenUp, wire, clients, toServer>>
        /\ inbox' = [inbox EXCEPT ![i] = <<>>] /\ inbox \in [Ids -> Seq(Messages)]
    BY <1>3 DEF Disconnected, serverVars, TypeInv, SteamOK
  <2>3. \A j \in Ids : inbox'[j] = inbox[j] \/ inbox'[j] = <<>>
    BY <2>2
  <2>4. GoodbyeIsLast'
    BY <2>2, <2>3, DrawnSame, GoodbyeKept DEF AckInv
  <2>5. \A j \in DOMAIN peers' : peers[j].port \in Ports /\ j \in Ids /\ j \in DOMAIN peers
    BY <2>1, BridgeAssumption DEF TypeInv, BridgeOK, Peers, Ids
  <2>6. \A j \in DOMAIN peers' : ToSet(toPeer'[peers[j].port]) \subseteq ToSet(toPeer[peers[j].port])
    <3>1. \A j \in DOMAIN peers' : peers[j].port # peers[i].port
      BY <2>1, <2>5 DEF TurnInv, PortsApart
    <3>. QED  BY <2>1, <2>5, <3>1
  <2>7. \A j \in DOMAIN peers' : Parted(j) =>
            /\ Gone(j)' /\ inbox'[j] = <<>>
            /\ \A f \in ToSet(toServer') : f.port = peers[j].port => f.kind = "ack"
    BY <2>2, <2>3, <2>5 DEF Parted, Gone
  <2>. QED  BY <2>1, <2>2, <2>4, <2>6, <2>7, AckKept
<1>4. ASSUME Drop PROVE AckInv'
  <2>1. UNCHANGED <<up, left, inbox, heard, refused, givenUp, wire, clients, nextPeer, peers>>
    BY <1>4 DEF Drop, steamVars, bridgeVars, serverVars
  <2>2. /\ ToSet(toServer') \subseteq ToSet(toServer)
        /\ \A p \in Ports : ToSet(toPeer'[p]) \subseteq ToSet(toPeer[p])
    BY <1>4, DropShrinks
  <2>3. Drawn(toServer', toServer)
    <3>1. toServer \in Seq(Frames)
      BY DEF TypeInv, NetOK
    <3>. QED  BY <1>4, <3>1, DrawnSame, DrawnRemove DEF Drop
  <2>4. GoodbyeIsLast'
    BY <2>1, <2>3, GoodbyeKept DEF AckInv
  <2>5. \A i \in DOMAIN peers' : ToSet(toPeer'[peers[i].port]) \subseteq ToSet(toPeer[peers[i].port])
    BY <2>1, <2>2 DEF TypeInv, BridgeOK, Peers
  <2>6. \A i \in DOMAIN peers' : Parted(i) =>
            /\ Gone(i)' /\ inbox'[i] = <<>>
            /\ \A f \in ToSet(toServer') : f.port = peers[i].port => f.kind = "ack"
    BY <2>1, <2>2 DEF Parted, Gone
  <2>. QED  BY <2>1, <2>2, <2>4, <2>5, <2>6, AckKept
<1>5. CASE UNCHANGED vars
  BY <1>1, <1>5 DEF vars, steamVars, bridgeVars, serverVars, netVars
<1>. QED
  BY <1>2, <1>3, <1>4, <1>5, GameSaysAck, ConnectedAck, RelayUpAck, RelayDownAck,
     ServerReceiveAck, SendReliableAck, ResendAck, GiveUpAck, TimeOutAck DEF Next

\* Nothing but Steam loses what the server takes for received: with every packet
\* of an event acknowledged and none given up, the bridge has handed Steam the
\* whole event, and Steam has taken it, or its refusal was seen and logged.  A
\* game that stays is not taken for gone, and ports are not given again before
\* the server has noticed.
THEOREM AcknowledgedIsHeard ==
    ASSUME MayStall = FALSE, MayReusePorts = FALSE
    PROVE  Spec => []AckedIsHeard
<1>1. TypeInv /\ OwnInv /\ [Next]_vars => OwnInv'
  BY OwnStep
<1>2. TypeInv /\ TypeInv' /\ (PacketInv /\ TurnInv /\ OnceInv) /\ OwnInv /\ AckInv /\ [Next]_vars
            => AckInv'
  BY AckStep
<1>3. TypeInv /\ (PacketInv /\ TurnInv /\ OnceInv) /\ AckInv => AckedIsHeard
  BY AckInvImplies
<1>. QED
  BY <1>1, <1>2, <1>3, TypesHold, OnceHolds, InitOwnInv, InitAckInv, PTL DEF Spec
=============================================================================
