-------------------------------- MODULE Link --------------------------------
(***************************************************************************)
(* The reliability layer, in one direction of one session: a sender that   *)
(* splits events into numbered packets and resends them until they are     *)
(* acknowledged or given up (Server::send_reliable, Server::tick), a       *)
(* network that loses, duplicates and reorders packets and acks, and a     *)
(* receiver that acknowledges everything, drops sequence numbers it        *)
(* remembers and reassembles chunks (Server::handle).  The Steam bridge    *)
(* (steam/translate.rs, Peer::deliver) is the same receiver without a      *)
(* bound on what it remembers: a Window no session reaches.                *)
(*                                                                         *)
(* An event is its number in the order it was handed over, and a chunk is  *)
(* one unit of payload: bytes are counted in chunks.                       *)
(***************************************************************************)
EXTENDS Integers, Sequences, SequencesExt, FiniteSets

CONSTANTS
    MaxPackets,     \* bound on the packets of a behaviour
    ChunkCounts,    \* how many packets an event may take
    MaxResends,     \* MAX_RESENDS
    Window,         \* how many sequence numbers the receiver remembers
    Lifetime,       \* fewer packets than this are sent while one is in use
    MaxLost         \* bound on the packets and acks the network loses

ASSUME LinkAssumption ==
    /\ {MaxPackets, MaxResends, Window, Lifetime, MaxLost} \subseteq Nat
    /\ ChunkCounts \subseteq Nat \ {0}

\* The load under which the window is wide enough: the packets sent before and
\* after one while it is in use fit into it, together with the packet itself.
ASSUME RateAssumption ==
    /\ 2 * Lifetime - 1 <= Window
    /\ ChunkCounts \subseteq 1 .. Lifetime

VARIABLES
    handed,         \* events handed to the link so far
    sent,           \* the packet that carries each sequence number
    pending,        \* unacknowledged packets: how often each was resent
    young,          \* those sent since the last tick, which the next may skip
    net,            \* copies of packets in the network
    acks,           \* acks in the network
    processed,      \* sequence numbers the receiver has processed, in order
    inbound,        \* chunks counted for each event being reassembled
    delivered,      \* events handed to the handler, in order
    lost            \* losses so far

senderVars == <<handed, sent, pending, young>>
receiverVars == <<processed, inbound, delivered>>
vars == <<senderVars, receiverVars, net, acks, lost>>

Seqs == 1 .. MaxPackets
Packets == [event : Seqs, piece : Seqs, of : Seqs]
Copies == [seq : Seqs, resend : 0 .. MaxResends]

TypeOK ==
    /\ handed \in 0 .. MaxPackets
    /\ sent \in Seq(Packets) /\ Len(sent) <= MaxPackets
    /\ \E S \in SUBSET Seqs : pending \in [S -> 0 .. MaxResends]
    /\ young \subseteq Seqs
    /\ net \subseteq Copies
    /\ acks \subseteq Seqs
    /\ processed \in Seq(Seqs)
    /\ inbound \in [Seqs -> Nat]
    /\ delivered \in Seq(Seqs)
    /\ lost \in 0 .. MaxLost

Init ==
    /\ handed = 0 /\ sent = <<>> /\ pending = <<>> /\ young = {}
    /\ net = {} /\ acks = {}
    /\ processed = <<>> /\ inbound = [e \in Seqs |-> 0] /\ delivered = <<>>
    /\ lost = 0

-----------------------------------------------------------------------------
(* Sender *)

\* Packets that can still arrive.
InUse == DOMAIN pending \cup {p.seq : p \in net}

\* send_reliable: one packet per chunk, each numbered, queued and sent at once.
SendReliable(n) ==
    LET new == Len(sent) + 1 .. Len(sent) + n
    IN  /\ Len(sent) + n <= MaxPackets
        /\ \A s \in InUse : Len(sent) + n - s < Lifetime
        /\ handed' = handed + 1
        /\ sent' = sent \o [i \in 1 .. n |-> [event |-> handed + 1, piece |-> i, of |-> n]]
        /\ pending' = [s \in DOMAIN pending \cup new |-> IF s \in new THEN 0 ELSE pending[s]]
        /\ young' = young \cup new
        /\ net' = net \cup [seq : new, resend : {0}]
        /\ UNCHANGED <<receiverVars, acks, lost>>

\* tick: give up on what was resent MaxResends times, and so sent once more than
\* that, and resend the rest.  A packet sent since the last tick is skipped if
\* that was less than TICK ago.
GivenUpLateFault(s) == pending[s] > MaxResends
GivenUp(s) == pending[s] >= MaxResends
Tick ==
    LET kept == {s \in DOMAIN pending : ~GivenUp(s)}
    IN  \E again \in SUBSET kept :
            /\ kept \ young \subseteq again
            /\ pending' = [s \in kept |-> IF s \in again THEN pending[s] + 1 ELSE pending[s]]
            /\ net' = net \cup {[seq |-> s, resend |-> pending[s] + 1] : s \in again}
            /\ young' = again
            /\ UNCHANGED <<handed, sent, receiverVars, acks, lost>>

\* An ack settles the packet it names, once or more often.
SettledByFault(a) == {s \in DOMAIN pending : s <= a}
SettledBy(a) == {a}
ReceiveAck(a) ==
    /\ a \in acks
    /\ pending' = [s \in DOMAIN pending \ SettledBy(a) |-> pending[s]]
    /\ young' = young \ SettledBy(a)
    /\ acks' \in {acks, acks \ {a}}
    /\ UNCHANGED <<handed, sent, receiverVars, net, lost>>

-----------------------------------------------------------------------------
(* Receiver *)

\* The sequence numbers still remembered: the last Window processed.
RememberedFault ==
    {processed[i] : i \in {j \in DOMAIN processed : j > Len(processed) - Window + 1}}
Remembered ==
    {processed[i] : i \in {j \in DOMAIN processed : j > Len(processed) - Window}}

\* A chunk is in; the event is complete when as much has come as it is long.
CompleteFault(have, of) == have + 1 >= of
Complete(have, of) == have >= of

Reassemble(p) ==
    LET have == inbound[p.event] + 1
    IN  \/ /\ Complete(have, p.of)
           /\ delivered' = Append(delivered, p.event)
           /\ inbound' = [inbound EXCEPT ![p.event] = 0]
        \/ /\ ~Complete(have, p.of)
           /\ inbound' = [inbound EXCEPT ![p.event] = have]
           /\ UNCHANGED delivered

\* A copy arrives: acknowledge it whatever it is, apply it if it is new.
Receive(p) ==
    /\ p \in net
    /\ net' \in {net, net \ {p}}
    /\ acks' = acks \cup {p.seq}
    /\ \/ p.seq \in Remembered /\ UNCHANGED receiverVars
       \/ /\ p.seq \notin Remembered
          /\ processed' = Append(processed, p.seq)
          /\ Reassemble(sent[p.seq])
    /\ UNCHANGED <<senderVars, lost>>

-----------------------------------------------------------------------------
(* Network *)

Lose ==
    /\ lost < MaxLost /\ lost' = lost + 1
    /\ \/ \E p \in net : net' = net \ {p} /\ UNCHANGED acks
       \/ \E a \in acks : acks' = acks \ {a} /\ UNCHANGED net
    /\ UNCHANGED <<senderVars, receiverVars>>

-----------------------------------------------------------------------------
Next ==
    \/ \E n \in ChunkCounts : SendReliable(n)
    \/ Tick
    \/ \E s \in Seqs : ReceiveAck(s)
    \/ \E p \in net : Receive(p)
    \/ Lose

\* The tick is a timer of the event loop; a copy that stays in the network is
\* received.
Fairness ==
    /\ WF_vars(Tick)
    /\ \A s \in Seqs : WF_vars(\E p \in net : p.seq = s /\ Receive(p))

Spec == Init /\ [][Next]_vars /\ Fairness

-----------------------------------------------------------------------------
(* Safety *)

\* No packet is forgotten early: it leaves `pending` only once the receiver
\* has processed it or after its last resend.
LeavesUnheard(s) ==
    /\ s \in DOMAIN pending \ DOMAIN pending'
    /\ ~Contains(processed, s) /\ pending[s] < MaxResends
ResentUntilHeard == [][\A s \in Seqs : ~LeavesUnheard(s)]_vars

\* main.rs:65, of MAX_RESENDS: "Give up on a reliable packet after this many
\* sends".  The first send counts as one.
SentMaxResendsTimesAtMost == \A p \in net : p.resend + 1 <= MaxResends

\* main.rs:1092: "a retransmit must not be applied twice".  The receiver
\* forgets, but no sooner than the last copy of what it forgets is gone.
AppliedOnce ==
    \A i, j \in DOMAIN processed : processed[i] = processed[j] => i = j

\* Byte counting is enough: an event reaches the handler only with every one of
\* its chunks in.
DeliveredWhole ==
    \A s \in DOMAIN sent : Contains(delivered, sent[s].event) => Contains(processed, s)

-----------------------------------------------------------------------------
(* Refinement *)

Promise == INSTANCE Delivery WITH MaxEvents <- MaxPackets, got <- delivered

\* Every event is handled at most once and, as losses are bounded by
\* MaxLost <= MaxResends, in the end it is handled.
ImplementsDelivery == Promise!Spec

=============================================================================
