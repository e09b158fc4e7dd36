----------------------------- MODULE Link_proofs -----------------------------
(***************************************************************************)
(* Type correctness of Link, that no packet is forgotten early and that    *)
(* none is applied twice, for every number of packets, resend limit and    *)
(* bound on losses, and every window that is wide enough for the load.     *)
(***************************************************************************)
EXTENDS Link, FiniteSetTheorems, TLAPS

\* What travels was sent, and what is acknowledged was processed.
NetSent == \A p \in net : p.seq \in DOMAIN sent
PendingSent == DOMAIN pending \subseteq DOMAIN sent
EventsSent == handed <= Len(sent)
AcksEarned == \A a \in acks : Contains(processed, a)

LinkInv == TypeOK /\ NetSent /\ PendingSent /\ EventsSent /\ AcksEarned

-----------------------------------------------------------------------------
(* Helpers *)

\* Appending to what was processed keeps what was there and adds the new one.
LEMMA ContainsAppend ==
    ASSUME NEW s \in Seq(Seqs), NEW e \in Seqs
    PROVE  /\ Contains(Append(s, e), e)
           /\ \A x : Contains(Append(s, e), x) <=> Contains(s, x) \/ x = e
<1>1. Append(s, e)[Len(s) + 1] = e /\ Len(s) + 1 \in 1 .. Len(Append(s, e))
  OBVIOUS
<1>2. \A i \in 1 .. Len(s) : i \in 1 .. Len(Append(s, e)) /\ Append(s, e)[i] = s[i]
  OBVIOUS
<1>3. \A i \in 1 .. Len(Append(s, e)) : i \in 1 .. Len(s) \/ i = Len(s) + 1
  OBVIOUS
<1>. QED  BY <1>1, <1>2, <1>3 DEF Contains

-----------------------------------------------------------------------------
LEMMA InitLinkInv == Init => LinkInv
<1> SUFFICES ASSUME Init PROVE LinkInv
  OBVIOUS
<1>. USE LinkAssumption
<1>1. pending \in [{} -> 0 .. MaxResends] /\ DOMAIN pending = {}
  BY DEF Init
<1>2. TypeOK
  BY <1>1, SMTT(30) DEF Init, TypeOK, Seqs
<1>3. NetSent /\ PendingSent /\ EventsSent /\ AcksEarned
  BY <1>1 DEF Init, NetSent, PendingSent, EventsSent, AcksEarned
<1>. QED  BY <1>2, <1>3 DEF LinkInv

LEMMA SendReliableKeepsLinkInv ==
    ASSUME LinkInv, NEW n \in ChunkCounts, SendReliable(n)
    PROVE  LinkInv'
<1>. USE LinkAssumption DEF LinkInv
<1>. DEFINE new == Len(sent) + 1 .. Len(sent) + n
            piece == [i \in 1 .. n |-> [event |-> handed + 1, piece |-> i, of |-> n]]
            P == DOMAIN pending \cup new
            f == [s \in P |-> IF s \in new THEN 0 ELSE pending[s]]
<1>1. n \in Nat \ {0} /\ Len(sent) \in Nat /\ handed \in Nat /\ handed + 1 <= MaxPackets
      /\ Len(sent) + n <= MaxPackets
  BY DEF TypeOK, EventsSent, SendReliable
<1>2. new \subseteq Seqs
  BY <1>1 DEF Seqs
<1>3. piece \in Seq(Packets) /\ Len(piece) = n
  <2>1. \A i \in 1 .. n : [event |-> handed + 1, piece |-> i, of |-> n] \in Packets
    BY <1>1 DEF Packets, Seqs
  <2>. QED  BY <2>1, <1>1
<1>4. sent' = sent \o piece /\ sent' \in Seq(Packets) /\ Len(sent') = Len(sent) + n
  BY <1>1, <1>3 DEF SendReliable, TypeOK
<1>5. DOMAIN sent' = 1 .. Len(sent) + n /\ DOMAIN sent \subseteq DOMAIN sent'
      /\ new \subseteq DOMAIN sent'
  BY <1>1, <1>4, SMTT(30) DEF TypeOK
<1>6. pending' = f
  BY DEF SendReliable
<1>7. \E T \in SUBSET Seqs : f \in [T -> 0 .. MaxResends]
  <2>1. P \subseteq Seqs /\ \A s \in P : (IF s \in new THEN 0 ELSE pending[s]) \in 0 .. MaxResends
    BY <1>2 DEF TypeOK
  <2>. QED  BY <2>1
<1>8. net' = net \cup [seq : new, resend : {0}] /\ [seq : new, resend : {0}] \subseteq Copies
  BY <1>2 DEF SendReliable, Copies
<1>9. TypeOK'
  <2>1. handed' \in 0 .. MaxPackets /\ young' \subseteq Seqs
    BY <1>1, <1>2 DEF SendReliable, TypeOK
  <2>. QED  BY <2>1, <1>1, <1>4, <1>6, <1>7, <1>8 DEF TypeOK, SendReliable, receiverVars
<1>10. NetSent'
  BY <1>5, <1>8 DEF NetSent
<1>11. PendingSent'
  BY <1>5, <1>6 DEF PendingSent
<1>12. EventsSent' /\ AcksEarned'
  BY <1>1, <1>4 DEF SendReliable, EventsSent, AcksEarned, receiverVars
<1>. QED  BY <1>9, <1>10, <1>11, <1>12

LEMMA TickKeepsLinkInv ==
    ASSUME LinkInv, Tick
    PROVE  LinkInv'
<1>. USE LinkAssumption DEF LinkInv
<1>. DEFINE kept == {s \in DOMAIN pending : ~GivenUp(s)}
<1>1. PICK again \in SUBSET kept :
        /\ pending' = [s \in kept |-> IF s \in again THEN pending[s] + 1 ELSE pending[s]]
        /\ net' = net \cup {[seq |-> s, resend |-> pending[s] + 1] : s \in again}
        /\ young' = again
        /\ UNCHANGED <<handed, sent, receiverVars, acks, lost>>
  BY DEF Tick
<1>2. DOMAIN pending \subseteq Seqs
      /\ \A s \in kept : s \in Seqs /\ pending[s] \in 0 .. MaxResends /\ pending[s] < MaxResends
  BY DEF TypeOK, GivenUp
<1>3. \E T \in SUBSET Seqs : pending' \in [T -> 0 .. MaxResends]
  <2>1. \A s \in kept : (IF s \in again THEN pending[s] + 1 ELSE pending[s]) \in 0 .. MaxResends
    BY <1>2
  <2>2. pending' \in [kept -> 0 .. MaxResends]
    BY <1>1, <2>1
  <2>. QED  BY <1>2, <2>2
<1>4. net' \subseteq Copies
  BY <1>1, <1>2 DEF TypeOK, Copies
<1>5. TypeOK'
  BY <1>1, <1>2, <1>3, <1>4 DEF TypeOK, receiverVars
<1>6. NetSent' /\ PendingSent'
  BY <1>1 DEF NetSent, PendingSent
<1>7. EventsSent' /\ AcksEarned'
  BY <1>1 DEF EventsSent, AcksEarned, receiverVars
<1>. QED  BY <1>5, <1>6, <1>7

LEMMA ReceiveAckKeepsLinkInv ==
    ASSUME LinkInv, NEW a \in Seqs, ReceiveAck(a)
    PROVE  LinkInv'
<1>. USE LinkAssumption DEF LinkInv
<1>1. pending' = [s \in DOMAIN pending \ SettledBy(a) |-> pending[s]]
      /\ young' \subseteq young /\ acks' \subseteq acks
      /\ UNCHANGED <<handed, sent, receiverVars, net, lost>>
  BY DEF ReceiveAck
<1>2. \E T \in SUBSET Seqs : pending' \in [T -> 0 .. MaxResends]
  <2>1. DOMAIN pending \ SettledBy(a) \subseteq Seqs
        /\ \A s \in DOMAIN pending \ SettledBy(a) : pending[s] \in 0 .. MaxResends
    BY DEF TypeOK
  <2>2. pending' \in [DOMAIN pending \ SettledBy(a) -> 0 .. MaxResends]
    BY <1>1, <2>1
  <2>. QED  BY <2>1, <2>2
<1>3. TypeOK'
  BY <1>1, <1>2 DEF TypeOK, receiverVars
<1>4. NetSent' /\ PendingSent' /\ EventsSent' /\ AcksEarned'
  BY <1>1 DEF NetSent, PendingSent, EventsSent, AcksEarned, receiverVars
<1>. QED  BY <1>3, <1>4

LEMMA ReceiveKeepsLinkInv ==
    ASSUME LinkInv, NEW p \in net, Receive(p)
    PROVE  LinkInv'
<1>. USE LinkAssumption DEF LinkInv
<1>1. p.seq \in Seqs /\ p.seq \in DOMAIN sent /\ sent[p.seq] \in Packets
  BY DEF TypeOK, NetSent, Copies
<1>2. net' \subseteq net /\ acks' = acks \cup {p.seq} /\ UNCHANGED <<senderVars, lost>>
  BY DEF Receive
<1>3. CASE p.seq \in Remembered /\ UNCHANGED receiverVars
  <2>1. Contains(processed, p.seq)
    <3>1. PICK i \in DOMAIN processed : processed[i] = p.seq
      BY <1>3 DEF Remembered
    <3>2. DOMAIN processed = 1 .. Len(processed)
      BY DEF TypeOK
    <3>. QED  BY <3>1, <3>2 DEF Contains
  <2>2. TypeOK'
    BY <1>1, <1>2, <1>3 DEF TypeOK, senderVars, receiverVars
  <2>. QED
    BY <1>2, <1>3, <2>1, <2>2
    DEF NetSent, PendingSent, EventsSent, AcksEarned, senderVars, receiverVars
<1>4. CASE processed' = Append(processed, p.seq) /\ Reassemble(sent[p.seq])
  <2>1. sent[p.seq].event \in Seqs /\ inbound[sent[p.seq].event] + 1 \in Nat
    <3>1. sent[p.seq].event \in Seqs
      BY <1>1 DEF Packets
    <3>. QED  BY <3>1 DEF TypeOK
  <2>2. inbound' \in [Seqs -> Nat] /\ delivered' \in Seq(Seqs)
    <3> DEFINE e == sent[p.seq].event
               have == inbound[e] + 1
    <3>1. inbound \in [Seqs -> Nat] /\ delivered \in Seq(Seqs) /\ e \in Seqs /\ have \in Nat
      BY <2>1 DEF TypeOK
    <3>2. \/ delivered' = Append(delivered, e) /\ inbound' = [inbound EXCEPT ![e] = 0]
          \/ delivered' = delivered /\ inbound' = [inbound EXCEPT ![e] = have]
      BY <1>4 DEF Reassemble
    <3>. HIDE DEF e, have
    <3>3. [inbound EXCEPT ![e] = 0] \in [Seqs -> Nat]
          /\ [inbound EXCEPT ![e] = have] \in [Seqs -> Nat]
      BY <3>1
    <3>4. Append(delivered, e) \in Seq(Seqs)
      BY <3>1
    <3>. QED  BY <3>1, <3>2, <3>3, <3>4
  <2>3. TypeOK'
    <3>1. processed' \in Seq(Seqs)
      BY <1>1, <1>4 DEF TypeOK
    <3>2. acks' \subseteq Seqs /\ net' \subseteq Copies
      BY <1>1, <1>2 DEF TypeOK
    <3>3. UNCHANGED <<handed, sent, pending, young, lost>>
      BY <1>2 DEF senderVars
    <3>. QED  BY <2>2, <3>1, <3>2, <3>3 DEF TypeOK
  <2>4. AcksEarned'
    BY <1>1, <1>2, <1>4, ContainsAppend DEF AcksEarned, TypeOK
  <2>. QED
    BY <1>2, <2>3, <2>4 DEF NetSent, PendingSent, EventsSent, senderVars
<1>. QED  BY <1>3, <1>4 DEF Receive

LEMMA LoseKeepsLinkInv ==
    ASSUME LinkInv, Lose
    PROVE  LinkInv'
<1>. USE LinkAssumption DEF LinkInv
<1>1. net' \subseteq net /\ acks' \subseteq acks /\ lost' \in 0 .. MaxLost
      /\ UNCHANGED <<senderVars, receiverVars>>
  BY DEF Lose, TypeOK
<1>. QED
  BY <1>1 DEF TypeOK, NetSent, PendingSent, EventsSent, AcksEarned, senderVars, receiverVars

LEMMA NextLinkInv == LinkInv /\ [Next]_vars => LinkInv'
<1> SUFFICES ASSUME LinkInv, [Next]_vars PROVE LinkInv'
  OBVIOUS
<1>1. CASE Next
  BY <1>1, SendReliableKeepsLinkInv, TickKeepsLinkInv, ReceiveAckKeepsLinkInv,
     ReceiveKeepsLinkInv, LoseKeepsLinkInv DEF Next
<1>2. CASE UNCHANGED vars
  BY <1>2 DEF LinkInv, TypeOK, NetSent, PendingSent, EventsSent, AcksEarned,
              vars, senderVars, receiverVars
<1>. QED  BY <1>1, <1>2

\* The link invariant holds of every behaviour: types, and nothing travels,
\* waits or is acknowledged that was not sent or processed first.
THEOREM LinkInvariant == Spec => []LinkInv
<1>. QED  BY InitLinkInv, NextLinkInv, PTL DEF Spec

THEOREM LinkTypeCorrect == Spec => []TypeOK
<1>1. LinkInv => TypeOK
  BY DEF LinkInv
<1>. QED  BY <1>1, LinkInvariant, PTL

-----------------------------------------------------------------------------
\* Server::send_reliable's promise, "sent now and again every tick until
\* acked": a packet the receiver has not processed leaves `pending` only after
\* its last resend.
THEOREM NeverForgottenEarly == Spec => ResentUntilHeard
<1>1. ASSUME LinkInv, [Next]_vars
      PROVE  [\A s \in Seqs : ~LeavesUnheard(s)]_vars
  <2> SUFFICES ASSUME NEW s \in Seqs, LeavesUnheard(s), Next PROVE FALSE
    BY <1>1
  <2>1. s \in DOMAIN pending /\ s \notin DOMAIN pending'
        /\ ~Contains(processed, s) /\ pending[s] < MaxResends
    BY DEF LeavesUnheard
  <2>2. CASE \E n \in ChunkCounts : SendReliable(n)
    BY <2>1, <2>2 DEF SendReliable
  <2>3. CASE Tick
    BY <1>1, <2>1, <2>3, LinkAssumption DEF Tick, GivenUp, LinkInv, TypeOK
  <2>4. CASE \E a \in Seqs : ReceiveAck(a)
    BY <1>1, <2>1, <2>4 DEF ReceiveAck, SettledBy, LinkInv, AcksEarned
  <2>5. CASE (\E p \in net : Receive(p)) \/ Lose
    BY <2>1, <2>5 DEF Receive, Lose, senderVars
  <2>. QED  BY <2>2, <2>3, <2>4, <2>5 DEF Next
<1>. QED  BY <1>1, LinkInvariant, PTL DEF Spec, ResentUntilHeard

-----------------------------------------------------------------------------
(* Nothing is applied twice *)

\* What is in use was sent lately, and what was processed after a packet that
\* is still in use is that packet's neighbour.
Neighbours(s) == (s - Lifetime + 1) .. (s + Lifetime - 1)
ProcessedSent == \A i \in DOMAIN processed : processed[i] \in DOMAIN sent
InUseIsRecent == \A s \in InUse : Len(sent) - s < Lifetime
ProcessedNearInUse ==
    \A i, j \in DOMAIN processed :
        i < j /\ processed[i] \in InUse => processed[j] \in Neighbours(processed[i])

WindowInv == ProcessedSent /\ InUseIsRecent /\ ProcessedNearInUse /\ AppliedOnce

LEMMA InitWindowInv == Init => WindowInv
<1>1. Init => processed = <<>> /\ DOMAIN pending = {} /\ net = {}
  BY DEF Init
<1>. QED
  BY <1>1 DEF WindowInv, ProcessedSent, InUseIsRecent, ProcessedNearInUse, AppliedOnce, InUse

\* Packets in use only become fewer, unless new ones are sent.
LEMMA FewerInUse ==
    ASSUME WindowInv, InUse' \subseteq InUse, UNCHANGED <<sent, processed>>
    PROVE  WindowInv'
BY DEF WindowInv, ProcessedSent, InUseIsRecent, ProcessedNearInUse, AppliedOnce, Neighbours

LEMMA SendReliableKeepsWindowInv ==
    ASSUME LinkInv, LinkInv', WindowInv, NEW n \in ChunkCounts, SendReliable(n)
    PROVE  WindowInv'
<1>. DEFINE new == Len(sent) + 1 .. Len(sent) + n
<1>1. n \in Nat \ {0} /\ n <= Lifetime /\ Lifetime \in Nat /\ Len(sent) \in Nat
      /\ DOMAIN sent = 1 .. Len(sent)
  BY LinkAssumption, RateAssumption DEF LinkInv, TypeOK
<1>2. processed' = processed /\ Len(sent') = Len(sent) + n /\ DOMAIN sent' = 1 .. Len(sent) + n
  <2>1. Len([i \in 1 .. n |-> [event |-> handed + 1, piece |-> i, of |-> n]]) = n
    BY <1>1
  <2>. QED  BY <1>1, <2>1 DEF SendReliable, receiverVars, LinkInv, TypeOK
<1>3. InUse' = InUse \cup new
  BY DEF SendReliable, InUse
<1>4. ProcessedSent'
  BY <1>1, <1>2 DEF WindowInv, ProcessedSent
<1>5. InUse \subseteq DOMAIN sent /\ \A s \in InUse : Len(sent) + n - s < Lifetime
  BY DEF SendReliable, LinkInv, NetSent, PendingSent, InUse
<1>6. InUseIsRecent'
  BY <1>1, <1>2, <1>3, <1>5 DEF InUseIsRecent
<1>7. ProcessedNearInUse'
  BY <1>1, <1>2, <1>3 DEF WindowInv, ProcessedSent, ProcessedNearInUse, Neighbours
<1>8. AppliedOnce'
  BY <1>2 DEF WindowInv, AppliedOnce
<1>. QED  BY <1>4, <1>6, <1>7, <1>8 DEF WindowInv

\* A copy whose number is no longer remembered was never processed: too many
\* distinct neighbours would have had to come in since.
LEMMA ForgottenIsGone ==
    ASSUME LinkInv, WindowInv, NEW p \in net, p.seq \notin Remembered
    PROVE  \A i \in DOMAIN processed : processed[i] # p.seq
<1> SUFFICES ASSUME NEW i \in DOMAIN processed, processed[i] = p.seq PROVE FALSE
  OBVIOUS
<1>. DEFINE s == p.seq
            later == i + 1 .. Len(processed)
            around == Neighbours(s) \ {s}
            f == [k \in later |-> processed[k]]
<1>1. s \in InUse /\ s \in 1 .. Len(sent) /\ Len(sent) \in Nat /\ s \in Int
      /\ Lifetime \in Nat /\ Window \in Nat
      /\ Len(processed) \in Nat /\ DOMAIN processed = 1 .. Len(processed) /\ i \in Nat
  BY LinkAssumption, SMTT(30) DEF LinkInv, NetSent, TypeOK, InUse
<1>2. Lifetime >= 1
  BY <1>1 DEF WindowInv, InUseIsRecent
<1>3. Len(processed) - i >= 2 * Lifetime - 1
  <2>1. i <= Len(processed) - Window
    BY <1>1 DEF Remembered
  <2>. QED  BY <1>1, <2>1, RateAssumption
<1>4. IsFiniteSet(later) /\ Cardinality(later) >= 2 * Lifetime - 1
  <2>1. i + 1 \in Int /\ Len(processed) \in Int
    BY <1>1
  <2>2. IsFiniteSet(later) /\ Cardinality(later)
            = IF i + 1 > Len(processed) THEN 0 ELSE Len(processed) - (i + 1) + 1
    BY <2>1, FS_Interval
  <2>. HIDE DEF later
  <2>. QED  BY <1>1, <1>2, <1>3, <2>2
<1>5. IsFiniteSet(around) /\ Cardinality(around) = 2 * Lifetime - 2
  <2>1. IsFiniteSet(Neighbours(s)) /\ Cardinality(Neighbours(s)) = 2 * Lifetime - 1
    <3>1. s - Lifetime + 1 \in Int /\ s + Lifetime - 1 \in Int
          /\ ~(s - Lifetime + 1 > s + Lifetime - 1)
          /\ (s + Lifetime - 1) - (s - Lifetime + 1) + 1 = 2 * Lifetime - 1
      BY <1>1, <1>2, SMTT(30)
    <3>. HIDE DEF s
    <3>. QED  BY <3>1, FS_Interval DEF Neighbours
  <2>2. s \in Neighbours(s)
    BY <1>1, <1>2 DEF Neighbours
  <2>3. Cardinality(Neighbours(s) \ {s}) = Cardinality(Neighbours(s)) - 1
        /\ IsFiniteSet(Neighbours(s) \ {s})
    BY <2>1, <2>2, FS_RemoveElement
  <2>. QED  BY <1>1, <2>1, <2>3
<1>6. f \in [later -> around]
  <2> SUFFICES ASSUME NEW k \in later PROVE processed[k] \in around
    OBVIOUS
  <2>1. k \in DOMAIN processed /\ i < k
    BY <1>1
  <2>2. processed[k] \in Neighbours(s)
    BY <1>1, <2>1 DEF WindowInv, ProcessedNearInUse
  <2>3. processed[k] # s
    BY <1>1, <2>1 DEF WindowInv, AppliedOnce
  <2>. QED  BY <2>2, <2>3
<1>7. Cardinality(around) < Cardinality(later)
  <2>1. Cardinality(later) \in Nat
    BY <1>4, FS_CardinalityType
  <2>. HIDE DEF later, around
  <2>. QED  BY <1>1, <1>4, <1>5, <2>1
<1>8. \E x, y \in later : x # y /\ f[x] = f[y]
  <2>. HIDE DEF later, around, f
  <2>. QED  BY <1>4, <1>5, <1>6, <1>7, FS_PigeonHole
<1>9. PICK x, y \in later : x # y /\ processed[x] = processed[y]
  BY <1>8
<1>10. x \in DOMAIN processed /\ y \in DOMAIN processed
  BY <1>1
<1>. QED  BY <1>9, <1>10 DEF WindowInv, AppliedOnce

LEMMA ReceiveKeepsWindowInv ==
    ASSUME LinkInv, WindowInv, NEW p \in net, Receive(p)
    PROVE  WindowInv'
<1>1. InUse' \subseteq InUse /\ sent' = sent
  BY DEF Receive, InUse, senderVars
<1>2. CASE UNCHANGED receiverVars
  BY <1>1, <1>2, FewerInUse DEF receiverVars
<1>3. CASE p.seq \notin Remembered /\ processed' = Append(processed, p.seq)
  <2>. DEFINE last == Len(processed) + 1
  <2>1. p.seq \in InUse /\ InUse \subseteq 1 .. Len(sent) /\ Len(sent) \in Nat /\ Lifetime \in Nat
        /\ DOMAIN sent = 1 .. Len(sent)
    BY LinkAssumption, SMTT(30) DEF LinkInv, NetSent, PendingSent, TypeOK, InUse
  <2>2. processed \in Seq(Seqs) /\ p.seq \in Seqs
    BY DEF LinkInv, TypeOK, Copies
  <2>3. DOMAIN processed' = DOMAIN processed \cup {last} /\ processed'[last] = p.seq
        /\ \A i \in DOMAIN processed : i < last /\ i \in Nat /\ processed'[i] = processed[i]
    BY <1>3, <2>2
  <2>4. ProcessedSent'
    BY <1>1, <2>1, <2>3 DEF WindowInv, ProcessedSent
  <2>5. InUseIsRecent'
    BY <1>1 DEF WindowInv, InUseIsRecent
  <2>6. ProcessedNearInUse'
    <3> SUFFICES ASSUME NEW i \in DOMAIN processed', NEW j \in DOMAIN processed',
                        i < j, processed'[i] \in InUse'
                 PROVE  processed'[j] \in Neighbours(processed'[i])
      BY DEF ProcessedNearInUse, Neighbours
    <3>1. i \in DOMAIN processed
      BY <2>2, <2>3
    <3>2. CASE j \in DOMAIN processed
      BY <1>1, <2>3, <3>1, <3>2 DEF WindowInv, ProcessedNearInUse
    <3>3. CASE j = last
      <4>1. Len(sent) - p.seq < Lifetime /\ Len(sent) - processed[i] < Lifetime
            /\ processed[i] \in 1 .. Len(sent) /\ p.seq \in 1 .. Len(sent)
        BY <1>1, <2>1, <2>3, <3>1 DEF WindowInv, InUseIsRecent
      <4>. QED  BY <2>1, <2>3, <3>1, <3>3, <4>1 DEF Neighbours
    <3>. QED  BY <2>3, <3>2, <3>3
  <2>7. AppliedOnce'
    BY <1>3, <2>3, ForgottenIsGone DEF WindowInv, AppliedOnce
  <2>. QED  BY <2>4, <2>5, <2>6, <2>7 DEF WindowInv
<1>. QED  BY <1>2, <1>3 DEF Receive

LEMMA NextWindowInv == LinkInv /\ LinkInv' /\ WindowInv /\ [Next]_vars => WindowInv'
<1> SUFFICES ASSUME LinkInv, LinkInv', WindowInv, [Next]_vars PROVE WindowInv'
  OBVIOUS
<1>1. CASE \E n \in ChunkCounts : SendReliable(n)
  BY <1>1, SendReliableKeepsWindowInv
<1>2. CASE Tick
  <2>1. InUse' \subseteq InUse /\ UNCHANGED <<sent, processed>>
    BY <1>2 DEF Tick, InUse, receiverVars
  <2>. QED  BY <2>1, FewerInUse
<1>3. CASE \E a \in Seqs : ReceiveAck(a)
  <2>1. InUse' \subseteq InUse /\ UNCHANGED <<sent, processed>>
    BY <1>3 DEF ReceiveAck, InUse, receiverVars
  <2>. QED  BY <2>1, FewerInUse
<1>4. CASE \E p \in net : Receive(p)
  BY <1>4, ReceiveKeepsWindowInv
<1>5. CASE Lose
  <2>1. InUse' \subseteq InUse /\ UNCHANGED <<sent, processed>>
    BY <1>5 DEF Lose, InUse, senderVars, receiverVars
  <2>. QED  BY <2>1, FewerInUse
<1>6. CASE UNCHANGED vars
  <2>1. InUse' \subseteq InUse /\ UNCHANGED <<sent, processed>>
    BY <1>6 DEF vars, InUse, senderVars, receiverVars
  <2>. QED  BY <2>1, FewerInUse
<1>. QED  BY <1>1, <1>2, <1>3, <1>4, <1>5, <1>6 DEF Next

\* Server::handle's promise, "a retransmit must not be applied twice": a window
\* of 2 * Lifetime - 1 numbers suffices when fewer than Lifetime packets are
\* sent while one can still arrive.
THEOREM NothingIsAppliedTwice == Spec => []AppliedOnce
<1>1. Init => LinkInv /\ WindowInv
  BY InitLinkInv, InitWindowInv
<1>2. LinkInv /\ WindowInv /\ [Next]_vars => (LinkInv /\ WindowInv)'
  BY NextLinkInv, NextWindowInv
<1>3. LinkInv /\ WindowInv => AppliedOnce
  BY DEF WindowInv
<1>. QED  BY <1>1, <1>2, <1>3, PTL DEF Spec

-----------------------------------------------------------------------------
(* Events arrive whole, at most once *)

\* The packets of an event, and those of them that have been processed.
Pieces(e) == {s \in DOMAIN sent : sent[s].event = e}
Done(e) == {s \in Pieces(e) : Contains(processed, s)}

SentWhole ==
    \A e \in Seqs : \A s \in Pieces(e) :
        e \in 1 .. handed /\ Cardinality(Pieces(e)) = sent[s].of

\* Counting chunks counts the processed packets, as none counts twice.
Counted ==
    \A e \in 1 .. handed :
        \/ Contains(delivered, e) /\ inbound[e] = 0 /\ Done(e) = Pieces(e)
        \/ ~Contains(delivered, e) /\ inbound[e] = Cardinality(Done(e)) /\ Done(e) # Pieces(e)
DeliveredSent == \A i \in DOMAIN delivered : delivered[i] \in 1 .. handed
NoneEarly == \A e \in Seqs : e > handed => inbound[e] = 0

ChunkInv == SentWhole /\ Counted /\ DeliveredSent /\ NoneEarly

LEMMA InitChunkInv == Init => ChunkInv
<1>1. Init => sent = <<>> /\ handed = 0 /\ delivered = <<>> /\ inbound = [e \in Seqs |-> 0]
  BY DEF Init
<1>. QED  BY <1>1 DEF ChunkInv, SentWhole, Counted, DeliveredSent, NoneEarly, Pieces

LEMMA PiecesFinite ==
    ASSUME LinkInv, NEW e
    PROVE  IsFiniteSet(Pieces(e)) /\ IsFiniteSet(Done(e)) /\ Done(e) \subseteq Pieces(e)
<1>1. Len(sent) \in Int /\ DOMAIN sent = 1 .. Len(sent)
  BY DEF LinkInv, TypeOK
<1>2. IsFiniteSet(DOMAIN sent)
  BY <1>1, FS_Interval
<1>3. Pieces(e) \subseteq DOMAIN sent /\ Done(e) \subseteq DOMAIN sent
  BY DEF Pieces, Done
<1>. QED  BY <1>2, <1>3, FS_Subset DEF Done

LEMMA NextNumbers ==
    ASSUME NEW m \in Nat, NEW n \in Nat
    PROVE  IsFiniteSet(m + 1 .. m + n) /\ Cardinality(m + 1 .. m + n) = n
<1>. DEFINE a == m + 1
            b == m + n
<1>1. a \in Int /\ b \in Int /\ (IF a > b THEN 0 ELSE b - a + 1) = n
  OBVIOUS
<1>. HIDE DEF a, b
<1>2. IsFiniteSet(a .. b) /\ Cardinality(a .. b) = IF a > b THEN 0 ELSE b - a + 1
  BY <1>1, FS_Interval
<1>. QED  BY <1>1, <1>2 DEF a, b

\* What send_reliable adds: packets numbered on, all of one new event.
LEMMA NewPackets ==
    ASSUME LinkInv, NEW n \in ChunkCounts, SendReliable(n)
    PROVE  /\ handed + 1 \in Seqs
           /\ DOMAIN sent' = DOMAIN sent \cup (Len(sent) + 1 .. Len(sent) + n)
           /\ \A s \in DOMAIN sent : sent'[s] = sent[s]
           /\ \A s \in Len(sent) + 1 .. Len(sent) + n :
                 s \notin DOMAIN sent /\ sent'[s].event = handed + 1 /\ sent'[s].of = n
<1>. DEFINE piece == [i \in 1 .. n |-> [event |-> handed + 1, piece |-> i, of |-> n]]
<1>1. n \in Nat \ {0} /\ Len(sent) \in Nat /\ handed \in Nat /\ handed + 1 <= MaxPackets
      /\ Len(sent) + n <= MaxPackets /\ DOMAIN sent = 1 .. Len(sent) /\ MaxPackets \in Nat
  BY LinkAssumption DEF LinkInv, TypeOK, EventsSent, SendReliable
<1>2. handed + 1 \in Seqs /\ \A i \in 1 .. n : i \in Seqs
  BY <1>1 DEF Seqs
<1>3. piece \in Seq(Packets) /\ Len(piece) = n /\ sent \in Seq(Packets)
  <2>1. \A i \in 1 .. n : [event |-> handed + 1, piece |-> i, of |-> n] \in Packets
    BY <1>1, <1>2 DEF Packets, Seqs
  <2>. QED  BY <2>1, <1>1 DEF LinkInv, TypeOK
<1>4. \A i \in 1 .. n : piece[i].event = handed + 1 /\ piece[i].of = n
  OBVIOUS
<1>5. sent' = sent \o piece
  BY DEF SendReliable
<1>. HIDE DEF piece
<1>6. DOMAIN sent' = 1 .. Len(sent) + n
      /\ (\A s \in 1 .. Len(sent) : sent'[s] = sent[s])
      /\ (\A s \in Len(sent) + 1 .. Len(sent) + n : sent'[s] = piece[s - Len(sent)])
  <2>1. DOMAIN (sent \o piece) = 1 .. Len(sent) + n
    BY <1>1, <1>3
  <2>2. \A s \in 1 .. Len(sent) : (sent \o piece)[s] = sent[s]
    BY <1>1, <1>3
  <2>3. \A s \in Len(sent) + 1 .. Len(sent) + n : (sent \o piece)[s] = piece[s - Len(sent)]
    BY <1>1, <1>3
  <2>. QED  BY <1>5, <2>1, <2>2, <2>3
<1>. QED  BY <1>1, <1>2, <1>4, <1>6

LEMMA SendReliableKeepsChunkInv ==
    ASSUME LinkInv, LinkInv', WindowInv, ChunkInv, NEW n \in ChunkCounts, SendReliable(n)
    PROVE  ChunkInv'
<1>. DEFINE new == Len(sent) + 1 .. Len(sent) + n
<1>1. PICK e \in Seqs : e = handed + 1
  BY NewPackets
<1>2. n \in Nat \ {0} /\ Len(sent) \in Nat /\ DOMAIN sent = 1 .. Len(sent) /\ handed \in Nat
  BY LinkAssumption DEF LinkInv, TypeOK
<1>3. handed' = e /\ UNCHANGED <<processed, inbound, delivered>>
  BY <1>1 DEF SendReliable, receiverVars
<1>4. DOMAIN sent' = DOMAIN sent \cup new
      /\ (\A s \in DOMAIN sent : sent'[s] = sent[s])
      /\ (\A s \in new : s \notin DOMAIN sent /\ sent'[s].event = e /\ sent'[s].of = n)
  BY <1>1, NewPackets
<1>5. new # {} /\ IsFiniteSet(new) /\ Cardinality(new) = n
  <2>1. IsFiniteSet(new) /\ Cardinality(new) = n
    BY <1>2, NextNumbers
  <2>2. Len(sent) + 1 \in new
    BY <1>2
  <2>. HIDE DEF new
  <2>. QED  BY <1>2, <2>1, <2>2
<1>. HIDE DEF new
<1>6. \A d \in Seqs : Done(d)' = {s \in Pieces(d)' : Contains(processed, s)}
  BY <1>3 DEF Done, Contains
<1>7. \A d \in Seqs \ {e} : Pieces(d)' = Pieces(d) /\ Done(d)' = Done(d)
  BY <1>4, <1>6 DEF Pieces, Done
<1>8. Pieces(e)' = new
  <2>1. \A s \in DOMAIN sent : sent[s].event # e
    <3>1. e \notin 1 .. handed
      BY <1>1, <1>2
    <3>. QED  BY <3>1 DEF ChunkInv, SentWhole, Pieces
  <2>. QED  BY <1>4, <2>1 DEF Pieces
<1>9. Done(e)' = {}
  <2>1. \A i \in 1 .. Len(processed) : processed[i] \in DOMAIN sent
    <3>1. DOMAIN processed = 1 .. Len(processed)
      BY DEF LinkInv, TypeOK
    <3>. QED  BY <3>1 DEF WindowInv, ProcessedSent
  <2>2. \A s \in new : ~Contains(processed, s)
    BY <1>4, <2>1 DEF Contains
  <2>. QED  BY <1>6, <1>8, <2>2
<1>10. SentWhole'
  <2> SUFFICES ASSUME NEW d \in Seqs, NEW s \in Pieces(d)'
               PROVE  d \in 1 .. handed' /\ Cardinality(Pieces(d)') = sent'[s].of
    BY DEF SentWhole
  <2>1. CASE d = e
    BY <1>1, <1>2, <1>3, <1>4, <1>5, <1>8, <2>1
  <2>2. CASE d # e
    <3>1. s \in Pieces(d) /\ sent'[s] = sent[s] /\ Pieces(d)' = Pieces(d)
      BY <1>4, <1>7, <2>2 DEF Pieces
    <3>. QED  BY <1>1, <1>2, <1>3, <3>1 DEF ChunkInv, SentWhole
  <2>. QED  BY <2>1, <2>2
<1>11. ~Contains(delivered, e) /\ inbound[e] = 0
  <2>1. DOMAIN delivered = 1 .. Len(delivered)
    BY DEF LinkInv, TypeOK
  <2>2. e > handed /\ e \notin 1 .. handed
    BY <1>1, <1>2
  <2>. QED  BY <2>1, <2>2 DEF ChunkInv, DeliveredSent, NoneEarly, Contains
<1>12. Counted'
  <2> SUFFICES ASSUME NEW d \in 1 .. handed'
               PROVE  \/ Contains(delivered, d) /\ inbound[d] = 0 /\ Done(d)' = Pieces(d)'
                      \/ ~Contains(delivered, d) /\ inbound[d] = Cardinality(Done(d)')
                         /\ Done(d)' # Pieces(d)'
    BY <1>3 DEF Counted, Contains
  <2>1. CASE d = e
    <3>1. Done(d)' = {} /\ Pieces(d)' = new
      BY <1>8, <1>9, <2>1
    <3>. QED  BY <1>5, <1>11, <2>1, <3>1, FS_EmptySet
  <2>2. CASE d # e
    <3>1. d \in 1 .. handed /\ d \in Seqs
      BY <1>1, <1>2, <1>3, <2>2, LinkAssumption DEF Seqs
    <3>. QED  BY <1>7, <2>2, <3>1 DEF ChunkInv, Counted
  <2>. QED  BY <2>1, <2>2
<1>13. DeliveredSent' /\ NoneEarly'
  BY <1>1, <1>2, <1>3 DEF ChunkInv, DeliveredSent, NoneEarly, Seqs
<1>. QED  BY <1>10, <1>12, <1>13 DEF ChunkInv

LEMMA SameChunks ==
    ASSUME ChunkInv, UNCHANGED <<handed, sent, processed, inbound, delivered>>
    PROVE  ChunkInv'
<1>1. \A d : Pieces(d)' = Pieces(d) /\ Done(d)' = Done(d)
  BY DEF Pieces, Done, Contains
<1>2. \A d : Contains(delivered, d)' <=> Contains(delivered, d)
  BY DEF Contains
<1>3. SentWhole' /\ Counted'
  BY <1>1, <1>2 DEF ChunkInv, SentWhole, Counted
<1>. QED  BY <1>3 DEF ChunkInv, DeliveredSent, NoneEarly

\* Receiving a new packet: one more of its event's packets is processed, and
\* the event is handed over exactly when it was the last of them.
LEMMA NewPiece ==
    ASSUME LinkInv, WindowInv, ChunkInv, NEW p \in net, p.seq \notin Remembered,
           processed' = Append(processed, p.seq), Reassemble(sent[p.seq]),
           sent' = sent,
           NEW e \in Seqs, e = sent[p.seq].event
    PROVE  /\ e \in 1 .. handed /\ ~Contains(delivered, e)
           /\ p.seq \in Pieces(e) /\ p.seq \notin Done(e)
           /\ Done(e)' = Done(e) \cup {p.seq}
           /\ \A d \in Seqs \ {e} : Done(d)' = Done(d)
           /\ \/ /\ Done(e)' = Pieces(e)
                 /\ delivered' = Append(delivered, e)
                 /\ inbound' = [inbound EXCEPT ![e] = 0]
              \/ /\ Done(e)' # Pieces(e)
                 /\ delivered' = delivered
                 /\ inbound' = [inbound EXCEPT ![e] = Cardinality(Done(e)')]
<1>1. p.seq \in Pieces(e) /\ p.seq \in Seqs
  BY DEF LinkInv, NetSent, TypeOK, Copies, Pieces
<1>2. e \in 1 .. handed /\ Cardinality(Pieces(e)) = sent[p.seq].of
  BY <1>1 DEF ChunkInv, SentWhole
<1>3. ~Contains(processed, p.seq)
  <2>1. DOMAIN processed = 1 .. Len(processed)
    BY DEF LinkInv, TypeOK
  <2>. QED  BY <2>1, ForgottenIsGone DEF Contains
<1>4. p.seq \notin Done(e) /\ Done(e) # Pieces(e)
  BY <1>1, <1>3 DEF Done
<1>5. \A x : Contains(processed', x) <=> Contains(processed, x) \/ x = p.seq
  <2>1. processed \in Seq(Seqs)
    BY DEF LinkInv, TypeOK
  <2>. QED  BY <1>1, <2>1, ContainsAppend
<1>6. \A d \in Seqs : /\ Pieces(d)' = Pieces(d)
                      /\ Done(d)' = {s \in Pieces(d) : Contains(processed', s)}
  BY DEF Pieces, Done, Contains
<1>7. Done(e)' = Done(e) \cup {p.seq}
  BY <1>1, <1>5, <1>6 DEF Done
<1>8. \A d \in Seqs \ {e} : Done(d)' = Done(d)
  BY <1>5, <1>6 DEF Done, Pieces
<1>9. ~Contains(delivered, e) /\ inbound[e] = Cardinality(Done(e))
  BY <1>2, <1>4 DEF ChunkInv, Counted
<1>10. IsFiniteSet(Pieces(e)) /\ IsFiniteSet(Done(e)) /\ Done(e)' \subseteq Pieces(e)
  BY <1>1, <1>7, PiecesFinite
<1>11. Cardinality(Done(e)') = inbound[e] + 1
  <2>1. Cardinality(Done(e) \cup {p.seq}) = Cardinality(Done(e)) + 1
    BY <1>4, <1>10, FS_AddElement
  <2>. QED  BY <1>7, <1>9, <2>1
<1>12. Complete(inbound[e] + 1, sent[p.seq].of) <=> Done(e)' = Pieces(e)
  <2>1. Cardinality(Done(e)') <= Cardinality(Pieces(e))
        /\ (Cardinality(Pieces(e)) = Cardinality(Done(e)') => Pieces(e) = Done(e)')
    BY <1>10, FS_Subset
  <2>2. Cardinality(Pieces(e)) \in Nat /\ inbound[e] + 1 \in Nat
    BY <1>9, <1>10, FS_CardinalityType
  <2>. QED  BY <1>2, <1>11, <2>1, <2>2 DEF Complete
<1>13. \/ /\ Complete(inbound[e] + 1, sent[p.seq].of)
          /\ delivered' = Append(delivered, e) /\ inbound' = [inbound EXCEPT ![e] = 0]
       \/ /\ ~Complete(inbound[e] + 1, sent[p.seq].of)
          /\ delivered' = delivered /\ inbound' = [inbound EXCEPT ![e] = inbound[e] + 1]
  BY DEF Reassemble
<1>14. \/ /\ Done(e)' = Pieces(e)
          /\ delivered' = Append(delivered, e) /\ inbound' = [inbound EXCEPT ![e] = 0]
       \/ /\ Done(e)' # Pieces(e)
          /\ delivered' = delivered
          /\ inbound' = [inbound EXCEPT ![e] = Cardinality(Done(e)')]
  BY <1>11, <1>12, <1>13
<1>. QED  BY <1>1, <1>2, <1>4, <1>7, <1>8, <1>9, <1>14

LEMMA ReceiveKeepsChunkInv ==
    ASSUME LinkInv, WindowInv, ChunkInv, NEW p \in net, Receive(p)
    PROVE  ChunkInv'
<1>1. sent' = sent /\ handed' = handed
  BY DEF Receive, senderVars
<1>2. CASE UNCHANGED receiverVars
  BY <1>1, <1>2, SameChunks DEF receiverVars
<1>3. CASE p.seq \notin Remembered /\ processed' = Append(processed, p.seq)
           /\ Reassemble(sent[p.seq])
  <2>1. PICK e \in Seqs : e = sent[p.seq].event
    <3>1. p.seq \in DOMAIN sent /\ sent \in Seq(Packets)
      BY DEF LinkInv, NetSent, TypeOK
    <3>2. sent[p.seq] \in Packets
      BY <3>1
    <3>. QED  BY <3>2 DEF Packets
  <2>2. /\ e \in 1 .. handed
        /\ ~Contains(delivered, e)
        /\ \A d \in Seqs \ {e} : Done(d)' = Done(d)
        /\ \/ /\ Done(e)' = Pieces(e)
              /\ delivered' = Append(delivered, e)
              /\ inbound' = [inbound EXCEPT ![e] = 0]
           \/ /\ Done(e)' # Pieces(e)
              /\ delivered' = delivered
              /\ inbound' = [inbound EXCEPT ![e] = Cardinality(Done(e)')]
    BY <1>1, <1>3, <2>1, NewPiece
  <2>3. inbound \in [Seqs -> Nat] /\ delivered \in Seq(Seqs)
        /\ handed \in Nat /\ 1 .. handed \subseteq Seqs
    BY LinkAssumption DEF LinkInv, TypeOK, Seqs
  <2>4. \A d \in Seqs : Pieces(d)' = Pieces(d)
    BY <1>1 DEF Pieces
  <2>5. \A d \in Seqs \ {e} :
           inbound'[d] = inbound[d] /\ (Contains(delivered', d) <=> Contains(delivered, d))
    <3>1. \A d : Contains(Append(delivered, e), d) <=> Contains(delivered, d) \/ d = e
      BY <2>3, ContainsAppend
    <3>. QED  BY <2>2, <2>3, <3>1
  <2>6. \/ Contains(delivered', e) /\ inbound'[e] = 0 /\ Done(e)' = Pieces(e)
        \/ ~Contains(delivered', e) /\ inbound'[e] = Cardinality(Done(e)') /\ Done(e)' # Pieces(e)
    BY <2>2, <2>3, ContainsAppend
  <2>7. Counted'
    <3> SUFFICES ASSUME NEW d \in 1 .. handed
                 PROVE  \/ Contains(delivered', d) /\ inbound'[d] = 0 /\ Done(d)' = Pieces(d)'
                        \/ ~Contains(delivered', d) /\ inbound'[d] = Cardinality(Done(d)')
                           /\ Done(d)' # Pieces(d)'
      BY <1>1 DEF Counted, Contains
    <3>1. CASE d = e
      BY <2>4, <2>6, <3>1
    <3>2. CASE d # e
      <4>1. d \in Seqs \ {e}
        BY <2>3, <3>2
      <4>. QED  BY <2>2, <2>4, <2>5, <4>1 DEF ChunkInv, Counted
    <3>. QED  BY <3>1, <3>2
  <2>8. SentWhole'
    BY <1>1 DEF ChunkInv, SentWhole, Pieces
  <2>9. DeliveredSent'
    <3>1. \A i \in DOMAIN Append(delivered, e) : Append(delivered, e)[i] \in 1 .. handed
      BY <2>2, <2>3 DEF ChunkInv, DeliveredSent
    <3>. QED  BY <1>1, <2>2, <3>1 DEF ChunkInv, DeliveredSent
  <2>10. NoneEarly'
    BY <1>1, <2>2, <2>3, <2>5 DEF ChunkInv, NoneEarly
  <2>. QED  BY <2>7, <2>8, <2>9, <2>10 DEF ChunkInv
<1>. QED  BY <1>2, <1>3 DEF Receive

LEMMA NextChunkInv ==
    LinkInv /\ LinkInv' /\ WindowInv /\ ChunkInv /\ [Next]_vars => ChunkInv'
<1> SUFFICES ASSUME LinkInv, LinkInv', WindowInv, ChunkInv, [Next]_vars PROVE ChunkInv'
  OBVIOUS
<1>1. CASE \E n \in ChunkCounts : SendReliable(n)
  BY <1>1, SendReliableKeepsChunkInv
<1>2. CASE \E p \in net : Receive(p)
  BY <1>2, ReceiveKeepsChunkInv
<1>3. CASE Tick \/ (\E a \in Seqs : ReceiveAck(a)) \/ Lose \/ UNCHANGED vars
  <2>1. UNCHANGED <<handed, sent, processed, inbound, delivered>>
    BY <1>3 DEF Tick, ReceiveAck, Lose, vars, senderVars, receiverVars
  <2>. QED  BY <2>1, SameChunks
<1>. QED  BY <1>1, <1>2, <1>3 DEF Next

LEMMA LinkWindowChunkInv == Spec => [](LinkInv /\ WindowInv /\ ChunkInv)
<1>1. Init => LinkInv /\ WindowInv /\ ChunkInv
  BY InitLinkInv, InitWindowInv, InitChunkInv
<1>2. LinkInv /\ WindowInv /\ ChunkInv /\ [Next]_vars => (LinkInv /\ WindowInv /\ ChunkInv)'
  BY NextLinkInv, NextWindowInv, NextChunkInv
<1>. QED  BY <1>1, <1>2, PTL DEF Spec

\* Server::handle's "byte counting is enough to know when the whole event is
\* in": an event reaches the handler only with every one of its chunks.
THEOREM EventsArriveWhole == Spec => []DeliveredWhole
<1>1. LinkInv /\ WindowInv /\ ChunkInv => DeliveredWhole
  <2> SUFFICES ASSUME LinkInv, ChunkInv, NEW s \in DOMAIN sent,
                      Contains(delivered, sent[s].event)
               PROVE  Contains(processed, s)
    BY DEF DeliveredWhole
  <2>. DEFINE e == sent[s].event
  <2>1. e \in Seqs /\ s \in Pieces(e)
    <3>1. sent[s] \in Packets
      BY DEF LinkInv, TypeOK
    <3>. QED  BY <3>1 DEF Packets, Pieces
  <2>2. e \in 1 .. handed
    BY <2>1 DEF ChunkInv, SentWhole
  <2>3. Done(e) = Pieces(e)
    BY <2>2 DEF ChunkInv, Counted
  <2>. QED  BY <2>1, <2>3 DEF Done
<1>. QED  BY <1>1, LinkWindowChunkInv, PTL

\* The link keeps the safety of its promise: events are handed over at most
\* once, and only those that were sent.  That each is handed over in the end
\* is left to TLC.
THEOREM RefinesDelivery == Spec => Promise!Init /\ [][Promise!Next]_(Promise!vars)
<1>1. Init => Promise!Init
  BY DEF Init, Promise!Init
<1>2. LinkInv /\ WindowInv /\ ChunkInv /\ [Next]_vars => [Promise!Next]_(Promise!vars)
  <2> SUFFICES ASSUME LinkInv, WindowInv, ChunkInv, [Next]_vars,
                      ~UNCHANGED <<handed, delivered>>
               PROVE  Promise!Next
    BY DEF Promise!vars
  <2>1. CASE \E n \in ChunkCounts : SendReliable(n)
    <3>1. handed < MaxPackets
      <4>1. handed + 1 \in Seqs /\ handed \in Nat
        <5>1. handed + 1 \in Seqs
          BY <2>1, NewPackets
        <5>. QED  BY <5>1 DEF LinkInv, TypeOK
      <4>. QED  BY <4>1, LinkAssumption DEF Seqs
    <3>. QED  BY <2>1, <3>1 DEF SendReliable, receiverVars, Promise!Next, Promise!Hand
  <2>2. CASE \E p \in net : Receive(p)
    <3>1. PICK p \in net : Receive(p)
      BY <2>2
    <3>2. handed' = handed /\ sent' = sent
      BY <3>1 DEF Receive, senderVars
    <3>3. p.seq \notin Remembered /\ processed' = Append(processed, p.seq)
          /\ Reassemble(sent[p.seq])
      BY <3>1, <3>2 DEF Receive, receiverVars
    <3>4. PICK e \in Seqs : e = sent[p.seq].event
      <4>1. p.seq \in DOMAIN sent /\ sent \in Seq(Packets)
        BY DEF LinkInv, NetSent, TypeOK
      <4>2. sent[p.seq] \in Packets
        BY <4>1
      <4>. QED  BY <4>2 DEF Packets
    <3>5. e \in 1 .. handed /\ ~Contains(delivered, e)
          /\ delivered' \in {Append(delivered, e), delivered}
      BY <3>2, <3>3, <3>4, NewPiece
    <3>6. Promise!Get(e)
      BY <3>2, <3>5 DEF Promise!Get, Promise!Contains, Contains
    <3>. QED  BY <3>4, <3>6 DEF Promise!Next, Seqs
  <2>3. CASE Tick \/ (\E a \in Seqs : ReceiveAck(a)) \/ Lose \/ UNCHANGED vars
    BY <2>3 DEF Tick, ReceiveAck, Lose, vars, senderVars, receiverVars
  <2>. QED  BY <2>1, <2>2, <2>3 DEF Next
<1>. QED  BY <1>1, <1>2, LinkWindowChunkInv, PTL DEF Spec
=============================================================================
