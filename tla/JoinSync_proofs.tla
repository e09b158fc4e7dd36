-------------------------- MODULE JoinSync_proofs --------------------------
(***************************************************************************)
(* Theorems of JoinSync: types, ids that are never reused, and who knows   *)
(* of whom, for any number of clients and ids.                             *)
(***************************************************************************)
EXTENDS JoinSync, TLAPS

-----------------------------------------------------------------------------
(* Types *)

\* A datagram leaves its sender with an entry, and the others as they were.
LEMMA EntryTypes ==
    ASSUME TypeOK, NEW c \in Clients, Entry(c)
    PROVE  /\ nextId' \in 1 .. MaxIds + 1 /\ nextId <= nextId'
           /\ id' \in [Clients -> Ids \cup {NoId}]
           /\ id'[c] \in Ids /\ id'[c] # NoId
           /\ \A d \in Clients : id[d] # NoId => id'[d] = id[d]
           /\ \A d \in Clients \ {c} : id'[d] = id[d]
BY JoinAssumption DEF TypeOK, Entry, Ids, NoId

\* What a joining client is told, and every event about known ids, is an event.
LEMMA EventTypes ==
    ASSUME TypeOK, NEW S \in SUBSET Ids
    PROVE  /\ Welcome(S) \subseteq Events
           /\ \A kind \in {"info", "joined", "commit", "left"} : Event(kind, S) \in Events
<1>1. \A kind \in {"info", "joined", "commit", "left"}, T \in SUBSET Ids : Event(kind, T) \in Events
  BY DEF Event, Events
<1>2. \A i \in S : Event("commit", {i}) \in Events
  <2>. SUFFICES ASSUME NEW i \in S PROVE Event("commit", {i}) \in Events
    OBVIOUS
  <2>. {i} \in SUBSET Ids
    OBVIOUS
  <2>. QED  BY <1>1
<1>. QED  BY <1>1, <1>2 DEF Welcome

\* The ids of clients with an entry are ids that were given out.
LEMMA IdsOfEntries ==
    ASSUME TypeOK, NEW S, S \subseteq {c \in Clients : id[c] # NoId}
    PROVE  IdsOf(S) \in SUBSET Ids
BY DEF TypeOK, IdsOf

\* Whatever is sent is an event.
LEMMA SentTypes ==
    ASSUME TypeOK, NEW ev \in [Clients -> SUBSET Events]
    PROVE  Sent(ev) \in [Clients -> SUBSET Events]
BY DEF Sent, TypeOK

\* ClientInfo sends events.
LEMMA WelcomeTypes ==
    ASSUME TypeOK, NEW c \in Clients, ReceiveClientInfo(c)
    PROVE  [d \in Clients |-> IF d = c THEN Welcome(IdsOf(lobby \ {c}))
                              ELSE IF d \in lobby THEN {Event("joined", {id'[c]})}
                              ELSE {}] \in [Clients -> SUBSET Events]
<1>1. IdsOf(lobby \ {c}) \in SUBSET Ids
  BY IdsOfEntries DEF TypeOK
<1>2. {id'[c]} \in SUBSET Ids
  BY EntryTypes DEF ReceiveClientInfo
<1>. QED  BY <1>1, <1>2, EventTypes

\* A removal sends events.
LEMMA ToldTypes ==
    ASSUME TypeOK, NEW c \in Clients, id[c] # NoId
    PROVE  Told(c) \in [Clients -> SUBSET Events]
<1>1. {id[c]} \in SUBSET Ids
  BY DEF TypeOK
<1>2. Event("left", {id[c]}) \in Events
  BY <1>1, EventTypes
<1>. QED  BY <1>2, SentTypes DEF Told

\* Types are kept by every step.
LEMMA TypeStep == TypeOK /\ [Next]_vars => TypeOK'
<1>. SUFFICES ASSUME TypeOK, [Next]_vars PROVE TypeOK'
  OBVIOUS
<1>1. ASSUME NEW c \in Clients, Datagram(c) PROVE TypeOK'
  BY <1>1, EntryTypes DEF Datagram, TypeOK, clientVars
<1>2. ASSUME NEW c \in Clients, ReceiveClientInfo(c) PROVE TypeOK'
  <2>2. inbox' \in [Clients -> SUBSET Events]
    BY <1>2, WelcomeTypes, SentTypes DEF ReceiveClientInfo
  <2>3. overlapped' \subseteq SUBSET Ids
    <3>1. \A d \in named : {id'[c], id[d]} \in SUBSET Ids
      BY <1>2, EntryTypes DEF ReceiveClientInfo, TypeOK
    <3>. QED  BY <1>2, <3>1 DEF ReceiveClientInfo, TypeOK
  <2>. QED  BY <1>2, <2>2, <2>3, EntryTypes DEF ReceiveClientInfo, TypeOK
<1>3. ASSUME NEW c \in Clients, GarageState(c) PROVE TypeOK'
  <2>1. Event("commit", {id'[c]}) \in Events
    <3>1. {id'[c]} \in SUBSET Ids
      BY <1>3, EntryTypes DEF GarageState
    <3>. QED  BY <3>1, EventTypes
  <2>2. inbox' \in [Clients -> SUBSET Events]
    BY <1>3, <2>1, SentTypes DEF GarageState
  <2>. QED  BY <1>3, <2>2, EntryTypes DEF GarageState, TypeOK, clientVars
<1>4. ASSUME NEW c \in Clients, id[c] # NoId, RemoveClient(c)
      PROVE  /\ nextId' = nextId /\ overlapped' = overlapped
             /\ id' \in [Clients -> Ids \cup {NoId}]
             /\ named' \subseteq {d \in Clients : id'[d] # NoId}
             /\ lobby' \subseteq {d \in Clients : id'[d] # NoId}
  BY <1>4 DEF RemoveClient, LobbyAfter, TypeOK
<1>5. ASSUME NEW c \in Clients, Disconnect(c) PROVE TypeOK'
  <2>1. inbox' \in [Clients -> SUBSET Events]
    BY <1>5, ToldTypes DEF Disconnect
  <2>. QED  BY <1>4, <1>5, <2>1 DEF Disconnect, Forget, TypeOK
<1>6. ASSUME NEW c \in Clients, TimeOut(c) PROVE TypeOK'
  <2>1. inbox' \in [Clients -> SUBSET Events]
    BY <1>6, ToldTypes DEF TimeOut, TypeOK
  <2>2. /\ stage' \in [Clients -> {"away", "asking", "in"}] /\ deaf' \subseteq Clients
        /\ players' \in [Clients -> SUBSET Ids] /\ cars' \in [Clients -> SUBSET Ids]
    BY <1>6 DEF TimeOut, Forget, TypeOK
  <2>. QED  BY <1>4, <1>6, <2>1, <2>2 DEF TimeOut, TypeOK
<1>7. ASSUME NEW c \in Clients, NEW m \in inbox[c], Receive(c, m) PROVE TypeOK'
  <2>1. m.ids \in SUBSET Ids
    BY DEF TypeOK, Events
  <2>2. /\ players' \in [Clients -> SUBSET Ids] /\ cars' \in [Clients -> SUBSET Ids]
    BY <1>7, <2>1 DEF Receive, Learnt, TypeOK
  <2>3. /\ inbox' \in [Clients -> SUBSET Events]
        /\ stage' \in [Clients -> {"away", "asking", "in"}]
    BY <1>7 DEF Receive, TypeOK
  <2>. QED  BY <1>7, <2>2, <2>3 DEF Receive, TypeOK, serverVars
<1>8. CASE UNCHANGED vars
  BY <1>8 DEF vars, serverVars, clientVars, TypeOK
<1>. QED  BY <1>1, <1>2, <1>3, <1>5, <1>6, <1>7, <1>8 DEF Next

\* Every variable keeps its type: only addresses with an entry have a name or a
\* garage, and no more ids are given out than there are.
THEOREM JoinTypeCorrect == Spec => []TypeOK
<1>1. Init => TypeOK
  BY JoinAssumption DEF Init, TypeOK, Ids, NoId
<1>. QED  BY <1>1, TypeStep, PTL DEF Spec

-----------------------------------------------------------------------------
(* Ids *)

\* Everyone has an id of their own, below the next one, as is every id that is
\* on its way; what is left on its way is of nobody.
IdsInv ==
    /\ \A c \in Clients : id[c] < nextId
    /\ \A c, d \in Clients : id[c] = id[d] /\ id[c] # NoId => c = d
    /\ \A c \in Clients : \A m \in inbox[c] : \A i \in m.ids : i < nextId
    /\ \A c, d \in Clients : \A m \in inbox[c] : m.kind = "left" => id[d] \notin m.ids

\* What a client is due to hear of is in an event on its way to it.
LEMMA DueIsSent ==
    ASSUME NEW c, NEW kinds, NEW i
    PROVE  i \in Due(c, kinds) <=> \E m \in inbox[c] : m.kind \in kinds /\ i \in m.ids
BY DEF Due

\* What a client is sent by Sent is what it was owed and what is new.
LEMMA SentIsDue ==
    ASSUME NEW ev, NEW c \in Clients, NEW m
    PROVE  /\ m \in Sent(ev)[c] => m \in inbox[c] \/ m \in ev[c]
           /\ m \in inbox[c] => m \in Sent(ev)[c]
           /\ m \in ev[c] /\ c \notin deaf => m \in Sent(ev)[c]
BY DEF Sent

\* A new entry takes an id that nobody has and no event names.
LEMMA EntryIds ==
    ASSUME TypeOK, IdsInv, NEW c \in Clients, Entry(c)
    PROVE  /\ \A d \in Clients : id'[d] < nextId'
           /\ \A d, e \in Clients : id'[d] = id'[e] /\ id'[d] # NoId => d = e
           /\ \A d \in Clients : \A m \in inbox[d] : \A i \in m.ids : i < nextId'
           /\ \A d, e \in Clients : \A m \in inbox[d] : m.kind = "left" => id'[e] \notin m.ids
<1>1. CASE id[c] # NoId
  BY <1>1 DEF Entry, IdsInv
<1>2. CASE id[c] = NoId
  <2>1. /\ nextId \in Ids /\ nextId' = nextId + 1
        /\ id' = [id EXCEPT ![c] = nextId]
    BY <1>2 DEF Entry
  <2>2. \A d \in Clients : id[d] \in Nat /\ id'[d] \in {id[d], nextId}
    BY <2>1 DEF TypeOK, Ids, NoId
  <2>3. \A d \in Clients : \A m \in inbox[d] : m.ids \subseteq Ids
    BY DEF TypeOK, Events
  <2>4. nextId \in Nat /\ \A i \in Ids : i \in Nat
    BY <2>1 DEF Ids
  <2>5. \A d, e \in Clients : \A m \in inbox[d] : m.kind = "left" => id'[e] \notin m.ids
    BY <2>1, <2>2, <2>3, <2>4 DEF IdsInv
  <2>6. ASSUME NEW d \in Clients, NEW m \in inbox[d], NEW i \in m.ids PROVE i < nextId'
    <3>1. i \in Nat /\ i < nextId
      BY <2>3, <2>4 DEF IdsInv
    <3>. QED  BY <2>1, <2>4, <3>1
  <2>7. \A d, e \in Clients : id'[d] = id'[e] /\ id'[d] # NoId => d = e
    BY <2>1, <2>2 DEF IdsInv, TypeOK
  <2>8. \A d \in Clients : id'[d] < nextId'
    BY <2>1, <2>2, <2>4 DEF IdsInv
  <2>. QED  BY <2>5, <2>6, <2>7, <2>8
<1>. QED  BY <1>1, <1>2

\* Ids stay distinct and old in every step.
LEMMA IdsStep == TypeOK /\ IdsInv /\ [Next]_vars => IdsInv'
<1>. SUFFICES ASSUME TypeOK, IdsInv, [Next]_vars PROVE IdsInv'
  OBVIOUS
<1>1. ASSUME NEW c \in Clients, Datagram(c) PROVE IdsInv'
  BY <1>1, EntryIds DEF Datagram, IdsInv
<1>2. ASSUME NEW c \in Clients, ReceiveClientInfo(c) PROVE IdsInv'
  <2>. DEFINE ev == [d \in Clients |-> IF d = c THEN Welcome(IdsOf(lobby \ {c}))
                                      ELSE IF d \in lobby THEN {Event("joined", {id'[c]})}
                                      ELSE {}]
  <2>1. Entry(c) /\ inbox' = Sent(ev)
    BY <1>2 DEF ReceiveClientInfo
  <2>2. \A i \in IdsOf(lobby \ {c}) : i < nextId'
    BY <2>1, EntryTypes, EntryIds DEF IdsOf, TypeOK
  <2>3. ASSUME NEW d \in Clients, NEW m \in ev[d]
        PROVE  m.kind # "left" /\ \A i \in m.ids : i < nextId'
    <3>1. CASE d = c
      <4>1. m \in Welcome(IdsOf(lobby \ {c}))
        BY <2>3, <3>1
      <4>. QED  BY <2>2, <4>1 DEF Welcome, Event
    <3>2. CASE d # c
      <4>1. m = Event("joined", {id'[c]})
        BY <2>3, <3>2
      <4>. QED  BY <2>1, <4>1, EntryIds DEF Event
    <3>. QED  BY <3>1, <3>2
  <2>. HIDE DEF ev
  <2>. QED  BY <2>1, <2>3, EntryIds, SentIsDue DEF IdsInv
<1>3. ASSUME NEW c \in Clients, GarageState(c) PROVE IdsInv'
  <2>. DEFINE ev == [d \in Clients |-> IF d \in CommitTargets(c)
                                      THEN {Event("commit", {id'[c]})} ELSE {}]
  <2>1. Entry(c) /\ inbox' = Sent(ev)
    BY <1>3 DEF GarageState
  <2>2. ASSUME NEW d \in Clients, NEW m \in ev[d]
        PROVE  m.kind # "left" /\ \A i \in m.ids : i < nextId'
    BY <2>1, <2>2, EntryIds DEF Event
  <2>. HIDE DEF ev
  <2>. QED  BY <2>1, <2>2, EntryIds, SentIsDue DEF IdsInv
<1>4. ASSUME NEW c \in Clients, id[c] # NoId, RemoveClient(c),
             NEW due \in SUBSET inbox[c], inbox' = [Told(c) EXCEPT ![c] = due]
      PROVE  IdsInv'
  <2>. DEFINE ev == [d \in Clients |-> IF c \in lobby /\ d \in lobby
                                      THEN {Event("left", {id[c]})} ELSE {}]
  <2>1. /\ Told(c) = Sent(ev) /\ nextId' = nextId
        /\ id' = [id EXCEPT ![c] = NoId]
    BY <1>4 DEF Told, RemoveClient
  <2>2. \A d \in Clients : \A m \in inbox'[d] : m \in inbox[d] \/ m = Event("left", {id[c]})
    <3>1. \A d \in Clients \ {c} : inbox'[d] = Sent(ev)[d]
      BY <1>4, <2>1 DEF Sent
    <3>2. inbox'[c] = due
      BY <1>4, <2>1 DEF Sent
    <3>3. \A d \in Clients : \A m \in ev[d] : m = Event("left", {id[c]})
      OBVIOUS
    <3>. HIDE DEF ev
    <3>. QED  BY <3>1, <3>2, <3>3, SentIsDue
  <2>3. \A d \in Clients : id'[d] # id[c]
    BY <1>4, <2>1 DEF IdsInv, TypeOK
  <2>4. \A d \in Clients : id'[d] \in {id[d], NoId} /\ id[d] < nextId /\ NoId < nextId
    BY <2>1 DEF TypeOK, IdsInv, NoId
  <2>5. \A d \in Clients : \A m \in inbox[d] : NoId \notin m.ids
    BY DEF TypeOK, Events, Ids, NoId
  <2>6. /\ Event("left", {id[c]}).ids = {id[c]} /\ Event("left", {id[c]}).kind = "left"
    BY DEF Event
  <2>7. \A d, e \in Clients : id'[d] = id'[e] /\ id'[d] # NoId => d = e
    BY <2>1 DEF IdsInv, TypeOK
  <2>8. \A d \in Clients : \A m \in inbox'[d] : \A i \in m.ids : i < nextId'
    BY <2>1, <2>2, <2>4, <2>6 DEF IdsInv
  <2>9. \A d, e \in Clients : \A m \in inbox'[d] : m.kind = "left" => id'[e] \notin m.ids
    <3>. SUFFICES ASSUME NEW d \in Clients, NEW e \in Clients, NEW m \in inbox'[d],
                         m.kind = "left"
                  PROVE  id'[e] \notin m.ids
      OBVIOUS
    <3>1. CASE m \in inbox[d]
      <4>1. id[e] \notin m.ids /\ NoId \notin m.ids
        BY <2>5, <3>1 DEF IdsInv
      <4>. QED  BY <2>4, <4>1
    <3>2. CASE m = Event("left", {id[c]})
      BY <2>3, <2>6, <3>2
    <3>. QED  BY <2>2, <3>1, <3>2
  <2>. QED  BY <2>1, <2>4, <2>7, <2>8, <2>9 DEF IdsInv
<1>5. ASSUME NEW c \in Clients, Disconnect(c) PROVE IdsInv'
  <2>1. {} \in SUBSET inbox[c]
    OBVIOUS
  <2>2. id[c] # NoId /\ RemoveClient(c) /\ inbox' = [Told(c) EXCEPT ![c] = {}]
    BY <1>5 DEF Disconnect
  <2>. QED  BY <1>4, <2>1, <2>2
<1>6. ASSUME NEW c \in Clients, TimeOut(c) PROVE IdsInv'
  <2>1. PICK due \in SUBSET inbox[c] : inbox' = [Told(c) EXCEPT ![c] = due]
    BY <1>6 DEF TimeOut
  <2>. QED  BY <1>4, <1>6, <2>1 DEF TimeOut
<1>7. ASSUME NEW c \in Clients, NEW m \in inbox[c], Receive(c, m) PROVE IdsInv'
  <2>1. \A d \in Clients : inbox'[d] \subseteq inbox[d]
    BY <1>7 DEF Receive, TypeOK
  <2>. QED  BY <1>7, <2>1 DEF Receive, serverVars, IdsInv
<1>8. CASE UNCHANGED vars
  BY <1>8 DEF vars, serverVars, clientVars, IdsInv
<1>. QED  BY <1>1, <1>2, <1>3, <1>5, <1>6, <1>7, <1>8 DEF Next

\* Types and ids together, inductive.
LEMMA IdsInvariant == Spec => [](TypeOK /\ IdsInv)
<1>1. Init => TypeOK /\ IdsInv
  BY JoinAssumption DEF Init, TypeOK, IdsInv, Ids, NoId
<1>. QED  BY <1>1, TypeStep, IdsStep, PTL DEF Spec

\* A PlayerLeft on its way never names a player who is there.
THEOREM LeaversAreGone == Spec => []LeavesAreForTheGone
<1>1. IdsInv => LeavesAreForTheGone
  BY DueIsSent DEF IdsInv, LeavesAreForTheGone, IdsOf
<1>. QED  BY <1>1, IdsInvariant, PTL

-----------------------------------------------------------------------------
(* Who knows of whom *)

\* c loses nothing in a step in which it is only sent more.
Grows(c) == inbox[c] \subseteq inbox'[c] /\ cars[c] \subseteq cars'[c] /\ players[c] \subseteq players'[c]

\* Who loses nothing knows what it knew.
LEMMA GrowthKeeps ==
    ASSUME NEW c \in Clients, Grows(c)
    PROVE  CarsOf(c) \subseteq CarsOf(c)' /\ NamesOf(c) \subseteq NamesOf(c)'
BY DEF Grows, CarsOf, NamesOf, Due

\* Sending takes nothing from anyone.
LEMMA SentGrows ==
    ASSUME TypeOK, NEW ev, NEW c \in Clients, inbox' = Sent(ev), UNCHANGED <<players, cars>>
    PROVE  Grows(c)
BY DEF Sent, Grows, TypeOK

\* Who is removed has no entry afterwards; for the others it only grows.
LEMMA RemovalKeeps ==
    ASSUME TypeOK, NEW a \in Clients, Disconnect(a) \/ TimeOut(a)
    PROVE  /\ id'[a] = NoId /\ lobby' = lobby \ {a} /\ named' = named \ {a}
           /\ deaf \ deaf' \subseteq {a} /\ overlapped' = overlapped
           /\ \A d \in Clients \ {a} : id'[d] = id[d] /\ stage'[d] = stage[d] /\ Grows(d)
<1>1. PICK due : inbox' = [Told(a) EXCEPT ![a] = due]
  BY DEF Disconnect, TimeOut
<1>2. \A d \in Clients \ {a} : inbox[d] \subseteq inbox'[d]
  BY <1>1 DEF Told, Sent
<1>3. \A d \in Clients \ {a} : /\ stage'[d] = stage[d]
                               /\ players'[d] = players[d] /\ cars'[d] = cars[d]
  BY DEF Disconnect, TimeOut, Forget, TypeOK
<1>4. /\ id'[a] = NoId /\ lobby' = lobby \ {a} /\ named' = named \ {a}
      /\ overlapped' = overlapped /\ \A d \in Clients \ {a} : id'[d] = id[d]
  BY DEF Disconnect, TimeOut, RemoveClient, LobbyAfter, TypeOK
<1>5. deaf \ deaf' \subseteq {a}
  BY DEF Disconnect, TimeOut, Forget
<1>. QED  BY <1>2, <1>3, <1>4, <1>5 DEF Grows

\* What c hears only takes those it is told have left.
LEMMA ReceiveKeeps ==
    ASSUME TypeOK, NEW c \in Clients, NEW m \in inbox[c], Receive(c, m), NEW d \in Clients
    PROVE  \A i : /\ m.kind # "left" \/ i \notin m.ids \/ c # d
                  => /\ i \in CarsOf(d) => i \in CarsOf(d)'
                     /\ i \in NamesOf(d) => i \in NamesOf(d)'
<1>1. CASE d # c
  <2>1. Grows(d)
    BY <1>1 DEF Receive, Grows, TypeOK
  <2>. QED  BY <2>1, GrowthKeeps
<1>2. CASE d = c
  <2>1. /\ inbox'[c] = inbox[c] \ {m}
        /\ cars'[c] = Learnt(cars[c], m, {"commit"})
        /\ players'[c] = Learnt(players[c], m, {"info", "joined"})
    BY DEF Receive, TypeOK
  <2>. SUFFICES ASSUME NEW i, m.kind # "left" \/ i \notin m.ids
                PROVE  /\ i \in CarsOf(c) => i \in CarsOf(c)'
                       /\ i \in NamesOf(c) => i \in NamesOf(c)'
    BY <1>2
  <2>2. ASSUME i \in CarsOf(c) PROVE i \in CarsOf(c)'
    <3>1. CASE i \in cars[c]
      BY <2>1, <3>1 DEF Learnt, CarsOf
    <3>2. ASSUME NEW n \in inbox[c], n.kind = "commit", i \in n.ids PROVE i \in CarsOf(c)'
      BY <2>1, <3>2 DEF Learnt, CarsOf, Due
    <3>. QED  BY <2>2, <3>1, <3>2 DEF CarsOf, Due
  <2>3. ASSUME i \in NamesOf(c) PROVE i \in NamesOf(c)'
    <3>1. CASE i \in players[c]
      BY <2>1, <3>1 DEF Learnt, NamesOf
    <3>2. ASSUME NEW n \in inbox[c], n.kind \in {"info", "joined"}, i \in n.ids
          PROVE  i \in NamesOf(c)'
      BY <2>1, <3>2 DEF Learnt, NamesOf, Due
    <3>. QED  BY <2>3, <3>1, <3>2 DEF NamesOf, Due
  <2>. QED  BY <2>2, <2>3
<1>. QED  BY <1>1, <1>2

\* What a client knows of another stays known while it is there.
LEMMA StepKeeps ==
    ASSUME TypeOK, IdsInv, Next, NEW c \in Clients, NEW e \in Clients, id'[c] # NoId
    PROVE  /\ id[e] \in CarsOf(c) => id[e] \in CarsOf(c)'
           /\ id[e] \in NamesOf(c) => id[e] \in NamesOf(c)'
<1>1. ASSUME NEW a \in Clients, Datagram(a) PROVE Grows(c)
  BY <1>1 DEF Datagram, Grows, clientVars
<1>2. ASSUME NEW a \in Clients, ReceiveClientInfo(a) PROVE Grows(c)
  BY <1>2, SentGrows DEF ReceiveClientInfo
<1>3. ASSUME NEW a \in Clients, GarageState(a) PROVE Grows(c)
  BY <1>3, SentGrows DEF GarageState, clientVars
<1>4. ASSUME NEW a \in Clients, Disconnect(a) \/ TimeOut(a) PROVE Grows(c)
  BY <1>4, RemovalKeeps
<1>5. ASSUME NEW a \in Clients, NEW m \in inbox[a], Receive(a, m)
      PROVE  /\ id[e] \in CarsOf(c) => id[e] \in CarsOf(c)'
             /\ id[e] \in NamesOf(c) => id[e] \in NamesOf(c)'
  <2>1. m.kind = "left" => id[e] \notin m.ids
    BY DEF IdsInv
  <2>. QED  BY <1>5, <2>1, ReceiveKeeps
<1>. QED  BY <1>1, <1>2, <1>3, <1>4, <1>5, GrowthKeeps DEF Next

\* Who appears or disappears in a step, and by which action.
LEMMA StepChanges ==
    ASSUME TypeOK, Next
    PROVE  /\ \A a \in Clients : id[a] # NoId /\ id'[a] # NoId => id'[a] = id[a]
           /\ \A a \in lobby' \ lobby : GarageState(a) /\ lobby' = lobby \cup {a}
           /\ \A a \in named' \ named : /\ ReceiveClientInfo(a)
                                        /\ lobby' = lobby /\ named' = named \cup {a}
           /\ \A a \in (lobby \ lobby') \cup (named \ named') \cup (deaf \ deaf') : id'[a] = NoId
           /\ overlapped \subseteq overlapped'
<1>1. ASSUME NEW c \in Clients, Entry(c) PROVE \A a \in Clients : id[a] # NoId => id'[a] = id[a]
  BY <1>1, EntryTypes
<1>2. ASSUME NEW c \in Clients, Datagram(c)
      PROVE  UNCHANGED <<lobby, named, deaf, overlapped>> /\ Entry(c)
  BY <1>2 DEF Datagram, clientVars
<1>3. ASSUME NEW c \in Clients, ReceiveClientInfo(c)
      PROVE  /\ UNCHANGED <<lobby, deaf>> /\ named' = named \cup {c} /\ Entry(c)
             /\ overlapped \subseteq overlapped'
  BY <1>3 DEF ReceiveClientInfo
<1>4. ASSUME NEW c \in Clients, GarageState(c)
      PROVE  UNCHANGED <<named, deaf, overlapped>> /\ lobby' = lobby \cup {c} /\ Entry(c)
  BY <1>4 DEF GarageState, clientVars
<1>5. ASSUME NEW c \in Clients, Disconnect(c) \/ TimeOut(c)
      PROVE  /\ id'[c] = NoId /\ lobby' = lobby \ {c} /\ named' = named \ {c}
             /\ deaf \ deaf' \subseteq {c} /\ overlapped' = overlapped
             /\ \A a \in Clients \ {c} : id'[a] = id[a]
  BY <1>5, RemovalKeeps
<1>6. ASSUME NEW c \in Clients, NEW m \in inbox[c], Receive(c, m)
      PROVE  UNCHANGED <<id, lobby, named, deaf, overlapped>>
  BY <1>6 DEF Receive, serverVars
<1>7. PICK c \in Clients : \/ Datagram(c) \/ ReceiveClientInfo(c) \/ GarageState(c)
                           \/ Disconnect(c) \/ TimeOut(c)
                           \/ \E m \in inbox[c] : Receive(c, m)
  BY DEF Next
<1>8. CASE Datagram(c)
  BY <1>1, <1>2, <1>8
<1>9. CASE ReceiveClientInfo(c)
  BY <1>1, <1>3, <1>9
<1>10. CASE GarageState(c)
  BY <1>1, <1>4, <1>10
<1>11. CASE Disconnect(c) \/ TimeOut(c)
  BY <1>5, <1>11
<1>12. CASE \E m \in inbox[c] : Receive(c, m)
  BY <1>6, <1>12
<1>. QED  BY <1>7, <1>8, <1>9, <1>10, <1>11, <1>12

\* The others see the car of who sends a garage.
LEMMA CommitGoesOut ==
    ASSUME TypeOK, NEW a \in Clients, GarageState(a), NEW b \in lobby \ {a}, b \notin deaf
    PROVE  id'[a] \in CarsOf(b)'
<1>. DEFINE ev == [d \in Clients |-> IF d \in CommitTargets(a)
                                    THEN {Event("commit", {id'[a]})} ELSE {}]
<1>1. b \in Clients /\ Event("commit", {id'[a]}) \in ev[b]
  BY DEF CommitTargets, TypeOK
<1>2. inbox' = Sent(ev)
  BY DEF GarageState
<1>. HIDE DEF ev
<1>3. Event("commit", {id'[a]}) \in inbox'[b]
  BY <1>1, <1>2, SentIsDue
<1>. QED  BY <1>3 DEF Event, CarsOf, Due

\* Who asks to join is told of the lobby, and the lobby of it.
LEMMA WelcomeGoesOut ==
    ASSUME TypeOK, NEW a \in Clients, ReceiveClientInfo(a), NEW b \in lobby \ {a}
    PROVE  /\ a \notin deaf => id[b] \in CarsOf(a)' /\ id[b] \in NamesOf(a)'
           /\ b \notin deaf => id'[a] \in NamesOf(b)'
<1>. DEFINE others == IdsOf(lobby \ {a})
<1>. DEFINE ev == [d \in Clients |-> IF d = a THEN Welcome(others)
                                    ELSE IF d \in lobby THEN {Event("joined", {id'[a]})}
                                    ELSE {}]
<1>1. id[b] \in others
  BY DEF IdsOf
<1>2. /\ Event("info", others) \in ev[a] /\ Event("commit", {id[b]}) \in ev[a]
      /\ b \in Clients /\ Event("joined", {id'[a]}) \in ev[b]
  <2>. HIDE DEF others
  <2>. QED  BY <1>1 DEF Welcome, TypeOK
<1>3. inbox' = Sent(ev)
  BY DEF ReceiveClientInfo
<1>. HIDE DEF ev, others
<1>4. ASSUME a \notin deaf PROVE id[b] \in CarsOf(a)' /\ id[b] \in NamesOf(a)'
  <2>1. Event("info", others) \in inbox'[a] /\ Event("commit", {id[b]}) \in inbox'[a]
    BY <1>2, <1>3, <1>4, SentIsDue
  <2>. QED  BY <1>1, <2>1 DEF Event, CarsOf, NamesOf, Due
<1>5. ASSUME b \notin deaf PROVE id'[a] \in NamesOf(b)'
  <2>1. Event("joined", {id'[a]}) \in inbox'[b]
    BY <1>2, <1>3, <1>5, SentIsDue
  <2>. QED  BY <2>1 DEF Event, NamesOf, Due
<1>. QED  BY <1>4, <1>5

\* The last to send a garage is seen by everyone who hears.
LEMMA OneSeesStep == TypeOK /\ IdsInv /\ OneSeesTheOther /\ [Next]_vars => OneSeesTheOther'
<1>1. CASE UNCHANGED vars
  BY <1>1 DEF vars, serverVars, clientVars, OneSeesTheOther, Sees, CarsOf, Due
<1>2. ASSUME TypeOK, IdsInv, OneSeesTheOther, Next PROVE OneSeesTheOther'
  <2>1. TypeOK'
    BY <1>2, TypeStep
  <2>. SUFFICES ASSUME NEW a \in lobby', NEW b \in lobby', a \notin deaf', b \notin deaf', a # b
                PROVE  id'[b] \in CarsOf(a)' \/ id'[a] \in CarsOf(b)'
    BY DEF OneSeesTheOther, Sees
  <2>2. a \in Clients /\ b \in Clients /\ id'[a] # NoId /\ id'[b] # NoId
    BY <2>1 DEF TypeOK
  <2>3. a \notin deaf /\ b \notin deaf
    BY <1>2, <2>2, StepChanges
  <2>4. CASE a \in lobby /\ b \in lobby
    <3>1. id'[a] = id[a] /\ id'[b] = id[b]
      BY <1>2, <2>2, <2>4, StepChanges DEF TypeOK
    <3>2. id[b] \in CarsOf(a) \/ id[a] \in CarsOf(b)
      BY <1>2, <2>3, <2>4 DEF OneSeesTheOther, Sees
    <3>. QED  BY <1>2, <2>2, <3>1, <3>2, StepKeeps
  <2>5. CASE a \notin lobby
    <3>1. GarageState(a) /\ b \in lobby \ {a}
      BY <1>2, <2>5, StepChanges
    <3>. QED  BY <1>2, <2>2, <2>3, <3>1, CommitGoesOut
  <2>6. CASE b \notin lobby
    <3>1. GarageState(b) /\ a \in lobby \ {b}
      BY <1>2, <2>6, StepChanges
    <3>. QED  BY <1>2, <2>2, <2>3, <3>1, CommitGoesOut
  <2>. QED  BY <2>4, <2>5, <2>6
<1>. QED  BY <1>1, <1>2

\* Of two members who hear the server, one sees the other, whatever joins,
\* leaves and evictions came before.
THEOREM SomeoneSees == Spec => []OneSeesTheOther
<1>1. Init => OneSeesTheOther
  BY DEF Init, OneSeesTheOther
<1>. QED  BY <1>1, OneSeesStep, IdsInvariant, PTL DEF Spec

-----------------------------------------------------------------------------
(* The handshake *)

Apart(a, b) == {id[a], id[b]} \notin overlapped
Knows(a, b) == Lists(a, b) /\ Sees(a, b)

\* The asking know the members and are listed by them; the asking overlap.
KnowInv ==
    /\ \A a \in lobby : stage[a] = "in"
    /\ \A a, b \in named \ lobby : a # b => ~Apart(a, b)
    /\ \A a \in named \ lobby, b \in named \cap lobby : Apart(a, b) =>
           (a \notin deaf => Knows(a, b)) /\ (b \notin deaf => Lists(b, a))
    /\ MembersKnowEachOther

\* Only a client that is in has sent a garage.
LEMMA StageStep ==
    ASSUME TypeOK, TypeOK', KnowInv, Next, NEW a \in lobby'
    PROVE  stage'[a] = "in"
<1>1. a \in Clients
  BY DEF TypeOK
<1>2. CASE a \notin lobby
  <2>1. GarageState(a)
    BY <1>2, StepChanges
  <2>. QED  BY <2>1 DEF GarageState, clientVars
<1>3. CASE a \in lobby
  <2>1. stage[a] = "in"
    BY <1>3 DEF KnowInv
  <2>2. ASSUME NEW c \in Clients, Datagram(c) \/ GarageState(c) PROVE stage'[a] = stage[a]
    BY <2>2 DEF Datagram, GarageState, clientVars
  <2>3. ASSUME NEW c \in Clients, ReceiveClientInfo(c) PROVE stage'[a] = stage[a]
    BY <1>1, <2>1, <2>3 DEF ReceiveClientInfo, TypeOK
  <2>4. ASSUME NEW c \in Clients, Disconnect(c) \/ TimeOut(c) PROVE stage'[a] = stage[a]
    BY <1>1, <2>4, RemovalKeeps
  <2>5. ASSUME NEW c \in Clients, NEW m \in inbox[c], Receive(c, m)
        PROVE  stage'[a] \in {stage[a], "in"}
    BY <1>1, <2>5 DEF Receive, TypeOK
  <2>. QED  BY <2>1, <2>2, <2>3, <2>4, <2>5 DEF Next
<1>. QED  BY <1>2, <1>3

\* Every step keeps what members and the asking know of each other.
LEMMA KnowStep ==
    ASSUME TypeOK, TypeOK', IdsInv, KnowInv, Next
    PROVE  KnowInv'
<1>1. \A a \in lobby' \cup named' : a \in Clients /\ id'[a] # NoId
  BY DEF TypeOK
<1>2. \A a \in lobby \cup named : a \in Clients /\ id[a] # NoId
  BY DEF TypeOK
<1>3. \A a \in lobby' \cup named' :
         /\ a \in lobby \cup named => id'[a] = id[a]
         /\ a \in deaf => a \in deaf'
         /\ a \in lobby => a \in lobby'
  BY <1>1, <1>2, StepChanges
<1>4. ASSUME NEW a \in named', a \notin named
      PROVE  ReceiveClientInfo(a) /\ a \notin lobby' /\ a \notin lobby
             /\ lobby' = lobby /\ named' = named \cup {a}
  <2>1. ReceiveClientInfo(a) /\ lobby' = lobby /\ named' = named \cup {a}
    BY <1>4, StepChanges
  <2>2. stage[a] # "in"
    BY <2>1 DEF ReceiveClientInfo
  <2>. QED  BY <2>1, <2>2 DEF KnowInv
<1>5. ASSUME NEW a \in named', NEW b \in named', a \in named, b \in named, Apart(a, b)'
      PROVE  Apart(a, b)
  BY <1>3, <1>5, StepChanges DEF Apart
<1>6. ASSUME NEW a \in named', NEW b \in named', a \in named, b \in named
      PROVE  (Lists(a, b) => Lists(a, b)') /\ (Sees(a, b) => Sees(a, b)')
  <2>1. a \in Clients /\ b \in Clients /\ id'[a] # NoId /\ id'[b] = id[b]
    BY <1>1, <1>3, <1>6
  <2>. QED  BY <2>1, StepKeeps DEF Lists, Sees
<1>7. ASSUME NEW a \in named' \ lobby', NEW b \in named' \ lobby', a # b
      PROVE  ~Apart(a, b)'
  <2>1. CASE a \in named /\ b \in named
    <3>1. a \notin lobby /\ b \notin lobby
      BY <1>3, <1>7
    <3>2. ~Apart(a, b)
      BY <1>7, <2>1, <3>1 DEF KnowInv
    <3>. QED  BY <1>5, <2>1, <3>2
  <2>2. ASSUME NEW x \in named' \ lobby', NEW y \in named' \ lobby', x # y, x \notin named
        PROVE  {id'[x], id'[y]} \in overlapped'
    <3>1. ReceiveClientInfo(x) /\ y \in named \ (lobby \cup {x}) /\ id'[y] = id[y]
      BY <1>3, <1>4, <2>2
    <3>. QED  BY <3>1 DEF ReceiveClientInfo
  <2>3. {id'[a], id'[b]} = {id'[b], id'[a]}
    OBVIOUS
  <2>. QED  BY <1>7, <2>1, <2>2, <2>3 DEF Apart
<1>8. ASSUME NEW a \in named' \ lobby', NEW b \in named' \cap lobby', Apart(a, b)'
      PROVE  (a \notin deaf' => Knows(a, b)') /\ (b \notin deaf' => Lists(b, a)')
  <2>1. b \in named
    BY <1>4
  <2>2. CASE a \in named
    <3>1. a \notin lobby /\ Apart(a, b)
      BY <1>3, <1>5, <1>8, <2>1, <2>2
    <3>2. a # b
      OBVIOUS
    <3>3. b \in lobby
      BY <2>1, <2>2, <3>1, <3>2 DEF KnowInv
    <3>4. (a \notin deaf => Knows(a, b)) /\ (b \notin deaf => Lists(b, a))
      BY <2>1, <2>2, <3>1, <3>3 DEF KnowInv
    <3>. QED  BY <1>3, <1>6, <2>1, <2>2, <3>4 DEF Knows
  <2>3. CASE a \notin named
    <3>1. ReceiveClientInfo(a) /\ b \in lobby \ {a} /\ id'[b] = id[b]
      BY <1>3, <1>4, <2>3
    <3>2. (a \notin deaf => Knows(a, b)') /\ (b \notin deaf => Lists(b, a)')
      BY <1>1, <3>1, WelcomeGoesOut DEF Knows, Lists, Sees
    <3>. QED  BY <1>3, <3>2
  <2>. QED  BY <2>2, <2>3
<1>9. ASSUME NEW a \in named' \cap lobby', NEW b \in named' \cap lobby',
             a # b, a \notin deaf', Apart(a, b)'
      PROVE  Knows(a, b)'
  <2>1. a \in named /\ b \in named /\ a \notin deaf /\ Apart(a, b)
    BY <1>3, <1>4, <1>5, <1>9
  <2>2. {id[a], id[b]} = {id[b], id[a]}
    OBVIOUS
  <2>3. CASE a \in lobby /\ b \in lobby
    <3>1. Knows(a, b)
      BY <1>9, <2>1, <2>3 DEF KnowInv, MembersKnowEachOther, Apart, Knows
    <3>. QED  BY <1>6, <2>1, <3>1 DEF Knows
  <2>4. CASE a \notin lobby /\ b \in lobby
    <3>1. Knows(a, b)
      BY <2>1, <2>4 DEF KnowInv
    <3>. QED  BY <1>6, <2>1, <3>1 DEF Knows
  <2>5. CASE a \in lobby /\ b \notin lobby
    <3>1. Lists(a, b)
      BY <2>1, <2>2, <2>5 DEF KnowInv, Apart
    <3>2. GarageState(b)
      BY <2>5, StepChanges
    <3>3. Sees(a, b)'
      BY <1>1, <1>9, <2>1, <2>5, <3>2, CommitGoesOut DEF Sees
    <3>. QED  BY <1>6, <2>1, <3>1, <3>3 DEF Knows
  <2>6. CASE a \notin lobby /\ b \notin lobby
    BY <1>9, <2>1, <2>6 DEF KnowInv
  <2>. QED  BY <2>3, <2>4, <2>5, <2>6
<1>10. \A a \in lobby' : stage'[a] = "in"
  BY StageStep
<1>11. MembersKnowEachOther'
  BY <1>9 DEF MembersKnowEachOther, Knows, Apart
<1>. QED  BY <1>7, <1>8, <1>10, <1>11 DEF KnowInv

\* Two named members list and see each other, unless their handshakes
\* overlapped or one no longer hears the server.
THEOREM MembersKnow == Spec => []MembersKnowEachOther
<1>1. Init => KnowInv
  BY DEF Init, KnowInv, MembersKnowEachOther
<1>2. TypeOK /\ TypeOK' /\ IdsInv /\ KnowInv /\ [Next]_vars => KnowInv'
  <2>1. CASE UNCHANGED vars
    BY <2>1 DEF vars, serverVars, clientVars, KnowInv, MembersKnowEachOther, Apart, Knows,
                Lists, Sees, NamesOf, CarsOf, Due
  <2>. QED  BY <2>1, KnowStep
<1>3. KnowInv => MembersKnowEachOther
  BY DEF KnowInv
<1>. QED  BY <1>1, <1>2, <1>3, IdsInvariant, PTL DEF Spec
=============================================================================
