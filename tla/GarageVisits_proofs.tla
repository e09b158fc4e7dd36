-------------------------- MODULE GarageVisits_proofs --------------------------
(***************************************************************************)
(* Theorems of GarageVisits for any number of clients, ids, requests and   *)
(* games that quit: types, that a list of visitors is never stale, that no *)
(* answer goes unasked, and where the lobby sees its members.              *)
(***************************************************************************)
EXTENDS GarageVisits, SequenceFacts, FunctionTheorems, TLAPS

-----------------------------------------------------------------------------
(* Counting in a queue *)

At(s, v) == {n \in DOMAIN s : s[n] = v}

LEMMA AtFinite ==
    ASSUME NEW S, NEW s \in Seq(S), NEW v
    PROVE  IsFiniteSet(At(s, v)) /\ Count(s, v) = Cardinality(At(s, v)) /\ Count(s, v) \in Nat
<1>1. IsFiniteSet(1 .. Len(s))
  BY FS_Interval
<1>2. At(s, v) \in SUBSET (1 .. Len(s))
  BY DEF At
<1>3. IsFiniteSet(At(s, v))
  BY <1>1, <1>2, FS_Subset
<1>4. Count(s, v) = Cardinality(At(s, v))
  BY DEF Count, At
<1>. QED  BY <1>3, <1>4, FS_CardinalityType

LEMMA CountEmpty == ASSUME NEW v PROVE Count(<<>>, v) = 0
<1>. {n \in DOMAIN <<>> : <<>>[n] = v} = {}
  OBVIOUS
<1>. QED  BY FS_EmptySet DEF Count

LEMMA CountAppend ==
    ASSUME NEW S, NEW s \in Seq(S), NEW e \in S, NEW v
    PROVE  Count(Append(s, e), v) = Count(s, v) + IF e = v THEN 1 ELSE 0
<1>. DEFINE t == Append(s, e)
<1>1. /\ t \in Seq(S) /\ DOMAIN t = 1 .. Len(s) + 1 /\ DOMAIN s = 1 .. Len(s) /\ Len(s) \in Nat
      /\ \A n \in 1 .. Len(s) : t[n] = s[n]
      /\ t[Len(s) + 1] = e
  BY AppendElements
<1>. HIDE DEF t
<1>2. At(t, v) = At(s, v) \cup (IF e = v THEN {Len(s) + 1} ELSE {})
  <2>1. \A n \in 1 .. Len(s) + 1 : n \in 1 .. Len(s) \/ n = Len(s) + 1
    BY <1>1
  <2>2. Len(s) + 1 \in 1 .. Len(s) + 1 /\ 1 .. Len(s) \subseteq 1 .. Len(s) + 1
    BY <1>1
  <2>. QED  BY <1>1, <2>1, <2>2 DEF At
<1>3. Len(s) + 1 \notin At(s, v)
  BY <1>1 DEF At
<1>4. Cardinality(At(t, v)) = Cardinality(At(s, v)) + IF e = v THEN 1 ELSE 0
  <2>1. CASE e = v
    BY <1>2, <1>3, <2>1, AtFinite, FS_AddElement
  <2>2. CASE e # v
    <3>. Cardinality(At(s, v)) \in Nat
      BY AtFinite
    <3>. QED  BY <1>2, <2>2
  <2>. QED  BY <2>1, <2>2
<1>. QED  BY <1>1, <1>4, AtFinite DEF t

\* n copies of e behind s.
LEMMA CountCopies ==
    ASSUME NEW S, NEW s \in Seq(S), NEW e \in S, NEW k \in Nat, NEW v
    PROVE  /\ s \o [n \in 1 .. k |-> e] \in Seq(S)
           /\ Count(s \o [n \in 1 .. k |-> e], v) = Count(s, v) + IF e = v THEN k ELSE 0
<1>. DEFINE u == [n \in 1 .. k |-> e]
            t == s \o u
<1>0. u \in Seq(S) /\ Len(u) = k /\ \A n \in 1 .. k : u[n] = e
  BY FunctionIsSeq
<1>. HIDE DEF u
<1>1. /\ t \in Seq(S) /\ DOMAIN t = 1 .. Len(s) + k /\ DOMAIN s = 1 .. Len(s) /\ Len(s) \in Nat
      /\ \A n \in 1 .. Len(s) : t[n] = s[n]
      /\ \A n \in 1 .. k : t[Len(s) + n] = e
  <2>1. DOMAIN s = 1 .. Len(s) /\ Len(s) \in Nat
    OBVIOUS
  <2>2. t = s \o u
    OBVIOUS
  <2>. HIDE DEF t
  <2>3. /\ t \in Seq(S) /\ DOMAIN t = 1 .. Len(s) + Len(u)
        /\ \A n \in 1 .. Len(s) : t[n] = s[n]
        /\ \A n \in 1 .. Len(u) : t[Len(s) + n] = u[n]
    <3>1. u \in Seq(S)
      BY <1>0
    <3>. QED  BY <2>2, <3>1, ConcatElements
  <2>4. t \in Seq(S) /\ DOMAIN t = 1 .. Len(s) + k
    BY <1>0, <2>3
  <2>5. \A n \in 1 .. Len(s) : t[n] = s[n]
    BY <2>3
  <2>6. \A n \in 1 .. k : t[Len(s) + n] = e
    BY <1>0, <2>3
  <2>. QED  BY <2>1, <2>4, <2>5, <2>6
<1>. HIDE DEF t
<1>2. \A n \in Len(s) + 1 .. Len(s) + k : t[n] = e
  <2>. SUFFICES ASSUME NEW n \in Len(s) + 1 .. Len(s) + k PROVE t[n] = e
    OBVIOUS
  <2>1. n - Len(s) \in 1 .. k /\ Len(s) + (n - Len(s)) = n
    BY <1>1
  <2>. QED  BY <1>1, <2>1
<1>3. At(t, v) = At(s, v) \cup (IF e = v THEN Len(s) + 1 .. Len(s) + k ELSE {})
  <2>1. \A n \in 1 .. Len(s) + k : n \in 1 .. Len(s) \/ n \in Len(s) + 1 .. Len(s) + k
    BY <1>1
  <2>2. Len(s) + 1 .. Len(s) + k \subseteq 1 .. Len(s) + k /\ 1 .. Len(s) \subseteq 1 .. Len(s) + k
    BY <1>1
  <2>. QED  BY <1>1, <1>2, <2>1, <2>2 DEF At
<1>4. Cardinality(At(t, v)) = Cardinality(At(s, v)) + IF e = v THEN k ELSE 0
  <2>1. CASE e = v
    <3>1. IsFiniteSet(Len(s) + 1 .. Len(s) + k) /\ Cardinality(Len(s) + 1 .. Len(s) + k) = k
      BY <1>1, FS_Interval
    <3>2. At(s, v) \cap (Len(s) + 1 .. Len(s) + k) = {}
      BY <1>1 DEF At
    <3>3. IsFiniteSet(At(s, v)) /\ Cardinality(At(s, v)) \in Nat
      BY AtFinite
    <3>4. Cardinality({}) = 0
      BY FS_EmptySet
    <3>5. Cardinality(At(s, v) \cup (Len(s) + 1 .. Len(s) + k))
            = Cardinality(At(s, v)) + Cardinality(Len(s) + 1 .. Len(s) + k)
                - Cardinality(At(s, v) \cap (Len(s) + 1 .. Len(s) + k))
      BY <3>1, <3>3, FS_Union
    <3>6. At(t, v) = At(s, v) \cup (Len(s) + 1 .. Len(s) + k)
      BY <1>3, <2>1
    <3>7. Cardinality(At(t, v)) = Cardinality(At(s, v)) + k - 0
      BY <3>1, <3>2, <3>4, <3>5, <3>6
    <3>. QED  BY <2>1, <3>3, <3>7
  <2>2. CASE e # v
    <3>. Cardinality(At(s, v)) \in Nat
      BY AtFinite
    <3>. QED  BY <1>3, <2>2
  <2>. QED  BY <2>1, <2>2
<1>. QED  BY <1>1, <1>4, AtFinite DEF t, u

LEMMA CountRemove ==
    ASSUME NEW S, NEW s \in Seq(S), NEW n \in DOMAIN s, NEW v
    PROVE  Count(RemoveAt(s, n), v) = Count(s, v) - IF s[n] = v THEN 1 ELSE 0
<1>. DEFINE t == RemoveAt(s, n)
            f == [k \in At(t, v) |-> IF k < n THEN k ELSE k + 1]
<1>1. /\ t \in Seq(S) /\ DOMAIN t = 1 .. Len(s) - 1 /\ DOMAIN s = 1 .. Len(s) /\ Len(s) \in Nat
      /\ \A k \in 1 .. Len(s) - 1 : t[k] = s[IF k < n THEN k ELSE k + 1]
  BY RemoveElements
<1>. HIDE DEF t
<1>2. \A k \in At(t, v) : f[k] \in At(s, v) \ {n}
  <2>. SUFFICES ASSUME NEW k \in At(t, v) PROVE f[k] \in At(s, v) \ {n}
    OBVIOUS
  <2>1. k \in 1 .. Len(s) - 1 /\ t[k] = v
    BY <1>1 DEF At
  <2>2. CASE k < n
    BY <1>1, <2>1, <2>2 DEF At
  <2>3. CASE ~(k < n)
    BY <1>1, <2>1, <2>3 DEF At
  <2>. QED  BY <2>2, <2>3
<1>3. \A k, m \in At(t, v) : f[k] = f[m] => k = m
  BY <1>1 DEF At
<1>4. \A m \in At(s, v) \ {n} : \E k \in At(t, v) : f[k] = m
  <2>. SUFFICES ASSUME NEW m \in At(s, v) \ {n} PROVE \E k \in At(t, v) : f[k] = m
    OBVIOUS
  <2>1. m \in 1 .. Len(s) /\ s[m] = v /\ m # n
    BY <1>1 DEF At
  <2>2. CASE m < n
    <3>1. m \in 1 .. Len(s) - 1 /\ t[m] = v
      BY <1>1, <2>1, <2>2
    <3>2. m \in At(t, v)
      BY <1>1, <3>1 DEF At
    <3>. QED  BY <2>2, <3>2
  <2>3. CASE ~(m < n)
    <3>1. m - 1 \in 1 .. Len(s) - 1 /\ ~(m - 1 < n) /\ (m - 1) + 1 = m
      BY <1>1, <2>1, <2>3
    <3>2. t[m - 1] = v
      BY <1>1, <2>1, <3>1
    <3>3. m - 1 \in At(t, v)
      BY <1>1, <3>1, <3>2 DEF At
    <3>. QED  BY <3>1, <3>3
  <2>. QED  BY <2>2, <2>3
<1>5. f \in Bijection(At(t, v), At(s, v) \ {n})
  <2>1. f \in [At(t, v) -> At(s, v) \ {n}]
    BY <1>2
  <2>. HIDE DEF f
  <2>. QED  BY <1>3, <1>4, <2>1, Fun_IsBij
<1>6. Cardinality(At(t, v)) = Cardinality(At(s, v) \ {n})
  BY <1>1, <1>5, AtFinite, FS_Bijection DEF ExistsBijection
<1>7. Cardinality(At(s, v) \ {n}) = Cardinality(At(s, v)) - IF s[n] = v THEN 1 ELSE 0
  <2>1. n \in At(s, v) <=> s[n] = v
    BY DEF At
  <2>2. Cardinality(At(s, v)) \in Nat
    BY AtFinite
  <2>3. CASE s[n] = v
    <3>1. Cardinality(At(s, v) \ {n}) = Cardinality(At(s, v)) - 1
      BY <2>1, <2>3, AtFinite, FS_RemoveElement
    <3>. QED  BY <2>3, <3>1
  <2>4. CASE s[n] # v
    <3>1. At(s, v) \ {n} = At(s, v)
      BY <2>1, <2>4
    <3>2. (IF s[n] = v THEN 1 ELSE 0) = 0
      BY <2>4
    <3>3. Cardinality(At(s, v)) = Cardinality(At(s, v)) - 0
      BY <2>2
    <3>. QED  BY <3>1, <3>2, <3>3, Zenon
  <2>. QED  BY <2>3, <2>4
<1>. QED  BY <1>1, <1>6, <1>7, AtFinite DEF t

LEMMA CountTail ==
    ASSUME NEW S, NEW s \in Seq(S), s # <<>>, NEW v
    PROVE  Count(Tail(s), v) = Count(s, v) - IF Head(s) = v THEN 1 ELSE 0
<1>1. /\ Tail(s) \in Seq(S) /\ Head(s) = s[1] /\ 1 \in DOMAIN s
      /\ DOMAIN Tail(s) = 1 .. Len(s) - 1
      /\ \A n \in 1 .. Len(s) - 1 : Tail(s)[n] = s[n + 1]
  BY TailElements
<1>2. /\ RemoveAt(s, 1) \in Seq(S) /\ DOMAIN RemoveAt(s, 1) = 1 .. Len(s) - 1
      /\ \A k \in 1 .. Len(s) - 1 : RemoveAt(s, 1)[k] = s[IF k < 1 THEN k ELSE k + 1]
  BY <1>1, RemoveElements
<1>3. \A v1 : At(Tail(s), v1) = At(RemoveAt(s, 1), v1)
  BY <1>1, <1>2 DEF At
<1>4. Count(Tail(s), v) = Count(RemoveAt(s, 1), v)
  BY <1>3 DEF Count, At
<1>. QED  BY <1>1, <1>4, CountRemove
-----------------------------------------------------------------------------
(* Types *)

LEMMA InitTypeOK == Init => TypeOK
<1>. SUFFICES ASSUME Init PROVE TypeOK
  OBVIOUS
<1>1. /\ nextId \in 1 .. MaxIds + 1
      /\ id \in [Clients -> Ids \cup {NoId}] /\ \A c \in Clients : id[c] < nextId
      /\ lobby \subseteq {c \in Clients : id[c] # NoId}
  BY VisitAssumption DEF Init, Clients, Ids, NoId
<1>2. /\ place \in [Clients -> Places]
      /\ told \in [Clients -> [Ids -> Places \cup {NotTold}]]
      /\ asked \in [Clients -> [Ids \cup {HOST} -> Nat]]
      /\ answered \in [Clients -> [Ids \cup {HOST} -> Nat]]
  BY DEF Init, Places
<1>3. stage \in [Clients -> {"new", "in", "gone"}]
  BY DEF Init
<1>4. /\ visitors \in [Clients -> Seq(Clients)]
      /\ toClient \in [Clients -> Seq(ClientEvents)]
      /\ toServer \in [Clients -> Seq(ServerEvents)]
      /\ overtaken \subseteq Clients
      /\ \A c \in Clients : visitors[c] = <<>> /\ toClient[c] = <<>>
  BY DEF Init
<1>5. nextId \in 1 .. MaxIds + 1
  BY <1>1
<1>. QED  BY <1>1, <1>2, <1>3, <1>4, <1>5 DEF TypeOK

\* A datagram gives its sender an id that nobody has had.
LEMMA EntryType ==
    ASSUME TypeOK, NEW c \in Clients, Entry(c)
    PROVE  /\ nextId' \in 1 .. MaxIds + 1
           /\ id' = EntryOf(c)
           /\ id' \in [Clients -> Ids \cup {NoId}] /\ \A d \in Clients : id'[d] < nextId'
           /\ id'[c] \in Ids /\ id'[c] # NoId
           /\ \A d \in Clients : id[d] # NoId => id'[d] # NoId
<1>. VisitAssumption
  BY VisitAssumption
<1>1. CASE id[c] # NoId
  BY <1>1 DEF TypeOK, Entry, EntryOf, Ids, NoId
<1>2. CASE id[c] = NoId
  <2>1. nextId \in Ids /\ nextId' = nextId + 1 /\ id' = [id EXCEPT ![c] = nextId]
    BY <1>2 DEF Entry, EntryOf
  <2>2. nextId' \in 1 .. MaxIds + 1 /\ nextId \in Int /\ nextId # NoId
    BY <2>1 DEF Ids, NoId
  <2>3. /\ id' \in [Clients -> Ids \cup {NoId}] /\ id'[c] = nextId
        /\ \A d \in Clients \ {c} : id'[d] = id[d]
    BY <2>1 DEF TypeOK
  <2>4. \A d \in Clients : id[d] \in Int /\ id[d] < nextId
    BY DEF TypeOK, Ids, NoId
  <2>5. \A d \in Clients : id'[d] < nextId'
    BY <2>1, <2>2, <2>3, <2>4
  <2>6. id' = EntryOf(c)
    BY DEF Entry
  <2>. QED  BY <1>2, <2>1, <2>2, <2>3, <2>5, <2>6
<1>. QED  BY <1>1, <1>2

LEMMA AskType ==
    ASSUME TypeOK, NEW c \in Clients, NEW o \in Ids \cup {HOST}, Ask(c, o) PROVE TypeOK'
<1>1. Say("request", o) \in ServerEvents
  BY DEF Say, ServerEvents, Places
<1>2. toServer' \in [Clients -> Seq(ServerEvents)]
  BY <1>1 DEF TypeOK, Ask
<1>3. /\ place' \in [Clients -> Places]
      /\ asked' \in [Clients -> [Ids \cup {HOST} -> Nat]]
  <2>1. asked' = [asked EXCEPT ![c] = [asked[c] EXCEPT ![o] = asked[c][o] + 1]]
    BY DEF TypeOK, Ask
  <2>2. asked[c] \in [Ids \cup {HOST} -> Nat]
    BY DEF TypeOK
  <2>3. [asked[c] EXCEPT ![o] = asked[c][o] + 1] \in [Ids \cup {HOST} -> Nat]
    BY <2>2
  <2>4. asked' \in [Clients -> [Ids \cup {HOST} -> Nat]]
    BY <2>1, <2>3 DEF TypeOK
  <2>5. place' = [place EXCEPT ![c] = o] /\ place \in [Clients -> Places] /\ o \in Places
    BY DEF TypeOK, Ask, Places
  <2>. QED  BY <2>4, <2>5
<1>. QED  BY <1>2, <1>3 DEF TypeOK, Ask, serverVars

LEMMA ReturnType ==
    ASSUME TypeOK, NEW c \in Clients, Return(c) PROVE TypeOK'
<1>1. Say("location", HUB) \in ServerEvents
  BY DEF Say, ServerEvents, Places
<1>2. toServer' \in [Clients -> Seq(ServerEvents)]
  BY <1>1 DEF TypeOK, Return
<1>3. place' \in [Clients -> Places]
  BY DEF TypeOK, Return, Places
<1>. QED  BY <1>2, <1>3 DEF TypeOK, Return, serverVars

LEMMA HearType ==
    ASSUME TypeOK, NEW c \in Clients, Hear(c) PROVE TypeOK'
<1>0. /\ toClient[c] \in Seq(ClientEvents) /\ Head(toClient[c]) \in ClientEvents
      /\ Tail(toClient[c]) \in Seq(ClientEvents)
  BY DEF TypeOK, Hear
<1>1. /\ toClient' \in [Clients -> Seq(ClientEvents)]
      /\ \A d \in Clients : toClient[d] = <<>> => toClient'[d] = <<>>
  BY <1>0 DEF TypeOK, Hear
<1>2. Say("response", HUB) \in ServerEvents
  BY DEF Say, ServerEvents, Places
<1>. DEFINE e == Head(toClient[c])
<1>3. \/ toServer' = [toServer EXCEPT ![c] = Append(@, Say("response", HUB))] /\ answered' = answered
      \/ toServer' = toServer /\ answered' = [answered EXCEPT ![c][e.who] = @ + 1]
  BY DEF Hear
<1>4. e.who \in Ids \cup {HOST}
  BY <1>0 DEF ClientEvents
<1>. HIDE DEF e
<1>5. toServer' \in [Clients -> Seq(ServerEvents)]
  <2>1. /\ toServer[c] \in Seq(ServerEvents)
        /\ toServer \in [Clients -> Seq(ServerEvents)]
    BY DEF TypeOK
  <2>2. Append(toServer[c], Say("response", HUB)) \in Seq(ServerEvents)
    BY <1>2, <2>1, AppendElements
  <2>3. [toServer EXCEPT ![c] = Append(toServer[c], Say("response", HUB))] \in [Clients -> Seq(ServerEvents)]
    BY <2>1, <2>2
  <2>. QED  BY <1>3, <2>1, <2>3
<1>6. answered' \in [Clients -> [Ids \cup {HOST} -> Nat]]
  <2>1. answered[c] \in [Ids \cup {HOST} -> Nat]
    BY DEF TypeOK
  <2>2. [answered[c] EXCEPT ![e.who] = answered[c][e.who] + 1] \in [Ids \cup {HOST} -> Nat]
    BY <1>4, <2>1
  <2>. QED  BY <1>3, <2>2 DEF TypeOK
<1>. QED  BY <1>1, <1>5, <1>6 DEF TypeOK, Hear, serverVars

LEMMA QuitType ==
    ASSUME TypeOK, NEW c \in Clients, Quit(c) PROVE TypeOK'
<1>1. stage' \in [Clients -> {"new", "in", "gone"}]
  BY DEF TypeOK, Quit
<1>. QED  BY <1>1 DEF TypeOK, Quit, serverVars

LEMMA JoinType ==
    ASSUME TypeOK, NEW c \in Clients, Join(c) PROVE TypeOK'
<1>1. Entry(c) /\ stage' \in [Clients -> {"new", "in", "gone"}]
  BY DEF TypeOK, Join
<1>2. lobby' \subseteq {d \in Clients : id'[d] # NoId}
  BY <1>1, EntryType DEF TypeOK, Join
<1>. QED  BY <1>1, <1>2, EntryType DEF TypeOK, Join

LEMMA SendType ==
    ASSUME TypeOK, NEW a \in Clients, NEW kind \in {"request", "response"},
           NEW who \in Ids \cup {HOST}, Send(a, kind, who)
    PROVE  /\ toClient' \in [Clients -> Seq(ClientEvents)]
           /\ \A d \in Clients \ {a} : toClient'[d] = toClient[d]
           /\ toClient'[a] = Append(toClient[a], [kind |-> kind, who |-> who])
<1>1. [kind |-> kind, who |-> who] \in ClientEvents
  BY DEF ClientEvents
<1>. QED  BY <1>1 DEF TypeOK, Send

LEMMA ToldType ==
    ASSUME TypeOK, NEW Set, NEW who \in Ids, NEW where \in Places, Told(Set, who, where)
    PROVE  told' \in [Clients -> [Ids -> Places \cup {NotTold}]]
BY DEF TypeOK, Told

\* What a handler does to the lists and the queues to the clients.
Handled ==
    /\ visitors' \in [Clients -> Seq(Clients)]
    /\ toClient' \in [Clients -> Seq(ClientEvents)]
    /\ told' \in [Clients -> [Ids -> Places \cup {NotTold}]]
    /\ \A d \in Clients : id'[d] = NoId => visitors'[d] = <<>> /\ toClient'[d] = <<>>

LEMMA RequestType ==
    ASSUME TypeOK, NEW c \in Clients, Entry(c), NEW o \in Places, RequestVisitGarage(c, o)
    PROVE  Handled
<1>. DEFINE me == EntryOf(c)[c]
<1>0. /\ me \in Ids /\ id' = EntryOf(c) /\ id'[c] # NoId
      /\ \A d \in Clients : id'[d] = NoId => id[d] = NoId
  BY EntryType
<1>. HIDE DEF me
<1>1. CASE o = HOST /\ Send(c, "response", HOST) /\ Told(PeersOf(c), me, HOST) /\ UNCHANGED visitors
  <2>1. HOST \in Places
    BY DEF Places
  <2>. QED  BY <1>0, <1>1, <2>1, SendType, ToldType DEF Handled, TypeOK
<1>2. CASE \E owner \in Clients :
                /\ EntryOf(c)[owner] = o
                /\ visitors' = Note(owner, c)
                /\ Send(owner, "request", me)
                /\ Told(PeersOf(c), me, o)
  <2>1. PICK owner \in Clients :
                /\ EntryOf(c)[owner] = o
                /\ visitors' = Note(owner, c)
                /\ Send(owner, "request", me)
                /\ Told(PeersOf(c), me, o)
    BY <1>2
  <2>2. id'[owner] # NoId
    BY <1>0, <2>1 DEF Places, Ids, HOST, HUB, NoId
  <2>3. told' \in [Clients -> [Ids -> Places \cup {NotTold}]]
    BY <1>0, <2>1, ToldType
  <2>4. /\ visitors' \in [Clients -> Seq(Clients)]
        /\ \A d \in Clients \ {owner} : visitors'[d] = visitors[d]
    BY <2>1 DEF Note, TypeOK
  <2>5. /\ toClient' \in [Clients -> Seq(ClientEvents)]
        /\ \A d \in Clients \ {owner} : toClient'[d] = toClient[d]
    BY <1>0, <2>1, SendType
  <2>. QED  BY <1>0, <2>2, <2>3, <2>4, <2>5 DEF Handled, TypeOK
<1>3. CASE UNCHANGED <<visitors, toClient, told>>
  BY <1>0, <1>3 DEF Handled, TypeOK
<1>. QED  BY <1>1, <1>2, <1>3 DEF RequestVisitGarage, me

\* The answers for a, and what is on its way to it then.
Copies(c, a) ==
    [n \in 1 .. Count(Served(c), a) |-> [kind |-> "response", who |-> EntryOf(c)[c]]]

LEMMA ResponseType ==
    ASSUME TypeOK, NEW c \in Clients, Entry(c), VisitGarageResponse(c)
    PROVE  Handled
<1>0. /\ id'[c] \in Ids /\ id' = EntryOf(c)
      /\ \A d \in Clients : id'[d] = NoId => id[d] = NoId
  BY EntryType
<1>1. /\ visitors' \in [Clients -> Seq(Clients)]
      /\ \A d \in Clients : visitors[d] = <<>> => visitors'[d] = <<>>
  BY DEF TypeOK, VisitGarageResponse, Cleared
<1>2. ASSUME NEW a \in Clients
      PROVE  /\ toClient'[a] \in Seq(ClientEvents)
             /\ id'[a] = NoId => toClient'[a] = toClient[a]
  <2>1. toClient'[a] = IF id'[a] = NoId THEN toClient[a] ELSE toClient[a] \o Copies(c, a)
    BY <1>0 DEF VisitGarageResponse, Copies
  <2>2. toClient[a] \in Seq(ClientEvents)
    BY DEF TypeOK
  <2>3. toClient[a] \o Copies(c, a) \in Seq(ClientEvents)
    <3>1. [kind |-> "response", who |-> EntryOf(c)[c]] \in ClientEvents
      BY <1>0 DEF ClientEvents
    <3>2. visitors[c] \in Seq(Clients)
      BY DEF TypeOK
    <3>3. Count(Served(c), a) \in Nat
      BY <3>2, AtFinite DEF Served
    <3>. DEFINE k == Count(Served(c), a)
                e == [kind |-> "response", who |-> EntryOf(c)[c]]
    <3>4. k \in Nat /\ e \in ClientEvents /\ Copies(c, a) = [n \in 1 .. k |-> e]
      BY <3>1, <3>3 DEF Copies
    <3>. HIDE DEF k, e
    <3>. QED  BY <2>2, <3>4, CountCopies
  <2>. QED  BY <2>1, <2>2, <2>3
<1>3. toClient' \in [Clients -> Seq(ClientEvents)]
  BY <1>2 DEF VisitGarageResponse
<1>. QED  BY <1>0, <1>1, <1>2, <1>3 DEF Handled, TypeOK, VisitGarageResponse

LEMMA LocationType ==
    ASSUME TypeOK, NEW c \in Clients, Entry(c), NEW e \in ServerEvents, Tagged(c, e)
    PROVE  Handled
<1>0. \A d \in Clients : id'[d] = NoId => id[d] = NoId
  BY EntryType
<1>1. CASE c \in lobby
  <2>1. id[c] \in Ids /\ e.where \in Places
    BY <1>1 DEF TypeOK, ServerEvents
  <2>. QED  BY <1>0, <1>1, <2>1, ToldType DEF Tagged, Handled, TypeOK
<1>2. CASE c \notin lobby
  BY <1>0, <1>2 DEF Tagged, Handled, TypeOK
<1>. QED  BY <1>1, <1>2

\* What Receive does apart from the queues to the clients.
LEMMA ReceiveCases ==
    ASSUME TypeOK, NEW c \in Clients, Receive(c)
    PROVE  /\ Entry(c) /\ UNCHANGED <<lobby, gameVars>>
           /\ \E n \in DOMAIN toServer[c] :
                /\ toServer' = [toServer EXCEPT ![c] = RemoveAt(@, n)]
                /\ toServer[c][n] \in ServerEvents
                /\ overtaken' = IF n > 1 THEN overtaken \cup {c} ELSE overtaken
                /\ \/ toServer[c][n].kind = "request" /\ RequestVisitGarage(c, toServer[c][n].where)
                   \/ toServer[c][n].kind = "response" /\ VisitGarageResponse(c)
                   \/ toServer[c][n].kind = "location" /\ Tagged(c, toServer[c][n])
<1>1. \A n \in DOMAIN toServer[c] : toServer[c][n] \in ServerEvents
  <2>. toServer[c] \in Seq(ServerEvents)
    BY DEF TypeOK
  <2>. QED  OBVIOUS
<1>. QED  BY <1>1 DEF Receive

LEMMA ReceiveType ==
    ASSUME TypeOK, NEW c \in Clients, Receive(c) PROVE TypeOK'
<1>0. Entry(c)
  BY ReceiveCases
<1>1. PICK n \in DOMAIN toServer[c] :
                /\ toServer' = [toServer EXCEPT ![c] = RemoveAt(@, n)]
                /\ toServer[c][n] \in ServerEvents
                /\ overtaken' = IF n > 1 THEN overtaken \cup {c} ELSE overtaken
                /\ \/ toServer[c][n].kind = "request" /\ RequestVisitGarage(c, toServer[c][n].where)
                   \/ toServer[c][n].kind = "response" /\ VisitGarageResponse(c)
                   \/ toServer[c][n].kind = "location" /\ Tagged(c, toServer[c][n])
  BY ReceiveCases
<1>2. toServer[c][n].where \in Places
  BY <1>1 DEF ServerEvents
<1>3. Handled
  BY <1>0, <1>1, <1>2, RequestType, ResponseType, LocationType
<1>4. toServer' \in [Clients -> Seq(ServerEvents)]
  <2>1. toServer[c] \in Seq(ServerEvents)
    BY DEF TypeOK
  <2>2. RemoveAt(toServer[c], n) \in Seq(ServerEvents)
    BY <2>1, RemoveElements
  <2>. QED  BY <1>1, <2>2 DEF TypeOK
<1>5. UNCHANGED <<lobby, gameVars>>
  BY ReceiveCases
<1>6. /\ lobby' \subseteq {d \in Clients : id'[d] # NoId}
      /\ overtaken' \subseteq Clients
  BY <1>0, <1>1, <1>5, EntryType DEF TypeOK
<1>. QED  BY <1>0, <1>3, <1>4, <1>5, <1>6, EntryType DEF Handled, TypeOK, gameVars

LEMMA RemoveClientType ==
    ASSUME TypeOK, NEW c \in Clients, RemoveClient(c) PROVE TypeOK'
<1>1. /\ id' \in [Clients -> Ids \cup {NoId}] /\ \A d \in Clients : id'[d] < nextId'
      /\ lobby' \subseteq {d \in Clients : id'[d] # NoId}
  BY DEF TypeOK, RemoveClient, NoId
<1>2. /\ visitors' \in [Clients -> Seq(Clients)] /\ toClient' \in [Clients -> Seq(ClientEvents)]
      /\ \A d \in Clients : id'[d] = NoId => visitors'[d] = <<>> /\ toClient'[d] = <<>>
      /\ told' \in [Clients -> [Ids -> Places \cup {NotTold}]]
  BY DEF TypeOK, RemoveClient
<1>. QED  BY <1>1, <1>2 DEF TypeOK, RemoveClient, gameVars

LEMMA NextTypeOK == TypeOK /\ [Next]_vars => TypeOK'
<1>. SUFFICES ASSUME TypeOK, [Next]_vars PROVE TypeOK'
  OBVIOUS
<1>1. CASE UNCHANGED vars
  BY <1>1 DEF vars, serverVars, gameVars, TypeOK
<1>2. ASSUME NEW c \in Clients,
             \/ Join(c) \/ \E o \in Ids \cup {HOST} : Ask(c, o)
             \/ Return(c) \/ Hear(c) \/ Quit(c)
             \/ Receive(c) \/ RemoveClient(c)
      PROVE TypeOK'
  BY <1>2, JoinType, AskType, ReturnType, HearType, QuitType, ReceiveType, RemoveClientType
<1>. QED  BY <1>1, <1>2 DEF Next

\* The types of the visits: entries, lists and events on their way.
THEOREM VisitTypeCorrect == Spec => []TypeOK
<1>1. Init => TypeOK
  BY InitTypeOK
<1>2. TypeOK /\ [Next]_vars => TypeOK'
  BY NextTypeOK
<1>. QED  BY <1>1, <1>2, PTL DEF Spec
-----------------------------------------------------------------------------
(* Waiting *)

\* A game that has not joined has sent nothing.
NewAreSilent == \A c \in Clients : stage[c] = "new" => id[c] = NoId /\ toServer[c] = <<>>

RequestIn(a) == \E e \in ToSet(toClient[a]) : e.kind = "request"
AnswerIn(a) == \E e \in ToSet(toServer[a]) : e.kind = "response"

NoneWaitsInVain ==
    \A a \in Clients : (visitors[a] # <<>> /\ stage[a] = "in") => RequestIn(a) \/ AnswerIn(a)

WaitInv == TypeOK /\ NewAreSilent /\ NoneWaitsInVain

LEMMA WaitInvImplies == WaitInv => WaitingMeansAnAnswerIsComing
BY DEF WaitInv, NoneWaitsInVain, WaitingMeansAnAnswerIsComing, RequestIn, AnswerIn, ToSet

LEMMA InitWaitInv == Init => WaitInv
<1>. SUFFICES ASSUME Init PROVE WaitInv
  OBVIOUS
<1>1. NewAreSilent
  BY VisitAssumption DEF Init, NewAreSilent, Clients
<1>2. NoneWaitsInVain
  BY DEF Init, NoneWaitsInVain
<1>. QED  BY <1>1, <1>2, InitTypeOK DEF WaitInv

\* An answer in a queue stays when something is appended to it.
LEMMA SayKeeps ==
    ASSUME TypeOK, NEW c \in Clients, NEW e \in ServerEvents,
           toServer' = [toServer EXCEPT ![c] = Append(@, e)]
    PROVE  /\ \A a \in Clients \ {c} : toServer'[a] = toServer[a]
           /\ \A a \in Clients : AnswerIn(a) => AnswerIn(a)'
           /\ e.kind = "response" => AnswerIn(c)'
<1>1. /\ \A a \in Clients \ {c} : toServer'[a] = toServer[a]
      /\ toServer'[c] = Append(toServer[c], e)
  BY DEF TypeOK
<1>2. ToSet(toServer'[c]) = ToSet(toServer[c]) \cup {e}
  <2>1. toServer[c] \in Seq(ServerEvents)
    BY DEF TypeOK
  <2>. QED  BY <1>1, <2>1, AppendSet
<1>. QED  BY <1>1, <1>2 DEF AnswerIn

LEMMA AskWaits ==
    ASSUME WaitInv, NEW c \in Clients, NEW o \in Ids \cup {HOST}, Ask(c, o)
    PROVE  NewAreSilent' /\ NoneWaitsInVain'
<1>. TypeOK
  BY DEF WaitInv
<1>1. Say("request", o) \in ServerEvents
  BY DEF Say, ServerEvents, Places
<1>2. toServer' = [toServer EXCEPT ![c] = Append(@, Say("request", o))]
  BY DEF Ask
<1>3. /\ \A a \in Clients \ {c} : toServer'[a] = toServer[a]
      /\ \A a \in Clients : AnswerIn(a) => AnswerIn(a)'
  BY <1>1, <1>2, SayKeeps
<1>4. NewAreSilent'
  BY <1>3 DEF WaitInv, NewAreSilent, Ask, serverVars
<1>5. NoneWaitsInVain'
  BY <1>3 DEF WaitInv, NoneWaitsInVain, RequestIn, Ask, serverVars
<1>. QED  BY <1>4, <1>5

LEMMA ReturnWaits ==
    ASSUME WaitInv, NEW c \in Clients, Return(c)
    PROVE  NewAreSilent' /\ NoneWaitsInVain'
<1>. TypeOK
  BY DEF WaitInv
<1>1. Say("location", HUB) \in ServerEvents
  BY DEF Say, ServerEvents, Places
<1>2. toServer' = [toServer EXCEPT ![c] = Append(@, Say("location", HUB))]
  BY DEF Return
<1>3. /\ \A a \in Clients \ {c} : toServer'[a] = toServer[a]
      /\ \A a \in Clients : AnswerIn(a) => AnswerIn(a)'
  BY <1>1, <1>2, SayKeeps
<1>4. NewAreSilent'
  BY <1>3 DEF WaitInv, NewAreSilent, Return, serverVars
<1>5. NoneWaitsInVain'
  BY <1>3 DEF WaitInv, NoneWaitsInVain, RequestIn, Return, serverVars
<1>. QED  BY <1>4, <1>5

\* A request that a game takes becomes an answer.
LEMMA HearWaits ==
    ASSUME WaitInv, NEW c \in Clients, Hear(c)
    PROVE  NewAreSilent' /\ NoneWaitsInVain'
<1>. TypeOK
  BY DEF WaitInv
<1>. DEFINE e == Head(toClient[c])
<1>0. /\ toClient[c] \in Seq(ClientEvents) /\ toClient[c] # <<>> /\ toClient \in [Clients -> Seq(ClientEvents)]
      /\ stage[c] = "in" /\ UNCHANGED <<stage, id, visitors>>
  BY DEF TypeOK, Hear, serverVars
<1>1. /\ \A a \in Clients \ {c} : toClient'[a] = toClient[a]
      /\ ToSet(toClient[c]) \subseteq ToSet(toClient'[c]) \cup {e}
  <2>1. toClient' = [toClient EXCEPT ![c] = Tail(@)]
    BY DEF Hear
  <2>2. toClient'[c] = Tail(toClient[c])
    BY <1>0, <2>1
  <2>. QED  BY <1>0, <2>1, <2>2, TailSet
<1>2. \/ /\ e.kind = "request"
         /\ toServer' = [toServer EXCEPT ![c] = Append(@, Say("response", HUB))]
      \/ e.kind = "response" /\ toServer' = toServer
  BY DEF Hear
<1>. HIDE DEF e
<1>3. CASE /\ e.kind = "request"
           /\ toServer' = [toServer EXCEPT ![c] = Append(@, Say("response", HUB))]
  <2>1. Say("response", HUB) \in ServerEvents /\ Say("response", HUB).kind = "response"
    BY DEF Say, ServerEvents, Places
  <2>2. /\ \A a \in Clients \ {c} : toServer'[a] = toServer[a]
        /\ \A a \in Clients : AnswerIn(a) => AnswerIn(a)'
        /\ AnswerIn(c)'
    BY <1>3, <2>1, SayKeeps
  <2>3. NewAreSilent'
    BY <1>0, <2>2 DEF WaitInv, NewAreSilent
  <2>4. NoneWaitsInVain'
    BY <1>0, <1>1, <2>2 DEF WaitInv, NoneWaitsInVain, RequestIn
  <2>. QED  BY <2>3, <2>4
<1>4. CASE e.kind = "response" /\ toServer' = toServer
  <2>1. RequestIn(c) => RequestIn(c)'
    BY <1>1, <1>4 DEF RequestIn
  <2>2. NewAreSilent'
    BY <1>0, <1>4 DEF WaitInv, NewAreSilent
  <2>3. NoneWaitsInVain'
    BY <1>0, <1>1, <1>4, <2>1 DEF WaitInv, NoneWaitsInVain, RequestIn, AnswerIn
  <2>. QED  BY <2>2, <2>3
<1>. QED  BY <1>2, <1>3, <1>4

LEMMA QuitWaits ==
    ASSUME WaitInv, NEW c \in Clients, Quit(c)
    PROVE  NewAreSilent' /\ NoneWaitsInVain'
<1>1. /\ UNCHANGED <<id, toServer, toClient, visitors>>
      /\ \A a \in Clients : stage'[a] = stage[a] \/ stage'[a] = "gone"
  BY DEF WaitInv, TypeOK, Quit, serverVars
<1>2. NewAreSilent'
  BY <1>1 DEF WaitInv, NewAreSilent
<1>3. NoneWaitsInVain'
  BY <1>1 DEF WaitInv, NoneWaitsInVain, RequestIn, AnswerIn
<1>. QED  BY <1>2, <1>3

LEMMA JoinWaits ==
    ASSUME WaitInv, NEW c \in Clients, Join(c)
    PROVE  NewAreSilent' /\ NoneWaitsInVain'
<1>. TypeOK
  BY DEF WaitInv
<1>1. /\ UNCHANGED <<toServer, toClient, visitors>>
      /\ \A a \in Clients \ {c} : stage'[a] = stage[a]
      /\ stage[c] = "new" /\ stage'[c] = "in"
      /\ \A a \in Clients \ {c} : id'[a] = id[a]
  BY EntryType DEF TypeOK, Join, EntryOf
<1>2. visitors[c] = <<>>
  BY <1>1 DEF WaitInv, NewAreSilent, TypeOK
<1>3. NewAreSilent'
  BY <1>1 DEF WaitInv, NewAreSilent
<1>4. NoneWaitsInVain'
  BY <1>1, <1>2 DEF WaitInv, NoneWaitsInVain, RequestIn, AnswerIn
<1>. QED  BY <1>3, <1>4

\* An owner gets a request with every visitor it is given, and loses them all
\* with its answer.
LEMMA ReceiveWaits ==
    ASSUME WaitInv, NEW c \in Clients, Receive(c)
    PROVE  NewAreSilent' /\ NoneWaitsInVain'
<1>. TypeOK
  BY DEF WaitInv
<1>0. Entry(c) /\ UNCHANGED stage
  BY ReceiveCases DEF gameVars
<1>1. PICK n \in DOMAIN toServer[c] :
                /\ toServer' = [toServer EXCEPT ![c] = RemoveAt(@, n)]
                /\ toServer[c][n] \in ServerEvents
                /\ overtaken' = IF n > 1 THEN overtaken \cup {c} ELSE overtaken
                /\ \/ toServer[c][n].kind = "request" /\ RequestVisitGarage(c, toServer[c][n].where)
                   \/ toServer[c][n].kind = "response" /\ VisitGarageResponse(c)
                   \/ toServer[c][n].kind = "location" /\ Tagged(c, toServer[c][n])
  BY ReceiveCases
<1>. DEFINE e == toServer[c][n]
<1>2. /\ \A a \in Clients \ {c} : toServer'[a] = toServer[a]
      /\ ToSet(toServer[c]) \subseteq ToSet(toServer'[c]) \cup {e}
  <2>1. toServer[c] \in Seq(ServerEvents) /\ toServer \in [Clients -> Seq(ServerEvents)]
    BY DEF TypeOK
  <2>2. toServer'[c] = RemoveAt(toServer[c], n)
    BY <1>1, <2>1
  <2>. QED  BY <1>1, <2>1, <2>2, RemoveSet
<1>3. NewAreSilent'
  <2>1. \A a \in Clients \ {c} : id'[a] = id[a]
    <3>1. id' = id \/ id' = [id EXCEPT ![c] = nextId]
      BY <1>0 DEF Entry, EntryOf
    <3>. QED  BY <3>1 DEF TypeOK
  <2>2. stage[c] # "new"
    BY <1>1 DEF WaitInv, NewAreSilent
  <2>. QED  BY <1>0, <1>2, <2>1, <2>2 DEF WaitInv, NewAreSilent
<1>4. CASE e.kind = "request" /\ RequestVisitGarage(c, e.where)
  <2>0. \A a \in Clients : AnswerIn(a) => AnswerIn(a)'
    BY <1>2, <1>4 DEF AnswerIn
  <2>1. CASE e.where = HOST /\ Send(c, "response", HOST) /\ UNCHANGED visitors
    <3>1. /\ \A d \in Clients \ {c} : toClient'[d] = toClient[d]
          /\ toClient'[c] = Append(toClient[c], [kind |-> "response", who |-> HOST])
      BY <2>1, SendType
    <3>2. ToSet(toClient[c]) \subseteq ToSet(toClient'[c])
      <4>1. toClient[c] \in Seq(ClientEvents) /\ [kind |-> "response", who |-> HOST] \in ClientEvents
        BY DEF TypeOK, ClientEvents
      <4>. QED  BY <3>1, <4>1, AppendSet
    <3>3. \A a \in Clients : RequestIn(a) => RequestIn(a)'
      BY <3>1, <3>2 DEF RequestIn
    <3>4. NoneWaitsInVain'
      BY <1>0, <2>0, <2>1, <3>3 DEF WaitInv, NoneWaitsInVain
    <3>. QED  BY <1>3, <3>4
  <2>2. ASSUME NEW owner \in Clients, visitors' = Note(owner, c),
               Send(owner, "request", EntryOf(c)[c])
        PROVE  NoneWaitsInVain'
    <3>0. EntryOf(c)[c] \in Ids
      BY <1>0, EntryType
    <3>. DEFINE m == [kind |-> "request", who |-> EntryOf(c)[c]]
    <3>1. /\ \A d \in Clients \ {owner} : toClient'[d] = toClient[d]
          /\ toClient'[owner] = Append(toClient[owner], m)
      BY <2>2, <3>0, SendType
    <3>2. ToSet(toClient'[owner]) = ToSet(toClient[owner]) \cup {m}
      <4>1. toClient[owner] \in Seq(ClientEvents) /\ m \in ClientEvents
        BY <3>0 DEF TypeOK, ClientEvents
      <4>. HIDE DEF m
      <4>. QED  BY <3>1, <4>1, AppendSet
    <3>3. RequestIn(owner)'
      <4>1. m \in ToSet(toClient'[owner]) /\ m.kind = "request"
        BY <3>2
      <4>. HIDE DEF m
      <4>. QED  BY <4>1 DEF RequestIn
    <3>4. \A a \in Clients \ {owner} : visitors'[a] = visitors[a]
      BY <2>2 DEF Note, TypeOK
    <3>. QED  BY <1>0, <2>0, <3>1, <3>3, <3>4 DEF WaitInv, NoneWaitsInVain, RequestIn
  <2>3. CASE UNCHANGED <<visitors, toClient, told>>
    <3>1. NoneWaitsInVain'
      BY <1>0, <2>0, <2>3 DEF WaitInv, NoneWaitsInVain, RequestIn
    <3>. QED  BY <1>3, <3>1
  <2>. QED  BY <1>3, <1>4, <2>1, <2>2, <2>3 DEF RequestVisitGarage
<1>5. CASE e.kind = "response" /\ VisitGarageResponse(c)
  <2>1. visitors'[c] = <<>> /\ \A a \in Clients \ {c} : visitors'[a] = visitors[a]
    BY <1>5 DEF VisitGarageResponse, Cleared, TypeOK
  <2>2. ASSUME NEW a \in Clients PROVE ToSet(toClient[a]) \subseteq ToSet(toClient'[a])
    <3>1. CASE EntryOf(c)[a] = NoId
      BY <1>5, <3>1 DEF VisitGarageResponse
    <3>2. CASE EntryOf(c)[a] # NoId
      <4>1. toClient'[a] = toClient[a] \o Copies(c, a)
        BY <1>5, <3>2 DEF VisitGarageResponse, Copies
      <4>2. toClient[a] \in Seq(ClientEvents) /\ Copies(c, a) \in Seq(ClientEvents)
        <5>1. EntryOf(c)[c] \in Ids
          BY <1>0, EntryType
        <5>2. Count(Served(c), a) \in Nat
          <6>. visitors[c] \in Seq(Clients)
            BY DEF TypeOK
          <6>. QED  BY AtFinite DEF Served
        <5>3. Copies(c, a) \in [1 .. Count(Served(c), a) -> ClientEvents]
          BY <5>1 DEF Copies, ClientEvents
        <5>. QED  BY <5>2, <5>3, FunctionIsSeq DEF TypeOK
      <4>. DEFINE s == toClient[a]
                  t == Copies(c, a)
                  u == toClient'[a]
      <4>3. s \in Seq(ClientEvents) /\ t \in Seq(ClientEvents) /\ u = s \o t
        BY <4>1, <4>2
      <4>. HIDE DEF s, t, u
      <4>4. /\ DOMAIN u = 1 .. Len(s) + Len(t) /\ DOMAIN s = 1 .. Len(s)
            /\ Len(s) \in Nat /\ Len(t) \in Nat
            /\ \A k \in 1 .. Len(s) : u[k] = s[k]
        BY <4>3, ConcatElements
      <4>5. ToSet(s) \subseteq ToSet(u)
        BY <4>4 DEF ToSet
      <4>. QED  BY <4>5 DEF s, u
    <3>. QED  BY <3>1, <3>2
  <2>3. NoneWaitsInVain'
    BY <1>0, <1>2, <2>1, <2>2 DEF WaitInv, NoneWaitsInVain, RequestIn, AnswerIn
  <2>. QED  BY <1>3, <2>3
<1>6. CASE e.kind = "location" /\ Tagged(c, e)
  <2>1. \A a \in Clients : AnswerIn(a) => AnswerIn(a)'
    BY <1>2, <1>6 DEF AnswerIn
  <2>2. UNCHANGED <<visitors, toClient>>
    BY <1>6 DEF Tagged
  <2>3. NoneWaitsInVain'
    BY <1>0, <2>1, <2>2 DEF WaitInv, NoneWaitsInVain, RequestIn
  <2>. QED  BY <1>3, <2>3
<1>. QED  BY <1>1, <1>4, <1>5, <1>6

LEMMA RemoveClientWaits ==
    ASSUME WaitInv, NEW c \in Clients, RemoveClient(c)
    PROVE  NewAreSilent' /\ NoneWaitsInVain'
<1>1. /\ UNCHANGED <<stage, toServer>> /\ stage[c] = "gone" /\ id'[c] = NoId
      /\ \A a \in Clients \ {c} : /\ id'[a] = id[a] /\ visitors'[a] = visitors[a]
                                  /\ toClient'[a] = toClient[a]
  BY DEF WaitInv, TypeOK, RemoveClient, gameVars
<1>2. NewAreSilent'
  BY <1>1 DEF WaitInv, NewAreSilent
<1>3. NoneWaitsInVain'
  BY <1>1 DEF WaitInv, NoneWaitsInVain, RequestIn, AnswerIn
<1>. QED  BY <1>2, <1>3

LEMMA NextWaitInv == WaitInv /\ [Next]_vars => WaitInv'
<1>. SUFFICES ASSUME WaitInv, [Next]_vars PROVE WaitInv'
  OBVIOUS
<1>0. TypeOK'
  BY NextTypeOK DEF WaitInv
<1>1. CASE UNCHANGED vars
  <2>1. NewAreSilent' /\ NoneWaitsInVain'
    BY <1>1 DEF vars, serverVars, gameVars, WaitInv, NewAreSilent, NoneWaitsInVain, RequestIn, AnswerIn
  <2>. QED  BY <1>0, <2>1 DEF WaitInv
<1>2. ASSUME NEW c \in Clients,
             \/ Join(c) \/ \E o \in Ids \cup {HOST} : Ask(c, o)
             \/ Return(c) \/ Hear(c) \/ Quit(c)
             \/ Receive(c) \/ RemoveClient(c)
      PROVE NewAreSilent' /\ NoneWaitsInVain'
  BY <1>2, JoinWaits, AskWaits, ReturnWaits, HearWaits, QuitWaits, ReceiveWaits, RemoveClientWaits
<1>. QED  BY <1>0, <1>1, <1>2 DEF Next, WaitInv

\* VisitGarageResponse empties the owner's list, and each request adds to it:
\* for whom it still holds, an answer is coming.
THEOREM NoStaleVisitors == Spec => []WaitingMeansAnAnswerIsComing
<1>1. Init => WaitInv
  BY InitWaitInv
<1>2. WaitInv /\ [Next]_vars => WaitInv'
  BY NextWaitInv
<1>3. WaitInv => WaitingMeansAnAnswerIsComing
  BY WaitInvImplies
<1>. QED  BY <1>1, <1>2, <1>3, PTL DEF Spec
-----------------------------------------------------------------------------
(* Answers and requests *)

Garages == Ids \cup {HOST}

\* Requests on their way to the server.
Asking(c, o) == Count(toServer[c], Say("request", o))

\* Answers of o that c has had, that are coming, and requests still unheard.
Due(c, o) == answered[c][o] + Coming(c, o) + Asking(c, o)

\* Each id is held once.
OneEach == \A a, b \in Clients : id[a] = id[b] /\ id[a] # NoId => a = b

\* Those who wait at an owner have asked, too.
AllAsked == \A c \in Clients, o \in Garages : Due(c, o) <= asked[c][o]
WaitersAsked ==
    \A a, c \in Clients : id[a] # NoId =>
        Due(c, id[a]) + Count(visitors[a], c) <= asked[c][id[a]]

AskedInv == TypeOK /\ OneEach /\ AllAsked /\ WaitersAsked

Numbers ==
    \A c \in Clients, o \in Garages :
        /\ answered[c][o] \in Nat /\ Coming(c, o) \in Nat /\ Asking(c, o) \in Nat
        /\ Due(c, o) \in Nat /\ asked[c][o] \in Nat
        /\ \A a \in Clients : Count(visitors[a], c) \in Nat

LEMMA DueType == TypeOK => Numbers
<1>. SUFFICES ASSUME TypeOK, NEW c \in Clients, NEW o \in Garages
              PROVE  /\ answered[c][o] \in Nat /\ Coming(c, o) \in Nat /\ Asking(c, o) \in Nat
                     /\ Due(c, o) \in Nat /\ asked[c][o] \in Nat
                     /\ \A a \in Clients : Count(visitors[a], c) \in Nat
  BY DEF Numbers
<1>1. answered[c][o] \in Nat /\ asked[c][o] \in Nat
  BY DEF TypeOK, Garages
<1>2. Coming(c, o) \in Nat
  <2>. toClient[c] \in Seq(ClientEvents)
    BY DEF TypeOK
  <2>. QED  BY AtFinite DEF Coming
<1>3. Asking(c, o) \in Nat
  <2>. toServer[c] \in Seq(ServerEvents)
    BY DEF TypeOK
  <2>. QED  BY AtFinite DEF Asking
<1>4. \A a \in Clients : Count(visitors[a], c) \in Nat
  <2>. \A a \in Clients : visitors[a] \in Seq(Clients)
    BY DEF TypeOK
  <2>. QED  BY AtFinite
<1>. QED  BY <1>1, <1>2, <1>3, <1>4 DEF Due

LEMMA DueTypeNext == TypeOK' => Numbers'
BY DueType, PTL

LEMMA AskedInvImplies == AskedInv => AnswersAreAskedFor
<1>. SUFFICES ASSUME AskedInv, NEW c \in Clients, NEW o \in Garages
              PROVE  answered[c][o] + Coming(c, o) <= asked[c][o]
  BY DEF AnswersAreAskedFor, Garages
<1>1. Due(c, o) <= asked[c][o]
  BY DEF AskedInv, AllAsked
<1>. QED  BY <1>1, DueType DEF AskedInv, Numbers, Due

LEMMA InitAskedInv == Init => AskedInv
<1>. SUFFICES ASSUME Init PROVE AskedInv
  OBVIOUS
<1>1. OneEach
  BY VisitAssumption DEF Init, OneEach, Clients, NoId
<1>2. \A c \in Clients, o \in Garages : Due(c, o) = 0 /\ asked[c][o] = 0
  <2>. SUFFICES ASSUME NEW c \in Clients, NEW o \in Garages PROVE Due(c, o) = 0 /\ asked[c][o] = 0
    OBVIOUS
  <2>1. toClient[c] = <<>> /\ toServer[c] = <<>> /\ answered[c][o] = 0 /\ asked[c][o] = 0
    BY DEF Init, Garages
  <2>2. Coming(c, o) = 0 /\ Asking(c, o) = 0
    BY <2>1, CountEmpty DEF Coming, Asking
  <2>. QED  BY <2>1, <2>2 DEF Due
<1>3. \A a, c \in Clients : Count(visitors[a], c) = 0
  <2>. \A a \in Clients : visitors[a] = <<>>
    BY DEF Init
  <2>. QED  BY CountEmpty
<1>4. \A a \in Clients : id[a] # NoId => id[a] \in Garages
  BY InitTypeOK DEF TypeOK, Garages
<1>. QED  BY <1>1, <1>2, <1>3, <1>4, InitTypeOK DEF AskedInv, AllAsked, WaitersAsked

\* A step that leaves the entries and lists alone and asks for what it sends.
LEMMA Balanced ==
    ASSUME AskedInv, TypeOK', UNCHANGED <<id, visitors>>,
           \A c \in Clients, o \in Garages :
                \/ Due(c, o)' <= Due(c, o) /\ asked'[c][o] = asked[c][o]
                \/ Due(c, o)' = Due(c, o) + 1 /\ asked'[c][o] = asked[c][o] + 1
    PROVE  AskedInv'
<1>1. \A c \in Clients, o \in Garages :
            /\ Due(c, o) \in Nat /\ asked[c][o] \in Nat
            /\ \A a \in Clients : Count(visitors[a], c) \in Nat
  BY DueType DEF AskedInv, Numbers
<1>2. \A c \in Clients, o \in Garages : Due(c, o)' \in Nat /\ asked'[c][o] \in Nat
  BY DueTypeNext DEF Numbers
<1>3. AllAsked'
  <2>. SUFFICES ASSUME NEW c \in Clients, NEW o \in Garages PROVE Due(c, o)' <= asked'[c][o]
    BY DEF AllAsked, Garages
  <2>1. Due(c, o) <= asked[c][o]
    BY DEF AskedInv, AllAsked
  <2>. QED  BY <1>1, <1>2, <2>1
<1>4. WaitersAsked'
  <2>. SUFFICES ASSUME NEW a \in Clients, NEW c \in Clients, id'[a] # NoId, NEW o, o = id'[a]
                PROVE  Due(c, o)' + Count(visitors'[a], c) <= asked'[c][o]
    BY DEF WaitersAsked
  <2>1. /\ o \in Garages
        /\ Due(c, o) + Count(visitors[a], c) <= asked[c][o]
    BY DEF AskedInv, WaitersAsked, TypeOK, Garages
  <2>2. /\ Due(c, o) \in Nat /\ asked[c][o] \in Nat /\ Count(visitors[a], c) \in Nat
        /\ Due(c, o)' \in Nat /\ asked'[c][o] \in Nat
    BY <1>1, <1>2, <2>1
  <2>3. \/ Due(c, o)' <= Due(c, o) /\ asked'[c][o] = asked[c][o]
        \/ Due(c, o)' = Due(c, o) + 1 /\ asked'[c][o] = asked[c][o] + 1
    BY <2>1
  <2>. QED  BY <2>1, <2>2, <2>3
<1>5. OneEach'
  BY DEF AskedInv, OneEach
<1>. QED  BY <1>3, <1>4, <1>5 DEF AskedInv
\* Requests on their way when one is sent.
LEMMA AskingWhenSaid ==
    ASSUME TypeOK, NEW c \in Clients, NEW e \in ServerEvents,
           toServer' = [toServer EXCEPT ![c] = Append(@, e)],
           NEW d \in Clients, NEW o \in Garages
    PROVE  /\ d # c \/ e # Say("request", o) => Asking(d, o)' = Asking(d, o)
           /\ e = Say("request", o) => Asking(c, o)' = Asking(c, o) + 1
<1>. DEFINE v == Say("request", o)
<1>1. /\ d # c => toServer'[d] = toServer[d]
      /\ toServer'[c] = Append(toServer[c], e) /\ toServer[c] \in Seq(ServerEvents)
  BY DEF TypeOK
<1>2. /\ Asking(d, o)' = Count(toServer'[d], v) /\ Asking(d, o) = Count(toServer[d], v)
      /\ Asking(c, o)' = Count(toServer'[c], v) /\ Asking(c, o) = Count(toServer[c], v)
  BY DEF Asking
<1>3. Count(toServer[c], v) \in Nat
  BY <1>1, AtFinite
<1>. HIDE DEF v
<1>4. Count(toServer'[c], v) = Count(toServer[c], v) + IF e = v THEN 1 ELSE 0
  BY <1>1, CountAppend
<1>5. CASE e = v
  BY <1>1, <1>2, <1>3, <1>4, <1>5 DEF v
<1>6. CASE e # v
  <2>1. Count(toServer'[c], v) = Count(toServer[c], v)
    BY <1>3, <1>4, <1>6
  <2>. QED  BY <1>1, <1>2, <1>6, <2>1 DEF v
<1>. QED  BY <1>5, <1>6

\* Requests on their way when one event arrives.
LEMMA AskingWhenReceived ==
    ASSUME TypeOK, NEW c \in Clients, NEW n \in DOMAIN toServer[c],
           toServer' = [toServer EXCEPT ![c] = RemoveAt(@, n)],
           NEW d \in Clients, NEW o \in Garages
    PROVE  /\ d # c \/ toServer[c][n] # Say("request", o) => Asking(d, o)' = Asking(d, o)
           /\ toServer[c][n] = Say("request", o) => Asking(c, o)' = Asking(c, o) - 1
<1>. DEFINE v == Say("request", o)
            e == toServer[c][n]
<1>1. /\ d # c => toServer'[d] = toServer[d]
      /\ toServer'[c] = RemoveAt(toServer[c], n) /\ toServer[c] \in Seq(ServerEvents)
  BY DEF TypeOK
<1>2. /\ Asking(d, o)' = Count(toServer'[d], v) /\ Asking(d, o) = Count(toServer[d], v)
      /\ Asking(c, o)' = Count(toServer'[c], v) /\ Asking(c, o) = Count(toServer[c], v)
  BY DEF Asking
<1>3. Count(toServer[c], v) \in Nat
  BY <1>1, AtFinite
<1>. HIDE DEF v
<1>4. Count(toServer'[c], v) = Count(toServer[c], v) - IF e = v THEN 1 ELSE 0
  BY <1>1, CountRemove
<1>. HIDE DEF e
<1>5. CASE e = v
  BY <1>1, <1>2, <1>3, <1>4, <1>5 DEF v, e
<1>6. CASE e # v
  <2>1. Count(toServer'[c], v) = Count(toServer[c], v)
    BY <1>3, <1>4, <1>6
  <2>. QED  BY <1>1, <1>2, <1>6, <2>1 DEF v, e
<1>. QED  BY <1>5, <1>6

\* Answers on their way when an event is sent to a.
LEMMA ComingWhenSent ==
    ASSUME TypeOK, NEW a \in Clients, NEW kind \in {"request", "response"},
           NEW who \in Garages, Send(a, kind, who),
           NEW d \in Clients, NEW o \in Garages
    PROVE  /\ (d # a \/ kind = "request" \/ who # o) => Coming(d, o)' = Coming(d, o)
           /\ (kind = "response" /\ who = o) => Coming(a, o)' = Coming(a, o) + 1
<1>. DEFINE v == [kind |-> "response", who |-> o]
            e == [kind |-> kind, who |-> who]
<1>1. /\ d # a => toClient'[d] = toClient[d]
      /\ toClient'[a] = Append(toClient[a], e) /\ toClient[a] \in Seq(ClientEvents)
      /\ e \in ClientEvents
  BY SendType DEF TypeOK, ClientEvents, Garages
<1>2. /\ Coming(d, o)' = Count(toClient'[d], v) /\ Coming(d, o) = Count(toClient[d], v)
      /\ Coming(a, o)' = Count(toClient'[a], v) /\ Coming(a, o) = Count(toClient[a], v)
  BY DEF Coming
<1>3. Count(toClient[a], v) \in Nat
  BY <1>1, AtFinite
<1>4. e = v <=> kind = "response" /\ who = o
  OBVIOUS
<1>. HIDE DEF v, e
<1>5. Count(toClient'[a], v) = Count(toClient[a], v) + IF e = v THEN 1 ELSE 0
  BY <1>1, CountAppend
<1>6. CASE e = v
  BY <1>1, <1>2, <1>3, <1>4, <1>5, <1>6
<1>7. CASE e # v
  <2>1. Count(toClient'[a], v) = Count(toClient[a], v)
    BY <1>3, <1>5, <1>7
  <2>. QED  BY <1>1, <1>2, <1>4, <1>7, <2>1
<1>. QED  BY <1>6, <1>7

LEMMA AskAsked ==
    ASSUME AskedInv, TypeOK', NEW c \in Clients, NEW o \in Ids \cup {HOST}, Ask(c, o)
    PROVE  AskedInv'
<1>. TypeOK
  BY DEF AskedInv
<1>0. UNCHANGED <<id, visitors, answered, toClient>>
  BY DEF Ask, serverVars
<1>1. Say("request", o) \in ServerEvents /\ o \in Garages
  BY DEF Say, ServerEvents, Places, Garages
<1>2. toServer' = [toServer EXCEPT ![c] = Append(@, Say("request", o))]
  BY DEF Ask
<1>3. ASSUME NEW d \in Clients, NEW p \in Garages
      PROVE  \/ Due(d, p)' <= Due(d, p) /\ asked'[d][p] = asked[d][p]
             \/ Due(d, p)' = Due(d, p) + 1 /\ asked'[d][p] = asked[d][p] + 1
  <2>1. /\ answered[d][p] \in Nat /\ Coming(d, p) \in Nat /\ Asking(d, p) \in Nat
        /\ Due(d, p) = answered[d][p] + Coming(d, p) + Asking(d, p)
        /\ Due(d, p)' = answered[d][p] + Coming(d, p) + Asking(d, p)'
    BY <1>0, DueType DEF Numbers, Due, Coming
  <2>2. Say("request", o) = Say("request", p) <=> o = p
    BY DEF Say
  <2>3. CASE d = c /\ p = o
    <3>1. asked'[d][p] = asked[d][p] + 1
      BY <2>3 DEF Ask, TypeOK, Garages
    <3>2. Asking(d, p)' = Asking(d, p) + 1
      BY <1>1, <1>2, <2>3, AskingWhenSaid
    <3>. QED  BY <2>1, <3>1, <3>2
  <2>4. CASE ~(d = c /\ p = o)
    <3>1. asked'[d][p] = asked[d][p]
      BY <2>4 DEF Ask, TypeOK, Garages
    <3>2. Asking(d, p)' = Asking(d, p)
      BY <1>1, <1>2, <2>2, <2>4, AskingWhenSaid
    <3>. QED  BY <2>1, <3>1, <3>2
  <2>. QED  BY <2>3, <2>4
<1>. QED  BY <1>0, <1>3, Balanced

LEMMA ReturnAsked ==
    ASSUME AskedInv, TypeOK', NEW c \in Clients, Return(c)
    PROVE  AskedInv'
<1>. TypeOK
  BY DEF AskedInv
<1>0. UNCHANGED <<id, visitors, answered, toClient, asked>>
  BY DEF Return, serverVars
<1>1. Say("location", HUB) \in ServerEvents
  BY DEF Say, ServerEvents, Places
<1>2. toServer' = [toServer EXCEPT ![c] = Append(@, Say("location", HUB))]
  BY DEF Return
<1>3. ASSUME NEW d \in Clients, NEW p \in Garages
      PROVE  Due(d, p)' <= Due(d, p) /\ asked'[d][p] = asked[d][p]
  <2>1. Say("location", HUB) # Say("request", p)
    BY DEF Say
  <2>2. Asking(d, p)' = Asking(d, p)
    BY <1>1, <1>2, <2>1, AskingWhenSaid
  <2>3. Due(d, p)' = Due(d, p)
    BY <1>0, <2>2 DEF Due, Coming
  <2>. QED  BY <1>0, <2>3, DueType DEF Numbers
<1>. QED  BY <1>0, <1>3, Balanced

\* The answer a game takes is no longer on its way.
LEMMA HearAsked ==
    ASSUME AskedInv, TypeOK', NEW c \in Clients, Hear(c)
    PROVE  AskedInv'
<1>. TypeOK
  BY DEF AskedInv
<1>. DEFINE e == Head(toClient[c])
<1>0. UNCHANGED <<id, visitors, asked>>
  BY DEF Hear, serverVars
<1>1. /\ \A d \in Clients \ {c} : toClient'[d] = toClient[d]
      /\ toClient'[c] = Tail(toClient[c])
      /\ toClient[c] \in Seq(ClientEvents) /\ toClient[c] # <<>> /\ e \in ClientEvents
  BY DEF Hear, TypeOK
<1>2. \/ /\ e.kind = "request"
         /\ toServer' = [toServer EXCEPT ![c] = Append(@, Say("response", HUB))]
         /\ answered' = answered
      \/ /\ e.kind = "response" /\ toServer' = toServer
         /\ answered' = [answered EXCEPT ![c][e.who] = @ + 1]
  BY DEF Hear
<1>3. e = Head(toClient[c])
  OBVIOUS
<1>. HIDE DEF e
<1>4. ASSUME NEW d \in Clients, NEW p \in Garages
      PROVE  Due(d, p)' <= Due(d, p)
  <2>1. /\ answered[d][p] \in Nat /\ Coming(d, p) \in Nat /\ Asking(d, p) \in Nat
        /\ Due(d, p) = answered[d][p] + Coming(d, p) + Asking(d, p)
        /\ Due(d, p)' = answered'[d][p] + Coming(d, p)' + Asking(d, p)'
    BY DueType DEF Numbers, Due
  <2>. DEFINE v == [kind |-> "response", who |-> p]
  <2>2. /\ d # c => Coming(d, p)' = Coming(d, p)
        /\ Coming(c, p)' = Count(toClient'[c], v) /\ Coming(c, p) = Count(toClient[c], v)
    BY <1>1 DEF Coming
  <2>3. e = v <=> e.kind = "response" /\ e.who = p
    BY <1>1 DEF ClientEvents
  <2>4. Coming(c, p) \in Nat
    BY DueType DEF Numbers
  <2>. HIDE DEF v
  <2>5. Coming(c, p)' = Coming(c, p) - IF e = v THEN 1 ELSE 0
    BY <1>1, <1>3, <2>2, CountTail
  <2>6. Asking(d, p)' = Asking(d, p)
    <3>1. Say("response", HUB) # Say("request", p) /\ Say("response", HUB) \in ServerEvents
      BY DEF Say, ServerEvents, Places
    <3>2. CASE toServer' = [toServer EXCEPT ![c] = Append(@, Say("response", HUB))]
      BY <3>1, <3>2, AskingWhenSaid
    <3>3. CASE toServer' = toServer
      BY <3>3 DEF Asking
    <3>. QED  BY <1>2, <3>2, <3>3
  <2>7. CASE d = c /\ e = v
    <3>1. answered'[d][p] = answered[d][p] + 1
      <4>1. answered' = [answered EXCEPT ![c][p] = @ + 1]
        BY <1>2, <2>3, <2>7
      <4>2. answered \in [Clients -> [Garages -> Nat]]
        BY DEF TypeOK, Garages
      <4>. QED  BY <2>7, <4>1, <4>2
    <3>2. Coming(d, p)' = Coming(d, p) - 1
      BY <2>5, <2>7
    <3>. QED  BY <2>1, <2>6, <3>1, <3>2
  <2>8. CASE ~(d = c /\ e = v)
    <3>1. answered'[d][p] = answered[d][p]
      <4>1. answered \in [Clients -> [Garages -> Nat]]
        BY DEF TypeOK, Garages
      <4>2. CASE answered' = answered
        BY <4>2
      <4>3. CASE e.kind = "response" /\ answered' = [answered EXCEPT ![c][e.who] = @ + 1]
        BY <2>3, <2>8, <4>1, <4>3
      <4>. QED  BY <1>2, <4>2, <4>3
    <3>2. Coming(d, p)' = Coming(d, p)
      BY <2>2, <2>4, <2>5, <2>8
    <3>. QED  BY <2>1, <2>6, <3>1, <3>2
  <2>. QED  BY <2>7, <2>8
<1>. QED  BY <1>0, <1>4, Balanced

LEMMA QuitAsked ==
    ASSUME AskedInv, TypeOK', NEW c \in Clients, Quit(c)
    PROVE  AskedInv'
<1>1. UNCHANGED <<id, visitors, asked, answered, toClient, toServer>>
  BY DEF Quit, serverVars
<1>2. \A d \in Clients, p \in Garages : Due(d, p)' = Due(d, p) /\ Due(d, p) \in Nat
  BY <1>1, DueType DEF AskedInv, Numbers, Due, Coming, Asking
<1>. QED  BY <1>1, <1>2, Balanced

LEMMA RemoveClientAsked ==
    ASSUME AskedInv, TypeOK', NEW c \in Clients, RemoveClient(c)
    PROVE  AskedInv'
<1>. TypeOK
  BY DEF AskedInv
<1>1. /\ UNCHANGED <<asked, answered, toServer>> /\ id'[c] = NoId /\ toClient'[c] = <<>>
      /\ \A a \in Clients \ {c} : /\ id'[a] = id[a] /\ visitors'[a] = visitors[a]
                                  /\ toClient'[a] = toClient[a]
  BY DEF TypeOK, RemoveClient, gameVars
<1>2. ASSUME NEW d \in Clients, NEW p \in Garages PROVE Due(d, p)' <= Due(d, p)
  <2>1. /\ answered[d][p] \in Nat /\ Coming(d, p) \in Nat /\ Asking(d, p) \in Nat
        /\ Due(d, p) = answered[d][p] + Coming(d, p) + Asking(d, p)
        /\ Due(d, p)' = answered[d][p] + Coming(d, p)' + Asking(d, p)
    BY <1>1, DueType DEF Numbers, Due, Asking
  <2>2. CASE d = c
    <3>1. Coming(d, p)' = 0
      BY <1>1, <2>2, CountEmpty DEF Coming
    <3>. QED  BY <2>1, <3>1
  <2>3. CASE d # c
    <3>1. Coming(d, p)' = Coming(d, p)
      BY <1>1, <2>3 DEF Coming
    <3>. QED  BY <2>1, <3>1
  <2>. QED  BY <2>2, <2>3
<1>3. Numbers /\ Numbers'
  BY DueType, DueTypeNext
<1>4. AllAsked'
  <2>. SUFFICES ASSUME NEW d \in Clients, NEW p \in Garages PROVE Due(d, p)' <= asked'[d][p]
    BY DEF AllAsked, Garages
  <2>1. Due(d, p) <= asked[d][p]
    BY DEF AskedInv, AllAsked
  <2>2. Due(d, p)' <= Due(d, p) /\ asked'[d][p] = asked[d][p]
    BY <1>1, <1>2
  <2>3. Due(d, p)' \in Nat /\ Due(d, p) \in Nat /\ asked[d][p] \in Nat
    BY <1>3 DEF Numbers
  <2>. QED  BY <2>1, <2>2, <2>3
<1>5. WaitersAsked'
  <2>. SUFFICES ASSUME NEW a \in Clients, NEW d \in Clients, id'[a] # NoId, NEW o, o = id'[a]
                PROVE  Due(d, o)' + Count(visitors'[a], d) <= asked'[d][o]
    BY DEF WaitersAsked
  <2>0. a # c /\ o = id[a] /\ visitors'[a] = visitors[a]
    BY <1>1
  <2>1. a # c /\ o = id[a] /\ o \in Garages /\ visitors'[a] = visitors[a]
    BY <2>0 DEF TypeOK, Garages
  <2>2. Due(d, o) + Count(visitors[a], d) <= asked[d][o]
    BY <2>1 DEF AskedInv, WaitersAsked
  <2>3. Due(d, o)' <= Due(d, o)
    BY <1>2, <2>1
  <2>4. /\ Due(d, o)' \in Nat /\ Due(d, o) \in Nat /\ asked[d][o] \in Nat
        /\ Count(visitors[a], d) \in Nat
    BY <1>3, <2>1 DEF Numbers
  <2>. QED  BY <1>1, <2>1, <2>2, <2>3, <2>4
<1>6. OneEach'
  BY <1>1 DEF AskedInv, OneEach
<1>. QED  BY <1>4, <1>5, <1>6 DEF AskedInv
\* Nobody waits at an entry that is new, and its id is nobody else's.
LEMMA EntryKeeps ==
    ASSUME AskedInv, NEW c \in Clients, Entry(c)
    PROVE  /\ OneEach'
           /\ \A a, d \in Clients, o \in Ids : o = id'[a] =>
                    Due(d, o) + Count(visitors[a], d) <= asked[d][o]
<1>. TypeOK
  BY DEF AskedInv
<1>1. CASE id' = id
  <2>1. OneEach'
    BY <1>1 DEF AskedInv, OneEach
  <2>2. ASSUME NEW a \in Clients, NEW d \in Clients, NEW o \in Ids, o = id'[a]
        PROVE  Due(d, o) + Count(visitors[a], d) <= asked[d][o]
    BY <1>1, <2>2 DEF AskedInv, WaitersAsked, Ids, NoId
  <2>. QED  BY <2>1, <2>2
<1>2. CASE id[c] = NoId /\ id' = [id EXCEPT ![c] = nextId]
  <2>1. /\ id'[c] = nextId /\ \A a \in Clients \ {c} : id'[a] = id[a]
        /\ \A a \in Clients : id[a] \in Int /\ id[a] < nextId
        /\ nextId \in Int
    BY <1>2 DEF TypeOK, Ids, NoId
  <2>2. OneEach'
    <3>. SUFFICES ASSUME NEW a \in Clients, NEW b \in Clients, id'[a] = id'[b], id'[a] # NoId
                  PROVE  a = b
      BY DEF OneEach
    <3>. QED  BY <2>1 DEF AskedInv, OneEach
  <2>3. ASSUME NEW a \in Clients, NEW d \in Clients, NEW o \in Ids, o = id'[a]
        PROVE  Due(d, o) + Count(visitors[a], d) <= asked[d][o]
    <3>1. CASE a = c
      <4>1. Count(visitors[a], d) = 0
        <5>. visitors[a] = <<>>
          BY <1>2, <3>1 DEF TypeOK
        <5>. QED  BY CountEmpty
      <4>2. Due(d, o) <= asked[d][o] /\ Due(d, o) \in Nat
        BY DueType DEF AskedInv, AllAsked, Numbers, Garages
      <4>. QED  BY <4>1, <4>2
    <3>2. CASE a # c
      BY <2>1, <2>3, <3>2 DEF AskedInv, WaitersAsked, Ids, NoId
    <3>. QED  BY <3>1, <3>2
  <2>. QED  BY <2>2, <2>3
<1>. QED  BY <1>1, <1>2 DEF Entry, EntryOf

\* What the server may do: pass on what was asked for.
LEMMA ServerStep ==
    ASSUME AskedInv, TypeOK', NEW c \in Clients, Entry(c), asked' = asked,
           \A d \in Clients, o \in Garages : Due(d, o)' <= asked[d][o],
           \A a, d \in Clients, o \in Ids : o = id'[a] =>
                Due(d, o)' + Count(visitors'[a], d) <= Due(d, o) + Count(visitors[a], d)
    PROVE  AskedInv'
<1>1. AllAsked'
  BY DEF AllAsked, Garages
<1>2. WaitersAsked'
  <2>. SUFFICES ASSUME NEW a \in Clients, NEW d \in Clients, id'[a] # NoId, NEW o, o = id'[a]
                PROVE  Due(d, o)' + Count(visitors'[a], d) <= asked[d][o]
    BY DEF WaitersAsked
  <2>1. o \in Ids
    BY DEF TypeOK
  <2>2. /\ Due(d, o)' + Count(visitors'[a], d) <= Due(d, o) + Count(visitors[a], d)
        /\ Due(d, o) + Count(visitors[a], d) <= asked[d][o]
    BY <2>1, EntryKeeps
  <2>3. /\ Due(d, o) \in Nat /\ asked[d][o] \in Nat /\ Count(visitors[a], d) \in Nat
        /\ Due(d, o)' \in Nat /\ Count(visitors'[a], d) \in Nat
    BY <2>1, DueType, DueTypeNext DEF AskedInv, Numbers, Garages
  <2>. QED  BY <2>2, <2>3
<1>. QED  BY <1>1, <1>2, EntryKeeps DEF AskedInv

LEMMA JoinAsked ==
    ASSUME AskedInv, TypeOK', NEW c \in Clients, Join(c)
    PROVE  AskedInv'
<1>1. Entry(c) /\ UNCHANGED <<visitors, asked, answered, toClient, toServer>>
  BY DEF Join
<1>2. \A d \in Clients, o \in Garages :
            /\ Due(d, o)' = Due(d, o) /\ Due(d, o) \in Nat
            /\ Due(d, o) <= asked[d][o]
            /\ \A a \in Clients : Count(visitors[a], d) \in Nat
  BY <1>1, DueType DEF AskedInv, AllAsked, Numbers, Due, Coming, Asking
<1>3. \A d \in Clients, o \in Garages : Due(d, o)' <= asked[d][o]
  BY <1>2
<1>4. ASSUME NEW a \in Clients, NEW d \in Clients, NEW o \in Ids
      PROVE  Due(d, o)' + Count(visitors'[a], d) <= Due(d, o) + Count(visitors[a], d)
  BY <1>1, <1>2 DEF Garages
<1>. QED  BY <1>1, <1>3, <1>4, ServerStep

\* The host's answer, or the visitor's place in the owner's list, for a request.
LEMMA RequestAsked ==
    ASSUME AskedInv, TypeOK', NEW c \in Clients, Entry(c), UNCHANGED gameVars,
           NEW o \in Places, RequestVisitGarage(c, o),
           \A d \in Clients, p \in Garages :
                /\ (d # c \/ p # o) => Asking(d, p)' = Asking(d, p)
                /\ p = o => Asking(c, p)' = Asking(c, p) - 1
    PROVE  AskedInv'
<1>. TypeOK
  BY DEF AskedInv
<1>0. asked' = asked /\ answered' = answered
  BY DEF gameVars
<1>1. \A d \in Clients, p \in Garages :
            /\ answered[d][p] \in Nat /\ Coming(d, p) \in Nat /\ Asking(d, p) \in Nat
            /\ Asking(d, p)' \in Nat /\ Due(d, p) \in Nat /\ Due(d, p)' \in Nat
            /\ asked[d][p] \in Nat
            /\ Due(d, p) = answered[d][p] + Coming(d, p) + Asking(d, p)
            /\ Due(d, p)' = answered[d][p] + Coming(d, p)' + Asking(d, p)'
            /\ Due(d, p) <= asked[d][p]
            /\ \A a \in Clients : Count(visitors[a], d) \in Nat
  BY <1>0, DueType, DueTypeNext DEF Numbers, Due, AskedInv, AllAsked
<1>2. CASE o = HOST /\ Send(c, "response", HOST) /\ UNCHANGED visitors
  <2>1. ASSUME NEW d \in Clients, NEW p \in Garages PROVE Due(d, p)' = Due(d, p)
    <3>0. HOST \in Garages
      BY DEF Garages
    <3>1. CASE d = c /\ p = HOST
      <4>1. Coming(d, p)' = Coming(d, p) + 1
        BY <1>2, <3>0, <3>1, ComingWhenSent
      <4>. QED  BY <1>1, <1>2, <3>1, <4>1
    <3>2. CASE ~(d = c /\ p = HOST)
      <4>1. Coming(d, p)' = Coming(d, p)
        BY <1>2, <3>0, <3>2, ComingWhenSent
      <4>. QED  BY <1>1, <1>2, <3>2, <4>1
    <3>. QED  BY <3>1, <3>2
  <2>2. \A d \in Clients, p \in Garages : Due(d, p)' <= asked[d][p]
    BY <1>1, <2>1
  <2>3. ASSUME NEW a \in Clients, NEW d \in Clients, NEW p \in Ids
        PROVE  Due(d, p)' + Count(visitors'[a], d) <= Due(d, p) + Count(visitors[a], d)
    BY <1>1, <1>2, <2>1 DEF Garages
  <2>. QED  BY <1>0, <2>2, <2>3, ServerStep
<1>3. ASSUME NEW owner \in Clients, EntryOf(c)[owner] = o, visitors' = Note(owner, c),
             Send(owner, "request", EntryOf(c)[c])
      PROVE  AskedInv'
  <2>0. EntryOf(c)[c] \in Garages /\ id' = EntryOf(c)
    BY EntryType DEF Garages
  <2>1. \A d \in Clients, p \in Garages : Coming(d, p)' = Coming(d, p)
    BY <1>3, <2>0, ComingWhenSent
  <2>2. \A d \in Clients, p \in Garages : Due(d, p)' <= Due(d, p)
    BY <1>1, <2>1
  <2>3. \A d \in Clients, p \in Garages : Due(d, p)' <= asked[d][p]
    BY <1>1, <2>2
  <2>4. ASSUME NEW a \in Clients, NEW d \in Clients, NEW p \in Ids, p = id'[a]
        PROVE  Due(d, p)' + Count(visitors'[a], d) <= Due(d, p) + Count(visitors[a], d)
    <3>0. p \in Garages
      BY DEF Garages
    <3>1. CASE a = owner
      <4>1. visitors'[a] = Append(visitors[a], c) /\ visitors[a] \in Seq(Clients)
        BY <1>3, <3>1 DEF Note, TypeOK
      <4>2. Count(visitors'[a], d) = Count(visitors[a], d) + IF c = d THEN 1 ELSE 0
        BY <4>1, CountAppend
      <4>3. p = o
        BY <1>3, <2>0, <2>4, <3>1
      <4>4. CASE c = d
        <5>1. Due(d, p)' = Due(d, p) - 1
          BY <1>1, <2>1, <3>0, <4>3, <4>4
        <5>2. Count(visitors'[a], d) = Count(visitors[a], d) + 1
          BY <4>2, <4>4
        <5>. QED  BY <1>1, <3>0, <5>1, <5>2
      <4>5. CASE c # d
        <5>1. Count(visitors'[a], d) = Count(visitors[a], d)
          BY <1>1, <3>0, <4>2, <4>5
        <5>. QED  BY <1>1, <2>2, <3>0, <5>1
      <4>. QED  BY <4>4, <4>5
    <3>2. CASE a # owner
      <4>1. visitors'[a] = visitors[a]
        BY <1>3, <3>2 DEF Note, TypeOK
      <4>. QED  BY <1>1, <2>2, <3>0, <4>1
    <3>. QED  BY <3>1, <3>2
  <2>. QED  BY <1>0, <2>3, <2>4, ServerStep
<1>4. CASE UNCHANGED <<visitors, toClient, told>>
  <2>1. \A d \in Clients, p \in Garages : Coming(d, p)' = Coming(d, p)
    BY <1>4 DEF Coming
  <2>2. \A d \in Clients, p \in Garages : Due(d, p)' <= Due(d, p)
    BY <1>1, <2>1
  <2>3. \A d \in Clients, p \in Garages : Due(d, p)' <= asked[d][p]
    BY <1>1, <2>2
  <2>4. ASSUME NEW a \in Clients, NEW d \in Clients, NEW p \in Ids
        PROVE  Due(d, p)' + Count(visitors'[a], d) <= Due(d, p) + Count(visitors[a], d)
    BY <1>1, <1>4, <2>2 DEF Garages
  <2>. QED  BY <1>0, <2>3, <2>4, ServerStep
<1>. QED  BY <1>2, <1>3, <1>4 DEF RequestVisitGarage

\* The answers that go out for one of the owner are those it was asked for.
LEMMA ResponseAsked ==
    ASSUME AskedInv, TypeOK', NEW c \in Clients, Entry(c), UNCHANGED gameVars,
           VisitGarageResponse(c),
           \A d \in Clients, p \in Garages : Asking(d, p)' = Asking(d, p)
    PROVE  AskedInv'
<1>. TypeOK
  BY DEF AskedInv
<1>0. asked' = asked /\ answered' = answered
  BY DEF gameVars
<1>1. \A d \in Clients, p \in Garages :
            /\ answered[d][p] \in Nat /\ Coming(d, p) \in Nat /\ Asking(d, p) \in Nat
            /\ Due(d, p) \in Nat /\ Due(d, p)' \in Nat /\ asked[d][p] \in Nat
            /\ Due(d, p) = answered[d][p] + Coming(d, p) + Asking(d, p)
            /\ Due(d, p)' = answered[d][p] + Coming(d, p)' + Asking(d, p)
            /\ Due(d, p) <= asked[d][p]
            /\ \A a \in Clients : Count(visitors[a], d) \in Nat
  BY <1>0, DueType, DueTypeNext DEF Numbers, Due, AskedInv, AllAsked
<1>. DEFINE me == EntryOf(c)[c]
<1>2. me \in Ids /\ me \in Garages /\ me = id'[c] /\ id'[c] # NoId /\ id' = EntryOf(c)
  BY EntryType DEF Garages
<1>3. visitors'[c] = <<>> /\ \A a \in Clients \ {c} : visitors'[a] = visitors[a]
  BY DEF VisitGarageResponse, Cleared, TypeOK
<1>4. ASSUME NEW d \in Clients, NEW p \in Garages
      PROVE  /\ p # me => Coming(d, p)' = Coming(d, p)
             /\ p = me => Coming(d, p)' <= Coming(d, p) + Count(visitors[c], d)
  <2>. DEFINE k == Count(visitors[c], d)
              m == [kind |-> "response", who |-> me]
              v == [kind |-> "response", who |-> p]
  <2>1. CASE EntryOf(c)[d] = NoId
    <3>1. toClient'[d] = toClient[d]
      BY <2>1 DEF VisitGarageResponse
    <3>. QED  BY <1>1, <3>1 DEF Coming
  <2>2. CASE EntryOf(c)[d] # NoId
    <3>1. toClient'[d] = toClient[d] \o [n \in 1 .. k |-> m]
      BY <2>2 DEF VisitGarageResponse, Served
    <3>2. toClient[d] \in Seq(ClientEvents) /\ m \in ClientEvents /\ k \in Nat
      BY <1>1, <1>2 DEF TypeOK, ClientEvents
    <3>3. (m = v <=> p = me) /\ Coming(d, p)' = Count(toClient'[d], v)
          /\ Coming(d, p) = Count(toClient[d], v) /\ Coming(d, p) \in Nat
      BY <1>1 DEF Coming
    <3>. HIDE DEF k, m, v, me
    <3>4. Coming(d, p)' = Coming(d, p) + IF m = v THEN k ELSE 0
      <4>. DEFINE s == toClient[d]
                  t == s \o [n \in 1 .. k |-> m]
      <4>1. s \in Seq(ClientEvents) /\ Coming(d, p) = Count(s, v) /\ Coming(d, p)' = Count(t, v)
        BY <3>1, <3>2, <3>3
      <4>. HIDE DEF s
      <4>2. Count(t, v) = Count(s, v) + IF m = v THEN k ELSE 0
        BY <3>2, <4>1, CountCopies
      <4>. QED  BY <4>1, <4>2
    <3>5. CASE p = me
      <4>1. Coming(d, p)' = Coming(d, p) + k
        BY <3>3, <3>4, <3>5
      <4>. QED  BY <3>2, <3>3, <3>5, <4>1 DEF k
    <3>6. CASE p # me
      <4>1. Coming(d, p)' = Coming(d, p)
        BY <3>3, <3>4, <3>6
      <4>. QED  BY <3>6, <4>1
    <3>. QED  BY <3>5, <3>6
  <2>. QED  BY <2>1, <2>2
<1>5. ASSUME NEW d \in Clients, NEW p \in Garages
      PROVE  /\ p # me => Due(d, p)' = Due(d, p)
             /\ p = me => Due(d, p)' <= Due(d, p) + Count(visitors[c], d)
  <2>1. Coming(d, p)' \in Nat
    BY DueTypeNext DEF Numbers
  <2>. HIDE DEF me
  <2>. QED  BY <1>1, <1>4, <2>1
<1>6. ASSUME NEW d \in Clients, NEW p \in Garages PROVE Due(d, p)' <= asked[d][p]
  <2>1. CASE p = me
    <3>1. Due(d, p) + Count(visitors[c], d) <= asked[d][p]
      BY <1>2, <2>1, EntryKeeps
    <3>2. Due(d, p)' <= Due(d, p) + Count(visitors[c], d)
      BY <1>5, <2>1
    <3>3. Due(d, p) \in Nat /\ Due(d, p)' \in Nat /\ asked[d][p] \in Nat /\ Count(visitors[c], d) \in Nat
      BY <1>1
    <3>. QED  BY <3>1, <3>2, <3>3
  <2>2. CASE p # me
    BY <1>1, <1>5, <2>2
  <2>. QED  BY <2>1, <2>2
<1>7. ASSUME NEW a \in Clients, NEW d \in Clients, NEW p \in Ids, p = id'[a]
      PROVE  Due(d, p)' + Count(visitors'[a], d) <= Due(d, p) + Count(visitors[a], d)
  <2>0. p \in Garages /\ Due(d, p) \in Nat /\ Due(d, p)' \in Nat /\ Count(visitors[a], d) \in Nat
    BY <1>1 DEF Garages
  <2>1. CASE a = c
    <3>1. Count(visitors'[a], d) = 0
      BY <1>3, <2>1, CountEmpty
    <3>2. Due(d, p)' <= Due(d, p) + Count(visitors[a], d)
      BY <1>2, <1>5, <1>7, <2>0, <2>1
    <3>. QED  BY <2>0, <3>1, <3>2
  <2>2. CASE a # c
    <3>1. p # me
      <4>. OneEach'
        BY EntryKeeps
      <4>. QED  BY <1>2, <1>7, <2>2 DEF OneEach
    <3>2. Due(d, p)' = Due(d, p)
      BY <1>5, <2>0, <3>1
    <3>. QED  BY <1>3, <2>0, <2>2, <3>2
  <2>. QED  BY <2>1, <2>2
<1>. HIDE DEF me
<1>. QED  BY <1>0, <1>6, <1>7, ServerStep

LEMMA ReceiveAsked ==
    ASSUME AskedInv, TypeOK', NEW c \in Clients, Receive(c)
    PROVE  AskedInv'
<1>. TypeOK
  BY DEF AskedInv
<1>0. Entry(c) /\ UNCHANGED gameVars
  BY ReceiveCases
<1>1. PICK n \in DOMAIN toServer[c] :
                /\ toServer' = [toServer EXCEPT ![c] = RemoveAt(@, n)]
                /\ toServer[c][n] \in ServerEvents
                /\ overtaken' = IF n > 1 THEN overtaken \cup {c} ELSE overtaken
                /\ \/ toServer[c][n].kind = "request" /\ RequestVisitGarage(c, toServer[c][n].where)
                   \/ toServer[c][n].kind = "response" /\ VisitGarageResponse(c)
                   \/ toServer[c][n].kind = "location" /\ Tagged(c, toServer[c][n])
  BY ReceiveCases
<1>. DEFINE e == toServer[c][n]
<1>2. \A d \in Clients, p \in Garages :
            /\ d # c \/ e # Say("request", p) => Asking(d, p)' = Asking(d, p)
            /\ e = Say("request", p) => Asking(c, p)' = Asking(c, p) - 1
  BY <1>1, AskingWhenReceived
<1>3. \A p \in Garages : e = Say("request", p) <=> e.kind = "request" /\ e.where = p
  BY <1>1 DEF ServerEvents, Say
<1>4. e.where \in Places
  BY <1>1 DEF ServerEvents
<1>5. /\ \/ e.kind = "request" /\ RequestVisitGarage(c, e.where)
         \/ e.kind = "response" /\ VisitGarageResponse(c)
         \/ e.kind = "location" /\ Tagged(c, e)
  BY <1>1
<1>. HIDE DEF e
<1>6. CASE e.kind = "request" /\ RequestVisitGarage(c, e.where)
  <2>. DEFINE o == e.where
  <2>1. \A d \in Clients, p \in Garages :
            /\ (d # c \/ p # o) => Asking(d, p)' = Asking(d, p)
            /\ p = o => Asking(c, p)' = Asking(c, p) - 1
    BY <1>2, <1>3, <1>6
  <2>2. o \in Places /\ RequestVisitGarage(c, o)
    BY <1>4, <1>6
  <2>. HIDE DEF o
  <2>. QED  BY <1>0, <2>1, <2>2, RequestAsked
<1>7. CASE e.kind = "response" /\ VisitGarageResponse(c)
  <2>1. \A d \in Clients, p \in Garages : Asking(d, p)' = Asking(d, p)
    BY <1>2, <1>3, <1>7
  <2>. QED  BY <1>0, <1>7, <2>1, ResponseAsked
<1>8. CASE e.kind = "location" /\ Tagged(c, e)
  <2>1. UNCHANGED <<visitors, toClient>>
    BY <1>8 DEF Tagged
  <2>2. \A d \in Clients, p \in Garages : Asking(d, p)' = Asking(d, p)
    BY <1>2, <1>3, <1>8
  <2>3. \A d \in Clients, p \in Garages : Due(d, p)' = Due(d, p)
    BY <1>0, <2>1, <2>2 DEF Due, Coming, gameVars
  <2>4. \A d \in Clients, p \in Garages :
            /\ Due(d, p) \in Nat /\ Due(d, p) <= asked[d][p]
            /\ \A a \in Clients : Count(visitors[a], d) \in Nat
    BY DueType DEF AskedInv, AllAsked, Numbers
  <2>5. \A d \in Clients, p \in Garages : Due(d, p)' <= asked[d][p]
    BY <2>3, <2>4
  <2>6. ASSUME NEW a \in Clients, NEW d \in Clients, NEW p \in Ids
        PROVE  Due(d, p)' + Count(visitors'[a], d) <= Due(d, p) + Count(visitors[a], d)
    BY <2>1, <2>3, <2>4 DEF Garages
  <2>. QED  BY <1>0, <2>5, <2>6, ServerStep DEF gameVars
<1>. QED  BY <1>5, <1>6, <1>7, <1>8

LEMMA NextAskedInv == AskedInv /\ [Next]_vars => AskedInv'
<1>. SUFFICES ASSUME AskedInv, [Next]_vars PROVE AskedInv'
  OBVIOUS
<1>0. TypeOK'
  BY NextTypeOK DEF AskedInv
<1>1. CASE UNCHANGED vars
  <2>1. UNCHANGED <<id, visitors, asked, answered, toClient, toServer>>
    BY <1>1 DEF vars, serverVars, gameVars
  <2>2. \A d \in Clients, p \in Garages : Due(d, p)' = Due(d, p) /\ Due(d, p) \in Nat
    BY <2>1, DueType DEF AskedInv, Numbers, Due, Coming, Asking
  <2>. QED  BY <1>0, <2>1, <2>2, Balanced
<1>2. ASSUME NEW c \in Clients,
             \/ Join(c) \/ \E o \in Ids \cup {HOST} : Ask(c, o)
             \/ Return(c) \/ Hear(c) \/ Quit(c)
             \/ Receive(c) \/ RemoveClient(c)
      PROVE AskedInv'
  BY <1>0, <1>2, JoinAsked, AskAsked, ReturnAsked, HearAsked, QuitAsked, ReceiveAsked, RemoveClientAsked
<1>. QED  BY <1>1, <1>2 DEF Next

\* RequestVisitGarage and VisitGarageResponse: however requests and answers
\* cross, nobody is put into a garage more often than it has asked for it.
THEOREM NoAnswerUnasked == Spec => []AnswersAreAskedFor
<1>1. Init => AskedInv
  BY InitAskedInv
<1>2. AskedInv /\ [Next]_vars => AskedInv'
  BY NextAskedInv
<1>3. AskedInv => AnswersAreAskedFor
  BY AskedInvImplies
<1>. QED  BY <1>1, <1>2, <1>3, PTL DEF Spec
-----------------------------------------------------------------------------
(* Where everyone is *)

\* Requests and returns are the moves of a player; in a queue they take turns,
\* and the last one is where the player is.
Move(e) == e.kind # "response"
Still(q) == \A k \in DOMAIN q : ~Move(q[k])
First(q, i) == i \in DOMAIN q /\ Move(q[i]) /\ \A k \in DOMAIN q : k < i => ~Move(q[k])
Final(q, i) == i \in DOMAIN q /\ Move(q[i]) /\ \A k \in DOMAIN q : i < k => ~Move(q[k])
Neighbours(q, i, j) ==
    /\ i \in DOMAIN q /\ j \in DOMAIN q /\ i < j /\ Move(q[i]) /\ Move(q[j])
    /\ \A k \in DOMAIN q : (i < k /\ k < j) => ~Move(q[k])
TakesTurns(q) == \A i, j : Neighbours(q, i, j) => q[i].kind # q[j].kind
EndsAt(q, p) == \A i : Final(q, i) => p = q[i].where

\* t is q with e behind it, and q without its first.
Appended(q, e, t) == q \in Seq(ServerEvents) /\ e \in ServerEvents /\ t = Append(q, e)
Taken(q, t) == q \in Seq(ServerEvents) /\ 1 \in DOMAIN q /\ t = RemoveAt(q, 1)

LEMMA AnswerAppended ==
    ASSUME NEW q, NEW e, NEW t, NEW p, Appended(q, e, t), ~Move(e)
    PROVE  /\ Still(t) => Still(q)
           /\ \A i : First(t, i) => First(q, i) /\ t[i] = q[i]
           /\ TakesTurns(q) => TakesTurns(t)
           /\ EndsAt(q, p) => EndsAt(t, p)
<1>0. q \in Seq(ServerEvents) /\ e \in ServerEvents /\ t = Append(q, e)
  BY DEF Appended
<1>1. /\ DOMAIN t = 1 .. Len(q) + 1 /\ DOMAIN q = 1 .. Len(q) /\ Len(q) \in Nat
      /\ \A n \in 1 .. Len(q) : t[n] = q[n]
      /\ t[Len(q) + 1] = e
  BY <1>0, AppendElements
<1>2. \A i \in DOMAIN t : Move(t[i]) => i \in DOMAIN q
  BY <1>1
<1>3. \A i \in DOMAIN q : i \in DOMAIN t /\ t[i] = q[i]
  BY <1>1
<1>. HIDE DEF Move
<1>4. Still(t) => Still(q)
  BY <1>3 DEF Still
<1>5. \A i : First(t, i) => First(q, i) /\ t[i] = q[i]
  BY <1>2, <1>3 DEF First
<1>6. TakesTurns(q) => TakesTurns(t)
  <2>. \A i, j : Neighbours(t, i, j) => Neighbours(q, i, j) /\ t[i] = q[i] /\ t[j] = q[j]
    BY <1>2, <1>3 DEF Neighbours
  <2>. QED  BY DEF TakesTurns
<1>7. EndsAt(q, p) => EndsAt(t, p)
  <2>. \A i : Final(t, i) => Final(q, i) /\ t[i] = q[i]
    BY <1>2, <1>3 DEF Final
  <2>. QED  BY DEF EndsAt
<1>. QED  BY <1>4, <1>5, <1>6, <1>7

LEMMA MoveAppended ==
    ASSUME NEW q, NEW e, NEW t, NEW p, Appended(q, e, t), Move(e),
           TakesTurns(q), EndsAt(q, p),
           \A i \in DOMAIN q : (Move(q[i]) /\ q[i].where = p) => q[i].kind # e.kind
    PROVE  /\ ~Still(t)
           /\ \A i : First(t, i) => \/ First(q, i) /\ t[i] = q[i]
                                    \/ Still(q) /\ t[i] = e
           /\ TakesTurns(t)
           /\ EndsAt(t, e.where)
<1>0. q \in Seq(ServerEvents) /\ e \in ServerEvents /\ t = Append(q, e)
  BY DEF Appended
<1>1. /\ DOMAIN t = 1 .. Len(q) + 1 /\ DOMAIN q = 1 .. Len(q) /\ Len(q) \in Nat
      /\ \A n \in 1 .. Len(q) : t[n] = q[n]
      /\ t[Len(q) + 1] = e
  BY <1>0, AppendElements
<1>2. \A i \in DOMAIN t : i \in DOMAIN q \/ (i = Len(q) + 1 /\ t[i] = e)
  BY <1>1
<1>3. \A i \in DOMAIN q : i \in DOMAIN t /\ t[i] = q[i] /\ i < Len(q) + 1
  BY <1>1
<1>4. Len(q) + 1 \in DOMAIN t /\ Len(q) + 1 \notin DOMAIN q /\ ~(Len(q) + 1 < Len(q) + 1)
  BY <1>1
<1>. HIDE DEF Move
<1>5. ~Still(t)
  BY <1>1, <1>4 DEF Still
<1>6. ASSUME NEW i, First(t, i)
      PROVE  (First(q, i) /\ t[i] = q[i]) \/ (Still(q) /\ t[i] = e)
  <2>1. CASE i \in DOMAIN q
    BY <1>3, <1>6, <2>1 DEF First
  <2>2. CASE i = Len(q) + 1
    BY <1>1, <1>3, <1>6, <2>2 DEF First, Still
  <2>. QED  BY <1>2, <1>6, <2>1, <2>2 DEF First
<1>7. ASSUME NEW i, NEW j, Neighbours(t, i, j) PROVE t[i].kind # t[j].kind
  <2>0. i \in DOMAIN t /\ j \in DOMAIN t /\ i < j
    BY <1>7 DEF Neighbours
  <2>1. i \in DOMAIN q
    BY <1>1, <2>0
  <2>2. CASE j \in DOMAIN q
    <3>. Neighbours(q, i, j) /\ t[i] = q[i] /\ t[j] = q[j]
      BY <1>3, <1>7, <2>1, <2>2 DEF Neighbours
    <3>. QED  BY DEF TakesTurns
  <2>3. CASE j = Len(q) + 1
    <3>1. Final(q, i) /\ t[i] = q[i] /\ t[j] = e
      BY <1>1, <1>3, <1>7, <2>1, <2>3 DEF Neighbours, Final
    <3>2. Move(q[i]) /\ q[i].where = p
      BY <3>1 DEF EndsAt, Final
    <3>. QED  BY <2>1, <3>1, <3>2
  <2>. QED  BY <1>2, <2>0, <2>2, <2>3
<1>8. ASSUME NEW i, Final(t, i) PROVE e.where = t[i].where
  <2>1. i \notin DOMAIN q
    BY <1>1, <1>3, <1>4, <1>8 DEF Final
  <2>. QED  BY <1>2, <1>8, <2>1 DEF Final
<1>9. TakesTurns(t)
  BY <1>7 DEF TakesTurns
<1>10. EndsAt(t, e.where)
  BY <1>8 DEF EndsAt
<1>. QED  BY <1>5, <1>6, <1>9, <1>10

\* The first event of a queue is taken.
LEMMA FirstTaken ==
    ASSUME NEW q, NEW t, NEW p, Taken(q, t)
    PROVE  /\ TakesTurns(q) => TakesTurns(t)
           /\ EndsAt(q, p) => EndsAt(t, p)
           /\ ~Move(q[1]) => /\ Still(t) => Still(q)
                             /\ \A i : First(t, i) => First(q, i + 1) /\ t[i] = q[i + 1]
           /\ Move(q[1]) => /\ First(q, 1)
                            /\ Still(t) => Final(q, 1)
                            /\ \A i : First(t, i) => Neighbours(q, 1, i + 1) /\ t[i] = q[i + 1]
<1>. q \in Seq(ServerEvents) /\ 1 \in DOMAIN q /\ t = RemoveAt(q, 1)
  BY DEF Taken
<1>0. DOMAIN q = 1 .. Len(q) /\ Len(q) \in Nat /\ Len(q) >= 1
  OBVIOUS
<1>1. /\ DOMAIN t = 1 .. Len(q) - 1
      /\ \A k \in 1 .. Len(q) - 1 : t[k] = q[IF k < 1 THEN k ELSE k + 1]
  BY RemoveElements
<1>2. \A k \in DOMAIN t : k \in Int /\ k >= 1 /\ k + 1 \in DOMAIN q /\ t[k] = q[k + 1]
  BY <1>0, <1>1
<1>3. \A k \in DOMAIN q : k \in Int /\ (k = 1 \/ (k - 1 \in DOMAIN t /\ t[k - 1] = q[k] /\ (k - 1) + 1 = k))
  BY <1>0, <1>1
<1>. HIDE DEF Move
<1>4. TakesTurns(q) => TakesTurns(t)
  <2>. SUFFICES ASSUME NEW i, NEW j, Neighbours(t, i, j)
                PROVE  Neighbours(q, i + 1, j + 1) /\ t[i] = q[i + 1] /\ t[j] = q[j + 1]
    BY DEF TakesTurns
  <2>1. /\ i \in DOMAIN t /\ j \in DOMAIN t /\ i < j /\ i \in Int /\ j \in Int
        /\ i + 1 \in DOMAIN q /\ j + 1 \in DOMAIN q /\ t[i] = q[i + 1] /\ t[j] = q[j + 1]
        /\ i >= 1 /\ Move(t[i]) /\ Move(t[j])
    BY <1>2 DEF Neighbours
  <2>2. ASSUME NEW k \in DOMAIN q, i + 1 < k, k < j + 1 PROVE ~Move(q[k])
    <3>1. k \in Int /\ k - 1 \in DOMAIN t /\ t[k - 1] = q[k] /\ i < k - 1 /\ k - 1 < j
      BY <1>3, <2>1, <2>2
    <3>. QED  BY <3>1 DEF Neighbours
  <2>. QED  BY <2>1, <2>2 DEF Neighbours
<1>5. EndsAt(q, p) => EndsAt(t, p)
  <2>. SUFFICES ASSUME NEW i, Final(t, i) PROVE Final(q, i + 1) /\ t[i] = q[i + 1]
    BY DEF EndsAt
  <2>1. i \in DOMAIN t /\ i \in Int /\ i + 1 \in DOMAIN q /\ t[i] = q[i + 1] /\ i >= 1 /\ Move(t[i])
    BY <1>2 DEF Final
  <2>2. ASSUME NEW k \in DOMAIN q, i + 1 < k PROVE ~Move(q[k])
    <3>1. k \in Int /\ k - 1 \in DOMAIN t /\ t[k - 1] = q[k] /\ i < k - 1
      BY <1>3, <2>1, <2>2
    <3>. QED  BY <3>1 DEF Final
  <2>. QED  BY <2>1, <2>2 DEF Final
<1>6. ASSUME ~Move(q[1]) PROVE Still(t) => Still(q)
  BY <1>3, <1>6 DEF Still
<1>7. ASSUME NEW i, First(t, i)
      PROVE  /\ i + 1 \in DOMAIN q /\ t[i] = q[i + 1] /\ Move(q[i + 1]) /\ 1 < i + 1
             /\ \A k \in DOMAIN q : (1 < k /\ k < i + 1) => ~Move(q[k])
  <2>1. i \in DOMAIN t /\ i \in Int /\ i + 1 \in DOMAIN q /\ t[i] = q[i + 1] /\ i >= 1 /\ Move(t[i])
    BY <1>2, <1>7 DEF First
  <2>2. ASSUME NEW k \in DOMAIN q, 1 < k, k < i + 1 PROVE ~Move(q[k])
    <3>1. k \in Int /\ k - 1 \in DOMAIN t /\ t[k - 1] = q[k] /\ k - 1 < i
      BY <1>3, <2>1, <2>2
    <3>. QED  BY <1>7, <3>1 DEF First
  <2>. QED  BY <2>1, <2>2
<1>8. ASSUME ~Move(q[1]), NEW i, First(t, i) PROVE First(q, i + 1) /\ t[i] = q[i + 1]
  <2>. \A k \in DOMAIN q : k = 1 \/ 1 < k
    BY <1>0
  <2>. QED  BY <1>7, <1>8 DEF First
<1>9. ASSUME Move(q[1])
      PROVE  First(q, 1) /\ (Still(t) => Final(q, 1))
  <2>1. \A k \in DOMAIN q : ~(k < 1)
    BY <1>0
  <2>2. Still(t) => \A k \in DOMAIN q : 1 < k => ~Move(q[k])
    BY <1>3 DEF Still
  <2>. QED  BY <1>9, <2>1, <2>2 DEF First, Final
<1>10. ASSUME Move(q[1]), NEW i, First(t, i) PROVE Neighbours(q, 1, i + 1) /\ t[i] = q[i + 1]
  BY <1>7, <1>10 DEF Neighbours
<1>. QED  BY <1>4, <1>5, <1>6, <1>8, <1>9, <1>10
\* Ids do not come back, so a garage whose owner has left stays empty.
PlacesKnown ==
    \A v \in Clients :
        /\ place[v] = HUB \/ place[v] \in 0 .. nextId - 1
        /\ stage[v] = "new" => place[v] = HUB
        /\ \A e \in ToSet(toServer[v]) :
              /\ e.kind = "request" => e.where \in 0 .. nextId - 1
              /\ e.kind = "location" => e.where = HUB

\* Only members are told where another is, and of nobody to come.
ToldMembers ==
    \A c \in Clients, i \in Ids : (c \notin lobby \/ i >= nextId) => told[c][i] = NotTold

Ordered(v) == TakesTurns(toServer[v]) /\ EndsAt(toServer[v], place[v])

\* With no move to come c sees v where it is; with a request next, in the hub.
InHub(q, seen) == \A i : (First(q, i) /\ q[i].kind = "request") => seen \in {HUB, NotTold}
Sights(c, v) ==
    /\ Still(toServer[v]) => Sees(c, v, told[c][id[v]])
    /\ InHub(toServer[v], told[c][id[v]])

InOrder == \A v \in Clients \ overtaken : Ordered(v)
InSight == \A c, v \in lobby : (c # v /\ v \notin overtaken) => Sights(c, v)

SightInv == WaitInv /\ AskedInv /\ PlacesKnown /\ ToldMembers /\ InOrder /\ InSight

LEMMA SightInvImplies == SightInv => LobbySeesWhereEveryoneIs
<1>. SUFFICES ASSUME SightInv, NEW c \in lobby, NEW v \in lobby,
                     c # v, v \notin overtaken, toServer[v] = <<>>
              PROVE  Sees(c, v, told[c][id[v]])
  BY DEF LobbySeesWhereEveryoneIs
<1>1. Still(toServer[v])
  BY DEF Still
<1>. QED  BY <1>1 DEF SightInv, InSight, Sights

LEMMA InitSightInv == Init => SightInv
<1>. SUFFICES ASSUME Init PROVE SightInv
  OBVIOUS
<1>1. WaitInv /\ AskedInv /\ TypeOK
  BY InitTypeOK, InitWaitInv, InitAskedInv
<1>2. PlacesKnown
  BY DEF Init, PlacesKnown, ToSet
<1>3. ToldMembers
  BY DEF Init, ToldMembers
<1>4. \A v \in Clients : Ordered(v)
  BY DEF Init, Ordered, TakesTurns, EndsAt, Neighbours, Final
<1>5. ASSUME NEW c \in lobby, NEW v \in lobby PROVE Sights(c, v)
  <2>1. v \in Clients /\ c \in Clients /\ id[v] \in Ids
    BY <1>1, <1>5 DEF TypeOK
  <2>2. place[v] = HUB /\ told[c][id[v]] = NotTold /\ toServer[v] = <<>>
    BY <2>1 DEF Init
  <2>. QED  BY <2>1, <2>2 DEF Sights, Sees, InHub, First
<1>. QED  BY <1>1, <1>2, <1>3, <1>4, <1>5 DEF SightInv, InOrder, InSight

\* What is known of places stays known when the new places and events are known.
LEMMA PlacesStay ==
    ASSUME SightInv, nextId' \in {nextId, nextId + 1},
           \A v \in Clients :
                /\ \/ place'[v] \in {place[v], HUB}
                   \/ place'[v] \in 0 .. nextId - 1 /\ stage'[v] # "new"
                /\ stage'[v] = "new" => stage[v] = "new"
                /\ \A e \in ToSet(toServer'[v]) :
                      \/ e \in ToSet(toServer[v])
                      \/ e.kind = "response"
                      \/ e.kind = "request" /\ e.where \in 0 .. nextId - 1
                      \/ e.kind = "location" /\ e.where = HUB
    PROVE  PlacesKnown'
<1>0. nextId \in Int
  BY DEF SightInv, WaitInv, TypeOK
<1>1. 0 .. nextId - 1 \subseteq 0 .. nextId' - 1
  BY <1>0
<1>2. \A v \in Clients :
        /\ place[v] = HUB \/ place[v] \in 0 .. nextId - 1
        /\ stage[v] = "new" => place[v] = HUB
        /\ \A e \in ToSet(toServer[v]) :
              /\ e.kind = "request" => e.where \in 0 .. nextId - 1
              /\ e.kind = "location" => e.where = HUB
  BY DEF SightInv, PlacesKnown
<1>3. ASSUME NEW v \in Clients
      PROVE  /\ place'[v] = HUB \/ place'[v] \in 0 .. nextId' - 1
             /\ stage'[v] = "new" => place'[v] = HUB
  BY <1>1, <1>2
<1>4. ASSUME NEW v \in Clients, NEW e \in ToSet(toServer'[v])
      PROVE  /\ e.kind = "request" => e.where \in 0 .. nextId' - 1
             /\ e.kind = "location" => e.where = HUB
  BY <1>1, <1>2
<1>. QED  BY <1>3, <1>4 DEF PlacesKnown

\* What c sees of v is still so when neither has moved: the owner of a garage
\* may leave, but nobody gets an id that was known.
LEMMA SeesStays ==
    ASSUME SightInv, NEW c \in Clients, NEW v \in Clients, NEW seen,
           \A a \in Clients : id'[a] \in {id[a], NoId, nextId},
           id'[c] = id[c], id'[v] = id[v], place'[v] = place[v], Sees(c, v, seen)
    PROVE  Sees(c, v, seen)'
<1>1. CASE place[v] # HUB /\ ~Held(place[v])
  <2>1. place[v] \in 0 .. nextId - 1 /\ nextId \in Int
    BY <1>1 DEF SightInv, PlacesKnown, WaitInv, TypeOK
  <2>2. place[v] # nextId /\ place[v] # NoId
    BY <2>1 DEF NoId
  <2>3. ~Held(place[v])'
    BY <1>1, <2>2 DEF Held
  <2>. QED  BY <1>1, <2>3 DEF Sees
<1>2. CASE ~(place[v] # HUB /\ ~Held(place[v]))
  BY <1>2 DEF Sees
<1>. QED  BY <1>1, <1>2

LEMMA SightsStay ==
    ASSUME SightInv, NEW c \in lobby, NEW v \in lobby, c # v, v \notin overtaken,
           \A a \in Clients : id'[a] \in {id[a], NoId, nextId},
           id'[c] = id[c], id'[v] = id[v], place'[v] = place[v],
           Still(toServer'[v]) => Still(toServer[v]),
           \A seen : InHub(toServer[v], seen) => InHub(toServer'[v], seen),
           told'[c][id[v]] = told[c][id[v]]
    PROVE  Sights(c, v)'
<1>. DEFINE now == told[c][id[v]]
<1>1. c \in Clients /\ v \in Clients
  BY DEF SightInv, WaitInv, TypeOK
<1>2. Sights(c, v)
  BY DEF SightInv, InSight
<1>3. \A seen : Sees(c, v, seen) => Sees(c, v, seen)'
  BY <1>1, SeesStays
<1>4. Still(toServer'[v]) => Sees(c, v, told[c][id[v]])'
  <2>. SUFFICES ASSUME Still(toServer'[v]), NEW seen, seen = told'[c][id'[v]]
                PROVE  Sees(c, v, seen)'
    BY DEF Sees
  <2>. QED  BY <1>2, <1>3 DEF Sights
<1>5. InHub(toServer'[v], told'[c][id'[v]])
  BY <1>2 DEF Sights
<1>. QED  BY <1>4, <1>5 DEF Sights
\* A player moves, or answers a request.
LEMMA SaySight ==
    ASSUME SightInv, NEW c \in Clients, NEW e \in ServerEvents,
           toServer' = [toServer EXCEPT ![c] = Append(@, e)],
           UNCHANGED <<serverVars, stage, overtaken>>, stage[c] = "in",
           \A v \in Clients \ {c} : place'[v] = place[v],
           \/ ~Move(e) /\ place'[c] = place[c]
           \/ e.kind = "request" /\ place[c] = HUB /\ place'[c] = e.where /\ e.where \in 0 .. nextId - 1
           \/ e.kind = "location" /\ place[c] # HUB /\ place'[c] = HUB /\ e.where = HUB
    PROVE  PlacesKnown' /\ ToldMembers' /\ InOrder' /\ InSight'
<1>. TypeOK
  BY DEF SightInv, WaitInv
<1>. DEFINE q == toServer[c]
            t == toServer'[c]
<1>1. /\ q \in Seq(ServerEvents) /\ t = Append(q, e)
      /\ \A v \in Clients \ {c} : toServer'[v] = toServer[v]
      /\ ToSet(t) = ToSet(q) \cup {e}
  <2>1. q \in Seq(ServerEvents) /\ t = Append(q, e)
    BY DEF TypeOK
  <2>2. ToSet(t) = ToSet(q) \cup {e}
    BY <2>1, AppendSet
  <2>. QED  BY <2>1, <2>2 DEF TypeOK
<1>2. UNCHANGED <<nextId, id, lobby, told, stage, overtaken>>
  BY DEF serverVars
<1>3. PlacesKnown'
  <2>1. ASSUME NEW v \in Clients
        PROVE  /\ \/ place'[v] \in {place[v], HUB}
                  \/ place'[v] \in 0 .. nextId - 1 /\ stage'[v] # "new"
               /\ stage'[v] = "new" => stage[v] = "new"
    BY <1>2
  <2>2. e.kind = "response" \/ (e.kind = "request" /\ e.where \in 0 .. nextId - 1)
            \/ (e.kind = "location" /\ e.where = HUB)
    BY DEF Move
  <2>. QED  BY <1>1, <1>2, <2>1, <2>2, PlacesStay
<1>4. ToldMembers'
  BY <1>2 DEF SightInv, ToldMembers
<1>5. ASSUME c \notin overtaken PROVE TakesTurns(q) /\ EndsAt(q, place[c])
  BY <1>5 DEF SightInv, InOrder, Ordered
<1>6. CASE ~Move(e) /\ place'[c] = place[c]
  <2>. HIDE DEF q, t
  <2>1. /\ Still(t) => Still(q)
        /\ \A i : First(t, i) => First(q, i) /\ t[i] = q[i]
        /\ TakesTurns(q) => TakesTurns(t)
        /\ EndsAt(q, place[c]) => EndsAt(t, place[c])
    <3>1. Appended(q, e, t) /\ ~Move(e)
      BY <1>1, <1>6 DEF Appended
    <3>. QED  BY <3>1, AnswerAppended
  <2>. USE DEF q, t
  <2>2. ASSUME NEW v \in Clients \ overtaken PROVE Ordered(v)'
    BY <1>1, <1>2, <1>5, <1>6, <2>1, <2>2 DEF SightInv, InOrder, Ordered
  <2>3. \A v \in Clients : /\ Still(toServer'[v]) => Still(toServer[v])
                           /\ \A seen : InHub(toServer[v], seen) => InHub(toServer'[v], seen)
    BY <1>1, <2>1 DEF InHub
  <2>4. ASSUME NEW d \in lobby, NEW v \in lobby, d # v, v \notin overtaken PROVE Sights(d, v)'
    <3>. d \in Clients /\ v \in Clients
      BY DEF TypeOK
    <3>. QED  BY <1>2, <1>6, <2>3, <2>4, SightsStay
  <2>. QED  BY <1>2, <1>3, <1>4, <2>2, <2>4 DEF InOrder, InSight
<1>7. CASE Move(e) /\ place'[c] = e.where
           /\ (\/ e.kind = "request" /\ place[c] = HUB
               \/ e.kind = "location" /\ place[c] # HUB)
  <2>1. ASSUME NEW i \in DOMAIN q, Move(q[i]), q[i].where = place[c] PROVE q[i].kind # e.kind
    <3>1. q[i] \in ToSet(toServer[c])
      BY DEF ToSet
    <3>2. /\ q[i].kind = "request" => q[i].where \in 0 .. nextId - 1
          /\ q[i].kind = "location" => q[i].where = HUB
      BY <3>1 DEF SightInv, PlacesKnown
    <3>3. nextId \in Int
      BY DEF TypeOK
    <3>. QED  BY <1>7, <2>1, <3>2, <3>3 DEF HUB
  <2>. HIDE DEF q, t
  <2>2. ASSUME c \notin overtaken
        PROVE  /\ ~Still(t)
               /\ \A i : First(t, i) => \/ First(q, i) /\ t[i] = q[i]
                                        \/ Still(q) /\ t[i] = e
               /\ TakesTurns(t)
               /\ EndsAt(t, e.where)
    <3>1. Appended(q, e, t) /\ Move(e) /\ TakesTurns(q) /\ EndsAt(q, place[c])
      BY <1>1, <1>5, <1>7, <2>2 DEF Appended
    <3>2. \A i \in DOMAIN q : (Move(q[i]) /\ q[i].where = place[c]) => q[i].kind # e.kind
      BY <2>1
    <3>. QED  BY <3>1, <3>2, MoveAppended
  <2>. USE DEF q, t
  <2>3. ASSUME NEW v \in Clients \ overtaken PROVE Ordered(v)'
    BY <1>1, <1>2, <1>7, <2>2, <2>3 DEF SightInv, InOrder, Ordered
  <2>4. ASSUME NEW d \in lobby, NEW v \in lobby, d # v, v \notin overtaken PROVE Sights(d, v)'
    <3>0. d \in Clients /\ v \in Clients
      BY DEF TypeOK
    <3>1. CASE v # c
      BY <1>1, <1>2, <2>4, <3>0, <3>1, SightsStay
    <3>2. CASE v = c
      <4>1. Sights(d, c)
        BY <2>4, <3>2 DEF SightInv, InSight
      <4>2. ASSUME NEW i, First(t, i), t[i].kind = "request"
            PROVE  told[d][id[c]] \in {HUB, NotTold}
        <5>1. CASE First(q, i) /\ t[i] = q[i]
          BY <4>1, <4>2, <5>1 DEF Sights, InHub
        <5>2. CASE Still(q) /\ t[i] = e
          BY <1>7, <4>1, <4>2, <5>2 DEF Sights, Sees
        <5>. QED  BY <2>2, <2>4, <3>2, <4>2, <5>1, <5>2
      <4>. QED  BY <1>2, <2>2, <2>4, <3>2, <4>2 DEF Sights, InHub
    <3>. QED  BY <3>1, <3>2
  <2>. QED  BY <1>2, <1>3, <1>4, <2>3, <2>4 DEF InOrder, InSight
<1>. QED  BY <1>6, <1>7 DEF Move

\* A step that leaves places, queues to the server and what is told alone.
LEMMA OthersSight ==
    ASSUME SightInv, UNCHANGED <<serverVars, place, overtaken, toServer>>,
           \A v \in Clients : stage'[v] = "new" => stage[v] = "new"
    PROVE  PlacesKnown' /\ ToldMembers' /\ InOrder' /\ InSight'
<1>1. UNCHANGED <<nextId, id, lobby, told>>
  BY DEF serverVars
<1>2. PlacesKnown'
  BY <1>1, PlacesStay
<1>3. ToldMembers' /\ InOrder'
  BY <1>1 DEF SightInv, ToldMembers, InOrder, Ordered
<1>4. ASSUME NEW d \in lobby, NEW v \in lobby, d # v, v \notin overtaken PROVE Sights(d, v)'
  BY <1>1, <1>4, SightsStay
<1>. QED  BY <1>1, <1>2, <1>3, <1>4 DEF InSight

LEMMA GameSight ==
    ASSUME SightInv, NEW c \in Clients,
           \/ \E o \in Ids \cup {HOST} : Ask(c, o)
           \/ Return(c) \/ Hear(c) \/ Quit(c)
    PROVE  PlacesKnown' /\ ToldMembers' /\ InOrder' /\ InSight'
<1>. TypeOK
  BY DEF SightInv, WaitInv
<1>1. ASSUME NEW o \in Ids \cup {HOST}, Ask(c, o)
      PROVE  PlacesKnown' /\ ToldMembers' /\ InOrder' /\ InSight'
  <2>1. /\ Say("request", o) \in ServerEvents
        /\ Say("request", o).kind = "request" /\ Say("request", o).where = o
    BY DEF Say, ServerEvents, Places
  <2>2. o \in 0 .. nextId - 1
    BY <1>1 DEF TypeOK, Ask, Ids, HOST
  <2>3. /\ toServer' = [toServer EXCEPT ![c] = Append(@, Say("request", o))]
        /\ UNCHANGED <<serverVars, stage, overtaken>> /\ stage[c] = "in"
        /\ place[c] = HUB /\ place'[c] = o /\ \A v \in Clients \ {c} : place'[v] = place[v]
    BY <1>1 DEF Ask, TypeOK
  <2>. QED  BY <2>1, <2>2, <2>3, SaySight
<1>2. CASE Return(c)
  <2>1. /\ Say("location", HUB) \in ServerEvents
        /\ Say("location", HUB).kind = "location" /\ Say("location", HUB).where = HUB
    BY DEF Say, ServerEvents, Places
  <2>2. /\ toServer' = [toServer EXCEPT ![c] = Append(@, Say("location", HUB))]
        /\ UNCHANGED <<serverVars, stage, overtaken>> /\ stage[c] = "in"
        /\ place[c] # HUB /\ place'[c] = HUB /\ \A v \in Clients \ {c} : place'[v] = place[v]
    BY <1>2 DEF Return, TypeOK
  <2>. QED  BY <2>1, <2>2, SaySight
<1>3. CASE Hear(c)
  <2>1. UNCHANGED <<serverVars, stage, place, overtaken>> /\ stage[c] = "in"
    BY <1>3 DEF Hear
  <2>2. CASE toServer' = toServer
    BY <2>1, <2>2, OthersSight
  <2>3. CASE toServer' = [toServer EXCEPT ![c] = Append(@, Say("response", HUB))]
    <3>1. Say("response", HUB) \in ServerEvents /\ ~Move(Say("response", HUB))
      BY DEF Say, ServerEvents, Places, Move
    <3>. QED  BY <2>1, <2>3, <3>1, SaySight
  <2>. QED  BY <1>3, <2>2, <2>3 DEF Hear
<1>4. CASE Quit(c)
  BY <1>4, OthersSight DEF Quit, TypeOK
<1>. QED  BY <1>1, <1>2, <1>3, <1>4

LEMMA RemoveClientSight ==
    ASSUME SightInv, NEW c \in Clients, RemoveClient(c)
    PROVE  PlacesKnown' /\ ToldMembers' /\ InOrder' /\ InSight'
<1>. TypeOK
  BY DEF SightInv, WaitInv
<1>1. /\ UNCHANGED <<nextId, stage, place, toServer, overtaken>> /\ lobby' = lobby \ {c}
      /\ id'[c] = NoId /\ \A a \in Clients \ {c} : id'[a] = id[a] /\ told'[a] = told[a]
      /\ told'[c] = [i \in Ids |-> NotTold]
  BY DEF RemoveClient, gameVars, TypeOK
<1>2. PlacesKnown'
  BY <1>1, PlacesStay
<1>3. ToldMembers'
  BY <1>1 DEF SightInv, ToldMembers
<1>4. InOrder'
  BY <1>1 DEF SightInv, InOrder, Ordered
<1>5. ASSUME NEW d \in lobby', NEW v \in lobby', d # v, v \notin overtaken PROVE Sights(d, v)'
  <2>1. d \in Clients \ {c} /\ v \in Clients \ {c} /\ d \in lobby /\ v \in lobby
    BY <1>1 DEF TypeOK
  <2>2. \A a \in Clients : id'[a] \in {id[a], NoId, nextId}
    BY <1>1
  <2>. QED  BY <1>1, <1>5, <2>1, <2>2, SightsStay
<1>. QED  BY <1>1, <1>2, <1>3, <1>4, <1>5 DEF InSight

\* Whom a datagram gives an entry.
LEMMA EntryIds ==
    ASSUME TypeOK, NEW c \in Clients, Entry(c)
    PROVE  /\ nextId' \in {nextId, nextId + 1}
           /\ \A a \in Clients : id'[a] \in {id[a], NoId, nextId}
           /\ \A a \in Clients \ {c} : id'[a] = id[a]
           /\ id[c] # NoId => id' = id
           /\ id[c] = NoId => id'[c] = nextId
BY DEF TypeOK, Entry, EntryOf

LEMMA JoinSight ==
    ASSUME SightInv, NEW c \in Clients, Join(c)
    PROVE  PlacesKnown' /\ ToldMembers' /\ InOrder' /\ InSight'
<1>. TypeOK
  BY DEF SightInv, WaitInv
<1>0. Entry(c)
  BY DEF Join
<1>1. /\ UNCHANGED <<told, place, toServer, overtaken>> /\ lobby' = lobby \cup {c}
      /\ stage[c] = "new" /\ \A v \in Clients : stage'[v] = "new" => stage[v] = "new"
  BY DEF Join, TypeOK
<1>2. /\ id[c] = NoId /\ toServer[c] = <<>> /\ place[c] = HUB /\ c \notin lobby
      /\ id'[c] = nextId
  BY <1>0, <1>1, EntryIds DEF SightInv, WaitInv, NewAreSilent, PlacesKnown, TypeOK
<1>3. PlacesKnown'
  BY <1>0, <1>1, EntryIds, PlacesStay
<1>4. ToldMembers'
  <2>0. nextId \in Int
    BY DEF TypeOK
  <2>1. nextId' \in {nextId, nextId + 1}
    BY <1>0, EntryIds
  <2>. nextId \in Int /\ nextId' \in Int /\ nextId' >= nextId
    BY <2>0, <2>1
  <2>. \A i \in Ids : i \in Int
    BY DEF Ids
  <2>. QED  BY <1>1 DEF SightInv, ToldMembers
<1>5. InOrder'
  BY <1>1 DEF SightInv, InOrder, Ordered
<1>6. ASSUME NEW d \in lobby', NEW v \in lobby', d # v, v \notin overtaken PROVE Sights(d, v)'
  <2>0. d \in Clients /\ v \in Clients /\ d \in lobby \cup {c} /\ v \in lobby \cup {c}
    BY <1>1 DEF TypeOK
  <2>1. CASE d # c /\ v # c
    BY <1>0, <1>1, <1>6, <2>0, <2>1, EntryIds, SightsStay
  <2>2. CASE d = c
    <3>1. v # c /\ id'[v] = id[v] /\ id[v] \in Ids /\ id[v] < nextId
      BY <1>0, <1>6, <2>0, <2>2, EntryIds DEF TypeOK
    <3>2. told'[d][id'[v]] = NotTold
      BY <1>1, <1>2, <2>2, <3>1 DEF SightInv, ToldMembers
    <3>3. id'[d] > id'[v]
      BY <1>2, <2>2, <3>1 DEF TypeOK, Ids
    <3>. QED  BY <3>2, <3>3 DEF Sights, Sees, InHub
  <2>3. CASE v = c
    <3>1. nextId \in Ids
      BY <1>2 DEF Join, Entry
    <3>2. told'[d][id'[v]] = NotTold
      BY <1>1, <1>2, <2>0, <2>3, <3>1 DEF SightInv, ToldMembers, Ids
    <3>. QED  BY <1>1, <1>2, <2>3, <3>2 DEF Sights, Sees, InHub
  <2>. QED  BY <2>0, <2>1, <2>2, <2>3
<1>. QED  BY <1>1, <1>3, <1>4, <1>5, <1>6 DEF InSight
\* Whom a handler tells of the sender, and what.
LEMMA WhoIsTold ==
    ASSUME TypeOK, NEW c \in Clients, Entry(c), NEW e \in ServerEvents,
           \/ e.kind = "request" /\ RequestVisitGarage(c, e.where)
           \/ e.kind = "response" /\ VisitGarageResponse(c)
           \/ e.kind = "location" /\ Tagged(c, e)
    PROVE  /\ \A d \in Clients, i \in Ids :
                    told'[d][i] # told[d][i] => d \in lobby /\ d # c /\ i = id'[c]
           /\ e.kind = "response" => told' = told
           /\ (e.kind = "location" /\ c \in lobby) =>
                    \A d \in lobby \ {c} : told'[d][id'[c]] = e.where
           /\ e.kind = "request" =>
                    \/ \A d \in lobby \ {c} : told'[d][id'[c]] = e.where
                    \/ told' = told /\ e.where # HOST /\ \A a \in Clients : id'[a] # e.where
<1>. DEFINE me == id'[c]
<1>1. me \in Ids /\ me = EntryOf(c)[c] /\ id' = EntryOf(c)
  BY EntryType
<1>2. c \in lobby => me = id[c]
  BY EntryIds DEF TypeOK
<1>. HIDE DEF me
<1>3. ASSUME NEW where, Told(PeersOf(c), me, where)
      PROVE  /\ \A d \in Clients, i \in Ids :
                    told'[d][i] # told[d][i] => d \in lobby /\ d # c /\ i = me
             /\ \A d \in lobby \ {c} : told'[d][me] = where
  <2>1. told' = [a \in Clients |-> IF a \in PeersOf(c) THEN [told[a] EXCEPT ![me] = where] ELSE told[a]]
    BY <1>3 DEF Told
  <2>2. \A a \in Clients : told[a] \in [Ids -> Places \cup {NotTold}]
    BY DEF TypeOK
  <2>3. ASSUME NEW d \in Clients, d \notin PeersOf(c) PROVE told'[d] = told[d]
    BY <2>1, <2>3
  <2>4. ASSUME NEW d \in PeersOf(c)
        PROVE told'[d][me] = where /\ \A i \in Ids : i # me => told'[d][i] = told[d][i]
    <3>1. d \in Clients
      BY DEF PeersOf, TypeOK
    <3>2. told'[d] = [told[d] EXCEPT ![me] = where]
      BY <2>1, <3>1
    <3>. QED  BY <1>1, <2>2, <3>1, <3>2
  <2>. QED  BY <2>3, <2>4 DEF PeersOf
<1>4. CASE e.kind = "response" /\ VisitGarageResponse(c)
  BY <1>4 DEF VisitGarageResponse
<1>5. CASE e.kind = "location" /\ Tagged(c, e)
  <2>1. CASE c \in lobby
    <3>1. Told(PeersOf(c), me, e.where)
      BY <1>2, <1>5, <2>1 DEF Tagged
    <3>. QED  BY <1>3, <1>5, <3>1 DEF me
  <2>2. CASE c \notin lobby
    BY <1>5, <2>2 DEF Tagged
  <2>. QED  BY <2>1, <2>2
<1>6. CASE e.kind = "request" /\ RequestVisitGarage(c, e.where)
  <2>1. \/ Told(PeersOf(c), me, e.where)
        \/ told' = told /\ e.where # HOST /\ \A a \in Clients : id'[a] # e.where
    BY <1>1, <1>6 DEF RequestVisitGarage
  <2>. QED  BY <1>3, <1>6, <2>1 DEF me
<1>. QED  BY <1>4, <1>5, <1>6

\* The oldest event of a player in the lobby arrives.
LEMMA InTurnSight ==
    ASSUME SightInv, NEW c \in lobby, c \notin overtaken, NEW t, Taken(toServer[c], t),
           toServer'[c] = t, UNCHANGED <<id, place>>,
           NEW d \in lobby, d # c, NEW e \in ServerEvents, e = toServer[c][1],
           e.kind = "response" => told' = told,
           e.kind = "location" => told'[d][id[c]] = e.where,
           e.kind = "request" =>
                    \/ told'[d][id[c]] = e.where
                    \/ told' = told /\ e.where # HOST /\ \A a \in Clients : id[a] # e.where
    PROVE  Sights(d, c)'
<1>. DEFINE q == toServer[c]
            p == place[c]
            seen == told[d][id[c]]
<1>0. c \in Clients /\ d \in Clients
  BY DEF SightInv, WaitInv, TypeOK
<1>1. TakesTurns(q) /\ EndsAt(q, p) /\ InHub(q, seen) /\ (Still(q) => Sees(d, c, seen))
  BY <1>0 DEF SightInv, InOrder, Ordered, InSight, Sights
<1>2. /\ e.kind \in {"request", "response", "location"}
      /\ e.kind = "location" => e.where = HUB
  <2>1. e \in ToSet(toServer[c])
    BY DEF Taken, ToSet
  <2>. QED  BY <1>0, <2>1 DEF SightInv, PlacesKnown, ServerEvents
<1>3. \A s : Sees(d, c, s)' <=> Sees(d, c, s)
  BY DEF Sees, Held
<1>. HIDE DEF q, p, seen
<1>4. /\ TakesTurns(t) /\ EndsAt(t, p)
      /\ ~Move(e) => /\ Still(t) => Still(q)
                     /\ \A i : First(t, i) => First(q, i + 1) /\ t[i] = q[i + 1]
      /\ Move(e) => /\ First(q, 1)
                    /\ Still(t) => Final(q, 1)
                    /\ \A i : First(t, i) => Neighbours(q, 1, i + 1) /\ t[i] = q[i + 1]
  <2>1. Taken(q, t) /\ e = q[1]
    BY DEF q
  <2>. QED  BY <1>1, <2>1, FirstTaken
<1>5. e = q[1]
  BY DEF q
<1>6. ASSUME NEW now, now = told'[d][id[c]]
      PROVE  (Still(t) => Sees(d, c, now)) /\ InHub(t, now)
  <2>1. CASE e.kind = "response"
    <3>1. now = seen /\ ~Move(e)
      BY <1>6, <2>1 DEF seen, Move
    <3>. QED  BY <1>1, <1>4, <3>1 DEF InHub
  <2>2. CASE e.kind = "location"
    <3>1. Move(e) /\ now = HUB /\ e.where = HUB
      BY <1>2, <1>6, <2>2 DEF Move
    <3>2. Still(t) => p = HUB
      BY <1>1, <1>4, <1>5, <3>1 DEF EndsAt
    <3>. QED  BY <3>1, <3>2 DEF Sees, InHub, p
  <2>3. CASE e.kind = "request"
    <3>1. Move(e) /\ seen \in {HUB, NotTold}
      <4>1. Move(e)
        BY <2>3 DEF Move
      <4>. QED  BY <1>1, <1>4, <1>5, <2>3, <4>1 DEF InHub
    <3>2. Still(t) => p = e.where
      BY <1>1, <1>4, <1>5, <3>1 DEF EndsAt
    <3>3. InHub(t, now)
      BY <1>1, <1>4, <1>5, <2>3, <3>1 DEF TakesTurns, InHub
    <3>4. CASE now = e.where
      BY <3>2, <3>3, <3>4 DEF Sees, p
    <3>5. CASE told' = told /\ e.where # HOST /\ \A a \in Clients : id[a] # e.where
      <4>1. now = seen /\ ~Held(e.where)
        BY <1>6, <3>5 DEF seen, Held
      <4>. QED  BY <3>1, <3>2, <3>3, <4>1 DEF Sees, p
    <3>. QED  BY <1>6, <2>3, <3>4, <3>5
  <2>. QED  BY <1>2, <2>1, <2>2, <2>3
<1>. SUFFICES ASSUME NEW now, now = told'[d][id[c]]
              PROVE  (Still(t) => Sees(d, c, now)') /\ InHub(t, now)
  BY DEF Sights, Sees
<1>. QED  BY <1>3, <1>6
LEMMA ReceiveSight ==
    ASSUME SightInv, NEW c \in Clients, Receive(c)
    PROVE  PlacesKnown' /\ ToldMembers' /\ InOrder' /\ InSight'
<1>. TypeOK /\ AskedInv
  BY DEF SightInv, WaitInv
<1>0. Entry(c) /\ UNCHANGED <<lobby, stage, place>>
  BY ReceiveCases DEF gameVars
<1>1. PICK n \in DOMAIN toServer[c] :
                /\ toServer' = [toServer EXCEPT ![c] = RemoveAt(@, n)]
                /\ toServer[c][n] \in ServerEvents
                /\ overtaken' = IF n > 1 THEN overtaken \cup {c} ELSE overtaken
                /\ \/ toServer[c][n].kind = "request" /\ RequestVisitGarage(c, toServer[c][n].where)
                   \/ toServer[c][n].kind = "response" /\ VisitGarageResponse(c)
                   \/ toServer[c][n].kind = "location" /\ Tagged(c, toServer[c][n])
  BY ReceiveCases
<1>. DEFINE e == toServer[c][n]
            t == toServer'[c]
<1>2. /\ e \in ServerEvents
      /\ \/ e.kind = "request" /\ RequestVisitGarage(c, e.where)
         \/ e.kind = "response" /\ VisitGarageResponse(c)
         \/ e.kind = "location" /\ Tagged(c, e)
  BY <1>1
<1>. HIDE DEF e
<1>3. /\ \A d \in Clients, i \in Ids :
                    told'[d][i] # told[d][i] => d \in lobby /\ d # c /\ i = id'[c]
      /\ e.kind = "response" => told' = told
      /\ (e.kind = "location" /\ c \in lobby) =>
                    \A d \in lobby \ {c} : told'[d][id'[c]] = e.where
      /\ e.kind = "request" =>
                    \/ \A d \in lobby \ {c} : told'[d][id'[c]] = e.where
                    \/ told' = told /\ e.where # HOST /\ \A a \in Clients : id'[a] # e.where
  BY <1>0, <1>2, WhoIsTold
<1>4. /\ t = RemoveAt(toServer[c], n) /\ toServer[c] \in Seq(ServerEvents)
      /\ \A v \in Clients \ {c} : toServer'[v] = toServer[v]
  BY <1>1 DEF TypeOK
<1>5. ToSet(t) \subseteq ToSet(toServer[c])
  BY <1>4, RemoveSet
<1>6. /\ nextId' \in {nextId, nextId + 1}
      /\ \A a \in Clients : id'[a] \in {id[a], NoId, nextId}
      /\ \A a \in Clients \ {c} : id'[a] = id[a]
      /\ id[c] # NoId => id' = id
  BY <1>0, EntryIds
<1>7. PlacesKnown'
  <2>1. \A v \in Clients : ToSet(toServer'[v]) \subseteq ToSet(toServer[v])
    BY <1>4, <1>5
  <2>. QED  BY <1>0, <1>6, <2>1, PlacesStay
<1>8. ToldMembers'
  <2>1. nextId \in Int
    BY DEF TypeOK
  <2>2. /\ nextId' \in Int /\ nextId' >= nextId
        /\ \A i \in Ids : i \in Int
    BY <1>6, <2>1 DEF Ids
  <2>3. id'[c] \in Ids /\ id'[c] < nextId'
    BY <1>0, EntryType
  <2>4. ASSUME NEW d \in Clients, NEW i \in Ids, d \notin lobby \/ i >= nextId'
        PROVE  told'[d][i] = NotTold
    <3>1. told[d][i] = NotTold
      BY <2>1, <2>2, <2>4 DEF SightInv, ToldMembers
    <3>2. told'[d][i] = told[d][i]
      BY <1>3, <2>2, <2>3, <2>4
    <3>. QED  BY <3>1, <3>2
  <2>. QED  BY <1>0, <2>4 DEF ToldMembers
<1>9. ASSUME c \notin overtaken'
      PROVE  n = 1 /\ c \notin overtaken /\ Taken(toServer[c], t) /\ e = toServer[c][1]
  <2>1. n \in Nat /\ n >= 1
    BY <1>4
  <2>2. n = 1 /\ c \notin overtaken
    BY <1>1, <1>9, <2>1
  <2>. QED  BY <1>1, <1>4, <2>2 DEF Taken, e
<1>10. InOrder'
  <2>. SUFFICES ASSUME NEW v \in Clients, v \notin overtaken' PROVE Ordered(v)'
    BY DEF InOrder
  <2>0. v \notin overtaken
    BY <1>1
  <2>1. Ordered(v)
    BY <2>0 DEF SightInv, InOrder
  <2>2. CASE v = c
    <3>1. Taken(toServer[c], t)
      BY <1>9, <2>2
    <3>2. TakesTurns(toServer[c]) /\ EndsAt(toServer[c], place[c])
      BY <2>1, <2>2 DEF Ordered
    <3>. HIDE DEF t
    <3>3. TakesTurns(t) /\ EndsAt(t, place[c])
      BY <3>1, <3>2, FirstTaken
    <3>. QED  BY <1>0, <2>2, <3>3 DEF Ordered, t
  <2>3. CASE v # c
    BY <1>0, <1>4, <2>1, <2>3 DEF Ordered
  <2>. QED  BY <2>2, <2>3
<1>11. ASSUME NEW d \in lobby, NEW v \in lobby, d # v, v \notin overtaken' PROVE Sights(d, v)'
  <2>0. /\ v \notin overtaken /\ d \in Clients /\ v \in Clients
        /\ id[d] # NoId /\ id[v] \in Ids /\ id[v] # NoId
    BY <1>1, <1>11 DEF TypeOK
  <2>1. id'[d] = id[d] /\ id'[v] = id[v]
    BY <1>6, <2>0
  <2>2. CASE v # c
    <3>1. id'[v] # id'[c]
      <4>. OneEach'
        BY <1>0, EntryKeeps
      <4>. QED  BY <2>0, <2>1, <2>2 DEF OneEach
    <3>2. told'[d][id[v]] = told[d][id[v]]
      BY <1>3, <2>0, <2>1, <3>1
    <3>3. toServer'[v] = toServer[v] /\ place'[v] = place[v]
      BY <1>0, <1>4, <2>0, <2>2
    <3>. QED  BY <1>6, <1>11, <2>0, <2>1, <3>2, <3>3, SightsStay
  <2>3. CASE v = c
    <3>1. c \in lobby /\ c \notin overtaken /\ d # c /\ UNCHANGED <<id, place>>
      BY <1>0, <1>6, <1>11, <2>0, <2>3
    <3>2. Taken(toServer[c], t) /\ e = toServer[c][1]
      BY <1>9, <1>11, <2>3
    <3>3. /\ e.kind = "response" => told' = told
          /\ e.kind = "location" => told'[d][id[c]] = e.where
          /\ e.kind = "request" =>
                    \/ told'[d][id[c]] = e.where
                    \/ told' = told /\ e.where # HOST /\ \A a \in Clients : id[a] # e.where
      BY <1>3, <3>1
    <3>. QED  BY <1>2, <2>3, <3>1, <3>2, <3>3, InTurnSight
  <2>. QED  BY <2>2, <2>3
<1>12. InSight'
  BY <1>0, <1>11 DEF InSight
<1>. QED  BY <1>7, <1>8, <1>10, <1>12

LEMMA NextSightInv == SightInv /\ [Next]_vars => SightInv'
<1>. SUFFICES ASSUME SightInv, [Next]_vars PROVE SightInv'
  OBVIOUS
<1>0. WaitInv' /\ AskedInv'
  BY NextWaitInv, NextAskedInv DEF SightInv
<1>1. CASE UNCHANGED vars
  BY <1>0, <1>1, OthersSight DEF vars, serverVars, gameVars, SightInv
<1>2. ASSUME NEW c \in Clients,
             \/ Join(c) \/ \E o \in Ids \cup {HOST} : Ask(c, o)
             \/ Return(c) \/ Hear(c) \/ Quit(c)
             \/ Receive(c) \/ RemoveClient(c)
      PROVE PlacesKnown' /\ ToldMembers' /\ InOrder' /\ InSight'
  BY <1>2, JoinSight, GameSight, ReceiveSight, RemoveClientSight
<1>. QED  BY <1>0, <1>1, <1>2 DEF Next, SightInv

\* What RequestVisitGarage, UpdateLocation and StopGarageVisit tell the others
\* ends with where the player is, unless the server heard its events in another
\* order or the garage it asked for was nobody's.
THEOREM LobbyIsShownEveryone == Spec => []LobbySeesWhereEveryoneIs
<1>1. Init => SightInv
  BY InitSightInv
<1>2. SightInv /\ [Next]_vars => SightInv'
  BY NextSightInv
<1>3. SightInv => LobbySeesWhereEveryoneIs
  BY SightInvImplies
<1>. QED  BY <1>1, <1>2, <1>3, PTL DEF Spec
=============================================================================
