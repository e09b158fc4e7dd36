---------------------------- MODULE SequenceFacts ----------------------------
(***************************************************************************)
(* Facts about queues that the proofs share: what is in a sequence, and how *)
(* often, after an element was appended, taken from the front or removed.  *)
(***************************************************************************)
EXTENDS Integers, Sequences, SequencesExt, FiniteSets, SequenceTheorems, FiniteSetTheorems, TLAPS

-----------------------------------------------------------------------------
(* Positions *)

\* An element of a longer sequence is one of the old elements or the new one.
LEMMA AppendElements ==
    ASSUME NEW S, NEW s \in Seq(S), NEW e \in S
    PROVE  /\ Append(s, e) \in Seq(S)
           /\ Len(Append(s, e)) = Len(s) + 1
           /\ DOMAIN Append(s, e) = 1 .. Len(s) + 1
           /\ \A n \in 1 .. Len(s) : Append(s, e)[n] = s[n]
           /\ Append(s, e)[Len(s) + 1] = e
OBVIOUS

LEMMA FunctionIsSeq ==
    ASSUME NEW S, NEW n \in Nat, NEW f \in [1 .. n -> S]
    PROVE  f \in Seq(S) /\ Len(f) = n
OBVIOUS

LEMMA TailElements ==
    ASSUME NEW S, NEW s \in Seq(S), s # <<>>
    PROVE  /\ Tail(s) \in Seq(S)
           /\ Head(s) = s[1] /\ 1 \in DOMAIN s
           /\ DOMAIN Tail(s) = 1 .. Len(s) - 1
           /\ \A n \in 1 .. Len(s) - 1 : n + 1 \in DOMAIN s /\ Tail(s)[n] = s[n + 1]
OBVIOUS

LEMMA ConcatElements ==
    ASSUME NEW S, NEW s \in Seq(S), NEW t \in Seq(S)
    PROVE  /\ s \o t \in Seq(S)
           /\ Len(s \o t) = Len(s) + Len(t)
           /\ DOMAIN (s \o t) = 1 .. Len(s) + Len(t)
           /\ \A n \in 1 .. Len(s) : (s \o t)[n] = s[n]
           /\ \A n \in 1 .. Len(t) : (s \o t)[Len(s) + n] = t[n]
OBVIOUS

LEMMA RemoveElements ==
    ASSUME NEW S, NEW s \in Seq(S), NEW n \in DOMAIN s
    PROVE  /\ RemoveAt(s, n) \in Seq(S)
           /\ DOMAIN RemoveAt(s, n) = 1 .. Len(s) - 1
           /\ \A k \in 1 .. Len(s) - 1 :
                    RemoveAt(s, n)[k] = s[IF k < n THEN k ELSE k + 1]
<1>. DEFINE a == SubSeq(s, 1, n - 1)
            b == SubSeq(s, n + 1, Len(s))
<1>0. Len(s) \in Nat /\ n \in 1 .. Len(s)
  OBVIOUS
<1>1. /\ a \in Seq(S) /\ Len(a) = n - 1
      /\ \A k \in 1 .. n - 1 : a[k] = s[k]
  BY <1>0, SubSeqProperties, Z3T(30)
<1>2. /\ b \in Seq(S) /\ Len(b) = Len(s) - n
      /\ \A k \in 1 .. Len(s) - n : b[k] = s[n + k]
  BY <1>0, SubSeqProperties, Z3T(30)
<1>. HIDE DEF a, b
<1>3. /\ a \o b \in Seq(S) /\ Len(a \o b) = Len(s) - 1
      /\ \A k \in 1 .. Len(s) - 1 : (a \o b)[k] = IF k <= n - 1 THEN a[k] ELSE b[k - (n - 1)]
  BY <1>0, <1>1, <1>2, ConcatProperties, Z3T(30)
<1>4. \A k \in 1 .. Len(s) - 1 : (a \o b)[k] = s[IF k < n THEN k ELSE k + 1]
  <2>. TAKE k \in 1 .. Len(s) - 1
  <2>1. CASE k < n
    BY <1>0, <1>1, <1>3, <2>1
  <2>2. CASE ~(k < n)
    <3>1. k - (n - 1) \in 1 .. Len(s) - n /\ n + (k - (n - 1)) = k + 1
      BY <1>0, <2>2
    <3>0. ~(k <= n - 1)
      BY <1>0, <2>2
    <3>2. (a \o b)[k] = b[k - (n - 1)]
      BY <1>3, <3>0
    <3>. QED  BY <1>2, <2>2, <3>1, <3>2
  <2>. QED  BY <2>1, <2>2
<1>5. RemoveAt(s, n) = a \o b
  BY DEF RemoveAt, a, b
<1>. QED  BY <1>0, <1>3, <1>4, <1>5

-----------------------------------------------------------------------------
(* Elements *)

\* The elements of a sequence as it grows and shrinks.
LEMMA AppendSet ==
    ASSUME NEW S, NEW s \in Seq(S), NEW e \in S
    PROVE  ToSet(Append(s, e)) = ToSet(s) \cup {e}
<1>. DEFINE t == Append(s, e)
<1>1. /\ DOMAIN t = 1 .. Len(s) + 1 /\ DOMAIN s = 1 .. Len(s) /\ Len(s) \in Nat
      /\ \A n \in 1 .. Len(s) : t[n] = s[n]
      /\ t[Len(s) + 1] = e
  BY AppendElements
<1>. HIDE DEF t
<1>2. ToSet(t) \subseteq ToSet(s) \cup {e}
  BY <1>1 DEF ToSet
<1>3. ToSet(s) \cup {e} \subseteq ToSet(t)
  BY <1>1 DEF ToSet
<1>. QED  BY <1>2, <1>3 DEF t

LEMMA ConcatSet ==
    ASSUME NEW S, NEW s \in Seq(S), NEW u \in Seq(S)
    PROVE  ToSet(s \o u) \subseteq ToSet(s) \cup ToSet(u)
<1>. DEFINE t == s \o u
<1>1. /\ DOMAIN t = 1 .. Len(s) + Len(u) /\ DOMAIN s = 1 .. Len(s) /\ Len(s) \in Nat
      /\ DOMAIN u = 1 .. Len(u) /\ Len(u) \in Nat
      /\ \A n \in 1 .. Len(s) : t[n] = s[n]
      /\ \A n \in 1 .. Len(u) : t[Len(s) + n] = u[n]
  BY ConcatElements
<1>. HIDE DEF t
<1>2. ASSUME NEW n \in DOMAIN t PROVE t[n] \in ToSet(s) \cup ToSet(u)
  <2>1. CASE n <= Len(s)
    BY <1>1, <2>1 DEF ToSet
  <2>2. CASE ~(n <= Len(s))
    <3>1. n - Len(s) \in 1 .. Len(u) /\ Len(s) + (n - Len(s)) = n
      BY <1>1, <2>2
    <3>2. t[n] = u[n - Len(s)]
      BY <1>1, <3>1
    <3>. QED  BY <1>1, <3>1, <3>2 DEF ToSet
  <2>. QED  BY <2>1, <2>2
<1>. QED  BY <1>2 DEF ToSet, t

LEMMA TailSet ==
    ASSUME NEW S, NEW s \in Seq(S), s # <<>>
    PROVE  /\ ToSet(Tail(s)) \subseteq ToSet(s) /\ Head(s) \in ToSet(s)
           /\ ToSet(s) \subseteq ToSet(Tail(s)) \cup {Head(s)}
<1>. DEFINE t == Tail(s)
<1>1. /\ DOMAIN t = 1 .. Len(s) - 1 /\ DOMAIN s = 1 .. Len(s) /\ Len(s) \in Nat
      /\ 1 \in DOMAIN s /\ Head(s) = s[1]
      /\ \A n \in 1 .. Len(s) - 1 : n + 1 \in DOMAIN s /\ t[n] = s[n + 1]
  BY TailElements
<1>. HIDE DEF t
<1>2. ToSet(t) \subseteq ToSet(s) /\ Head(s) \in ToSet(s)
  <2>1. \A n \in DOMAIN t : n + 1 \in DOMAIN s /\ t[n] = s[n + 1]
    BY <1>1
  <2>2. ToSet(t) \subseteq ToSet(s)
    BY <2>1 DEF ToSet
  <2>. QED  BY <1>1, <2>2 DEF ToSet
<1>3. ASSUME NEW n \in DOMAIN s, n # 1 PROVE s[n] \in ToSet(t)
  <2>1. n - 1 \in 1 .. Len(s) - 1 /\ (n - 1) + 1 = n
    BY <1>1, <1>3
  <2>2. t[n - 1] = s[n]
    BY <1>1, <2>1
  <2>. QED  BY <1>1, <2>1, <2>2 DEF ToSet
<1>. QED  BY <1>1, <1>2, <1>3 DEF ToSet, t

LEMMA NothingIn ==
    ASSUME NEW S, NEW s \in Seq(S), ToSet(s) = {}
    PROVE  s = <<>>
<1>. SUFFICES ASSUME s # <<>> PROVE FALSE
  OBVIOUS
<1>. 1 \in DOMAIN s
  BY TailElements
<1>. QED  BY DEF ToSet

LEMMA RemoveSet ==
    ASSUME NEW S, NEW s \in Seq(S), NEW n \in DOMAIN s
    PROVE  /\ ToSet(RemoveAt(s, n)) \subseteq ToSet(s) /\ s[n] \in ToSet(s)
           /\ ToSet(s) \subseteq ToSet(RemoveAt(s, n)) \cup {s[n]}
<1>. DEFINE t == RemoveAt(s, n)
<1>1. /\ DOMAIN t = 1 .. Len(s) - 1 /\ DOMAIN s = 1 .. Len(s) /\ Len(s) \in Nat
      /\ \A k \in 1 .. Len(s) - 1 : t[k] = s[IF k < n THEN k ELSE k + 1]
  BY RemoveElements
<1>. HIDE DEF t
<1>2. ToSet(t) \subseteq ToSet(s) /\ s[n] \in ToSet(s)
  <2>. \A k \in 1 .. Len(s) - 1 : (IF k < n THEN k ELSE k + 1) \in DOMAIN s
    BY <1>1
  <2>. QED  BY <1>1 DEF ToSet
<1>3. ASSUME NEW k \in DOMAIN s, k # n PROVE s[k] \in ToSet(t)
  <2>1. CASE k < n
    <3>. k \in 1 .. Len(s) - 1
      BY <1>1, <2>1
    <3>. QED  BY <1>1, <2>1 DEF ToSet
  <2>2. CASE ~(k < n)
    <3>1. k - 1 \in 1 .. Len(s) - 1 /\ ~(k - 1 < n) /\ (k - 1) + 1 = k
      BY <1>1, <1>3, <2>2
    <3>2. t[k - 1] = s[k]
      BY <1>1, <3>1
    <3>. QED  BY <1>1, <3>1, <3>2 DEF ToSet
  <2>. QED  BY <2>1, <2>2
<1>. QED  BY <1>1, <1>2, <1>3 DEF ToSet, t

=============================================================================
