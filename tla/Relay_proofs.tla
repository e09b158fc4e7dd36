---------------------------- MODULE Relay_proofs -----------------------------
(***************************************************************************)
(* Proofs about the relay and the bytes it is made of.                     *)
(*                                                                         *)
(* The codec first.  Le and Word go through the digits of a number one by  *)
(* one; At(buf, at, s) says that the bytes s are in buf at a position, a   *)
(* frame's encoding is the conjunction of where its fields are, and Shape  *)
(* says of a buffer what parse tests, and that nothing is left over: such  *)
(* a buffer is the encoding of what it reads as (ShapeRead), reads the     *)
(* same with bytes after it (LongerRead), and is refused cut short         *)
(* (CutRefused).  A frame whose numbers fit reads as itself (RoundTrip).   *)
(* WireInv, that all there is on its way are encodings, needs no bound.    *)
(*                                                                         *)
(* Then the streams.  RelayInv has, for either direction of each           *)
(* connection, the set E of the events sent so far with their numbers: the *)
(* datagrams are just the packets of E (Log), and what the reader keeps is *)
(* what the pieces that are in make of the events of E (ReadSoFar), in     *)
(* whatever order and however often they arrived.  An event of E is one a  *)
(* game said, or tells of one (SaidBy, Told).  This half holds as long as  *)
(* the numbers fit their four bytes (NumbersFit).                          *)
(***************************************************************************)
EXTENDS Relay, SequenceFacts, TLAPS

-----------------------------------------------------------------------------
(* Words *)

\* A number is its last digit and the others.
LEMMA Digits ==
    ASSUME NEW n \in Nat
    PROVE  n \div Base \in Nat /\ n % Base \in Byte /\ n = (n % Base) + Base * (n \div Base)
BY WireAssumption DEF Byte

\* A digit put before a number is its last one, and the number the others.
LEMMA LastDigit ==
    ASSUME NEW d \in Byte, NEW m \in Nat
    PROVE  /\ d + Base * m \in Nat
           /\ (d + Base * m) % Base = d /\ (d + Base * m) \div Base = m
BY WireAssumption DEF Byte

\* A number below m digits up has fewer than m left without its last.
LEMMA FewerDigits ==
    ASSUME NEW m \in Nat, NEW n \in Nat, n < Base * m
    PROVE  n \div Base < m
BY WireAssumption

LEMMA ZeroDigits == 0 \div Base = 0 /\ 0 % Base = 0
BY WireAssumption

\* The functions by which Le and Word recurse, for the widths there are.
Rests(n, w, g) ==
    g = [k \in 0 .. w |-> IF k = 0 THEN n ELSE g[k - 1] \div Base]
Froms(buf, at, w, g) ==
    g = [k \in 0 .. w |-> IF k = w THEN 0 ELSE buf[at + k + 1] + Base * g[k + 1]]

\* The digits that Le takes from a number, one after the other.
LEMMA RestsExist ==
    ASSUME NEW n \in Nat, NEW w \in 0 .. 8
    PROVE  \E g : Rests(n, w, g)
<1>. DEFINE q1 == n \div Base
            q2 == q1 \div Base
            q3 == q2 \div Base
            q4 == q3 \div Base
            q5 == q4 \div Base
            q6 == q5 \div Base
            q7 == q6 \div Base
            q8 == q7 \div Base
            g == [k \in 0 .. w |-> IF k = 0 THEN n ELSE IF k = 1 THEN q1 ELSE IF k = 2 THEN q2
                    ELSE IF k = 3 THEN q3 ELSE IF k = 4 THEN q4 ELSE IF k = 5 THEN q5
                    ELSE IF k = 6 THEN q6 ELSE IF k = 7 THEN q7 ELSE q8]
<1>1. /\ q1 = n \div Base /\ q2 = q1 \div Base /\ q3 = q2 \div Base /\ q4 = q3 \div Base
      /\ q5 = q4 \div Base /\ q6 = q5 \div Base /\ q7 = q6 \div Base /\ q8 = q7 \div Base
  OBVIOUS
<1>0. \A m \in Nat : m \div Base \in Nat
  BY Digits
<1>. HIDE DEF q1, q2, q3, q4, q5, q6, q7, q8
<1>q. /\ q1 \in Nat /\ q2 \in Nat /\ q3 \in Nat /\ q4 \in Nat
      /\ q5 \in Nat /\ q6 \in Nat /\ q7 \in Nat /\ q8 \in Nat
  BY <1>0, <1>1
<1>g. /\ g = [k \in 0 .. w |-> g[k]]
      /\ g[0] = n
      /\ 1 <= w => g[1] = q1
      /\ 2 <= w => g[2] = q2
      /\ 3 <= w => g[3] = q3
      /\ 4 <= w => g[4] = q4
      /\ 5 <= w => g[5] = q5
      /\ 6 <= w => g[6] = q6
      /\ 7 <= w => g[7] = q7
      /\ 8 <= w => g[8] = q8
  OBVIOUS
<1>. HIDE DEF g
<1>2. ASSUME NEW k \in 0 .. w
      PROVE  g[k] = IF k = 0 THEN n ELSE g[k - 1] \div Base
  <2>0. CASE k = 0
    BY <1>g, <2>0
  <2>1. CASE k = 1
    <3>. k - 1 = 0 /\ 0 <= w /\ 1 <= w
      BY <2>1
    <3>. QED  BY <1>1, <1>g, <2>1
  <2>2. CASE k = 2
    <3>. k - 1 = 1 /\ 1 <= w /\ 2 <= w
      BY <2>2
    <3>. QED  BY <1>1, <1>g, <2>2
  <2>3. CASE k = 3
    <3>. k - 1 = 2 /\ 2 <= w /\ 3 <= w
      BY <2>3
    <3>. QED  BY <1>1, <1>g, <2>3
  <2>4. CASE k = 4
    <3>. k - 1 = 3 /\ 3 <= w /\ 4 <= w
      BY <2>4
    <3>. QED  BY <1>1, <1>g, <2>4
  <2>5. CASE k = 5
    <3>. k - 1 = 4 /\ 4 <= w /\ 5 <= w
      BY <2>5
    <3>. QED  BY <1>1, <1>g, <2>5
  <2>6. CASE k = 6
    <3>. k - 1 = 5 /\ 5 <= w /\ 6 <= w
      BY <2>6
    <3>. QED  BY <1>1, <1>g, <2>6
  <2>7. CASE k = 7
    <3>. k - 1 = 6 /\ 6 <= w /\ 7 <= w
      BY <2>7
    <3>. QED  BY <1>1, <1>g, <2>7
  <2>8. CASE k = 8
    <3>. k - 1 = 7 /\ 7 <= w /\ 8 <= w
      BY <2>8
    <3>. QED  BY <1>1, <1>g, <2>8
  <2>. QED  BY <2>0, <2>1, <2>2, <2>3, <2>4, <2>5, <2>6, <2>7, <2>8
<1>3. Rests(n, w, g)
  BY <1>g, <1>2 DEF Rests
<1>. QED  BY <1>3

\* The partial words that Word builds, from the last byte to the first.
LEMMA FromsExist ==
    ASSUME NEW buf, NEW at, NEW w \in 0 .. 8
    PROVE  \E g : Froms(buf, at, w, g)
<1>. DEFINE v8 == 0
            v7 == IF 7 >= w THEN 0 ELSE buf[at + 7 + 1] + Base * v8
            v6 == IF 6 >= w THEN 0 ELSE buf[at + 6 + 1] + Base * v7
            v5 == IF 5 >= w THEN 0 ELSE buf[at + 5 + 1] + Base * v6
            v4 == IF 4 >= w THEN 0 ELSE buf[at + 4 + 1] + Base * v5
            v3 == IF 3 >= w THEN 0 ELSE buf[at + 3 + 1] + Base * v4
            v2 == IF 2 >= w THEN 0 ELSE buf[at + 2 + 1] + Base * v3
            v1 == IF 1 >= w THEN 0 ELSE buf[at + 1 + 1] + Base * v2
            v0 == IF 0 >= w THEN 0 ELSE buf[at + 0 + 1] + Base * v1
            g == [k \in 0 .. w |-> IF k = 0 THEN v0 ELSE IF k = 1 THEN v1 ELSE IF k = 2 THEN v2
                    ELSE IF k = 3 THEN v3 ELSE IF k = 4 THEN v4 ELSE IF k = 5 THEN v5
                    ELSE IF k = 6 THEN v6 ELSE IF k = 7 THEN v7 ELSE v8]
<1>1. /\ v8 = 0
      /\ v7 = IF 7 >= w THEN 0 ELSE buf[at + 7 + 1] + Base * v8
      /\ v6 = IF 6 >= w THEN 0 ELSE buf[at + 6 + 1] + Base * v7
      /\ v5 = IF 5 >= w THEN 0 ELSE buf[at + 5 + 1] + Base * v6
      /\ v4 = IF 4 >= w THEN 0 ELSE buf[at + 4 + 1] + Base * v5
      /\ v3 = IF 3 >= w THEN 0 ELSE buf[at + 3 + 1] + Base * v4
      /\ v2 = IF 2 >= w THEN 0 ELSE buf[at + 2 + 1] + Base * v3
      /\ v1 = IF 1 >= w THEN 0 ELSE buf[at + 1 + 1] + Base * v2
      /\ v0 = IF 0 >= w THEN 0 ELSE buf[at + 0 + 1] + Base * v1
  OBVIOUS
<1>. HIDE DEF v0, v1, v2, v3, v4, v5, v6, v7, v8
<1>2. ASSUME NEW k \in 0 .. w
      PROVE  g[k] = IF k = w THEN 0 ELSE buf[at + k + 1] + Base * g[k + 1]
  <2>1. CASE k = 0
    BY <1>1, <2>1
  <2>2. CASE k = 1
    BY <1>1, <2>2
  <2>3. CASE k = 2
    BY <1>1, <2>3
  <2>4. CASE k = 3
    BY <1>1, <2>4
  <2>5. CASE k = 4
    BY <1>1, <2>5
  <2>6. CASE k = 5
    BY <1>1, <2>6
  <2>7. CASE k = 6
    BY <1>1, <2>7
  <2>8. CASE k = 7
    BY <1>1, <2>8
  <2>9. CASE k = 8
    BY <1>1, <2>9
  <2>. QED  BY <2>1, <2>2, <2>3, <2>4, <2>5, <2>6, <2>7, <2>8, <2>9
<1>3. Froms(buf, at, w, g)
  BY <1>2 DEF Froms
<1>. QED  BY <1>3

\* Le takes a number apart from its last digit on, Word puts it together.
LEMMA LeDigits ==
    ASSUME NEW n \in Nat, NEW w \in 1 .. 8
    PROVE  \E g : /\ g[0] = n
                  /\ \A k \in 0 .. w : g[k] \in Nat
                  /\ \A k \in 1 .. w : g[k] = g[k - 1] \div Base
                  /\ Le(n, w) = [k \in 1 .. w |-> g[k - 1] % Base]
<1>. DEFINE g == CHOOSE g : Rests(n, w, g)
<1>1. Rests(n, w, g)
  BY RestsExist
<1>2. Le(n, w) = [k \in 1 .. w |-> g[k - 1] % Base]
  BY DEF Le, Rests
<1>. HIDE DEF g
<1>3. g[0] = n /\ \A k \in 1 .. w : g[k] = g[k - 1] \div Base
  BY <1>1 DEF Rests
<1>4. \A m \in Nat : m \div Base \in Nat
  BY Digits
<1>5. \A k \in 0 .. w : g[k] \in Nat
  BY <1>3, <1>4
<1>. QED  BY <1>2, <1>3, <1>5

\* Induction over the digits, from either end.
LEMMA CountUp ==
    ASSUME NEW w \in 1 .. 8, NEW S, 0 \in S, \A k \in 0 .. w - 1 : k \in S => k + 1 \in S
    PROVE  \A k \in 0 .. w : k \in S
<1>1. /\ 0 \in S /\ 1 \in S
      /\ 2 <= w => 2 \in S
      /\ 3 <= w => 3 \in S
      /\ 4 <= w => 4 \in S
      /\ 5 <= w => 5 \in S
      /\ 6 <= w => 6 \in S
      /\ 7 <= w => 7 \in S
      /\ 8 <= w => 8 \in S
  OBVIOUS
<1>2. \A k \in 0 .. w : k \in {0, 1, 2, 3, 4, 5, 6, 7, 8} /\ k <= w
  OBVIOUS
<1>. QED  BY <1>1, <1>2

\* ... and downwards.
LEMMA CountDown ==
    ASSUME NEW w \in 1 .. 8, NEW S, w \in S, \A k \in 0 .. w - 1 : k + 1 \in S => k \in S
    PROVE  \A k \in 0 .. w : k \in S
<1>. DEFINE T == {k \in 0 .. w : w - k \in S}
<1>1. 0 \in T
  OBVIOUS
<1>2. ASSUME NEW k \in 0 .. w - 1, k \in T PROVE k + 1 \in T
  <2>. w - (k + 1) \in 0 .. w - 1 /\ w - (k + 1) + 1 = w - k
    OBVIOUS
  <2>. QED  BY <1>2
<1>. HIDE DEF T
<1>3. \A k \in 0 .. w : k \in T
  BY <1>1, <1>2, CountUp
<1>4. ASSUME NEW k \in 0 .. w PROVE k \in S
  <2>. w - k \in 0 .. w /\ w - (w - k) = k
    OBVIOUS
  <2>. w - k \in T
    BY <1>3
  <2>. QED  BY DEF T
<1>. QED  BY <1>4

\* What Word has read from each of its bytes on.
LEMMA WordDigits ==
    ASSUME NEW buf \in Seq(Byte), NEW at \in Nat, NEW w \in 1 .. 8, Fits(buf, at, w)
    PROVE  \E g : /\ g[w] = 0 /\ g[0] = Word(buf, at, w)
                  /\ \A k \in 0 .. w : g[k] \in Nat
                  /\ \A k \in 0 .. w - 1 : g[k] = buf[at + k + 1] + Base * g[k + 1]
<1>. DEFINE g == CHOOSE g : Froms(buf, at, w, g)
<1>1. Froms(buf, at, w, g)
  BY FromsExist
<1>2. g[0] = Word(buf, at, w)
  BY DEF Word, Froms
<1>. HIDE DEF g
<1>3. g[w] = 0 /\ \A k \in 0 .. w - 1 : g[k] = buf[at + k + 1] + Base * g[k + 1]
  BY <1>1 DEF Froms
<1>4. ASSUME NEW k \in 0 .. w - 1, g[k + 1] \in Nat PROVE g[k] \in Nat
  <2>1. at + (k + 1) = at + k + 1 /\ k + 1 \in 1 .. w
    OBVIOUS
  <2>2. buf[at + k + 1] \in Byte
    BY <2>1 DEF Fits
  <2>. QED  BY <1>3, <1>4, <2>2, LastDigit
<1>5. g[w] \in Nat
  BY <1>3
<1>6. \A k \in 0 .. w : g[k] \in Nat
  <2>. DEFINE S == {m \in 0 .. w : g[m] \in Nat}
  <2>1. w \in S /\ \A k \in 0 .. w - 1 : k + 1 \in S => k \in S
    BY <1>4, <1>5
  <2>. HIDE DEF S
  <2>2. \A k \in 0 .. w : k \in S
    BY <2>1, CountDown
  <2>. QED  BY <2>2 DEF S
<1>. QED  BY <1>2, <1>3, <1>6

\* A word is as many bytes as it is wide.
LEMMA LeBytes ==
    ASSUME NEW n \in Nat, NEW w \in 1 .. 8
    PROVE  Le(n, w) \in Seq(Byte) /\ Len(Le(n, w)) = w
<1>1. PICK g : /\ \A k \in 0 .. w : g[k] \in Nat
               /\ Le(n, w) = [k \in 1 .. w |-> g[k - 1] % Base]
  BY LeDigits
<1>2. \A k \in 1 .. w : k - 1 \in 0 .. w
  OBVIOUS
<1>3. \A k \in 1 .. w : g[k - 1] % Base \in Byte
  BY <1>1, <1>2, Digits
<1>4. Le(n, w) \in [1 .. w -> Byte]
  BY <1>1, <1>3
<1>. QED  BY <1>4, FunctionIsSeq

-----------------------------------------------------------------------------
(* What lies where *)

\* The bytes s lie in buf from a position on.
At(buf, at, s) == Fits(buf, at, Len(s)) /\ \A k \in 1 .. Len(s) : buf[at + k] = s[k]

\* A sequence starts with itself, and is the one of its length that does.
LEMMA AtStart == ASSUME NEW S, NEW s \in Seq(S) PROVE At(s, 0, s)
BY DEF At, Fits

LEMMA AtAll ==
    ASSUME NEW S, NEW s \in Seq(S), NEW buf \in Seq(S), Len(buf) = Len(s), At(buf, 0, s)
    PROVE  buf = s
BY DEF At

\* Two parts are at a position if the second is where the first ends.
LEMMA AtConcat ==
    ASSUME NEW S, NEW buf \in Seq(S), NEW at \in Nat, NEW s \in Seq(S), NEW t \in Seq(S)
    PROVE  At(buf, at, s \o t) <=> At(buf, at, s) /\ At(buf, at + Len(s), t)
<1>. DEFINE u == s \o t
<1>1. /\ Len(s) \in Nat /\ Len(t) \in Nat /\ Len(u) = Len(s) + Len(t)
      /\ \A k \in 1 .. Len(s) : u[k] = s[k]
      /\ \A k \in 1 .. Len(t) : u[Len(s) + k] = t[k]
  BY ConcatElements
<1>. HIDE DEF u
<1>2. At(buf, at, s) /\ At(buf, at + Len(s), t) => At(buf, at, u)
  <2>. SUFFICES ASSUME At(buf, at, s), At(buf, at + Len(s), t) PROVE At(buf, at, u)
    OBVIOUS
  <2>1. Fits(buf, at, Len(u))
    BY <1>1 DEF At, Fits
  <2>2. ASSUME NEW k \in 1 .. Len(u) PROVE buf[at + k] = u[k]
    <3>1. CASE k <= Len(s)
      BY <1>1, <3>1 DEF At
    <3>2. CASE ~(k <= Len(s))
      <4>. DEFINE j == k - Len(s)
      <4>1. j \in 1 .. Len(t) /\ Len(s) + j = k /\ at + Len(s) + j = at + k
        BY <1>1, <3>2
      <4>. HIDE DEF j
      <4>. QED  BY <1>1, <4>1 DEF At
    <3>. QED  BY <3>1, <3>2
  <2>. QED  BY <2>1, <2>2 DEF At
<1>3. At(buf, at, u) => At(buf, at, s) /\ At(buf, at + Len(s), t)
  <2>. SUFFICES ASSUME At(buf, at, u) PROVE At(buf, at, s) /\ At(buf, at + Len(s), t)
    OBVIOUS
  <2>1. At(buf, at, s)
    BY <1>1 DEF At, Fits
  <2>2. ASSUME NEW k \in 1 .. Len(t) PROVE buf[at + Len(s) + k] = t[k]
    <3>1. Len(s) + k \in 1 .. Len(u) /\ at + (Len(s) + k) = at + Len(s) + k
      BY <1>1
    <3>. QED  BY <1>1, <3>1 DEF At
  <2>3. Fits(buf, at + Len(s), Len(t))
    BY <1>1 DEF At, Fits
  <2>. QED  BY <2>1, <2>2, <2>3 DEF At
<1>. QED  BY <1>2, <1>3 DEF u

\* The w bytes at a position are those Le makes of their Word.
LEMMA LeOfWord ==
    ASSUME NEW buf \in Seq(Byte), NEW at \in Nat, NEW w \in 1 .. 8, Fits(buf, at, w)
    PROVE  Word(buf, at, w) \in Nat /\ At(buf, at, Le(Word(buf, at, w), w))
<1>1. \A k \in 1 .. w : buf[at + k] \in Byte
  BY DEF Fits
<1>2. PICK g : /\ g[w] = 0 /\ g[0] = Word(buf, at, w)
               /\ \A k \in 0 .. w : g[k] \in Nat
               /\ \A k \in 0 .. w - 1 : g[k] = buf[at + k + 1] + Base * g[k + 1]
  BY WordDigits
<1>. DEFINE n == Word(buf, at, w)
<1>3. n \in Nat /\ g[0] = n
  BY <1>2
<1>. HIDE DEF n
<1>4. PICK h : /\ h[0] = n
               /\ \A k \in 1 .. w : h[k] = h[k - 1] \div Base
               /\ Le(n, w) = [k \in 1 .. w |-> h[k - 1] % Base]
  BY <1>3, LeDigits, ZenonT(60)
<1>5. ASSUME NEW k \in 1 .. w
      PROVE  g[k - 1] % Base = buf[at + k] /\ g[k - 1] \div Base = g[k]
  <2>1. k - 1 \in 0 .. w - 1 /\ k \in 0 .. w /\ at + (k - 1) + 1 = at + k /\ (k - 1) + 1 = k
    OBVIOUS
  <2>2. g[k - 1] = buf[at + k] + Base * g[k] /\ g[k] \in Nat
    BY <1>2, <2>1
  <2>3. PICK d \in Byte, m \in Nat : g[k - 1] = d + Base * m /\ d = buf[at + k] /\ m = g[k]
    BY <1>1, <2>2
  <2>. QED  BY <2>3, LastDigit
<1>6. ASSUME NEW k \in 0 .. w - 1, h[k] = g[k] PROVE h[k + 1] = g[k + 1]
  <2>. k + 1 \in 1 .. w /\ (k + 1) - 1 = k
    OBVIOUS
  <2>. QED  BY <1>4, <1>5, <1>6
<1>7. \A k \in 0 .. w : h[k] = g[k]
  <2>. DEFINE S == {m \in 0 .. w : h[m] = g[m]}
  <2>1. 0 \in S /\ \A k \in 0 .. w - 1 : k \in S => k + 1 \in S
    BY <1>3, <1>4, <1>6
  <2>. HIDE DEF S
  <2>2. \A k \in 0 .. w : k \in S
    BY <2>1, CountUp
  <2>. QED  BY <2>2 DEF S
<1>10. \A k \in 1 .. w : h[k - 1] = g[k - 1]
  <2>. \A k \in 1 .. w : k - 1 \in 0 .. w
    OBVIOUS
  <2>. QED  BY <1>7
<1>11. ASSUME NEW k \in 1 .. w PROVE buf[at + k] = Le(n, w)[k]
  BY <1>4, <1>5, <1>10
<1>12. Len(Le(n, w)) = w
  BY <1>3, LeBytes
<1>. QED  BY <1>3, <1>11, <1>12 DEF At, n

\* A number of a protocol fits into four bytes if it is less than
Limit == Base * (Base * (Base * Base))

\* A number that fits is the Word of the bytes Le makes of it.
LEMMA WordOfLe ==
    ASSUME NEW buf \in Seq(Byte), NEW at \in Nat, NEW w \in 4 .. 8,
           NEW n \in Nat, n < Limit, At(buf, at, Le(n, w))
    PROVE  Word(buf, at, w) = n
<1>0. w \in 1 .. 8
  OBVIOUS
<1>a. Len(Le(n, w)) = w
  BY <1>0, LeBytes
<1>1. Fits(buf, at, w) /\ \A k \in 1 .. w : buf[at + k] = Le(n, w)[k]
  BY <1>a DEF At
<1>2. PICK g : /\ g[w] = 0 /\ g[0] = Word(buf, at, w)
               /\ \A k \in 0 .. w : g[k] \in Nat
               /\ \A k \in 0 .. w - 1 : g[k] = buf[at + k + 1] + Base * g[k + 1]
  BY <1>0, <1>1, WordDigits
<1>3. PICK h : /\ h[0] = n
               /\ \A k \in 0 .. w : h[k] \in Nat
               /\ \A k \in 1 .. w : h[k] = h[k - 1] \div Base
               /\ Le(n, w) = [k \in 1 .. w |-> h[k - 1] % Base]
  BY <1>0, LeDigits
<1>4. ASSUME NEW k \in 0 .. w - 1
      PROVE  h[k + 1] = h[k] \div Base /\ h[k] = buf[at + k + 1] + Base * h[k + 1]
  <2>1. k + 1 \in 1 .. w /\ (k + 1) - 1 = k /\ k \in 0 .. w /\ at + (k + 1) = at + k + 1
    OBVIOUS
  <2>2. h[k + 1] = h[k] \div Base /\ h[k] \in Nat
    BY <1>3, <2>1
  <2>3. Le(n, w)[k + 1] = h[k] % Base
    BY <1>3, <2>1
  <2>4. buf[at + k + 1] = h[k] % Base
    BY <1>1, <2>1, <2>3
  <2>5. h[k] = (h[k] % Base) + Base * (h[k] \div Base)
    BY <2>2, Digits
  <2>. QED  BY <2>2, <2>4, <2>5
<1>5. h[4] = 0
  <2>0. /\ h[0] \in Nat /\ h[1] \in Nat /\ h[2] \in Nat /\ h[3] \in Nat /\ h[4] \in Nat
        /\ h[1] = h[0] \div Base /\ h[2] = h[1] \div Base
        /\ h[3] = h[2] \div Base /\ h[4] = h[3] \div Base
    <3>1. \A k \in {0, 1, 2, 3} : h[k + 1] = h[k] \div Base
      BY <1>4
    <3>2. \A k \in {0, 1, 2, 3, 4} : h[k] \in Nat
      BY <1>3
    <3>. QED  BY <3>1, <3>2
  <2>. DEFINE b2 == Base * Base
              b3 == Base * b2
  <2>b. /\ b2 \in Nat /\ b3 \in Nat /\ Base \in Nat /\ h[0] < Base * b3
        /\ b3 = Base * b2 /\ b2 = Base * Base /\ Base = Base * 1
    BY <1>3, WireAssumption DEF Limit
  <2>. HIDE DEF b2, b3
  <2>1. h[1] < b3
    BY <2>0, <2>b, FewerDigits
  <2>2. h[2] < b2
    BY <2>0, <2>1, <2>b, FewerDigits
  <2>3. h[3] < Base
    BY <2>0, <2>2, <2>b, FewerDigits
  <2>4. h[4] < 1
    BY <2>0, <2>3, <2>b, FewerDigits
  <2>. QED  BY <2>0, <2>4
<1>6. h[w] = 0
  <2>. DEFINE S == {k \in 0 .. w : k >= 4 => h[k] = 0}
  <2>1. 0 \in S
    OBVIOUS
  <2>2. ASSUME NEW k \in 0 .. w - 1, k \in S PROVE k + 1 \in S
    <3>1. CASE k < 4
      BY <1>5, <3>1
    <3>2. CASE k >= 4
      <4>. h[k] = 0 /\ h[k + 1] = h[k] \div Base
        BY <1>4, <2>2, <3>2
      <4>. QED  BY ZeroDigits
    <3>. QED  BY <3>1, <3>2
  <2>. HIDE DEF S
  <2>3. \A k \in 0 .. w : k \in S
    BY <1>0, <2>1, <2>2, CountUp
  <2>. QED  BY <2>3 DEF S
<1>7. \A k \in 0 .. w : g[k] = h[k]
  <2>. DEFINE S == {m \in 0 .. w : g[m] = h[m]}
  <2>1. ASSUME NEW k \in 0 .. w - 1, g[k + 1] = h[k + 1] PROVE g[k] = h[k]
    BY <1>2, <1>4, <2>1
  <2>2. w \in S /\ \A k \in 0 .. w - 1 : k + 1 \in S => k \in S
    BY <1>2, <1>6, <2>1
  <2>. HIDE DEF S
  <2>3. \A k \in 0 .. w : k \in S
    BY <1>0, <2>2, CountDown
  <2>. QED  BY <2>3 DEF S
<1>. QED  BY <1>2, <1>3, <1>7

\* A Word is a matter of its bytes.
LEMMA WordAgrees ==
    ASSUME NEW buf \in Seq(Byte), NEW other \in Seq(Byte), NEW at \in Nat, NEW w \in 1 .. 8,
           Fits(buf, at, w), Fits(other, at, w), \A k \in 1 .. w : buf[at + k] = other[at + k]
    PROVE  Word(buf, at, w) = Word(other, at, w)
<1>1. PICK g : /\ g[w] = 0 /\ g[0] = Word(buf, at, w)
               /\ \A k \in 0 .. w : g[k] \in Nat
               /\ \A k \in 0 .. w - 1 : g[k] = buf[at + k + 1] + Base * g[k + 1]
  BY WordDigits
<1>2. PICK h : /\ h[w] = 0 /\ h[0] = Word(other, at, w)
               /\ \A k \in 0 .. w : h[k] \in Nat
               /\ \A k \in 0 .. w - 1 : h[k] = other[at + k + 1] + Base * h[k + 1]
  BY WordDigits
<1>3. ASSUME NEW k \in 0 .. w - 1 PROVE buf[at + k + 1] = other[at + k + 1]
  <2>. k + 1 \in 1 .. w /\ at + (k + 1) = at + k + 1
    OBVIOUS
  <2>. QED  OBVIOUS
<1>4. ASSUME NEW k \in 0 .. w - 1, g[k + 1] = h[k + 1] PROVE g[k] = h[k]
  BY <1>1, <1>2, <1>3, <1>4
<1>5. \A k \in 0 .. w : g[k] = h[k]
  <2>. DEFINE S == {m \in 0 .. w : g[m] = h[m]}
  <2>1. w \in S /\ \A k \in 0 .. w - 1 : k + 1 \in S => k \in S
    BY <1>1, <1>2, <1>4
  <2>. HIDE DEF S
  <2>2. \A k \in 0 .. w : k \in S
    BY <2>1, CountDown
  <2>. QED  BY <2>2 DEF S
<1>. QED  BY <1>1, <1>2, <1>5

-----------------------------------------------------------------------------
(* Strings of bytes and where they lie *)

\* Names that let the provers see where a fact applies.
Cat(s, t) == s \o t
IsBytes(s, n) == s \in Seq(Byte) /\ Len(s) = n

\* Lengths add up, and so do positions.
LEMMA CatBytes ==
    ASSUME NEW m \in Nat, NEW n \in Nat, NEW s, NEW t, IsBytes(s, m), IsBytes(t, n)
    PROVE  IsBytes(Cat(s, t), m + n)
BY DEF Cat, IsBytes

LEMMA CatAt ==
    ASSUME NEW m \in Nat, NEW n \in Nat, NEW s, NEW t, IsBytes(s, m), IsBytes(t, n),
           NEW buf \in Seq(Byte), NEW at \in Nat
    PROVE  At(buf, at, Cat(s, t)) <=> At(buf, at, s) /\ At(buf, at + m, t)
BY AtConcat DEF Cat, IsBytes

LEMMA LeWidths ==
    ASSUME NEW n \in Nat
    PROVE  /\ IsBytes(Le(n, 1), 1) /\ IsBytes(Le(n, U16), 2)
           /\ IsBytes(Le(n, U32), 4) /\ IsBytes(Le(n, U64), 8)
<1>. \A w \in 1 .. 8 : IsBytes(Le(n, w), w)
  BY LeBytes DEF IsBytes
<1>. QED  BY DEF U16, U32, U64

LEMMA OneByte == ASSUME NEW b \in Byte PROVE IsBytes(<<b>>, 1)
BY DEF IsBytes

-----------------------------------------------------------------------------
(* Frames *)

Options(S) == {None} \cup {Some(v) : v \in S}
ChunkHeads == [id : Nat, offset : Nat, total : Nat, count : Nat]
ReliableFrames ==
    [kind : {RELIABLE}, payload : {p \in Payloads : Len(p) <= ChunkSize}, seq : Nat,
     resend : Nat, sentAt : Nat, ordered : Options(Nat), chunk : Options(ChunkHeads)]

OrderedPart(o) == OptionOf(IF o = None THEN None ELSE Some(OrderedBytes(o[1])))
ChunkPart(ch) == OptionOf(IF ch = None THEN None ELSE Some(ChunkBytes(ch[1])))

LEMMA Tags == 0 \in Byte /\ 1 \in Byte
BY WireAssumption DEF Byte

\* An option that is not None has its one value.
LEMMA OptionCases ==
    ASSUME NEW S, NEW o \in Options(S)
    PROVE  o # None => o[1] \in S /\ o = Some(o[1])
BY DEF Options, Some

OrderedLen(o) == IF o = None THEN 1 ELSE 5
ChunkLen(ch) == IF ch = None THEN 1 ELSE 15

\* The two options of a frame: a tag, and the bytes behind it if it is 1.
LEMMA OrderedPartBytes ==
    ASSUME NEW o \in Options(Nat)
    PROVE  /\ IsBytes(OrderedPart(o), OrderedLen(o))
           /\ o = None => OrderedPart(o) = <<0>>
           /\ o # None => OrderedPart(o) = Cat(<<1>>, Le(o[1], U32))
<1>1. CASE o = None
  <2>. OrderedPart(o) = <<0>>
    BY <1>1 DEF OrderedPart, OptionOf, None
  <2>. QED  BY <1>1, Tags, OneByte DEF OrderedLen
<1>2. CASE o # None
  <2>1. OrderedPart(o) = Cat(<<1>>, Le(o[1], U32))
    BY <1>2 DEF OrderedPart, OptionOf, None, Some, OrderedBytes, Cat
  <2>2. IsBytes(Le(o[1], U32), 4) /\ IsBytes(<<1>>, 1)
    BY <1>2, OptionCases, LeWidths, Tags, OneByte
  <2>. QED  BY <1>2, <2>1, <2>2, CatBytes DEF OrderedLen
<1>. QED  BY <1>1, <1>2

LEMMA ChunkBytesAt ==
    ASSUME NEW ch \in ChunkHeads
    PROVE  /\ IsBytes(ChunkBytes(ch), 14)
           /\ \A buf \in Seq(Byte), at \in Nat :
                At(buf, at, ChunkBytes(ch)) <=>
                    /\ At(buf, at, Le(ch.id, U32)) /\ At(buf, at + 4, Le(ch.offset, U32))
                    /\ At(buf, at + 8, Le(ch.total, U32)) /\ At(buf, at + 12, Le(ch.count, U16))
<1>. DEFINE a == Le(ch.id, U32)
            b == Le(ch.offset, U32)
            c == Le(ch.total, U32)
            d == Le(ch.count, U16)
            ab == Cat(a, b)
            abc == Cat(ab, c)
            all == Cat(abc, d)
<1>1. IsBytes(a, 4) /\ IsBytes(b, 4) /\ IsBytes(c, 4) /\ IsBytes(d, 2)
  BY LeWidths DEF ChunkHeads
<1>2. ChunkBytes(ch) = all
  BY DEF ChunkBytes, Cat
<1>. HIDE DEF a, b, c, d
<1>3. IsBytes(ab, 8) /\ IsBytes(abc, 12) /\ IsBytes(all, 14)
  BY <1>1, CatBytes
<1>4. ASSUME NEW buf \in Seq(Byte), NEW at \in Nat
      PROVE  At(buf, at, all) <=> /\ At(buf, at, a) /\ At(buf, at + 4, b)
                                  /\ At(buf, at + 8, c) /\ At(buf, at + 12, d)
  <2>1. At(buf, at, ab) <=> At(buf, at, a) /\ At(buf, at + 4, b)
    BY <1>1, CatAt
  <2>. HIDE DEF ab
  <2>2. At(buf, at, abc) <=> At(buf, at, ab) /\ At(buf, at + 8, c)
    BY <1>1, <1>3, CatAt
  <2>. HIDE DEF abc
  <2>3. At(buf, at, all) <=> At(buf, at, abc) /\ At(buf, at + 12, d)
    BY <1>1, <1>3, CatAt
  <2>. QED  BY <2>1, <2>2, <2>3
<1>. HIDE DEF all
<1>. QED  BY <1>2, <1>3, <1>4 DEF a, b, c, d

LEMMA ChunkPartBytes ==
    ASSUME NEW o \in Options(ChunkHeads)
    PROVE  /\ IsBytes(ChunkPart(o), ChunkLen(o))
           /\ o = None => ChunkPart(o) = <<0>>
           /\ o # None => ChunkPart(o) = Cat(<<1>>, ChunkBytes(o[1]))
<1>1. CASE o = None
  <2>. ChunkPart(o) = <<0>>
    BY <1>1 DEF ChunkPart, OptionOf, None
  <2>. QED  BY <1>1, Tags, OneByte DEF ChunkLen
<1>2. CASE o # None
  <2>1. ChunkPart(o) = Cat(<<1>>, ChunkBytes(o[1]))
    BY <1>2 DEF ChunkPart, OptionOf, None, Some, Cat
  <2>2. IsBytes(ChunkBytes(o[1]), 14) /\ IsBytes(<<1>>, 1)
    BY <1>2, OptionCases, ChunkBytesAt, Tags, OneByte
  <2>. QED  BY <1>2, <2>1, <2>2, CatBytes DEF ChunkLen
<1>. QED  BY <1>1, <1>2

\* The fields of a reliable frame lie one after the other.
FieldsAt(buf, f) ==
    LET n == Len(f.payload)
    IN  /\ At(buf, 0, <<RELIABLE>>) /\ At(buf, 1, Le(n, U64))
        /\ At(buf, 9, f.payload) /\ At(buf, 9 + n, Le(f.seq, U32))
        /\ At(buf, 13 + n, Le(f.resend, 1)) /\ At(buf, 14 + n, Le(f.sentAt, U64))
        /\ At(buf, 22 + n, OrderedPart(f.ordered))
        /\ At(buf, 22 + n + OrderedLen(f.ordered), ChunkPart(f.chunk))
FrameLen(f) == 22 + Len(f.payload) + OrderedLen(f.ordered) + ChunkLen(f.chunk)

\* A frame is encoded in its fields, each where the one before ends.
LEMMA ReliableAt ==
    ASSUME NEW f \in ReliableFrames
    PROVE  /\ IsBytes(Encode(f), FrameLen(f))
           /\ \A buf \in Seq(Byte) : At(buf, 0, Encode(f)) <=> FieldsAt(buf, f)
<1>. DEFINE n == Len(f.payload)
            ol == OrderedLen(f.ordered)
            cl == ChunkLen(f.chunk)
            k == <<RELIABLE>>
            l == Le(n, U64)
            p == f.payload
            s == Le(f.seq, U32)
            r == Le(f.resend, 1)
            t == Le(f.sentAt, U64)
            o == OrderedPart(f.ordered)
            c == ChunkPart(f.chunk)
            s1 == Cat(l, p)
            s2 == Cat(s1, s)
            s3 == Cat(s2, r)
            s4 == Cat(s3, t)
            s5 == Cat(s4, o)
            s6 == Cat(s5, c)
            all == Cat(k, s6)
<1>1. /\ f.kind = RELIABLE /\ p \in Seq(Byte) /\ n \in Nat
      /\ f.seq \in Nat /\ f.resend \in Nat /\ f.sentAt \in Nat
      /\ f.ordered \in Options(Nat) /\ f.chunk \in Options(ChunkHeads)
  BY DEF ReliableFrames, Payloads
<1>2. Encode(f) = all
  BY <1>1 DEF Encode, RELIABLE, UNRELIABLE, OrderedPart, ChunkPart, Cat
<1>3. /\ IsBytes(k, 1) /\ IsBytes(l, 8) /\ IsBytes(p, n) /\ IsBytes(s, 4)
      /\ IsBytes(r, 1) /\ IsBytes(t, 8) /\ IsBytes(o, ol) /\ IsBytes(c, cl)
  <2>1. IsBytes(k, 1)
    BY Tags, OneByte DEF RELIABLE
  <2>2. IsBytes(p, n)
    BY <1>1 DEF IsBytes
  <2>. QED  BY <1>1, <2>1, <2>2, OrderedPartBytes, ChunkPartBytes, LeWidths
<1>4. ol \in Nat /\ cl \in Nat
  BY DEF OrderedLen, ChunkLen
<1>. HIDE DEF n, k, l, p, s, r, t, o, c, ol, cl
<1>5. /\ IsBytes(s1, 8 + n) /\ IsBytes(s2, 12 + n) /\ IsBytes(s3, 13 + n)
      /\ IsBytes(s4, 21 + n) /\ IsBytes(s5, 21 + n + ol) /\ IsBytes(s6, 21 + n + ol + cl)
  <2>1. IsBytes(s1, 8 + n)
    BY <1>1, <1>3, CatBytes
  <2>. HIDE DEF s1
  <2>2. IsBytes(s2, 12 + n)
    BY <1>1, <1>3, <2>1, CatBytes
  <2>. HIDE DEF s2
  <2>3. IsBytes(s3, 13 + n)
    BY <1>1, <1>3, <2>2, CatBytes
  <2>. HIDE DEF s3
  <2>4. IsBytes(s4, 21 + n)
    BY <1>1, <1>3, <2>3, CatBytes
  <2>. HIDE DEF s4
  <2>5. IsBytes(s5, 21 + n + ol)
    BY <1>1, <1>3, <1>4, <2>4, CatBytes
  <2>. HIDE DEF s5
  <2>6. IsBytes(s6, 21 + n + ol + cl)
    BY <1>1, <1>3, <1>4, <2>5, CatBytes
  <2>. QED  BY <2>1, <2>2, <2>3, <2>4, <2>5, <2>6
<1>6. IsBytes(all, 22 + n + ol + cl)
  <2>. HIDE DEF s6
  <2>. DEFINE m == 21 + n + ol + cl
  <2>1. m \in Nat /\ 1 + m = 22 + n + ol + cl
    BY <1>1, <1>4
  <2>2. IsBytes(all, 1 + m)
    <3>. HIDE DEF m
    <3>1. IsBytes(s6, m)
      BY <1>5 DEF m
    <3>. QED  BY <1>3, <2>1, <3>1, CatBytes
  <2>. QED  BY <2>1, <2>2
<1>7. ASSUME NEW buf \in Seq(Byte)
      PROVE  At(buf, 0, all) <=>
                /\ At(buf, 0, k) /\ At(buf, 1, l) /\ At(buf, 9, p) /\ At(buf, 9 + n, s)
                /\ At(buf, 13 + n, r) /\ At(buf, 14 + n, t)
                /\ At(buf, 22 + n, o) /\ At(buf, 22 + n + ol, c)
  <2>1. At(buf, 1, s1) <=> At(buf, 1, l) /\ At(buf, 9, p)
    <3>. At(buf, 1, s1) <=> At(buf, 1, l) /\ At(buf, 1 + 8, p)
      BY <1>1, <1>3, CatAt
    <3>. QED  OBVIOUS
  <2>. HIDE DEF s1
  <2>2. At(buf, 1, s2) <=> At(buf, 1, s1) /\ At(buf, 9 + n, s)
    BY <1>1, <1>3, <1>5, CatAt
  <2>. HIDE DEF s2
  <2>3. At(buf, 1, s3) <=> At(buf, 1, s2) /\ At(buf, 13 + n, r)
    BY <1>1, <1>3, <1>5, CatAt
  <2>. HIDE DEF s3
  <2>4. At(buf, 1, s4) <=> At(buf, 1, s3) /\ At(buf, 14 + n, t)
    BY <1>1, <1>3, <1>5, CatAt
  <2>. HIDE DEF s4
  <2>5. At(buf, 1, s5) <=> At(buf, 1, s4) /\ At(buf, 22 + n, o)
    BY <1>1, <1>3, <1>4, <1>5, CatAt, SMTT(40)
  <2>. HIDE DEF s5
  <2>6. At(buf, 1, s6) <=> At(buf, 1, s5) /\ At(buf, 22 + n + ol, c)
    <3>. DEFINE m == 21 + n + ol
    <3>1. m \in Nat /\ 1 + m = 22 + n + ol /\ IsBytes(s5, m)
      <4>1. IsBytes(s5, m)
        BY <1>5, Zenon
      <4>. QED  BY <1>1, <1>4, <4>1
    <3>. HIDE DEF m
    <3>2. At(buf, 1, s6) <=> At(buf, 1, s5) /\ At(buf, 1 + m, c)
      BY <1>3, <1>4, <3>1, CatAt
    <3>. QED  BY <3>1, <3>2
  <2>. HIDE DEF s6
  <2>7. At(buf, 0, all) <=> At(buf, 0, k) /\ At(buf, 1, s6)
    BY <1>1, <1>3, <1>4, <1>5, CatAt, SMTT(40)
  <2>. QED  BY <2>1, <2>2, <2>3, <2>4, <2>5, <2>6, <2>7
<1>. HIDE DEF all
<1>. QED  BY <1>2, <1>6, <1>7 DEF n, k, l, p, s, r, t, o, c, ol, cl, FieldsAt, FrameLen

-----------------------------------------------------------------------------
(* Parsing *)

\* Where ParseReliable finds the fields, what it requires, and what it reads.
SeqAt(buf) == 1 + U64 + Word(buf, 1, U64)
OrderedAt(buf) == SeqAt(buf) + U32 + 1 + U64
ChunkAt(buf) == OrderedAt(buf) + 1 + IF Tagged(buf, OrderedAt(buf)) THEN U32 ELSE 0
EndAt(buf) == ChunkAt(buf) + 1 + IF Tagged(buf, ChunkAt(buf)) THEN 3 * U32 + U16 ELSE 0

Accepts(buf) ==
    /\ Fits(buf, 1, U64) /\ Word(buf, 1, U64) <= Len(buf) - (1 + U64)
    /\ Fits(buf, SeqAt(buf), U32 + 1 + U64)
    /\ IsTag(buf, OrderedAt(buf))
    /\ Tagged(buf, OrderedAt(buf)) => Fits(buf, OrderedAt(buf) + 1, U32)
    /\ IsTag(buf, ChunkAt(buf))
    /\ Tagged(buf, ChunkAt(buf)) => Fits(buf, ChunkAt(buf) + 1, 3 * U32 + U16)

ReadOrdered(buf) ==
    IF Tagged(buf, OrderedAt(buf)) THEN Some(Word(buf, OrderedAt(buf) + 1, U32)) ELSE None
ReadChunk(buf) ==
    LET id == ChunkAt(buf) + 1
    IN  IF Tagged(buf, ChunkAt(buf))
        THEN Some([id |-> Word(buf, id, U32), offset |-> Word(buf, id + U32, U32),
                   total |-> Word(buf, id + 2 * U32, U32), count |-> Word(buf, id + 3 * U32, U16)])
        ELSE None
ReadFrame(buf) ==
    Reliable(SubSeq(buf, 2 + U64, SeqAt(buf)), Word(buf, SeqAt(buf), U32),
             buf[SeqAt(buf) + U32 + 1], Word(buf, SeqAt(buf) + U32 + 1, U64),
             ReadOrdered(buf), ReadChunk(buf))

\* parse on a reliable frame: it tests, and then it reads.
LEMMA ParseReads ==
    ASSUME NEW buf \in Seq(Byte), buf # <<>>, buf[1] = RELIABLE
    PROVE  Parse(buf) = IF Accepts(buf) THEN ReadFrame(buf) ELSE Rejected
<1>1. Parse(buf) = ParseReliable(buf)
  BY DEF Parse, RELIABLE, UNRELIABLE, GREETING
<1>. QED
  BY <1>1 DEF ParseReliable, Accepts, ReadFrame, ReadOrdered, ReadChunk, SeqAt, OrderedAt, ChunkAt

\* An unreliable frame is its payload behind a tag.
LEMMA ParseUnreliable ==
    ASSUME NEW payload \in Payloads
    PROVE  /\ Encode(Unreliable(payload)) \in Seq(Byte)
           /\ Parse(Encode(Unreliable(payload))) = Unreliable(payload)
<1>. DEFINE b == <<UNRELIABLE>> \o payload
<1>1. Encode(Unreliable(payload)) = b
  BY DEF Encode, Unreliable, UNRELIABLE
<1>2. <<UNRELIABLE>> \in Seq(Byte) /\ payload \in Seq(Byte)
  BY Tags DEF UNRELIABLE, Payloads
<1>3. b \in Seq(Byte) /\ b # <<>> /\ b[1] = UNRELIABLE /\ Tail(b) = payload
  BY <1>2
<1>4. Parse(b) = Unreliable(payload)
  <2>. HIDE DEF b
  <2>. ~(b = <<>> \/ b[1] > GREETING) /\ b[1] = UNRELIABLE /\ Tail(b) = payload
    BY <1>3 DEF UNRELIABLE, GREETING
  <2>. QED  BY DEF Parse
<1>. QED  BY <1>1, <1>3, <1>4

\* A reliable datagram, with nothing after its fields.
Shape(buf) ==
    /\ buf \in Seq(Byte) /\ buf # <<>> /\ buf[1] = RELIABLE
    /\ Accepts(buf) /\ Len(buf) = EndAt(buf) /\ Word(buf, 1, U64) <= ChunkSize

\* A datagram is far smaller than what four bytes count.
LEMMA SmallSizes == ChunkSize \in Nat /\ ChunkSize < Limit /\ Limit \in Nat /\ Limit > 256
<1>. DEFINE b2 == Base * Base
            b3 == Base * b2
<1>1. b2 \in Nat /\ b2 >= 25 /\ ChunkSize \in Nat /\ ChunkSize < b2
  BY WireAssumption
<1>. HIDE DEF b2
<1>2. b3 \in Nat /\ b3 >= 5 * b2
  BY <1>1, WireAssumption
<1>. HIDE DEF b3
<1>3. Base * b3 \in Nat /\ Base * b3 >= 5 * b3
  BY <1>2, WireAssumption
<1>. QED  BY <1>1, <1>2, <1>3 DEF Limit, b2, b3

\* What Encode makes is such a datagram, and the fields are where Parse looks.
LEMMA EncodedShape ==
    ASSUME NEW f \in ReliableFrames
    PROVE  LET e == Encode(f)
               n == Len(f.payload)
           IN  /\ Shape(e) /\ FieldsAt(e, f) /\ Word(e, 1, U64) = n
               /\ SeqAt(e) = 9 + n /\ OrderedAt(e) = 22 + n
               /\ ChunkAt(e) = 22 + n + OrderedLen(f.ordered)
               /\ Tagged(e, OrderedAt(e)) <=> f.ordered # None
               /\ Tagged(e, ChunkAt(e)) <=> f.chunk # None
<1>. DEFINE e == Encode(f)
            n == Len(f.payload)
            ol == OrderedLen(f.ordered)
            cl == ChunkLen(f.chunk)
<1>1. /\ n \in Nat /\ n <= ChunkSize
      /\ f.ordered \in Options(Nat) /\ f.chunk \in Options(ChunkHeads)
  BY DEF ReliableFrames, Payloads
<1>2. e \in Seq(Byte) /\ Len(e) = 22 + n + ol + cl /\ FieldsAt(e, f)
  BY ReliableAt, AtStart DEF IsBytes, FrameLen
<1>3. At(e, 0, <<RELIABLE>>) /\ At(e, 1, Le(n, U64))
      /\ At(e, 22 + n, OrderedPart(f.ordered)) /\ At(e, 22 + n + ol, ChunkPart(f.chunk))
  BY <1>2 DEF FieldsAt
<1>4. ol \in {1, 5} /\ cl \in {1, 15} /\ (ol = 1 <=> f.ordered = None) /\ (cl = 1 <=> f.chunk = None)
  BY DEF OrderedLen, ChunkLen
<1>. HIDE DEF e, n, ol, cl
<1>5. Word(e, 1, U64) = n
  <2>. n < Limit
    BY <1>1, SmallSizes
  <2>. QED  BY <1>1, <1>2, <1>3, WordOfLe DEF U64
<1>6. e # <<>> /\ e[1] = RELIABLE
  BY <1>1, <1>2, <1>3, <1>4 DEF At
<1>7. \A buf \in Seq(Byte), at \in Nat, b \in Byte, s \in Seq(Byte) :
        /\ At(buf, at, <<b>>) => buf[at + 1] = b
        /\ At(buf, at, Cat(<<b>>, s)) => buf[at + 1] = b
  <2>1. \A buf \in Seq(Byte), at \in Nat, b \in Byte : At(buf, at, <<b>>) => buf[at + 1] = b
    BY DEF At
  <2>2. ASSUME NEW buf \in Seq(Byte), NEW at \in Nat, NEW b \in Byte, NEW s \in Seq(Byte),
               At(buf, at, Cat(<<b>>, s))
        PROVE  buf[at + 1] = b
    <3>. IsBytes(<<b>>, 1) /\ IsBytes(s, Len(s)) /\ Len(s) \in Nat
      BY OneByte DEF IsBytes
    <3>. At(buf, at, <<b>>)
      BY <2>2, CatAt
    <3>. QED  BY <2>1
  <2>. QED  BY <2>1, <2>2
<1>8. e[22 + n + 1] = IF f.ordered = None THEN 0 ELSE 1
  <2>1. CASE f.ordered = None
    BY <1>1, <1>2, <1>3, <1>7, <2>1, OrderedPartBytes, Tags
  <2>2. CASE f.ordered # None
    <3>. Le(f.ordered[1], U32) \in Seq(Byte)
      BY <1>1, <2>2, OptionCases, LeWidths DEF IsBytes
    <3>. QED  BY <1>1, <1>2, <1>3, <1>7, <2>2, OrderedPartBytes, Tags
  <2>. QED  BY <2>1, <2>2
<1>9. e[22 + n + ol + 1] = IF f.chunk = None THEN 0 ELSE 1
  <2>. 22 + n + ol \in Nat
    BY <1>1, <1>4
  <2>1. CASE f.chunk = None
    BY <1>1, <1>2, <1>3, <1>7, <2>1, ChunkPartBytes, Tags
  <2>2. CASE f.chunk # None
    <3>. ChunkBytes(f.chunk[1]) \in Seq(Byte)
      BY <1>1, <2>2, OptionCases, ChunkBytesAt DEF IsBytes
    <3>. QED  BY <1>1, <1>2, <1>3, <1>7, <2>2, ChunkPartBytes, Tags
  <2>. QED  BY <2>1, <2>2
<1>10. SeqAt(e) = 9 + n /\ OrderedAt(e) = 22 + n
  BY <1>1, <1>5 DEF SeqAt, OrderedAt, U32, U64
<1>11. Tagged(e, OrderedAt(e)) <=> f.ordered # None
  BY <1>8, <1>10 DEF Tagged
<1>12. ChunkAt(e) = 22 + n + ol
  BY <1>1, <1>4, <1>10, <1>11 DEF ChunkAt, U32
<1>13. Tagged(e, ChunkAt(e)) <=> f.chunk # None
  BY <1>9, <1>12 DEF Tagged
<1>14. Len(e) = EndAt(e)
  BY <1>1, <1>2, <1>4, <1>12, <1>13 DEF EndAt, U32, U16
<1>15. Accepts(e)
  <2>1. Fits(e, 1, U64) /\ Word(e, 1, U64) <= Len(e) - (1 + U64) /\ Fits(e, SeqAt(e), U32 + 1 + U64)
    BY <1>1, <1>2, <1>4, <1>5, <1>10, SMTT(30) DEF Fits, U32, U64
  <2>2. IsTag(e, OrderedAt(e)) /\ IsTag(e, ChunkAt(e))
    BY <1>1, <1>2, <1>4, <1>8, <1>9, <1>10, <1>12 DEF IsTag, Fits
  <2>3. Tagged(e, OrderedAt(e)) => Fits(e, OrderedAt(e) + 1, U32)
    BY <1>1, <1>2, <1>4, <1>10, <1>11 DEF Fits, U32
  <2>4. Tagged(e, ChunkAt(e)) => Fits(e, ChunkAt(e) + 1, 3 * U32 + U16)
    BY <1>1, <1>2, <1>4, <1>12, <1>13 DEF Fits, U32, U16
  <2>. QED  BY <2>1, <2>2, <2>3, <2>4 DEF Accepts
<1>16. Shape(e)
  BY <1>1, <1>2, <1>5, <1>6, <1>14, <1>15 DEF Shape
<1>. QED  BY <1>2, <1>5, <1>10, <1>11, <1>12, <1>13, <1>16 DEF e, n, ol

\* What is read of the options is what is there.
LEMMA ChunkRead ==
    ASSUME NEW buf \in Seq(Byte), Fits(buf, ChunkAt(buf) + 1, 3 * U32 + U16),
           ChunkAt(buf) \in Nat, Tagged(buf, ChunkAt(buf))
    PROVE  LET ch == ReadChunk(buf)[1]
           IN  /\ ReadChunk(buf) = Some(ch) /\ ch \in ChunkHeads
               /\ At(buf, ChunkAt(buf) + 1, ChunkBytes(ch))
<1>. DEFINE id == ChunkAt(buf) + 1
            ch == [id |-> Word(buf, id, U32), offset |-> Word(buf, id + 4, U32),
                   total |-> Word(buf, id + 8, U32), count |-> Word(buf, id + 12, U16)]
<1>1. id \in Nat /\ Fits(buf, id, 14) /\ id + 4 \in Nat /\ id + 8 \in Nat /\ id + 12 \in Nat
  BY DEF U32, U16
<1>2. ReadChunk(buf) = Some(ch)
  BY DEF ReadChunk, U32
<1>. HIDE DEF id
<1>3. /\ Fits(buf, id, U32) /\ Fits(buf, id + 4, U32) /\ Fits(buf, id + 8, U32)
      /\ Fits(buf, id + 12, U16)
  BY <1>1 DEF Fits, U32, U16
<1>4. /\ Word(buf, id, U32) \in Nat /\ At(buf, id, Le(Word(buf, id, U32), U32))
      /\ Word(buf, id + 4, U32) \in Nat /\ At(buf, id + 4, Le(Word(buf, id + 4, U32), U32))
      /\ Word(buf, id + 8, U32) \in Nat /\ At(buf, id + 8, Le(Word(buf, id + 8, U32), U32))
      /\ Word(buf, id + 12, U16) \in Nat /\ At(buf, id + 12, Le(Word(buf, id + 12, U16), U16))
  <2>. U32 \in 1 .. 8 /\ U16 \in 1 .. 8
    BY DEF U32, U16
  <2>. QED  BY <1>1, <1>3, LeOfWord
<1>5. ch \in ChunkHeads
  BY <1>4 DEF ChunkHeads
<1>6. At(buf, id, ChunkBytes(ch))
  <2>. /\ ch.id = Word(buf, id, U32) /\ ch.offset = Word(buf, id + 4, U32)
       /\ ch.total = Word(buf, id + 8, U32) /\ ch.count = Word(buf, id + 12, U16)
    OBVIOUS
  <2>. HIDE DEF ch
  <2>. QED  BY <1>1, <1>4, <1>5, ChunkBytesAt
<1>7. ReadChunk(buf)[1] = ch
  BY <1>2 DEF Some
<1>. QED  BY <1>2, <1>5, <1>6, <1>7 DEF id

LEMMA OrderedRead ==
    ASSUME NEW buf \in Seq(Byte), Fits(buf, OrderedAt(buf) + 1, U32),
           OrderedAt(buf) \in Nat, Tagged(buf, OrderedAt(buf))
    PROVE  LET i == ReadOrdered(buf)[1]
           IN  /\ ReadOrdered(buf) = Some(i) /\ i \in Nat
               /\ At(buf, OrderedAt(buf) + 1, Le(i, U32))
<1>. DEFINE i == Word(buf, OrderedAt(buf) + 1, U32)
<1>1. ReadOrdered(buf) = Some(i) /\ ReadOrdered(buf)[1] = i
  BY DEF ReadOrdered, Some
<1>2. i \in Nat /\ At(buf, OrderedAt(buf) + 1, Le(i, U32))
  <2>. U32 \in 1 .. 8 /\ OrderedAt(buf) + 1 \in Nat
    BY DEF U32
  <2>. QED  BY LeOfWord
<1>. QED  BY <1>1, <1>2

\* What Parse reads of such a datagram is a frame, whose fields it is made of.
LEMMA ShapeRead ==
    ASSUME NEW buf, Shape(buf)
    PROVE  /\ Parse(buf) = ReadFrame(buf) /\ ReadFrame(buf) \in ReliableFrames
           /\ Encode(ReadFrame(buf)) = buf
<1>. DEFINE n == Word(buf, 1, U64)
            f == ReadFrame(buf)
            oa == OrderedAt(buf)
            ca == ChunkAt(buf)
<1>1. buf \in Seq(Byte) /\ buf # <<>> /\ buf[1] = RELIABLE /\ Accepts(buf) /\ Len(buf) = EndAt(buf)
      /\ n <= ChunkSize /\ Len(buf) \in Nat
  BY DEF Shape
<1>2. Fits(buf, 1, 8) /\ n \in Nat /\ At(buf, 1, Le(n, U64))
  BY <1>1, LeOfWord DEF Accepts, U64
<1>3. SeqAt(buf) = 9 + n /\ oa = 22 + n
  BY <1>2 DEF SeqAt, OrderedAt, U32, U64
<1>4. Fits(buf, 9 + n, 13)
  BY <1>1, <1>3 DEF Accepts, U32, U64
<1>5. /\ f.kind = RELIABLE /\ f.payload = SubSeq(buf, 10, 9 + n)
      /\ f.seq = Word(buf, 9 + n, U32) /\ f.resend = buf[14 + n] /\ f.sentAt = Word(buf, 14 + n, U64)
      /\ f.ordered = ReadOrdered(buf) /\ f.chunk = ReadChunk(buf)
  <2>. 2 + 8 = 10 /\ 9 + n + 4 + 1 = 14 + n /\ SeqAt(buf) + 4 + 1 = 14 + n
    BY <1>2, <1>3
  <2>. QED  BY <1>2, <1>3 DEF ReadFrame, Reliable, U32, U64
<1>6. /\ Word(buf, 9 + n, U32) \in Nat /\ At(buf, 9 + n, Le(Word(buf, 9 + n, U32), U32))
      /\ Word(buf, 14 + n, U64) \in Nat /\ At(buf, 14 + n, Le(Word(buf, 14 + n, U64), U64))
  <2>. /\ Fits(buf, 9 + n, U32) /\ Fits(buf, 14 + n, U64) /\ U32 \in 1 .. 8 /\ U64 \in 1 .. 8
       /\ 9 + n \in Nat /\ 14 + n \in Nat
    BY <1>1, <1>2, <1>4 DEF Fits, U32, U64
  <2>. QED  BY <1>1, LeOfWord
<1>7. buf[14 + n] \in Byte /\ buf[14 + n] \in Nat /\ At(buf, 13 + n, Le(buf[14 + n], 1))
  <2>1. 14 + n \in 1 .. Len(buf)
    BY <1>1, <1>2, <1>4 DEF Fits
  <2>2. buf[14 + n] \in Byte /\ buf[14 + n] \in Nat
    <3>1. buf[14 + n] \in Byte
      BY <1>1, <2>1
    <3>. QED  BY <3>1, WireAssumption DEF Byte
  <2>. DEFINE b == buf[14 + n]
  <2>. HIDE DEF b
  <2>3. b \in Nat /\ b % Base = b
    BY <2>2, WireAssumption DEF Byte, b
  <2>4. Le(b, 1) = <<b>>
    <3>1. PICK g : g[0] = b /\ Le(b, 1) = [k \in 1 .. 1 |-> g[k - 1] % Base]
      BY <2>3, LeDigits
    <3>. QED  BY <2>3, <3>1
  <2>5. At(buf, 13 + n, <<b>>)
    BY <1>1, <1>2, <2>1 DEF At, Fits, b
  <2>. QED  BY <2>2, <2>4, <2>5 DEF b
<1>8. f.payload \in Seq(Byte) /\ Len(f.payload) = n /\ At(buf, 9, f.payload)
  <2>0. 9 + n <= Len(buf)
    BY <1>1, <1>2, <1>4 DEF Fits
  <2>1. f.payload \in Seq(Byte) /\ Len(f.payload) = n /\ \A k \in 1 .. n : f.payload[k] = buf[9 + k]
    BY <1>1, <1>2, <1>5, <2>0
  <2>. QED  BY <1>1, <1>2, <2>0, <2>1 DEF At, Fits
<1>. HIDE DEF n, f
<1>9. /\ IsTag(buf, oa) /\ (Tagged(buf, oa) => Fits(buf, oa + 1, U32))
      /\ IsTag(buf, ca) /\ (Tagged(buf, ca) => Fits(buf, ca + 1, 3 * U32 + U16))
  BY <1>1 DEF Accepts
<1>10. oa \in Nat /\ ca = oa + 1 + (IF Tagged(buf, oa) THEN 4 ELSE 0) /\ ca \in Nat
  BY <1>2, <1>3 DEF ChunkAt, U32
<1>11. /\ f.ordered \in Options(Nat) /\ (f.ordered = None <=> ~Tagged(buf, oa))
       /\ At(buf, oa, OrderedPart(f.ordered))
  <2>1. CASE ~Tagged(buf, oa)
    <3>1. f.ordered = None
      BY <1>5, <2>1 DEF ReadOrdered
    <3>2. At(buf, oa, <<0>>)
      BY <1>9, <1>10, <2>1 DEF IsTag, Tagged, At, Fits
    <3>3. f.ordered \in Options(Nat)
      BY <3>1 DEF Options
    <3>. QED  BY <2>1, <3>1, <3>2, <3>3, OrderedPartBytes
  <2>2. CASE Tagged(buf, oa)
    <3>1. PICK i \in Nat : f.ordered = Some(i) /\ At(buf, oa + 1, Le(i, U32))
      BY <1>1, <1>5, <1>9, <1>10, <2>2, OrderedRead
    <3>2. f.ordered \in Options(Nat) /\ f.ordered # None /\ f.ordered[1] = i
      BY <3>1 DEF Options, None, Some
    <3>3. At(buf, oa, <<1>>)
      BY <1>9, <1>10, <2>2 DEF IsTag, Tagged, At, Fits
    <3>4. IsBytes(<<1>>, 1) /\ IsBytes(Le(i, U32), 4)
      BY <3>1, LeWidths, OneByte, Tags
    <3>5. At(buf, oa, Cat(<<1>>, Le(i, U32)))
      BY <1>1, <1>10, <3>1, <3>3, <3>4, CatAt
    <3>. QED  BY <2>2, <3>2, <3>5, OrderedPartBytes
  <2>. QED  BY <2>1, <2>2
<1>12. /\ f.chunk \in Options(ChunkHeads) /\ (f.chunk = None <=> ~Tagged(buf, ca))
       /\ At(buf, ca, ChunkPart(f.chunk))
  <2>1. CASE ~Tagged(buf, ca)
    <3>1. f.chunk = None
      BY <1>5, <2>1 DEF ReadChunk
    <3>2. At(buf, ca, <<0>>)
      BY <1>9, <1>10, <2>1 DEF IsTag, Tagged, At, Fits
    <3>3. f.chunk \in Options(ChunkHeads)
      BY <3>1 DEF Options
    <3>. QED  BY <2>1, <3>1, <3>2, <3>3, ChunkPartBytes
  <2>2. CASE Tagged(buf, ca)
    <3>1. PICK ch \in ChunkHeads : f.chunk = Some(ch) /\ At(buf, ca + 1, ChunkBytes(ch))
      BY <1>1, <1>5, <1>9, <1>10, <2>2, ChunkRead
    <3>2. f.chunk \in Options(ChunkHeads) /\ f.chunk # None /\ f.chunk[1] = ch
      BY <3>1 DEF Options, None, Some
    <3>3. At(buf, ca, <<1>>)
      BY <1>9, <1>10, <2>2 DEF IsTag, Tagged, At, Fits
    <3>4. IsBytes(<<1>>, 1) /\ IsBytes(ChunkBytes(ch), 14)
      BY <3>1, ChunkBytesAt, OneByte, Tags
    <3>5. At(buf, ca, Cat(<<1>>, ChunkBytes(ch)))
      BY <1>1, <1>10, <3>1, <3>3, <3>4, CatAt
    <3>. QED  BY <2>2, <3>2, <3>5, ChunkPartBytes
  <2>. QED  BY <2>1, <2>2
<1>13. f \in ReliableFrames
  <2>. f = Reliable(f.payload, f.seq, f.resend, f.sentAt, f.ordered, f.chunk)
    BY <1>5 DEF f, ReadFrame, Reliable
  <2>. QED
    BY <1>1, <1>2, <1>5, <1>6, <1>7, <1>8, <1>11, <1>12 DEF ReliableFrames, Reliable, Payloads
<1>14. OrderedLen(f.ordered) = 1 + (IF Tagged(buf, oa) THEN 4 ELSE 0)
  BY <1>11 DEF OrderedLen
<1>15. ChunkLen(f.chunk) = 1 + (IF Tagged(buf, ca) THEN 14 ELSE 0)
  BY <1>12 DEF ChunkLen
<1>16. ca = 22 + n + OrderedLen(f.ordered) /\ Len(buf) = FrameLen(f)
  <2>1. ca = 22 + n + OrderedLen(f.ordered)
    BY <1>2, <1>3, <1>10, <1>14
  <2>2. Len(buf) = ca + 1 + (IF Tagged(buf, ca) THEN 14 ELSE 0)
    BY <1>1 DEF EndAt, U32, U16
  <2>3. Len(buf) = ca + ChunkLen(f.chunk)
    BY <1>10, <1>15, <2>2
  <2>. QED  BY <1>8, <2>1, <2>3 DEF FrameLen
<1>17. At(buf, 0, <<RELIABLE>>)
  BY <1>1 DEF At, Fits
<1>18. FieldsAt(buf, f)
  BY <1>2, <1>3, <1>5, <1>6, <1>7, <1>8, <1>11, <1>12, <1>16, <1>17 DEF FieldsAt
<1>19. Encode(f) = buf
  <2>1. Encode(f) \in Seq(Byte) /\ Len(Encode(f)) = Len(buf) /\ At(buf, 0, Encode(f))
    BY <1>1, <1>13, <1>16, <1>18, ReliableAt DEF IsBytes
  <2>. QED  BY <1>1, <2>1, AtAll
<1>20. Parse(buf) = f
  BY <1>1, ParseReads DEF f
<1>. QED  BY <1>13, <1>19, <1>20 DEF f

\* A datagram with something after its fields reads the same.
Starts(buf, other) == Len(buf) <= Len(other) /\ \A k \in 1 .. Len(buf) : other[k] = buf[k]

\* Bytes behind a frame are ignored: what was read is where it was.
LEMMA LongerRead ==
    ASSUME NEW buf, Shape(buf), NEW other \in Seq(Byte), Starts(buf, other)
    PROVE  Parse(other) = Parse(buf)
<1>. DEFINE n == Word(buf, 1, U64)
            oa == OrderedAt(buf)
            ca == ChunkAt(buf)
<1>1. buf \in Seq(Byte) /\ buf # <<>> /\ buf[1] = RELIABLE /\ Accepts(buf) /\ Len(buf) = EndAt(buf)
      /\ Len(buf) \in Nat /\ Len(other) \in Nat /\ Len(buf) <= Len(other)
      /\ \A k \in 1 .. Len(buf) : other[k] = buf[k]
  BY DEF Shape, Starts
<1>2. /\ \A at, w \in Nat : Fits(buf, at, w) => Fits(other, at, w)
      /\ \A at \in Nat : Fits(buf, at, 1) => other[at + 1] = buf[at + 1]
  BY <1>1 DEF Fits
<1>3. ASSUME NEW at \in Nat, NEW w \in 1 .. 8, Fits(buf, at, w)
      PROVE  Word(other, at, w) = Word(buf, at, w)
  <2>1. \A k \in 1 .. w : buf[at + k] = other[at + k]
    BY <1>1, <1>3 DEF Fits
  <2>2. Fits(other, at, w)
    BY <1>2, <1>3
  <2>. QED  BY <1>1, <1>3, <2>1, <2>2, WordAgrees
<1>w. U16 \in 1 .. 8 /\ U32 \in 1 .. 8 /\ U64 \in 1 .. 8
  BY DEF U16, U32, U64
<1>4. /\ Fits(buf, 1, U64) /\ n <= Len(buf) - (1 + U64) /\ Fits(buf, SeqAt(buf), U32 + 1 + U64)
      /\ IsTag(buf, oa) /\ (Tagged(buf, oa) => Fits(buf, oa + 1, U32))
      /\ IsTag(buf, ca) /\ (Tagged(buf, ca) => Fits(buf, ca + 1, 3 * U32 + U16))
  BY <1>1 DEF Accepts
<1>5. n \in Nat /\ SeqAt(buf) = 9 + n /\ oa = 22 + n /\ ca = oa + 1 + (IF Tagged(buf, oa) THEN 4 ELSE 0)
  <2>. n \in Nat
    BY <1>1, <1>4, <1>w, LeOfWord
  <2>. QED  BY DEF SeqAt, OrderedAt, ChunkAt, U32, U64
<1>6. Word(other, 1, U64) = n /\ SeqAt(other) = SeqAt(buf) /\ OrderedAt(other) = oa
  <2>. Word(other, 1, U64) = n
    BY <1>3, <1>4, <1>w
  <2>. QED  BY DEF SeqAt, OrderedAt
<1>. HIDE DEF n
<1>7. (Tagged(other, oa) <=> Tagged(buf, oa)) /\ IsTag(other, oa)
  <2>. Fits(buf, oa, 1)
    BY <1>4 DEF IsTag
  <2>. QED  BY <1>2, <1>4, <1>5 DEF Tagged, IsTag
<1>8. ChunkAt(other) = ca /\ ca \in Nat
  BY <1>5, <1>6, <1>7 DEF ChunkAt
<1>. HIDE DEF oa, ca
<1>9. (Tagged(other, ca) <=> Tagged(buf, ca)) /\ IsTag(other, ca)
  <2>. Fits(buf, ca, 1)
    BY <1>4 DEF IsTag
  <2>. QED  BY <1>2, <1>4, <1>8 DEF Tagged, IsTag
<1>10. Accepts(other)
  <2>1. n <= Len(other) - (1 + U64)
    BY <1>1, <1>4, <1>5 DEF U64
  <2>2. Fits(other, 1, U64) /\ Fits(other, SeqAt(buf), U32 + 1 + U64)
    BY <1>2, <1>4, <1>5 DEF U32, U64
  <2>3. Tagged(buf, oa) => Fits(other, oa + 1, U32)
    BY <1>2, <1>4, <1>5 DEF U32
  <2>4. Tagged(buf, ca) => Fits(other, ca + 1, 3 * U32 + U16)
    BY <1>2, <1>4, <1>8 DEF U32, U16
  <2>. QED  BY <1>6, <1>7, <1>8, <1>9, <2>1, <2>2, <2>3, <2>4 DEF Accepts, oa, ca
<1>11. Fits(buf, 9 + n, 13)
  BY <1>4, <1>5 DEF U32, U64
<1>12. SubSeq(other, 2 + U64, SeqAt(other)) = SubSeq(buf, 2 + U64, SeqAt(buf))
  <2>. DEFINE a == SubSeq(other, 10, 9 + n)
              b == SubSeq(buf, 10, 9 + n)
  <2>0. 9 + n <= Len(buf)
    BY <1>1, <1>5, <1>11 DEF Fits
  <2>1. a \in Seq(Byte) /\ Len(a) = n /\ \A k \in 1 .. n : a[k] = other[9 + k]
    BY <1>1, <1>5, <2>0
  <2>2. b \in Seq(Byte) /\ Len(b) = n /\ \A k \in 1 .. n : b[k] = buf[9 + k]
    BY <1>1, <1>5, <2>0
  <2>. HIDE DEF a, b
  <2>3. \A k \in 1 .. n : other[9 + k] = buf[9 + k]
    BY <1>1, <1>5, <2>0
  <2>4. a = b
    BY <2>1, <2>2, <2>3
  <2>. QED  BY <1>5, <1>6, <2>4 DEF a, b, U64
<1>13. /\ Word(other, SeqAt(buf), U32) = Word(buf, SeqAt(buf), U32)
       /\ Word(other, SeqAt(buf) + U32 + 1, U64) = Word(buf, SeqAt(buf) + U32 + 1, U64)
       /\ other[SeqAt(buf) + U32 + 1] = buf[SeqAt(buf) + U32 + 1]
  <2>1. Fits(buf, 9 + n, U32) /\ Fits(buf, 14 + n, U64) /\ 14 + n <= Len(buf)
    BY <1>1, <1>5, <1>11 DEF Fits, U32, U64
  <2>2. /\ Word(other, 9 + n, U32) = Word(buf, 9 + n, U32)
        /\ Word(other, 14 + n, U64) = Word(buf, 14 + n, U64)
    BY <1>3, <1>5, <1>w, <2>1
  <2>3. other[14 + n] = buf[14 + n]
    BY <1>1, <1>5, <2>1
  <2>4. SeqAt(buf) + U32 + 1 = 14 + n
    BY <1>5 DEF U32
  <2>. QED  BY <1>5, <2>2, <2>3, <2>4
<1>14. ReadOrdered(other) = ReadOrdered(buf)
  <2>. OrderedAt(buf) = oa /\ OrderedAt(other) = oa /\ oa + 1 \in Nat
    BY <1>5, <1>6 DEF oa
  <2>. QED  BY <1>3, <1>4, <1>7, <1>w DEF ReadOrdered
<1>15. ReadChunk(other) = ReadChunk(buf)
  <2>1. ChunkAt(buf) = ca /\ ChunkAt(other) = ca
    BY <1>8 DEF ca
  <2>2. CASE ~Tagged(buf, ca)
    BY <1>9, <2>1, <2>2 DEF ReadChunk
  <2>3. CASE Tagged(buf, ca)
    <3>1. /\ Fits(buf, ca + 1, U32) /\ Fits(buf, ca + 1 + U32, U32) /\ Fits(buf, ca + 1 + 2 * U32, U32)
          /\ Fits(buf, ca + 1 + 3 * U32, U16)
          /\ ca + 1 \in Nat /\ ca + 1 + U32 \in Nat /\ ca + 1 + 2 * U32 \in Nat /\ ca + 1 + 3 * U32 \in Nat
      BY <1>1, <1>4, <1>8, <2>3 DEF Fits, U32, U16
    <3>2. /\ Word(other, ca + 1, U32) = Word(buf, ca + 1, U32)
          /\ Word(other, ca + 1 + U32, U32) = Word(buf, ca + 1 + U32, U32)
          /\ Word(other, ca + 1 + 2 * U32, U32) = Word(buf, ca + 1 + 2 * U32, U32)
          /\ Word(other, ca + 1 + 3 * U32, U16) = Word(buf, ca + 1 + 3 * U32, U16)
      BY <1>3, <1>w, <3>1
    <3>. QED  BY <1>9, <2>1, <2>3, <3>2 DEF ReadChunk
  <2>. QED  BY <2>2, <2>3
<1>16. ReadFrame(other) = ReadFrame(buf)
  BY <1>6, <1>12, <1>13, <1>14, <1>15 DEF ReadFrame
<1>17. other # <<>> /\ other[1] = RELIABLE
  BY <1>1
<1>. QED  BY <1>1, <1>10, <1>16, <1>17, ParseReads

\* A datagram cut short is refused.
LEMMA CutRefused ==
    ASSUME NEW buf, Shape(buf), NEW other \in Seq(Byte), Starts(other, buf), Len(other) < Len(buf)
    PROVE  Parse(other) = Rejected
<1>0. CASE other = <<>>
  BY <1>0 DEF Parse
<1>. SUFFICES ASSUME other # <<>>, Accepts(other) PROVE FALSE
  <2>. other # <<>> => other[1] = RELIABLE
    BY DEF Shape, Starts
  <2>. QED  BY <1>0, ParseReads
<1>. DEFINE n == Word(other, 1, U64)
            oa == OrderedAt(other)
            ca == ChunkAt(other)
<1>1. buf \in Seq(Byte) /\ Len(buf) = EndAt(buf) /\ Len(buf) \in Nat /\ Len(other) \in Nat
      /\ Len(other) < Len(buf) /\ \A k \in 1 .. Len(other) : buf[k] = other[k]
  BY DEF Shape, Starts
<1>4. /\ Fits(other, 1, U64)
      /\ IsTag(other, oa) /\ (Tagged(other, oa) => Fits(other, oa + 1, U32))
      /\ IsTag(other, ca) /\ (Tagged(other, ca) => Fits(other, ca + 1, 3 * U32 + U16))
  BY DEF Accepts
<1>5. n \in Nat /\ n = Word(buf, 1, U64)
  <2>1. U64 \in 1 .. 8 /\ Fits(buf, 1, U64) /\ \A k \in 1 .. U64 : other[1 + k] = buf[1 + k]
    BY <1>1, <1>4 DEF Fits, U64
  <2>2. Word(other, 1, U64) \in Nat
    BY <1>4, <2>1, LeOfWord
  <2>3. Word(other, 1, U64) = Word(buf, 1, U64)
    BY <1>1, <1>4, <2>1, WordAgrees, ZenonT(60)
  <2>. QED  BY <2>2, <2>3
<1>6. oa = 22 + n /\ OrderedAt(buf) = oa /\ oa \in Nat
  BY <1>5 DEF SeqAt, OrderedAt, U32, U64
<1>7. Tagged(buf, oa) <=> Tagged(other, oa)
  BY <1>1, <1>4, <1>6 DEF Tagged, IsTag, Fits
<1>8. ChunkAt(buf) = ca /\ ca \in Nat
  BY <1>6, <1>7 DEF ChunkAt, U32
<1>. HIDE DEF oa, ca
<1>9. Tagged(buf, ca) <=> Tagged(other, ca)
  BY <1>1, <1>4, <1>8 DEF Tagged, IsTag, Fits
<1>10. Len(buf) = ca + 1 + IF Tagged(other, ca) THEN 14 ELSE 0
  BY <1>1, <1>8, <1>9 DEF EndAt, U32, U16
<1>11. Len(buf) <= Len(other)
  BY <1>1, <1>4, <1>8, <1>10 DEF IsTag, Fits, U32, U16
<1>. QED  BY <1>1, <1>11

\* A frame whose numbers fit reads as it was (but for the count of pieces, two
\* bytes that nobody reads).
Fitting(f) ==
    /\ f \in ReliableFrames /\ f.seq < Limit
    /\ f.ordered # None => f.ordered[1] < Limit
    /\ f.chunk # None => f.chunk[1].id < Limit /\ f.chunk[1].offset < Limit /\ f.chunk[1].total < Limit

\* A reliable frame whose numbers fit reads as itself: parse(encode(f)) is f, in
\* all that the relay and the readers look at.
THEOREM RoundTrip ==
    ASSUME NEW f, Fitting(f)
    PROVE  LET g == Parse(Encode(f))
           IN  /\ g \in ReliableFrames /\ g.payload = f.payload /\ g.seq = f.seq
               /\ g.ordered = f.ordered
               /\ g.chunk = None <=> f.chunk = None
               /\ f.chunk # None => /\ g.chunk[1].id = f.chunk[1].id
                                    /\ g.chunk[1].offset = f.chunk[1].offset
                                    /\ g.chunk[1].total = f.chunk[1].total
<1>. DEFINE e == Encode(f)
            n == Len(f.payload)
            ol == OrderedLen(f.ordered)
            g == ReadFrame(e)
<1>0. /\ f \in ReliableFrames /\ n \in Nat /\ f.seq \in Nat /\ f.payload \in Seq(Byte)
      /\ f.ordered \in Options(Nat) /\ f.chunk \in Options(ChunkHeads) /\ ol \in {1, 5}
  BY DEF Fitting, ReliableFrames, Payloads, OrderedLen
<1>1. /\ Shape(e) /\ FieldsAt(e, f) /\ SeqAt(e) = 9 + n /\ OrderedAt(e) = 22 + n
      /\ ChunkAt(e) = 22 + n + ol
      /\ Tagged(e, OrderedAt(e)) <=> f.ordered # None
      /\ Tagged(e, ChunkAt(e)) <=> f.chunk # None
  BY <1>0, EncodedShape
<1>2. e \in Seq(Byte) /\ Parse(e) = g /\ g \in ReliableFrames
  BY <1>1, ShapeRead DEF Shape
<1>3. At(e, 9, f.payload) /\ At(e, 9 + n, Le(f.seq, U32))
      /\ At(e, 22 + n, OrderedPart(f.ordered)) /\ At(e, 22 + n + ol, ChunkPart(f.chunk))
  BY <1>1 DEF FieldsAt
<1>4. /\ g.payload = SubSeq(e, 10, 9 + n) /\ g.seq = Word(e, 9 + n, U32)
      /\ g.ordered = ReadOrdered(e) /\ g.chunk = ReadChunk(e)
  BY <1>0, <1>1 DEF ReadFrame, Reliable, U64
<1>. HIDE DEF e, g, n, ol
<1>5. g.payload = f.payload
  <2>. DEFINE a == SubSeq(e, 10, 9 + n)
  <2>1. 9 + n <= Len(e) /\ Len(f.payload) = n /\ \A k \in 1 .. n : e[9 + k] = f.payload[k]
    BY <1>3 DEF At, Fits, n
  <2>2. a \in Seq(Byte) /\ Len(a) = n /\ \A k \in 1 .. n : a[k] = e[9 + k]
    BY <1>0, <1>2, <2>1
  <2>. HIDE DEF a
  <2>3. a = f.payload
    BY <1>0, <2>1, <2>2, SMTT(40)
  <2>. QED  BY <1>4, <2>3 DEF a
<1>6. g.seq = f.seq
  <2>. U32 \in 4 .. 8 /\ 9 + n \in Nat /\ f.seq < Limit
    BY <1>0 DEF U32, Fitting
  <2>. QED  BY <1>0, <1>2, <1>3, <1>4, WordOfLe
<1>7. g.ordered = f.ordered
  <2>1. CASE f.ordered = None
    BY <1>1, <1>4, <2>1 DEF ReadOrdered
  <2>2. CASE f.ordered # None
    <3>. DEFINE i == f.ordered[1]
    <3>1. i \in Nat /\ i < Limit /\ f.ordered = Some(i)
      BY <1>0, <2>2, OptionCases DEF Fitting
    <3>. HIDE DEF i
    <3>2. At(e, 22 + n, Cat(<<1>>, Le(i, U32)))
      BY <1>0, <1>3, <2>2, OrderedPartBytes DEF i
    <3>3. At(e, 22 + n + 1, Le(i, U32))
      <4>. IsBytes(<<1>>, 1) /\ IsBytes(Le(i, U32), 4) /\ 22 + n \in Nat
        BY <1>0, <3>1, LeWidths, OneByte, Tags
      <4>. QED  BY <1>2, <3>2, CatAt
    <3>4. Word(e, 22 + n + 1, U32) = i
      <4>. U32 \in 4 .. 8 /\ 22 + n + 1 \in Nat
        BY <1>0 DEF U32
      <4>. QED  BY <1>2, <3>1, <3>3, WordOfLe
    <3>. QED  BY <1>1, <1>4, <2>2, <3>1, <3>4 DEF ReadOrdered
  <2>. QED  BY <2>1, <2>2
<1>8. CASE f.chunk = None
  <2>. g.chunk = None
    BY <1>1, <1>4, <1>8 DEF ReadChunk
  <2>. QED  BY <1>2, <1>5, <1>6, <1>7, <1>8 DEF e
<1>9. CASE f.chunk # None
  <2>. DEFINE ch == f.chunk[1]
              at == 22 + n + ol + 1
  <2>1. ch \in ChunkHeads /\ f.chunk = Some(ch) /\ ch.id < Limit /\ ch.offset < Limit /\ ch.total < Limit
    BY <1>0, <1>9, OptionCases DEF Fitting
  <2>. HIDE DEF ch
  <2>2. At(e, 22 + n + ol, Cat(<<1>>, ChunkBytes(ch)))
    BY <1>0, <1>3, <1>9, ChunkPartBytes DEF ch
  <2>3. at \in Nat /\ ChunkAt(e) + 1 = at
    BY <1>0, <1>1
  <2>4. At(e, at, ChunkBytes(ch))
    <3>. IsBytes(<<1>>, 1) /\ IsBytes(ChunkBytes(ch), 14) /\ 22 + n + ol \in Nat
      BY <1>0, <2>1, ChunkBytesAt, OneByte, Tags
    <3>. QED  BY <1>2, <2>2, CatAt
  <2>. HIDE DEF at
  <2>5. /\ At(e, at, Le(ch.id, U32)) /\ At(e, at + 4, Le(ch.offset, U32)) /\ At(e, at + 8, Le(ch.total, U32))
    BY <1>2, <2>1, <2>3, <2>4, ChunkBytesAt
  <2>6. Word(e, at, U32) = ch.id /\ Word(e, at + 4, U32) = ch.offset /\ Word(e, at + 8, U32) = ch.total
    <3>. /\ U32 \in 4 .. 8 /\ at \in Nat /\ at + 4 \in Nat /\ at + 8 \in Nat
         /\ ch.id \in Nat /\ ch.offset \in Nat /\ ch.total \in Nat
      BY <2>1, <2>3 DEF U32, ChunkHeads
    <3>. QED  BY <1>2, <2>1, <2>5, WordOfLe
  <2>7. /\ g.chunk # None /\ g.chunk[1].id = Word(e, at, U32)
        /\ g.chunk[1].offset = Word(e, at + 4, U32) /\ g.chunk[1].total = Word(e, at + 8, U32)
    BY <1>1, <1>4, <1>9, <2>3 DEF ReadChunk, Some, None, U32
  <2>. QED  BY <1>2, <1>5, <1>6, <1>7, <1>9, <2>6, <2>7 DEF e, ch
<1>. QED  BY <1>8, <1>9

\* The datagrams there are, and what FramesAreUnambiguous says of them.
Datagrams ==
    {Encode(Unreliable(p)) : p \in Payloads} \cup {Encode(f) : f \in ReliableFrames}

\* All there is to say of one datagram, whatever its numbers.
LEMMA DatagramsAreUnambiguous ==
    ASSUME NEW b \in Datagrams
    PROVE  /\ b \in Seq(Byte) /\ Parse(b).kind \in {RELIABLE, UNRELIABLE} /\ Encode(Parse(b)) = b
           /\ Parse(b).kind = UNRELIABLE => Parse(b).payload \in Payloads
           /\ Parse(b).kind = RELIABLE =>
                /\ Parse(b) \in ReliableFrames
                /\ Parse(Append(b, 1)) = Parse(b)
                /\ \A k \in 0 .. Len(b) - 1 : Parse(SubSeq(b, 1, k)) = Rejected
<1>1. CASE b \in {Encode(Unreliable(p)) : p \in Payloads}
  <2>1. PICK p \in Payloads : b = Encode(Unreliable(p))
    BY <1>1
  <2>2. b \in Seq(Byte) /\ Parse(b) = Unreliable(p)
    BY <2>1, ParseUnreliable
  <2>3. Unreliable(p).kind = UNRELIABLE /\ Unreliable(p).payload = p /\ UNRELIABLE # RELIABLE
    BY DEF Unreliable, UNRELIABLE, RELIABLE
  <2>. QED  BY <2>1, <2>2, <2>3
<1>2. CASE b \in {Encode(f) : f \in ReliableFrames}
  <2>1. Shape(b)
    BY <1>2, EncodedShape
  <2>2. b \in Seq(Byte) /\ Len(b) \in Nat
    BY <2>1 DEF Shape
  <2>3. Parse(b) \in ReliableFrames /\ Encode(Parse(b)) = b
    BY <2>1, ShapeRead
  <2>4. Parse(b).kind = RELIABLE /\ RELIABLE # UNRELIABLE
    BY <2>3 DEF ReliableFrames, RELIABLE, UNRELIABLE
  <2>5. Parse(Append(b, 1)) = Parse(b)
    <3>. DEFINE c == Append(b, 1)
    <3>. c \in Seq(Byte) /\ Starts(b, c)
      BY <2>2, Tags DEF Starts
    <3>. HIDE DEF c
    <3>1. Parse(c) = Parse(b)
      BY <2>1, LongerRead
    <3>. QED  BY <3>1 DEF c
  <2>6. ASSUME NEW k \in 0 .. Len(b) - 1 PROVE Parse(SubSeq(b, 1, k)) = Rejected
    <3>. DEFINE c == SubSeq(b, 1, k)
    <3>. c \in Seq(Byte) /\ Len(c) < Len(b) /\ Starts(c, b)
      BY <2>2 DEF Starts
    <3>. HIDE DEF c
    <3>1. Parse(c) = Rejected
      BY <2>1, CutRefused
    <3>. QED  BY <3>1 DEF c
  <2>. QED  BY <2>2, <2>3, <2>4, <2>5, <2>6
<1>. QED  BY <1>1, <1>2 DEF Datagrams

-----------------------------------------------------------------------------
(* Payloads *)

\* The bytes of an event re-tagged with the id of its sender.
LEMMA WithSenderBytes ==
    ASSUME NEW twin \in Nat, NEW c \in Nat, NEW payload \in Payloads
    PROVE  /\ WithSender(twin, c, payload) \in Payloads
           /\ WithSender(twin, c, payload) =
                Cat(Cat(Le(twin, U32), Cat(Le(c, U32), Le(1, U32))), Body(payload))
           /\ IsBytes(Body(payload), IF Len(payload) < 4 THEN 0 ELSE Len(payload) - 4)
           /\ IsBytes(WithSender(twin, c, payload),
                      12 + IF Len(payload) < 4 THEN 0 ELSE Len(payload) - 4)
<1>. DEFINE m == IF Len(payload) < 4 THEN 0 ELSE Len(payload) - 4
            a == Le(twin, U32)
            b == Cat(Le(c, U32), Le(1, U32))
            d == Body(payload)
<1>0. payload \in Seq(Byte) /\ Len(payload) \in Nat /\ m \in Nat
  BY DEF Payloads
<1>1. IsBytes(d, m)
  BY <1>0 DEF Body, IsBytes, U32
<1>2. IsBytes(a, 4) /\ IsBytes(b, 8)
  BY LeWidths, CatBytes
<1>3. WithSender(twin, c, payload) = Cat(Cat(a, b), d)
  BY DEF WithSender, PlayerId, Cat
<1>. HIDE DEF a, b, d, m
<1>4. IsBytes(Cat(a, b), 12)
  BY <1>2, CatBytes
<1>5. IsBytes(Cat(Cat(a, b), d), 12 + m)
  BY <1>0, <1>1, <1>4, CatBytes
<1>. QED  BY <1>1, <1>3, <1>5 DEF a, b, d, m, IsBytes, Payloads

\* The bytes of a car state rewritten, its state behind its entity.
LEMMA CarBroadcastBytes ==
    ASSUME NEW c \in Nat, NEW payload \in Payloads, IsCarState(payload)
    PROVE  LET b == Body(payload)
               n == Len(b) - 8
           IN  /\ EncodeCarBroadcast(c, payload) \in Payloads
               /\ EncodeCarBroadcast(c, payload) =
                    Cat(Cat(Cat(Le(Twins[CARSTATE], U32), Cat(Le(c, U32), Le(1, U32))),
                            SubSeq(b, n + 1, Len(b))), SubSeq(b, 1, n))
               /\ n \in Nat /\ Len(payload) = n + 12
               /\ IsBytes(b, n + 8)
               /\ IsBytes(SubSeq(b, n + 1, Len(b)), 8) /\ IsBytes(SubSeq(b, 1, n), n)
               /\ IsBytes(EncodeCarBroadcast(c, payload), n + 20)
<1>. DEFINE b == Body(payload)
            n == Len(b) - 8
            x == Le(Twins[CARSTATE], U32)
            y == Cat(Le(c, U32), Le(1, U32))
            u == SubSeq(b, n + 1, Len(b))
            v == SubSeq(b, 1, n)
<1>0. payload \in Seq(Byte) /\ Len(payload) \in Nat
  BY DEF Payloads
<1>1. b \in Seq(Byte) /\ Len(b) \in Nat /\ Len(b) >= 8 /\ Len(payload) = Len(b) + 4
  BY <1>0 DEF IsCarState, Body, U32
<1>2. n \in Nat /\ Len(b) = n + 8
  BY <1>1
<1>. HIDE DEF b
<1>3. IsBytes(b, n + 8)
  BY <1>1, <1>2 DEF IsBytes
<1>4. IsBytes(u, 8) /\ IsBytes(v, n)
  <2>. HIDE DEF n
  <2>1. u \in Seq(Byte) /\ Len(u) = 8
    BY <1>1, <1>2
  <2>2. v \in Seq(Byte) /\ Len(v) = n
    BY <1>1, <1>2
  <2>. QED  BY <2>1, <2>2 DEF IsBytes
<1>5. EncodeCarBroadcast(c, payload) = Cat(Cat(Cat(x, y), u), v)
  BY DEF EncodeCarBroadcast, PlayerId, Cat, U32, b
<1>6. IsBytes(x, 4) /\ IsBytes(y, 8)
  <2>. Twins[CARSTATE] \in Nat
    BY DEF Twins, CARSTATE
  <2>. QED  BY LeWidths, CatBytes
<1>. HIDE DEF n, x, y, u, v
<1>7. IsBytes(Cat(x, y), 12)
  BY <1>6, CatBytes
<1>8. IsBytes(Cat(Cat(x, y), u), 20)
  BY <1>4, <1>7, CatBytes
<1>9. IsBytes(Cat(Cat(Cat(x, y), u), v), n + 20)
  <2>. IsBytes(Cat(Cat(Cat(x, y), u), v), 20 + n)
    BY <1>2, <1>4, <1>8, CatBytes
  <2>. QED  BY <1>2
<1>. QED  BY <1>1, <1>2, <1>3, <1>4, <1>5, <1>9 DEF b, n, x, y, u, v, IsBytes, Payloads

\* The bytes that tell of a player's readiness.
LEMMA ReadyBytes ==
    ASSUME NEW c \in Nat, NEW payload \in Payloads, HasReady(payload)
    PROVE  LET b == IF Body(payload)[1] = 0 THEN 0 ELSE 1
           IN  /\ EncodeReadyBroadcast(c, payload) \in Payloads
               /\ EncodeReadyBroadcast(c, payload) =
                    Cat(Cat(Le(Twins[READY], U32), Cat(Le(c, U32), Le(1, U32))), <<b>>)
               /\ IsBytes(<<b>>, 1) /\ IsBytes(EncodeReadyBroadcast(c, payload), 13)
               /\ Len(payload) >= 5
<1>. DEFINE b == IF Body(payload)[1] = 0 THEN 0 ELSE 1
            x == Le(Twins[READY], U32)
            y == Cat(Le(c, U32), Le(1, U32))
<1>1. EncodeReadyBroadcast(c, payload) = Cat(Cat(x, y), <<b>>)
  BY DEF EncodeReadyBroadcast, PlayerId, Cat
<1>2. Len(payload) >= 5
  <2>. payload \in Seq(Byte) /\ Len(payload) \in Nat
    BY DEF Payloads
  <2>. QED  BY DEF HasReady, Body, U32
<1>3. b \in Byte
  BY Tags
<1>. HIDE DEF b
<1>4. IsBytes(<<b>>, 1)
  BY <1>3, OneByte
<1>5. IsBytes(x, 4) /\ IsBytes(y, 8)
  <2>. Twins[READY] \in Nat
    BY DEF Twins, READY
  <2>. QED  BY LeWidths, CatBytes
<1>. HIDE DEF x, y
<1>6. IsBytes(Cat(x, y), 12)
  BY <1>5, CatBytes
<1>7. IsBytes(Cat(Cat(x, y), <<b>>), 13)
  BY <1>4, <1>6, CatBytes
<1>. QED  BY <1>1, <1>2, <1>4, <1>7 DEF b, x, y, IsBytes, Payloads

\* Any twin there is, is a number that fits.
LEMMA TwinNumbers ==
    /\ \A d \in DOMAIN Twins : Twins[d] \in 0 .. 48 /\ d \in 0 .. 48
    /\ CARSTATE \in DOMAIN Twins /\ READY \in DOMAIN Twins /\ READY # CARSTATE
BY DEF Twins, CARSTATE, READY

-----------------------------------------------------------------------------
(* Pieces *)

\* The piece a byte is in.
PieceOf(j) == (j - 1) \div ChunkSize + 1

\* As many pieces as it takes, and no more.
LEMMA Ceiling ==
    ASSUME NEW len \in Nat
    PROVE  LET k == (len + ChunkSize - 1) \div ChunkSize
           IN  /\ k \in Nat /\ len <= k * ChunkSize
               /\ len > 0 => k > 0 /\ (k - 1) * ChunkSize < len
               /\ len = 0 => k = 0
<1>. DEFINE k == (len + ChunkSize - 1) \div ChunkSize
            m == len + ChunkSize - 1
<1>0. ChunkSize \in Nat /\ ChunkSize > 0
  BY WireAssumption
<1>1. m \in Nat /\ k \in Nat /\ m = ChunkSize * k + (m % ChunkSize) /\ m % ChunkSize \in 0 .. ChunkSize - 1
  BY <1>0
<1>2. ChunkSize * k <= m /\ m < ChunkSize * k + ChunkSize
  BY <1>0, <1>1
<1>. HIDE DEF k
<1>3. k * ChunkSize = ChunkSize * k /\ (k - 1) * ChunkSize = ChunkSize * k - ChunkSize /\ ChunkSize * k \in Nat
  BY <1>0, <1>1
<1>4. len <= k * ChunkSize
  BY <1>0, <1>2, <1>3
<1>5. len > 0 => k > 0
  BY <1>0, <1>1, <1>4
<1>6. (k - 1) * ChunkSize < len \/ len = 0
  BY <1>0, <1>1, <1>2, <1>3
<1>7. len = 0 => k = 0
  <2>. SUFFICES ASSUME len = 0, k # 0 PROVE FALSE
    OBVIOUS
  <2>1. m = ChunkSize - 1
    BY <1>0
  <2>2. k - 1 \in Nat /\ ChunkSize * (k - 1) \in Nat
    BY <1>0, <1>1
  <2>3. ChunkSize * k = ChunkSize * (k - 1) + ChunkSize
    BY <1>0, <1>1, <1>3
  <2>. QED  BY <1>0, <1>2, <2>1, <2>2, <2>3
<1>. QED  BY <1>1, <1>4, <1>5, <1>6, <1>7 DEF k


LEMMA Multiples ==
    ASSUME NEW i \in Nat, NEW j \in Nat
    PROVE  /\ i * ChunkSize \in Nat
           /\ (i + 1) * ChunkSize = i * ChunkSize + ChunkSize
           /\ i <= j => i * ChunkSize <= j * ChunkSize
           /\ i * ChunkSize < j * ChunkSize => i < j
<1>0. ChunkSize \in Nat /\ ChunkSize > 0
  BY WireAssumption
<1>1. i * ChunkSize \in Nat /\ (i + 1) * ChunkSize = i * ChunkSize + ChunkSize
  BY <1>0
<1>2. ASSUME i <= j PROVE i * ChunkSize <= j * ChunkSize
  <2>1. j - i \in Nat /\ (j - i) * ChunkSize \in Nat
    BY <1>0, <1>2
  <2>2. j * ChunkSize = i * ChunkSize + (j - i) * ChunkSize
    BY <1>0, <1>2
  <2>. QED  BY <1>1, <2>1, <2>2
<1>3. ASSUME ~(i < j) PROVE ~(i * ChunkSize < j * ChunkSize)
  <2>1. i - j \in Nat /\ (i - j) * ChunkSize \in Nat
    BY <1>0, <1>3
  <2>2. i * ChunkSize = j * ChunkSize + (i - j) * ChunkSize
    BY <1>0, <1>3
  <2>3. j * ChunkSize \in Nat
    BY <1>0
  <2>. QED  BY <1>1, <2>1, <2>2, <2>3
<1>. QED  BY <1>1, <1>2, <1>3

\* The bytes a piece of n bytes has of a payload of len bytes.
Count(len) == (len + ChunkSize - 1) \div ChunkSize
From(i) == (i - 1) * ChunkSize
Upto(i, len) == IF i * ChunkSize > len THEN len ELSE i * ChunkSize

\* Where the i-th piece begins and ends: never empty, full but for the last.
LEMMA PieceBounds ==
    ASSUME NEW len \in Nat, NEW i \in 1 .. Count(len)
    PROVE  /\ From(i) \in Nat /\ Upto(i, len) \in Nat
           /\ From(i) < Upto(i, len) /\ Upto(i, len) <= len
           /\ Upto(i, len) - From(i) <= ChunkSize
           /\ i = Count(len) => Upto(i, len) = len
           /\ i < Count(len) => Upto(i, len) = From(i) + ChunkSize
<1>. DEFINE k == Count(len)
<1>0. ChunkSize \in Nat /\ ChunkSize > 0
  BY WireAssumption
<1>1. k \in Nat /\ len <= k * ChunkSize /\ (len > 0 => k > 0 /\ (k - 1) * ChunkSize < len)
      /\ (len = 0 => k = 0)
  BY Ceiling DEF Count
<1>. HIDE DEF k
<1>2. i \in 1 .. k /\ i - 1 \in Nat /\ k - 1 \in Nat /\ i \in Nat
  BY <1>1 DEF k
<1>3. (i - 1) * ChunkSize \in Nat /\ i * ChunkSize = (i - 1) * ChunkSize + ChunkSize
  <2>. DEFINE a == i - 1
  <2>1. a \in Nat /\ i = a + 1
    BY <1>2
  <2>. HIDE DEF a
  <2>2. a * ChunkSize \in Nat /\ (a + 1) * ChunkSize = a * ChunkSize + ChunkSize
    BY <2>1, Multiples
  <2>. QED  BY <2>1, <2>2 DEF a
<1>4. /\ (i - 1) * ChunkSize <= (k - 1) * ChunkSize /\ (k - 1) * ChunkSize \in Nat
      /\ i < k => i * ChunkSize <= (k - 1) * ChunkSize
  <2>. DEFINE a == i - 1
              b == k - 1
  <2>1. a \in Nat /\ b \in Nat /\ a <= b /\ i \in Nat /\ (i < k => i <= b)
    BY <1>1, <1>2
  <2>. HIDE DEF a, b
  <2>2. a * ChunkSize <= b * ChunkSize /\ b * ChunkSize \in Nat
    BY <2>1, Multiples
  <2>3. i <= b => i * ChunkSize <= b * ChunkSize
    BY <2>1, Multiples
  <2>. QED  BY <2>1, <2>2, <2>3 DEF a, b
<1>5. (i - 1) * ChunkSize < len
  <2>1. len > 0
    BY <1>1, <1>2
  <2>. QED  BY <1>1, <1>3, <1>4, <2>1
<1>7. i < k => i * ChunkSize < len
  <2>. SUFFICES ASSUME i < k PROVE i * ChunkSize < len
    OBVIOUS
  <2>1. len > 0
    BY <1>3, <1>5
  <2>2. i * ChunkSize \in Nat
    BY <1>0, <1>3
  <2>. QED  BY <1>1, <1>4, <2>1, <2>2
<1>. QED  BY <1>0, <1>1, <1>3, <1>5, <1>7 DEF From, Upto, k

\* The pieces of a payload are its bytes between those bounds.
LEMMA PieceFacts ==
    ASSUME NEW payload \in Payloads
    PROVE  LET ps == Pieces(payload)
               len == Len(payload)
           IN  /\ ps \in Seq(Payloads) /\ DOMAIN ps = 1 .. Count(len) /\ Len(ps) = Count(len)
               /\ Count(len) \in Nat
               /\ \A i \in DOMAIN ps :
                    /\ ps[i] \in Payloads /\ Len(ps[i]) \in 1 .. ChunkSize
                    /\ Len(ps[i]) = Upto(i, len) - From(i)
                    /\ \A j \in 1 .. Len(ps[i]) : ps[i][j] = payload[From(i) + j]
<1>. DEFINE ps == Pieces(payload)
            len == Len(payload)
<1>0. payload \in Seq(Byte) /\ len \in Nat /\ ChunkSize \in Nat
  BY WireAssumption DEF Payloads
<1>1. Count(len) \in Nat
  BY <1>0, Ceiling DEF Count
<1>2. ps = [i \in 1 .. Count(len) |-> SubSeq(payload, From(i) + 1, Upto(i, len))]
  BY DEF Pieces, Count, From, Upto
<1>. HIDE DEF ps
<1>3. ASSUME NEW i \in 1 .. Count(len)
      PROVE  /\ ps[i] \in Payloads /\ Len(ps[i]) \in 1 .. ChunkSize
             /\ Len(ps[i]) = Upto(i, len) - From(i)
             /\ \A j \in 1 .. Len(ps[i]) : ps[i][j] = payload[From(i) + j]
  <2>. DEFINE a == From(i) + 1
              b == Upto(i, len)
  <2>1. From(i) \in Nat /\ b \in Nat /\ From(i) < b /\ b <= len /\ b - From(i) <= ChunkSize
    BY <1>0, PieceBounds
  <2>2. ps[i] = SubSeq(payload, a, b)
    BY <1>2
  <2>3. a \in 1 .. Len(payload) + 1 /\ b \in a - 1 .. Len(payload)
    BY <1>0, <2>1
  <2>. HIDE DEF b
  <2>4. /\ SubSeq(payload, a, b) \in Seq(Byte)
        /\ Len(SubSeq(payload, a, b)) = b - a + 1
        /\ \A j \in 1 .. b - a + 1 : SubSeq(payload, a, b)[j] = payload[a + j - 1]
    BY <1>0, <2>3, SubSeqProperties
  <2>5. b - a + 1 = b - From(i) /\ b - From(i) \in 1 .. ChunkSize
        /\ \A j \in 1 .. b - From(i) : a + j - 1 = From(i) + j
    BY <1>0, <2>1
  <2>. QED  BY <2>2, <2>4, <2>5 DEF Payloads, b
<1>4. ps \in Seq(Payloads) /\ DOMAIN ps = 1 .. Count(len) /\ Len(ps) = Count(len)
  <2>. HIDE DEF len
  <2>1. ps \in [1 .. Count(len) -> Payloads]
    BY <1>2, <1>3
  <2>2. ps \in Seq(Payloads) /\ Len(ps) = Count(len)
    BY <1>1, <2>1, FunctionIsSeq
  <2>. QED  BY <2>1, <2>2
<1>. QED  BY <1>1, <1>3, <1>4 DEF ps

\* A payload no larger than a datagram is its own piece.
LEMMA OnePiece ==
    ASSUME NEW payload \in Payloads, Len(payload) <= ChunkSize, Len(payload) > 0
    PROVE  Count(Len(payload)) = 1 /\ Pieces(payload)[1] = payload
<1>. DEFINE len == Len(payload)
            k == Count(len)
            p == Pieces(payload)[1]
<1>0. payload \in Seq(Byte) /\ len \in Nat /\ ChunkSize \in Nat /\ ChunkSize > 0
  BY WireAssumption DEF Payloads
<1>1. k \in Nat /\ k > 0 /\ (k - 1) * ChunkSize < len
  BY <1>0, Ceiling DEF Count
<1>2. k = 1
  <2>. HIDE DEF k
  <2>1. k - 1 \in Nat /\ 1 * ChunkSize = ChunkSize
    BY <1>0, <1>1
  <2>2. (k - 1) * ChunkSize < 1 * ChunkSize
    BY <1>0, <1>1, <2>1
  <2>3. k - 1 < 1
    BY <2>1, <2>2, Multiples
  <2>. QED  BY <1>1, <2>1, <2>3
<1>3. 1 \in 1 .. k /\ 1 = k
  BY <1>2
<1>4. From(1) = 0 /\ Upto(1, len) = len
  BY <1>0, <1>3, PieceBounds DEF From
<1>5. /\ p \in Payloads /\ Len(p) = len - 0
      /\ \A j \in 1 .. Len(p) : p[j] = payload[0 + j]
  BY <1>3, <1>4, PieceFacts
<1>6. p = payload
  <2>. HIDE DEF p
  <2>1. p \in Seq(Byte) /\ Len(p) = Len(payload)
    BY <1>0, <1>5 DEF Payloads
  <2>2. \A j \in 1 .. Len(p) : p[j] = payload[j]
    BY <1>5
  <2>. QED  BY <1>0, <2>1, <2>2, SeqEqual
<1>. QED  BY <1>2, <1>6

\* Each byte is in one piece.
LEMMA PieceOfByte ==
    ASSUME NEW len \in Nat, NEW j \in 1 .. len
    PROVE  /\ PieceOf(j) \in 1 .. Count(len)
           /\ From(PieceOf(j)) < j /\ j <= Upto(PieceOf(j), len)
           /\ \A i \in 1 .. Count(len) : From(i) < j /\ j <= Upto(i, len) => i = PieceOf(j)
<1>. DEFINE q == PieceOf(j) - 1
            k == Count(len)
<1>0. ChunkSize \in Nat /\ ChunkSize > 0 /\ j - 1 \in Nat
  BY WireAssumption
<1>1. q = (j - 1) \div ChunkSize
  BY <1>0 DEF PieceOf
<1>2. q \in Nat /\ j - 1 = ChunkSize * q + ((j - 1) % ChunkSize) /\ (j - 1) % ChunkSize \in 0 .. ChunkSize - 1
  BY <1>0, <1>1
<1>. HIDE DEF q
<1>3. q * ChunkSize \in Nat /\ q * ChunkSize = ChunkSize * q /\ (q + 1) * ChunkSize = q * ChunkSize + ChunkSize
  BY <1>0, <1>2, Multiples
<1>4. q * ChunkSize < j /\ j <= (q + 1) * ChunkSize
  BY <1>0, <1>2, <1>3
<1>5. k \in Nat /\ len <= k * ChunkSize /\ k * ChunkSize \in Nat
  BY Ceiling, Multiples DEF Count
<1>. HIDE DEF k
<1>6. q < k
  <2>. q * ChunkSize < k * ChunkSize
    BY <1>3, <1>4, <1>5
  <2>. QED  BY <1>2, <1>5, Multiples
<1>7. PieceOf(j) = q + 1 /\ q + 1 \in 1 .. k
  BY <1>0, <1>1, <1>2, <1>5, <1>6 DEF PieceOf
<1>8. (q + 1) - 1 = q
  BY <1>2
<1>9. From(q + 1) = q * ChunkSize
  BY <1>8 DEF From
<1>10. j <= Upto(q + 1, len)
  BY <1>4 DEF Upto
<1>11. ASSUME NEW i \in 1 .. k, From(i) < j, j <= Upto(i, len) PROVE i = q + 1
  <2>1. i - 1 \in Nat /\ i \in Nat /\ i * ChunkSize \in Nat /\ (i - 1) * ChunkSize \in Nat
    BY <1>0, <1>5, Multiples
  <2>2. (i - 1) * ChunkSize < j /\ j <= i * ChunkSize
    BY <1>11, <2>1 DEF From, Upto
  <2>3. (i - 1) * ChunkSize < (q + 1) * ChunkSize
    BY <1>3, <1>4, <2>1, <2>2, <1>0
  <2>4. q * ChunkSize < i * ChunkSize
    BY <1>3, <1>4, <2>1, <2>2, <1>0
  <2>5. i - 1 < q + 1
    BY <1>2, <2>1, <2>3, Multiples
  <2>6. q < i
    BY <1>2, <2>1, <2>4, Multiples
  <2>. QED  BY <1>2, <2>1, <2>5, <2>6
<1>. QED  BY <1>4, <1>7, <1>9, <1>10, <1>11 DEF k

-----------------------------------------------------------------------------
(* Packets *)

\* How many packets there are of an event; the empty one is sent, too.
PacketCount(payload) == IF payload = <<>> THEN 1 ELSE Count(Len(payload))

LEMMA PacketPieces ==
    ASSUME NEW payload \in Payloads
    PROVE  LET ps == PiecesOf(payload)
               k == PacketCount(payload)
           IN  /\ DOMAIN ps = 1 .. k /\ Len(ps) = k /\ k \in Nat /\ k > 0
               /\ \A i \in 1 .. k :
                    ps[i] \in Payloads /\ Len(ps[i]) <= ChunkSize /\ From(i) \in Nat
               /\ Len(payload) > ChunkSize =>
                    /\ ps = Pieces(payload) /\ k = Count(Len(payload)) /\ Len(payload) > 0
                    /\ \A i \in 1 .. k : From(i) < Len(payload)
               /\ Len(payload) <= ChunkSize => k = 1 /\ ps[1] = payload
<1>. DEFINE ps == PiecesOf(payload)
            k == PacketCount(payload)
            len == Len(payload)
<1>0. payload \in Seq(Byte) /\ len \in Nat /\ ChunkSize \in Nat /\ ChunkSize > 0
  BY WireAssumption DEF Payloads
<1>1. CASE payload = <<>>
  <2>1. ps = <<payload>> /\ k = 1 /\ len = 0 /\ From(1) = 0
    BY <1>0, <1>1 DEF PiecesOf, PacketCount, From
  <2>2. DOMAIN ps = 1 .. 1 /\ Len(ps) = 1 /\ ps[1] = payload
    BY <2>1
  <2>. HIDE DEF ps, k
  <2>. QED  BY <1>0, <2>1, <2>2 DEF ps, k
<1>2. CASE payload # <<>>
  <2>1. ps = Pieces(payload) /\ k = Count(len) /\ len > 0
    BY <1>0, <1>2 DEF PiecesOf, PacketCount
  <2>2. /\ DOMAIN ps = 1 .. k /\ Len(ps) = k /\ k \in Nat
        /\ \A i \in 1 .. k : ps[i] \in Payloads /\ Len(ps[i]) \in 1 .. ChunkSize
    BY <2>1, PieceFacts
  <2>3. k > 0
    BY <1>0, <2>1, Ceiling DEF Count
  <2>4. ASSUME NEW i \in 1 .. k PROVE From(i) \in Nat /\ From(i) < len
    <3>1. /\ From(i) \in Nat /\ Upto(i, len) \in Nat
          /\ From(i) < Upto(i, len) /\ Upto(i, len) <= len
      BY <1>0, <2>1, PieceBounds
    <3>. QED  BY <1>0, <3>1
  <2>5. len <= ChunkSize => k = 1 /\ ps[1] = payload
    BY <2>1, OnePiece
  <2>. HIDE DEF ps, k
  <2>. QED  BY <1>0, <2>1, <2>2, <2>3, <2>4, <2>5 DEF ps, k
<1>. QED  BY <1>1, <1>2

\* The frame of the i-th piece of an event.
FrameOf(payload, n, i) ==
    Reliable(PiecesOf(payload)[i], n.seq + i - 1, 0, SentAt, n.ordered,
             IF Len(payload) > ChunkSize
             THEN Some([id |-> n.chunk, offset |-> From(i),
                        total |-> Len(payload), count |-> PacketCount(payload)])
             ELSE None)

Numbers(n) == n.seq \in Nat /\ n.chunk \in Nat /\ n.ordered \in Options(Nat)

\* The packets of an event are the frames of its pieces.
LEMMA PacketFrames ==
    ASSUME NEW payload \in Payloads, NEW n, Numbers(n)
    PROVE  /\ Packets(payload, n) = {Encode(FrameOf(payload, n, i)) : i \in 1 .. PacketCount(payload)}
           /\ \A i \in 1 .. PacketCount(payload) : FrameOf(payload, n, i) \in ReliableFrames
           /\ Packets(payload, n) \subseteq Datagrams
           /\ PacketCount(payload) \in Nat
           /\ NextSeq(n, payload) = n.seq + PacketCount(payload) /\ NextSeq(n, payload) \in Nat
           /\ NextChunk(n, payload) \in Nat /\ n.chunk <= NextChunk(n, payload)
<1>. DEFINE ps == PiecesOf(payload)
            k == PacketCount(payload)
<1>0. payload \in Seq(Byte) /\ Len(payload) \in Nat /\ ChunkSize \in Nat /\ SentAt \in Nat
  BY WireAssumption DEF Payloads, SentAt
<1>1. /\ DOMAIN ps = 1 .. k /\ Len(ps) = k /\ k \in Nat
      /\ \A i \in 1 .. k : ps[i] \in Payloads /\ Len(ps[i]) <= ChunkSize /\ From(i) \in Nat
  BY PacketPieces
<1>2. n.seq \in Nat /\ n.chunk \in Nat /\ n.ordered \in Options(Nat)
  BY DEF Numbers
<1>. HIDE DEF ps, k
<1>3. Packets(payload, n) = {Encode(FrameOf(payload, n, i)) : i \in 1 .. k}
  BY <1>1 DEF Packets, FrameOf, OrderedIndex, ps, k, From
<1>4. ASSUME NEW i \in 1 .. k PROVE FrameOf(payload, n, i) \in ReliableFrames
  <2>1. ps[i] \in Payloads /\ Len(ps[i]) <= ChunkSize
    BY <1>0, <1>1
  <2>2. n.seq + i - 1 \in Nat
    BY <1>1, <1>2
  <2>3. From(i) \in Nat
    BY <1>1
  <2>4. [id |-> n.chunk, offset |-> From(i), total |-> Len(payload), count |-> k] \in ChunkHeads
    BY <1>0, <1>1, <1>2, <2>3 DEF ChunkHeads
  <2>. DEFINE ch == IF Len(payload) > ChunkSize
                    THEN Some([id |-> n.chunk, offset |-> From(i), total |-> Len(payload), count |-> k])
                    ELSE None
  <2>5. ch \in Options(ChunkHeads)
    BY <2>4 DEF Options
  <2>. HIDE DEF ch
  <2>6. Reliable(ps[i], n.seq + i - 1, 0, SentAt, n.ordered, ch) \in ReliableFrames
    BY <1>0, <1>2, <2>1, <2>2, <2>5 DEF Reliable, ReliableFrames
  <2>. QED  BY <2>6 DEF FrameOf, ps, k, ch
<1>5. NextSeq(n, payload) = n.seq + k
  BY <1>1 DEF NextSeq, ps
<1>6. NextChunk(n, payload) \in Nat /\ n.chunk <= NextChunk(n, payload)
  BY <1>0, <1>2 DEF NextChunk
<1>. QED  BY <1>1, <1>2, <1>3, <1>4, <1>5, <1>6 DEF k, Datagrams

LEMMA UnreliableDatagram ==
    ASSUME NEW payload \in Payloads
    PROVE  Encode(Unreliable(payload)) \in Datagrams
BY DEF Datagrams

-----------------------------------------------------------------------------
(* Readers *)

Reassemblies == [buf : Payloads, have : Nat]
Readers == [processed : SUBSET Nat, inbound : UNION {[D -> Reassemblies] : D \in SUBSET Nat}]

LEMMA NewReaderType == NewReader \in Readers
<1>1. <<>> \in [{} -> Reassemblies]
  OBVIOUS
<1>2. <<>> \in UNION {[D -> Reassemblies] : D \in SUBSET Nat}
  BY <1>1
<1>. QED  BY <1>2 DEF NewReader, Readers

\* What a reader is made of.
LEMMA ReaderParts ==
    ASSUME NEW r \in Readers
    PROVE  /\ r.processed \subseteq Nat /\ DOMAIN r.inbound \subseteq Nat
           /\ r.inbound \in [DOMAIN r.inbound -> Reassemblies]
           /\ \A k \in DOMAIN r.inbound : /\ r.inbound[k] \in Reassemblies
                                          /\ r.inbound[k].buf \in Payloads
                                          /\ r.inbound[k].have \in Nat
<1>1. r.inbound \in UNION {[D -> Reassemblies] : D \in SUBSET Nat} /\ r.processed \subseteq Nat
  BY DEF Readers
<1>2. PICK D \in SUBSET Nat : r.inbound \in [D -> Reassemblies]
  BY <1>1
<1>. QED  BY <1>1, <1>2 DEF Reassemblies

\* An event begun, and with a piece more.
LEMMA NewReassemblyType ==
    ASSUME NEW total \in Nat
    PROVE  /\ NewReassembly(total) \in Reassemblies
           /\ Len(NewReassembly(total).buf) = total
           /\ DOMAIN NewReassembly(total).buf = 1 .. total
           /\ \A k \in 1 .. total : NewReassembly(total).buf[k] = 0
           /\ NewReassembly(total).have = 0
<1>1. [k \in 1 .. total |-> 0] \in [1 .. total -> Byte]
  BY Tags
<1>2. [k \in 1 .. total |-> 0] \in Seq(Byte) /\ Len([k \in 1 .. total |-> 0]) = total
  BY <1>1, FunctionIsSeq
<1>. QED  BY <1>2 DEF NewReassembly, Reassemblies, Payloads

LEMMA WithPieceType ==
    ASSUME NEW old \in Reassemblies, NEW ch, NEW piece \in Payloads, ch.offset \in Nat
    PROVE  /\ WithPiece(old, ch, piece) \in Reassemblies
           /\ Len(WithPiece(old, ch, piece).buf) = Len(old.buf)
           /\ DOMAIN WithPiece(old, ch, piece).buf = 1 .. Len(old.buf)
           /\ \A k \in 1 .. Len(old.buf) : WithPiece(old, ch, piece).buf[k] =
                IF k - ch.offset \in 1 .. Len(piece) THEN piece[k - ch.offset] ELSE old.buf[k]
           /\ WithPiece(old, ch, piece).have = old.have + Len(piece)
<1>. DEFINE b == WithPiece(old, ch, piece).buf
<1>1. /\ old.buf \in Seq(Byte) /\ old.have \in Nat /\ Len(old.buf) \in Nat
      /\ DOMAIN old.buf = 1 .. Len(old.buf)
      /\ piece \in Seq(Byte) /\ Len(piece) \in Nat /\ DOMAIN piece = 1 .. Len(piece)
  BY DEF Reassemblies, Payloads
<1>2. b = [k \in 1 .. Len(old.buf) |->
                IF k - ch.offset \in 1 .. Len(piece) THEN piece[k - ch.offset] ELSE old.buf[k]]
  BY <1>1 DEF WithPiece
<1>3. \A k \in 1 .. Len(old.buf) : old.buf[k] \in Byte
  BY <1>1
<1>4. \A k \in 1 .. Len(piece) : piece[k] \in Byte
  BY <1>1
<1>. HIDE DEF b
<1>5. b \in [1 .. Len(old.buf) -> Byte]
  BY <1>2, <1>3, <1>4
<1>6. b \in Seq(Byte) /\ Len(b) = Len(old.buf)
  BY <1>1, <1>5, FunctionIsSeq
<1>7. old.have + Len(piece) \in Nat
  BY <1>1
<1>8. WithPiece(old, ch, piece) = [buf |-> b, have |-> old.have + Len(piece)]
  BY DEF WithPiece, b
<1>. QED  BY <1>2, <1>6, <1>7, <1>8 DEF Reassemblies, Payloads

LEMMA FrameParts ==
    ASSUME NEW f \in ReliableFrames
    PROVE  /\ f.payload \in Payloads /\ f.seq \in Nat
           /\ f.ordered \in Options(Nat) /\ f.chunk \in Options(ChunkHeads)
           /\ f.chunk # None => /\ f.chunk[1] \in ChunkHeads
                                /\ f.chunk[1].id \in Nat /\ f.chunk[1].offset \in Nat
                                /\ f.chunk[1].total \in Nat
<1>1. /\ f.payload \in Payloads /\ f.seq \in Nat
      /\ f.ordered \in Options(Nat) /\ f.chunk \in Options(ChunkHeads)
  BY DEF ReliableFrames
<1>2. f.chunk # None => f.chunk[1] \in ChunkHeads
  BY <1>1, OptionCases
<1>. QED  BY <1>1, <1>2 DEF ChunkHeads

\* The reassembly a piece is added to.
OldOf(r, ch) == IF ch.id \in DOMAIN r.inbound THEN r.inbound[ch.id] ELSE NewReassembly(ch.total)

LEMMA WithType ==
    ASSUME NEW r \in Readers, NEW f \in ReliableFrames, f.chunk # None
    PROVE  OldOf(r, f.chunk[1]) \in Reassemblies /\ With(r, f) \in Reassemblies
<1>1. f.payload \in Payloads /\ f.chunk[1].offset \in Nat /\ f.chunk[1].total \in Nat
  BY FrameParts
<1>2. OldOf(r, f.chunk[1]) \in Reassemblies
  BY <1>1, ReaderParts, NewReassemblyType DEF OldOf
<1>3. WithPiece(OldOf(r, f.chunk[1]), f.chunk[1], f.payload) \in Reassemblies
  BY <1>1, <1>2, WithPieceType
<1>. QED  BY <1>2, <1>3 DEF With, OldOf

\* A reader stays one, and hands on payloads only.
LEMMA ReaderStep ==
    ASSUME NEW r \in Readers, NEW f \in ReliableFrames
    PROVE  /\ AfterPacket(r, f) \in Readers
           /\ Completed(r, f) \in Options(Payloads)
<1>. DEFINE id == f.chunk[1].id
            inb == AfterPacket(r, f).inbound
            all == UNION {[D -> Reassemblies] : D \in SUBSET Nat}
<1>1. f.payload \in Payloads /\ f.seq \in Nat /\ (f.chunk # None => id \in Nat)
  BY FrameParts
<1>2. /\ r.processed \subseteq Nat /\ DOMAIN r.inbound \subseteq Nat
      /\ r.inbound \in [DOMAIN r.inbound -> Reassemblies]
  BY ReaderParts
<1>3. f.chunk # None => With(r, f) \in Reassemblies
  BY WithType
<1>4. inb \in all
  <2>1. CASE f.seq \in r.processed \/ f.chunk = None
    <3>1. inb = r.inbound
      BY <2>1 DEF AfterPacket
    <3>. QED  BY <1>2, <3>1
  <2>2. CASE ~(f.seq \in r.processed \/ f.chunk = None) /\ IsWhole(With(r, f))
    <3>. DEFINE D == DOMAIN r.inbound \ {id}
    <3>1. inb = [k \in D |-> r.inbound[k]]
      BY <2>2 DEF AfterPacket, Restrict
    <3>2. D \in SUBSET Nat /\ \A k \in D : r.inbound[k] \in Reassemblies
      BY <1>2
    <3>. HIDE DEF D, inb
    <3>. QED  BY <3>1, <3>2
  <2>3. CASE ~(f.seq \in r.processed \/ f.chunk = None) /\ ~IsWhole(With(r, f))
    <3>. DEFINE D == DOMAIN r.inbound \cup {id}
    <3>1. inb = [k \in D |-> IF k = id THEN With(r, f) ELSE r.inbound[k]]
      BY <2>3 DEF AfterPacket
    <3>2. D \in SUBSET Nat /\ \A k \in D : (IF k = id THEN With(r, f) ELSE r.inbound[k]) \in Reassemblies
      BY <1>1, <1>2, <1>3, <2>3
    <3>. HIDE DEF D, inb
    <3>. QED  BY <3>1, <3>2
  <2>. QED  BY <2>1, <2>2, <2>3
<1>5. AfterPacket(r, f) = [processed |-> r.processed \cup {f.seq}, inbound |-> inb]
  BY DEF AfterPacket
<1>6. r.processed \cup {f.seq} \in SUBSET Nat
  BY <1>1, <1>2
<1>. HIDE DEF inb, all
<1>7. AfterPacket(r, f) \in [processed : SUBSET Nat, inbound : all]
  BY <1>4, <1>5, <1>6
<1>8. f.chunk # None => With(r, f).buf \in Payloads
  BY <1>3 DEF Reassemblies
<1>9. Completed(r, f) \in Options(Payloads)
  BY <1>1, <1>8 DEF Completed, Options
<1>. QED  BY <1>7, <1>9 DEF Readers, all

-----------------------------------------------------------------------------
(* Types, which need no bound on the numbers *)

SaidEvents == [from : Clients, reliable : BOOLEAN, payload : Payloads]

WireInv ==
    /\ said \in Seq(SaidEvents)
    /\ sender \in [Clients -> [seq : Nat, chunk : Nat]]
    /\ lobby \subseteq Clients
    /\ next \in [Clients -> [seq : Nat, ordered : Nat, chunk : Nat]]
    /\ toServer \in [Clients -> SUBSET Datagrams]
    /\ toClient \in [Clients -> SUBSET Datagrams]
    /\ heard \in [Clients -> SUBSET Payloads]
    /\ server \in [Clients -> Readers]
    /\ reader \in [Clients -> Readers]

\* An event has the discriminant it starts with.
LEMMA SmallDiscriminant ==
    ASSUME NEW p \in Payloads, NEW d \in 0 .. 48, At(p, 0, Le(d, U32))
    PROVE  Discriminant(p) = d
<1>1. d \in Nat /\ d < Limit
  BY SmallSizes
<1>2. U32 \in 4 .. 8 /\ 0 \in Nat /\ p \in Seq(Byte)
  BY DEF U32, Payloads
<1>3. Word(p, 0, U32) = d
  BY <1>1, <1>2, WordOfLe
<1>. QED  BY <1>3 DEF Discriminant

\* What a game says: some bytes, which name the event they start with.
LEMMA SaidBytes ==
    ASSUME NEW len \in Nat, said \in Seq(SaidEvents)
    PROVE  Bytes(len) \in Payloads /\ IsBytes(Bytes(len), len)
<1>. DEFINE b == Bytes(len)
<1>1. Len(said) \in Nat /\ Base \in Nat /\ Base > 4
  BY WireAssumption
<1>2. \A k \in 1 .. len : (2 * Len(said) + k - 1) % Base \in Byte
  <2>. \A k \in 1 .. len : 2 * Len(said) + k - 1 \in Nat
    BY <1>1
  <2>. QED  BY <1>1 DEF Byte
<1>3. b \in [1 .. len -> Byte]
  BY <1>2 DEF Bytes
<1>. HIDE DEF b
<1>4. b \in Seq(Byte) /\ Len(b) = len
  BY <1>3, FunctionIsSeq
<1>. QED  BY <1>4 DEF b, IsBytes, Payloads

LEMMA SaidPayload ==
    ASSUME NEW d \in 0 .. 48, NEW len \in Nat, said \in Seq(SaidEvents)
    PROVE  /\ Le(d, U32) \o Bytes(len) \in Payloads
           /\ Discriminant(Le(d, U32) \o Bytes(len)) = d
<1>. DEFINE b == Bytes(len)
            a == Le(d, U32)
            p == a \o b
<1>1. d \in Nat
  OBVIOUS
<1>2. IsBytes(a, 4) /\ IsBytes(b, len)
  BY <1>1, SaidBytes, LeWidths
<1>. HIDE DEF a, b
<1>3. a \in Seq(Byte) /\ Len(a) = 4 /\ b \in Seq(Byte) /\ Len(b) = len
  BY <1>2 DEF IsBytes
<1>4. p \in Seq(Byte) /\ Len(p) = 4 + len
  <2>. IsBytes(Cat(a, b), 4 + len)
    BY <1>2, CatBytes
  <2>. QED  BY DEF IsBytes, Cat
<1>5. \A k \in 1 .. Len(a) : (a \o b)[k] = a[k]
  BY <1>3, ConcatElements, ZenonT(60)
<1>6. At(p, 0, a)
  BY <1>3, <1>4, <1>5 DEF At, Fits
<1>. HIDE DEF p
<1>7. Discriminant(p) = d
  BY <1>4, <1>6, SmallDiscriminant DEF a, Payloads
<1>. QED  BY <1>4, <1>7 DEF p, a, b, Payloads

\* Sending to some keeps the types.
LEMMA RelayedType ==
    ASSUME NEW S, NEW payload \in Payloads,
           next \in [Clients -> [seq : Nat, ordered : Nat, chunk : Nat]],
           toClient \in [Clients -> SUBSET Datagrams],
           BroadcastReliable(S, payload) \/ SendUnreliable(S, payload) \/ Nothing
    PROVE  /\ next' \in [Clients -> [seq : Nat, ordered : Nat, chunk : Nat]]
           /\ toClient' \in [Clients -> SUBSET Datagrams]
<1>1. CASE BroadcastReliable(S, payload)
  <2>1. ASSUME NEW a \in Clients
        PROVE  /\ Packets(payload, Ordered(a)) \subseteq Datagrams
               /\ NextSeq(Ordered(a), payload) \in Nat
               /\ NextChunk(Ordered(a), payload) \in Nat
               /\ next[a].ordered + 1 \in Nat
    <3>1. next[a] \in [seq : Nat, ordered : Nat, chunk : Nat]
      OBVIOUS
    <3>2. Ordered(a) = [next[a] EXCEPT !.ordered = Some(next[a].ordered)]
      BY DEF Ordered
    <3>3. /\ Ordered(a).seq = next[a].seq /\ Ordered(a).chunk = next[a].chunk
          /\ Ordered(a).ordered = Some(next[a].ordered)
      BY <3>1, <3>2
    <3>4. Numbers(Ordered(a))
      BY <3>1, <3>3 DEF Numbers, Options
    <3>. QED  BY <3>1, <3>4, PacketFrames
  <2>2. next' \in [Clients -> [seq : Nat, ordered : Nat, chunk : Nat]]
    <3>. DEFINE more(a) == [next[a] EXCEPT !.ordered = @ + 1]
    <3>1. \A a \in Clients : more(a) \in [seq : Nat, ordered : Nat, chunk : Nat]
      BY <2>1
    <3>. QED  BY <1>1, <2>1, <3>1 DEF BroadcastReliable
  <2>3. toClient' \in [Clients -> SUBSET Datagrams]
    <3>1. \A a \in Clients : (IF a \in S /\ payload # <<>> THEN toClient[a] \cup Packets(payload, Ordered(a)) ELSE toClient[a])
                                \in SUBSET Datagrams
      BY <2>1
    <3>. QED  BY <1>1, <3>1 DEF BroadcastReliable
  <2>. QED  BY <2>2, <2>3
<1>2. CASE SendUnreliable(S, payload)
  <2>1. Encode(Unreliable(payload)) \in Datagrams
    BY UnreliableDatagram
  <2>2. \A a \in Clients : (IF a \in S THEN toClient[a] \cup {Encode(Unreliable(payload))} ELSE toClient[a])
                                \in SUBSET Datagrams
    BY <2>1
  <2>. QED  BY <1>2, <2>2 DEF SendUnreliable
<1>3. CASE Nothing
  BY <1>3 DEF Nothing
<1>. QED  BY <1>1, <1>2, <1>3

\* What the server does about an event: it passes on one payload, or nothing.
LEMMA EventRelays ==
    ASSUME NEW c \in Clients, NEW payload \in Payloads, HandleEvent(c, payload)
    PROVE  LET d == Discriminant(payload)
           IN  /\ lobby' = lobby \/ (d = GARAGESTATE /\ lobby' = lobby \cup {c})
               /\ \/ /\ NamesEvent(payload) /\ d \in DOMAIN Twins \ {READY}
                     /\ c \in lobby'
                     /\ WithSender(Twins[d], c, payload) \in Payloads
                     /\ BroadcastReliable(Peers(c), WithSender(Twins[d], c, payload))
                  \/ /\ NamesEvent(payload) /\ d = READY /\ HasReady(payload)
                     /\ EncodeReadyBroadcast(c, payload) \in Payloads
                     /\ BroadcastReliable(Peers(c), EncodeReadyBroadcast(c, payload))
                  \/ /\ NamesEvent(payload) => d = CHAT /\ c \in lobby
                     /\ BroadcastReliable(Peers(c), payload)
                  \/ Nothing
<1>. DEFINE d == Discriminant(payload)
<1>1. c \in Nat
  BY RelayAssumption DEF Clients
<1>2. d \in DOMAIN Twins => WithSender(Twins[d], c, payload) \in Payloads
  <2>. SUFFICES ASSUME d \in DOMAIN Twins PROVE WithSender(Twins[d], c, payload) \in Payloads
    OBVIOUS
  <2>1. Twins[d] \in Nat
    BY TwinNumbers
  <2>. HIDE DEF d
  <2>. QED  BY <1>1, <2>1, WithSenderBytes
<1>3. HasReady(payload) => EncodeReadyBroadcast(c, payload) \in Payloads
  BY <1>1, ReadyBytes
<1>4. CHAT # GARAGESTATE
  BY DEF CHAT, GARAGESTATE
<1>5. CASE NamesEvent(payload) /\ HandleNamed(c, payload)
  <2>1. /\ lobby' = IF d = GARAGESTATE THEN lobby \cup {c} ELSE lobby
        /\ \/ /\ d \in DOMAIN Twins \ {READY} /\ (c \in lobby \/ d = GARAGESTATE)
              /\ BroadcastReliable(Peers(c), WithSender(Twins[d], c, payload))
           \/ /\ d = READY /\ HasReady(payload)
              /\ BroadcastReliable(Peers(c), EncodeReadyBroadcast(c, payload))
           \/ /\ d = CHAT /\ (c \in lobby \/ d = GARAGESTATE)
              /\ BroadcastReliable(Peers(c), payload)
           \/ Nothing
    BY <1>5 DEF HandleNamed, RelayTwin
  <2>. HIDE DEF d
  <2>2. d = GARAGESTATE \/ c \in lobby => c \in lobby'
    BY <2>1
  <2>. QED  BY <1>2, <1>3, <1>4, <1>5, <2>1, <2>2 DEF d
<1>6. CASE ~NamesEvent(payload) /\ UNCHANGED lobby /\ BroadcastReliable(Peers(c), payload)
  BY <1>6
<1>. QED  BY <1>5, <1>6 DEF HandleEvent

\* ... and about what comes unreliably.
LEMMA UnreliableRelays ==
    ASSUME NEW c \in Clients, NEW payload \in Payloads, HandleUnreliable(c, payload)
    PROVE  LET d == Discriminant(payload)
           IN  /\ lobby' = lobby
               /\ \/ /\ NamesEvent(payload) /\ d = CARSTATE /\ c \in lobby /\ IsCarState(payload)
                     /\ EncodeCarBroadcast(c, payload) \in Payloads
                     /\ SendUnreliable(Peers(c), EncodeCarBroadcast(c, payload))
                  \/ /\ NamesEvent(payload) /\ d \in DOMAIN Twins \ {CARSTATE} /\ c \in lobby
                     /\ WithSender(Twins[d], c, payload) \in Payloads
                     /\ BroadcastReliable(Peers(c), WithSender(Twins[d], c, payload))
                  \/ /\ NamesEvent(payload) => d = CHAT
                     /\ SendUnreliable(Peers(c), payload)
                  \/ Nothing
<1>. DEFINE d == Discriminant(payload)
<1>1. c \in Nat
  BY RelayAssumption DEF Clients
<1>2. ASSUME d \in DOMAIN Twins
      PROVE  WithSender(Twins[d], c, payload) \in Payloads
  <2>1. Twins[d] \in Nat
    BY <1>2, TwinNumbers
  <2>. HIDE DEF d
  <2>. QED  BY <1>1, <2>1, WithSenderBytes
<1>3. ASSUME IsCarState(payload) PROVE EncodeCarBroadcast(c, payload) \in Payloads
  BY <1>1, <1>3, CarBroadcastBytes
<1>. QED  BY <1>2, <1>3 DEF HandleUnreliable, RelayTwin, BroadcastVerbatim, CHAT

LEMMA DatagramFrame ==
    ASSUME NEW b \in Datagrams
    PROVE  /\ Parse(b).kind \in {RELIABLE, UNRELIABLE}
           /\ Parse(b).kind = UNRELIABLE => Parse(b).payload \in Payloads
           /\ Parse(b).kind = RELIABLE => Parse(b) \in ReliableFrames
BY DatagramsAreUnambiguous

LEMMA WireInit == Init => WireInv
<1>. SUFFICES ASSUME Init PROVE WireInv
  OBVIOUS
<1>1. 1 .. NEarly \subseteq Clients
  BY RelayAssumption DEF Clients
<1>. QED  BY <1>1, NewReaderType DEF Init, WireInv

\* WireInv is kept by each of the steps.
LEMMA SayTypes ==
    ASSUME WireInv, NEW c \in Clients, NEW payload \in Payloads,
           NEW reliable \in BOOLEAN, Say(c, payload, reliable)
    PROVE  WireInv'
<1>. DEFINE n == [seq |-> sender[c].seq, chunk |-> sender[c].chunk, ordered |-> None]
<1>2. /\ said' = Append(said, [from |-> c, reliable |-> reliable, payload |-> payload])
      /\ \/ /\ toServer' = [toServer EXCEPT ![c] = @ \cup {Encode(Unreliable(payload))}]
            /\ UNCHANGED sender
         \/ /\ toServer' = [toServer EXCEPT ![c] = @ \cup Packets(payload, n)]
            /\ sender' = [sender EXCEPT ![c] =
                    [seq |-> NextSeq(n, payload), chunk |-> NextChunk(n, payload)]]
      /\ UNCHANGED <<reader, heard, lobby, server, next, toClient>>
  BY DEF Say
<1>3. Numbers(n)
  BY DEF WireInv, Numbers, Options
<1>. HIDE DEF n
<1>4. /\ Encode(Unreliable(payload)) \in Datagrams /\ Packets(payload, n) \subseteq Datagrams
      /\ NextSeq(n, payload) \in Nat /\ NextChunk(n, payload) \in Nat
  BY <1>3, PacketFrames, UnreliableDatagram
<1>5. said' \in Seq(SaidEvents)
  <2>. [from |-> c, reliable |-> reliable, payload |-> payload] \in SaidEvents
    BY DEF SaidEvents
  <2>. QED  BY <1>2 DEF WireInv
<1>6. sender' \in [Clients -> [seq : Nat, chunk : Nat]] /\ toServer' \in [Clients -> SUBSET Datagrams]
  <2>0. sender \in [Clients -> [seq : Nat, chunk : Nat]] /\ toServer \in [Clients -> SUBSET Datagrams]
    BY DEF WireInv
  <2>1. CASE toServer' = [toServer EXCEPT ![c] = @ \cup {Encode(Unreliable(payload))}] /\ UNCHANGED sender
    BY <1>4, <2>0, <2>1
  <2>2. CASE /\ toServer' = [toServer EXCEPT ![c] = @ \cup Packets(payload, n)]
             /\ sender' = [sender EXCEPT ![c] =
                    [seq |-> NextSeq(n, payload), chunk |-> NextChunk(n, payload)]]
    <3>1. [seq |-> NextSeq(n, payload), chunk |-> NextChunk(n, payload)] \in [seq : Nat, chunk : Nat]
      BY <1>4
    <3>. QED  BY <1>4, <2>0, <2>2, <3>1
  <2>. QED  BY <1>2, <2>1, <2>2
<1>. QED  BY <1>2, <1>5, <1>6 DEF WireInv

LEMMA HearTypes ==
    ASSUME WireInv, NEW c \in Clients, NEW b \in toClient[c], Hear(c, b)
    PROVE  WireInv'
<1>. DEFINE f == Parse(b)
<1>0. b \in Datagrams
  BY DEF WireInv
<1>1. /\ f.kind = UNRELIABLE => f.payload \in Payloads
      /\ f.kind = RELIABLE => f \in ReliableFrames
  BY <1>0, DatagramFrame
<1>2. UNCHANGED <<said, sender, toServer, lobby, server, next>>
  BY DEF Hear
<1>3. CASE f.kind = UNRELIABLE /\ heard' = [heard EXCEPT ![c] = @ \cup {f.payload}]
           /\ toClient' = [toClient EXCEPT ![c] = @ \ {b}] /\ UNCHANGED reader
  <2>. HIDE DEF f
  <2>1. heard' \in [Clients -> SUBSET Payloads]
    BY <1>1, <1>3 DEF WireInv
  <2>2. toClient' \in [Clients -> SUBSET Datagrams]
    BY <1>3 DEF WireInv
  <2>. QED  BY <1>2, <1>3, <2>1, <2>2 DEF WireInv
<1>4. CASE f.kind = RELIABLE /\ heard' = [heard EXCEPT ![c] = @ \cup ToSet(Completed(reader[c], f))]
           /\ reader' = [reader EXCEPT ![c] = AfterPacket(@, f)] /\ UNCHANGED toClient
  <2>. HIDE DEF f
  <2>0. reader[c] \in Readers /\ f \in ReliableFrames
    BY <1>1, <1>4 DEF WireInv
  <2>1. AfterPacket(reader[c], f) \in Readers /\ Completed(reader[c], f) \in Options(Payloads)
    BY <2>0, ReaderStep
  <2>2. ToSet(Completed(reader[c], f)) \subseteq Payloads
    BY <2>1 DEF Options, None, Some, ToSet
  <2>3. heard' \in [Clients -> SUBSET Payloads]
    BY <1>4, <2>2 DEF WireInv
  <2>4. reader' \in [Clients -> Readers]
    BY <1>4, <2>1 DEF WireInv
  <2>. QED  BY <1>2, <1>4, <2>3, <2>4 DEF WireInv
<1>. QED  BY <1>3, <1>4 DEF Hear

LEMMA HandleTypes ==
    ASSUME WireInv, NEW c \in Clients, NEW b \in toServer[c], Handle(c, b)
    PROVE  WireInv'
<1>. DEFINE f == Parse(b)
            NT == [Clients -> [seq : Nat, ordered : Nat, chunk : Nat]]
<1>0. b \in Datagrams
  BY DEF WireInv
<1>1. /\ f.kind = UNRELIABLE => f.payload \in Payloads
      /\ f.kind = RELIABLE => f \in ReliableFrames
  BY <1>0, DatagramFrame
<1>2. UNCHANGED <<said, sender, reader, heard>>
  BY DEF Handle, gameVars
<1>3. CASE f.kind = UNRELIABLE /\ HandleUnreliable(c, f.payload)
           /\ toServer' = [toServer EXCEPT ![c] = @ \ {b}] /\ UNCHANGED server
  <2>. HIDE DEF f
  <2>1. /\ lobby' = lobby
        /\ \E S \in SUBSET Clients, p \in Payloads :
                BroadcastReliable(S, p) \/ SendUnreliable(S, p) \/ Nothing
    <3>. DEFINE P == f.payload
    <3>1. P \in Payloads /\ HandleUnreliable(c, P)
      BY <1>1, <1>3
    <3>2. Peers(c) \in SUBSET Clients
      BY DEF WireInv, Peers
    <3>. HIDE DEF P
    <3>. QED  BY <3>1, <3>2, UnreliableRelays
  <2>2. next' \in NT /\ toClient' \in [Clients -> SUBSET Datagrams]
    BY <2>1, RelayedType DEF WireInv
  <2>3. toServer' \in [Clients -> SUBSET Datagrams]
    BY <1>3 DEF WireInv
  <2>. QED  BY <1>2, <1>3, <2>1, <2>2, <2>3 DEF WireInv
<1>4. CASE /\ f.kind = RELIABLE
           /\ server' = [server EXCEPT ![c] = AfterPacket(@, f)]
           /\ \/ Completed(server[c], f) = None /\ UNCHANGED lobby /\ Nothing
              \/ Completed(server[c], f) # None /\ HandleEvent(c, Completed(server[c], f)[1])
           /\ UNCHANGED toServer
  <2>. HIDE DEF f
  <2>0. server[c] \in Readers /\ f \in ReliableFrames
    BY <1>1, <1>4 DEF WireInv
  <2>1. AfterPacket(server[c], f) \in Readers /\ Completed(server[c], f) \in Options(Payloads)
    BY <2>0, ReaderStep
  <2>2. server' \in [Clients -> Readers]
    BY <1>4, <2>1 DEF WireInv
  <2>3. /\ lobby' \subseteq Clients
        /\ \E S \in SUBSET Clients, p \in Payloads :
                BroadcastReliable(S, p) \/ SendUnreliable(S, p) \/ Nothing
    <3>1. CASE Completed(server[c], f) = None
      <4>. None \in Payloads
        BY DEF None, Payloads
      <4>. QED  BY <1>4, <3>1 DEF WireInv
    <3>2. CASE Completed(server[c], f) # None
      <4>. DEFINE p == Completed(server[c], f)[1]
      <4>1. p \in Payloads
        BY <2>1, <3>2, OptionCases
      <4>2. HandleEvent(c, p)
        BY <1>4, <3>2
      <4>3. Peers(c) \in SUBSET Clients /\ lobby \subseteq Clients
        BY DEF WireInv, Peers
      <4>. HIDE DEF p
      <4>. QED  BY <4>1, <4>2, <4>3, EventRelays
    <3>. QED  BY <3>1, <3>2
  <2>4. next' \in NT /\ toClient' \in [Clients -> SUBSET Datagrams]
    BY <2>3, RelayedType DEF WireInv
  <2>. QED  BY <1>2, <1>4, <2>2, <2>3, <2>4 DEF WireInv
<1>. QED  BY <1>3, <1>4 DEF Handle

\* The actors' steps, one by one.
LEMMA Steps ==
    ASSUME WireInv, Next
    PROVE  \E c \in Clients :
            \/ \E payload \in Payloads, reliable \in BOOLEAN :
                    /\ Say(c, payload, reliable)
                    /\ NamesEvent(payload) /\ reliable => Discriminant(payload) \in Reliably
            \/ \E b \in toClient[c] : Hear(c, b)
            \/ \E b \in toServer[c] : Handle(c, b)
<1>0. said \in Seq(SaidEvents)
  BY DEF WireInv
<1>1. PICK c \in Clients : GameSays(c) \/ GameHears(c) \/ ServerReceives(c)
  BY DEF Next
<1>2. CASE GameSays(c)
  <2>1. PICK reliable \in BOOLEAN :
            \/ \E d \in IF reliable THEN Reliably ELSE Unreliably : \E len \in BodyLengths :
                    Say(c, Le(d, U32) \o Bytes(len), reliable)
            \/ \E len \in ShortLengths : Say(c, Bytes(len), reliable)
    BY <1>2 DEF GameSays
  <2>2. CASE \E d \in IF reliable THEN Reliably ELSE Unreliably : \E len \in BodyLengths :
                    Say(c, Le(d, U32) \o Bytes(len), reliable)
    <3>1. PICK d \in IF reliable THEN Reliably ELSE Unreliably, len \in BodyLengths :
                Say(c, Le(d, U32) \o Bytes(len), reliable)
      BY <2>2
    <3>2. d \in 0 .. 48 /\ len \in Nat /\ (reliable => d \in Reliably)
      BY RelayAssumption
    <3>. DEFINE p == Le(d, U32) \o Bytes(len)
    <3>3. p \in Payloads /\ Discriminant(p) = d
      BY <1>0, <3>2, SaidPayload
    <3>. HIDE DEF p
    <3>4. Say(c, p, reliable)
      BY <3>1 DEF p
    <3>. QED  BY <3>2, <3>3, <3>4
  <2>3. CASE \E len \in ShortLengths : Say(c, Bytes(len), reliable)
    <3>1. PICK len \in ShortLengths : Say(c, Bytes(len), reliable)
      BY <2>3
    <3>2. len \in Nat /\ len < U32
      BY RelayAssumption DEF U32
    <3>. DEFINE p == Bytes(len)
    <3>3. p \in Payloads /\ Len(p) = len
      BY <1>0, <3>2, SaidBytes DEF IsBytes
    <3>. HIDE DEF p
    <3>4. Say(c, p, reliable)
      BY <3>1 DEF p
    <3>5. ~NamesEvent(p)
      BY <3>2, <3>3 DEF NamesEvent, U32
    <3>. QED  BY <3>3, <3>4, <3>5
  <2>. QED  BY <2>1, <2>2, <2>3
<1>. QED  BY <1>1, <1>2 DEF GameHears, ServerReceives

LEMMA WireStep ==
    ASSUME WireInv, [Next]_vars
    PROVE  WireInv'
<1>1. CASE Next
  BY <1>1, Steps, SayTypes, HearTypes, HandleTypes
<1>2. CASE UNCHANGED vars
  BY <1>2 DEF WireInv, vars, gameVars
<1>. QED  BY <1>1, <1>2

\* What is on its way reads as what was sent, and nothing shorter reads as
\* anything: codec's round trip, for every width of a byte, size of a datagram
\* and events there are.
THEOREM FramesReadBack == Spec => []FramesAreUnambiguous
<1>1. Init => WireInv
  BY WireInit
<1>2. WireInv /\ [Next]_vars => WireInv'
  BY WireStep
<1>3. WireInv => FramesAreUnambiguous
  <2>. SUFFICES ASSUME WireInv, NEW c \in Clients, NEW b \in toServer[c] \cup toClient[c]
                PROVE  b \in Datagrams
    BY DatagramsAreUnambiguous DEF FramesAreUnambiguous
  <2>. QED  BY DEF WireInv
<1>. QED  BY <1>1, <1>2, <1>3, PTL DEF Spec

-----------------------------------------------------------------------------
(* Events in pieces *)

\* The bytes of the pieces S of a payload, and a reassembly with just them.
Covered(payload, S) == {j \in 1 .. Len(payload) : PieceOf(j) \in S}
Partly(payload, S, a) ==
    /\ a \in Reassemblies /\ Len(a.buf) = Len(payload)
    /\ \A j \in 1 .. Len(payload) : a.buf[j] = IF PieceOf(j) \in S THEN payload[j] ELSE 0
    /\ a.have = Cardinality(Covered(payload, S))

AllPieces(payload) == 1 .. PacketCount(payload)

LEMMA AllOfThem ==
    ASSUME NEW payload \in Payloads, Len(payload) > 0
    PROVE  AllPieces(payload) = 1 .. Count(Len(payload))
BY DEF AllPieces, PacketCount, Payloads

\* The size of an interval, and of what is covered.
LEMMA IntervalSize ==
    ASSUME NEW m \in Nat, NEW n \in Nat, m <= n
    PROVE  IsFiniteSet(m + 1 .. n) /\ Cardinality(m + 1 .. n) = n - m
<1>. DEFINE a == m + 1
<1>1. a \in Int /\ n \in Int
  OBVIOUS
<1>. HIDE DEF a
<1>2. IsFiniteSet(a .. n) /\ Cardinality(a .. n) = IF a > n THEN 0 ELSE n - a + 1
  BY <1>1, FS_Interval
<1>. QED  BY <1>2 DEF a

LEMMA CoveredFinite ==
    ASSUME NEW payload \in Payloads, NEW S
    PROVE  /\ IsFiniteSet(Covered(payload, S)) /\ Cardinality(Covered(payload, S)) \in Nat
           /\ Cardinality(Covered(payload, S)) <= Len(payload)
           /\ Cardinality(Covered(payload, S)) = Len(payload) => Covered(payload, S) = 1 .. Len(payload)
<1>1. Len(payload) \in Nat
  BY DEF Payloads
<1>2. IsFiniteSet(1 .. Len(payload)) /\ Cardinality(1 .. Len(payload)) = Len(payload)
  <2>. DEFINE len == Len(payload)
  <2>. HIDE DEF len
  <2>1. len \in Nat /\ 0 \in Nat /\ 0 <= len
    BY <1>1 DEF len
  <2>2. IsFiniteSet(0 + 1 .. len) /\ Cardinality(0 + 1 .. len) = len - 0
    BY <2>1, IntervalSize
  <2>. QED  BY <2>1, <2>2 DEF len
<1>3. Covered(payload, S) \subseteq 1 .. Len(payload)
  BY DEF Covered
<1>. QED  BY <1>1, <1>2, <1>3, FS_Subset, FS_CardinalityType

\* A byte is in a piece if it lies between its bounds.
LEMMA PieceBytes ==
    ASSUME NEW payload \in Payloads, NEW i \in AllPieces(payload), NEW j \in 1 .. Len(payload)
    PROVE  PieceOf(j) = i <=> From(i) < j /\ j <= Upto(i, Len(payload))
<1>1. Len(payload) \in Nat
  BY DEF Payloads
<1>2. i \in 1 .. Count(Len(payload))
  <2>. Len(payload) > 0
    BY <1>1
  <2>. QED  BY AllOfThem
<1>. QED  BY <1>1, <1>2, PieceOfByte

\* An event begun has none of its pieces.
LEMMA StartingBytes ==
    ASSUME NEW payload \in Payloads
    PROVE  Partly(payload, {}, NewReassembly(Len(payload)))
<1>1. Len(payload) \in Nat
  BY DEF Payloads
<1>2. Covered(payload, {}) = {}
  BY DEF Covered
<1>. QED  BY <1>1, <1>2, NewReassemblyType, FS_EmptySet DEF Partly

\* A piece more: its bytes are put in place, and counted once.
LEMMA MoreBytes ==
    ASSUME NEW payload \in Payloads, Len(payload) > 0,
           NEW S, NEW i \in AllPieces(payload), i \notin S,
           NEW a, Partly(payload, S, a), NEW ch, ch.offset = From(i)
    PROVE  LET piece == Pieces(payload)[i]
           IN  /\ PieceFits(a, ch, piece)
               /\ Partly(payload, S \cup {i}, WithPiece(a, ch, piece))
<1>. DEFINE piece == Pieces(payload)[i]
            w == WithPiece(a, ch, piece)
            len == Len(payload)
            u == Upto(i, len)
            I == From(i) + 1 .. u
<1>0. len \in Nat /\ i \in 1 .. Count(len) /\ payload \in Seq(Byte)
  <2>. AllPieces(payload) = 1 .. Count(Len(payload))
    BY AllOfThem
  <2>. QED  BY DEF Payloads
<1>1. From(i) \in Nat /\ u \in Nat /\ From(i) < u /\ u <= len
  BY <1>0, PieceBounds
<1>2. /\ piece \in Payloads /\ Len(piece) = u - From(i)
      /\ \A j \in 1 .. Len(piece) : piece[j] = payload[From(i) + j]
  BY <1>0, PieceFacts
<1>3. /\ a \in Reassemblies /\ Len(a.buf) = len /\ a.have \in Nat
      /\ \A j \in 1 .. len : a.buf[j] = IF PieceOf(j) \in S THEN payload[j] ELSE 0
      /\ a.have = Cardinality(Covered(payload, S))
  BY DEF Partly, Reassemblies
<1>4. \A j \in 1 .. len : PieceOf(j) = i <=> From(i) < j /\ j <= u
  BY PieceBytes
<1>. HIDE DEF u, piece, len
<1>5. PieceFits(a, ch, piece)
  BY <1>1, <1>2, <1>3 DEF PieceFits
<1>6. /\ w \in Reassemblies /\ Len(w.buf) = len
      /\ \A k \in 1 .. len : w.buf[k] =
                IF k - From(i) \in 1 .. Len(piece) THEN piece[k - From(i)] ELSE a.buf[k]
      /\ w.have = a.have + Len(piece)
  <2>1. ch.offset \in Nat
    BY <1>1
  <2>0. a \in Reassemblies /\ piece \in Payloads /\ w = WithPiece(a, ch, piece)
    BY <1>2, <1>3
  <2>. HIDE DEF w
  <2>2. /\ w \in Reassemblies /\ Len(w.buf) = Len(a.buf)
        /\ \A k \in 1 .. Len(a.buf) : w.buf[k] =
                IF k - ch.offset \in 1 .. Len(piece) THEN piece[k - ch.offset] ELSE a.buf[k]
        /\ w.have = a.have + Len(piece)
    BY <2>0, <2>1, WithPieceType
  <2>. QED  BY <1>3, <2>2
<1>. HIDE DEF w
<1>7. ASSUME NEW j \in 1 .. len
      PROVE  w.buf[j] = IF PieceOf(j) \in S \cup {i} THEN payload[j] ELSE 0
  <2>1. CASE PieceOf(j) = i
    <3>1. j - From(i) \in 1 .. Len(piece) /\ From(i) + (j - From(i)) = j
      BY <1>0, <1>1, <1>2, <1>4, <2>1
    <3>2. w.buf[j] = piece[j - From(i)]
      BY <1>6, <3>1
    <3>3. piece[j - From(i)] = payload[j]
      BY <1>2, <3>1
    <3>. QED  BY <2>1, <3>2, <3>3
  <2>2. CASE PieceOf(j) # i
    <3>1. ~(j - From(i) \in 1 .. Len(piece))
      BY <1>0, <1>1, <1>2, <1>4, <2>2
    <3>2. w.buf[j] = a.buf[j]
      BY <1>6, <3>1
    <3>. QED  BY <1>3, <2>2, <3>2
  <2>. QED  BY <2>1, <2>2
<1>8. Covered(payload, S \cup {i}) = Covered(payload, S) \cup I
  <2>1. \A j \in 1 .. len : PieceOf(j) = i <=> j \in I
    BY <1>0, <1>1, <1>4
  <2>2. I \subseteq 1 .. len
    BY <1>0, <1>1
  <2>. HIDE DEF I
  <2>. QED  BY <2>1, <2>2 DEF Covered, len
<1>9. Covered(payload, S) \cap I = {}
  BY <1>1, <1>4 DEF Covered, len
<1>10. IsFiniteSet(I) /\ Cardinality(I) = u - From(i)
  <2>. From(i) <= u
    BY <1>1
  <2>. QED  BY <1>1, IntervalSize
<1>11. Cardinality(Covered(payload, S) \cup I) = a.have + (u - From(i))
  <2>. HIDE DEF I
  <2>1. IsFiniteSet(Covered(payload, S)) /\ Cardinality(Covered(payload, S)) \in Nat
    BY CoveredFinite
  <2>2. Cardinality({}) = 0
    BY FS_EmptySet
  <2>3. Cardinality(Covered(payload, S) \cup I) =
            Cardinality(Covered(payload, S)) + Cardinality(I) - Cardinality(Covered(payload, S) \cap I)
    BY <1>10, <2>1, FS_Union
  <2>4. Cardinality(Covered(payload, S) \cap I) = 0
    BY <1>9, <2>2
  <2>5. u - From(i) \in Nat
    BY <1>1
  <2>. QED  BY <1>3, <1>10, <2>1, <2>3, <2>4, <2>5
<1>. QED  BY <1>2, <1>5, <1>6, <1>7, <1>8, <1>11 DEF Partly, w, piece, len

\* An event counts as whole when all pieces are in, and is then as it was.
LEMMA WholeBytes ==
    ASSUME NEW payload \in Payloads, Len(payload) > 0,
           NEW S \in SUBSET AllPieces(payload), NEW a, Partly(payload, S, a)
    PROVE  /\ IsWhole(a) <=> S = AllPieces(payload)
           /\ IsWhole(a) => a.buf = payload
           /\ S # {} => a.have >= 1
           /\ a.have <= Len(payload)
<1>. DEFINE len == Len(payload)
<1>0. len \in Nat /\ payload \in Seq(Byte)
  BY DEF Payloads
<1>1. /\ a.buf \in Seq(Byte) /\ Len(a.buf) = len /\ a.have \in Nat
      /\ \A j \in 1 .. len : a.buf[j] = IF PieceOf(j) \in S THEN payload[j] ELSE 0
      /\ a.have = Cardinality(Covered(payload, S))
  BY DEF Partly, Reassemblies, Payloads
<1>2. /\ IsFiniteSet(Covered(payload, S)) /\ a.have <= len
      /\ a.have = len => Covered(payload, S) = 1 .. len
  BY <1>1, CoveredFinite
<1>3. ASSUME NEW i \in AllPieces(payload)
      PROVE  From(i) + 1 \in 1 .. len /\ PieceOf(From(i) + 1) = i
  <2>1. From(i) \in Nat /\ Upto(i, len) \in Nat /\ From(i) < Upto(i, len) /\ Upto(i, len) <= len
    BY <1>0, PieceBounds, AllOfThem
  <2>2. From(i) + 1 \in 1 .. len /\ From(i) < From(i) + 1 /\ From(i) + 1 <= Upto(i, len)
    BY <1>0, <2>1
  <2>. QED  BY <2>2, PieceBytes
<1>4. ASSUME IsWhole(a) PROVE S = AllPieces(payload)
  <2>1. a.have = len
    BY <1>0, <1>1, <1>2, <1>4 DEF IsWhole
  <2>2. Covered(payload, S) = 1 .. len
    BY <1>2, <2>1
  <2>3. ASSUME NEW i \in AllPieces(payload) PROVE i \in S
    <3>. From(i) + 1 \in Covered(payload, S)
      BY <1>3, <2>2
    <3>. QED  BY <1>3 DEF Covered
  <2>. QED  BY <2>3
<1>5. ASSUME S = AllPieces(payload) PROVE IsWhole(a) /\ a.buf = payload
  <2>1. \A j \in 1 .. len : PieceOf(j) \in S
    BY <1>0, <1>5, PieceOfByte, AllOfThem
  <2>2. Covered(payload, S) = 1 .. len
    BY <2>1 DEF Covered
  <2>3. a.have = len
    <3>. HIDE DEF len
    <3>. QED  BY <1>0, <1>1, <2>2, FS_Interval
  <2>4. \A j \in 1 .. len : a.buf[j] = payload[j]
    BY <1>1, <2>1
  <2>. QED  BY <1>0, <1>1, <2>3, <2>4, SeqEqual DEF IsWhole
<1>6. ASSUME S # {} PROVE a.have >= 1
  <2>1. PICK i \in AllPieces(payload) : i \in S
    BY <1>6
  <2>2. From(i) + 1 \in Covered(payload, S)
    BY <1>3, <2>1 DEF Covered
  <2>3. Cardinality(Covered(payload, S)) # 0
    BY <1>2, <2>2, FS_EmptySet
  <2>. QED  BY <1>1, <2>3
<1>. QED  BY <1>2, <1>4, <1>5, <1>6

-----------------------------------------------------------------------------
(* Streams *)

\* An event and the numbers it was sent with.
Events == [payload : Payloads, seq : Nat, chunk : Nat, ordered : Options(Nat)]
Upper(e) == e.seq + PacketCount(e.payload)
Large(e) == Len(e.payload) > ChunkSize
Packet(e, i) == FrameOf(e.payload, e, i)
FitsEvent(e) ==
    /\ Len(e.payload) < Limit /\ Upper(e) <= Limit
    /\ Large(e) => e.chunk < Limit
    /\ e.ordered # None => e.ordered[1] < Limit

\* The events E, sent with numbers below s and chunk ids below k, are what the
\* datagrams D have of them.
Log(E, D, s, k) ==
    /\ E \subseteq Events
    /\ \A e \in E : FitsEvent(e) /\ 1 <= e.seq /\ Upper(e) <= s /\ (Large(e) => e.chunk < k)
    /\ \A e, g \in E : e = g \/ Upper(e) <= g.seq \/ Upper(g) <= e.seq
    /\ \A e, g \in E : Large(e) /\ Large(g) /\ e.chunk = g.chunk => e = g
    /\ \A b \in D : Parse(b).kind = RELIABLE =>
            \E e \in E : \E i \in AllPieces(e.payload) : b = Encode(Packet(e, i))
    /\ \A e \in E : \A i \in AllPieces(e.payload) : Encode(Packet(e, i)) \in D

\* The pieces of an event that are in.
Got(e, r) == {i \in AllPieces(e.payload) : e.seq + i - 1 \in r.processed}

\* What a reader keeps of the events: the pieces of those it has a part of.
ReadSoFar(E, r, s) ==
    /\ r \in Readers
    /\ \A n \in r.processed : 1 <= n /\ n < s
    /\ \A k \in DOMAIN r.inbound : \E e \in E : Large(e) /\ e.chunk = k
    /\ \A e \in E : Large(e) =>
            IF e.chunk \in DOMAIN r.inbound
            THEN /\ Partly(e.payload, Got(e, r), r.inbound[e.chunk])
                 /\ Got(e, r) # {} /\ Got(e, r) # AllPieces(e.payload)
            ELSE Got(e, r) \in {{}, AllPieces(e.payload)}

\* What an event is made of.
LEMMA EventParts ==
    ASSUME NEW e \in Events
    PROVE  /\ e.payload \in Payloads /\ Len(e.payload) \in Nat
           /\ e.seq \in Nat /\ e.chunk \in Nat /\ e.ordered \in Options(Nat) /\ Numbers(e)
           /\ PacketCount(e.payload) \in Nat /\ PacketCount(e.payload) > 0 /\ Upper(e) \in Nat
<1>1. /\ e.payload \in Payloads
      /\ e.seq \in Nat /\ e.chunk \in Nat /\ e.ordered \in Options(Nat)
  BY DEF Events
<1>2. Len(e.payload) \in Nat
  BY <1>1 DEF Payloads
<1>3. PacketCount(e.payload) \in Nat /\ PacketCount(e.payload) > 0
  BY <1>1, PacketPieces
<1>. QED  BY <1>1, <1>2, <1>3 DEF Upper, Numbers

\* What a packet reads as.
LEMMA PacketRead ==
    ASSUME NEW e \in Events, FitsEvent(e), NEW i \in AllPieces(e.payload)
    PROVE  LET f == Parse(Encode(Packet(e, i)))
           IN  /\ f \in ReliableFrames /\ f.payload = PiecesOf(e.payload)[i] /\ f.seq = e.seq + i - 1
               /\ f.ordered = e.ordered
               /\ f.chunk = None <=> ~Large(e)
               /\ Large(e) => /\ f.chunk[1].id = e.chunk /\ f.chunk[1].offset = From(i)
                              /\ f.chunk[1].total = Len(e.payload)
<1>. DEFINE p == Packet(e, i)
            len == Len(e.payload)
            k == PacketCount(e.payload)
<1>0. /\ e.payload \in Payloads /\ len \in Nat /\ e.seq \in Nat /\ e.chunk \in Nat
      /\ k \in Nat /\ Numbers(e) /\ i \in 1 .. k
  BY EventParts DEF AllPieces
<1>1. p \in ReliableFrames
  BY <1>0, PacketFrames DEF Packet
<1>2. /\ p.payload = PiecesOf(e.payload)[i] /\ p.seq = e.seq + i - 1 /\ p.ordered = e.ordered
      /\ p.chunk = None <=> ~Large(e)
      /\ Large(e) => /\ p.chunk[1].id = e.chunk /\ p.chunk[1].offset = From(i)
                     /\ p.chunk[1].total = len
  BY DEF Packet, FrameOf, Reliable, Large, Some, None
<1>3. From(i) \in Nat /\ (Large(e) => From(i) < len)
  BY <1>0, PacketPieces DEF Large
<1>4. Limit \in Nat
  BY SmallSizes
<1>5. p.seq < Limit
  <2>1. e.seq + k <= Limit
    BY DEF FitsEvent, Upper
  <2>. HIDE DEF k
  <2>. QED  BY <1>0, <1>2, <1>4, <2>1
<1>6. p.ordered # None => p.ordered[1] < Limit
  BY <1>2 DEF FitsEvent
<1>7. p.chunk # None => p.chunk[1].id < Limit /\ p.chunk[1].offset < Limit /\ p.chunk[1].total < Limit
  <2>1. len < Limit /\ (Large(e) => e.chunk < Limit)
    BY DEF FitsEvent
  <2>2. Large(e) => From(i) < Limit
    BY <1>0, <1>3, <1>4, <2>1
  <2>. HIDE DEF p, len
  <2>. QED  BY <1>2, <2>1, <2>2
<1>. HIDE DEF p
<1>8. Fitting(p)
  BY <1>1, <1>5, <1>6, <1>7 DEF Fitting
<1>9. LET g == Parse(Encode(p))
      IN  /\ g \in ReliableFrames /\ g.payload = p.payload /\ g.seq = p.seq
          /\ g.ordered = p.ordered
          /\ g.chunk = None <=> p.chunk = None
          /\ p.chunk # None => /\ g.chunk[1].id = p.chunk[1].id
                               /\ g.chunk[1].offset = p.chunk[1].offset
                               /\ g.chunk[1].total = p.chunk[1].total
  BY <1>8, RoundTrip
<1>10. p.chunk # None <=> Large(e)
  BY <1>2
<1>. HIDE DEF len
<1>. QED  BY <1>2, <1>9, <1>10 DEF p, len

\* An event more: its packets are on their way with numbers of their own.
LEMMA LogGrows ==
    ASSUME NEW E, NEW D, NEW s \in Nat, NEW k \in Nat, Log(E, D, s, k), 1 <= s,
           NEW r, ReadSoFar(E, r, s),
           NEW e \in Events, e.seq = s, e.chunk = k, FitsEvent(e)
    PROVE  /\ Log(E \cup {e}, D \cup Packets(e.payload, e), NextSeq(e, e.payload), NextChunk(e, e.payload))
           /\ ReadSoFar(E \cup {e}, r, NextSeq(e, e.payload))
<1>. DEFINE s1 == NextSeq(e, e.payload)
            k1 == NextChunk(e, e.payload)
            P == Packets(e.payload, e)
<1>0. /\ e.payload \in Payloads /\ Len(e.payload) \in Nat /\ Numbers(e)
      /\ PacketCount(e.payload) \in Nat /\ PacketCount(e.payload) > 0
  BY EventParts
<1>1. /\ P = {Encode(Packet(e, i)) : i \in AllPieces(e.payload)}
      /\ s1 = Upper(e) /\ s1 \in Nat /\ k1 \in Nat /\ k <= k1 /\ s < s1
  BY <1>0, PacketFrames DEF Packet, AllPieces, Upper
<1>2. Large(e) => k < k1
  BY <1>0 DEF NextChunk, Large
<1>3. /\ E \subseteq Events
      /\ \A g \in E : FitsEvent(g) /\ 1 <= g.seq /\ Upper(g) <= s /\ (Large(g) => g.chunk < k)
      /\ \A g, h \in E : g = h \/ Upper(g) <= h.seq \/ Upper(h) <= g.seq
      /\ \A g, h \in E : Large(g) /\ Large(h) /\ g.chunk = h.chunk => g = h
      /\ \A b \in D : Parse(b).kind = RELIABLE =>
              \E g \in E : \E i \in AllPieces(g.payload) : b = Encode(Packet(g, i))
      /\ \A g \in E : \A i \in AllPieces(g.payload) : Encode(Packet(g, i)) \in D
  BY DEF Log
<1>4. \A g \in E : Upper(g) \in Nat /\ g.chunk \in Nat /\ g.seq \in Nat
  BY <1>3, EventParts
<1>. HIDE DEF s1, k1, P
<1>5. Log(E \cup {e}, D \cup P, s1, k1)
  <2>1. \A g \in E \cup {e} : FitsEvent(g) /\ 1 <= g.seq /\ Upper(g) <= s1 /\ (Large(g) => g.chunk < k1)
    BY <1>1, <1>2, <1>3, <1>4
  <2>2. \A g, h \in E \cup {e} : g = h \/ Upper(g) <= h.seq \/ Upper(h) <= g.seq
    BY <1>3
  <2>3. \A g, h \in E \cup {e} : Large(g) /\ Large(h) /\ g.chunk = h.chunk => g = h
    BY <1>3, <1>4
  <2>4. \A b \in D \cup P : Parse(b).kind = RELIABLE =>
              \E g \in E \cup {e} : \E i \in AllPieces(g.payload) : b = Encode(Packet(g, i))
    BY <1>1, <1>3
  <2>5. \A g \in E \cup {e} : \A i \in AllPieces(g.payload) : Encode(Packet(g, i)) \in D \cup P
    BY <1>1, <1>3
  <2>. QED  BY <1>3, <2>1, <2>2, <2>3, <2>4, <2>5 DEF Log
<1>6. ReadSoFar(E \cup {e}, r, s1)
  <2>1. /\ r \in Readers
        /\ \A n \in r.processed : 1 <= n /\ n < s
        /\ \A j \in DOMAIN r.inbound : \E g \in E : Large(g) /\ g.chunk = j
        /\ \A g \in E : Large(g) =>
            IF g.chunk \in DOMAIN r.inbound
            THEN /\ Partly(g.payload, Got(g, r), r.inbound[g.chunk])
                 /\ Got(g, r) # {} /\ Got(g, r) # AllPieces(g.payload)
            ELSE Got(g, r) \in {{}, AllPieces(g.payload)}
    BY DEF ReadSoFar
  <2>2. r.processed \subseteq Nat
    BY <2>1, ReaderParts
  <2>3. \A n \in r.processed : 1 <= n /\ n < s1
    BY <1>1, <2>1, <2>2
  <2>4. Got(e, r) = {}
    <3>1. \A i \in AllPieces(e.payload) : e.seq + i - 1 >= s /\ e.seq + i - 1 \in Nat
      BY <1>0 DEF AllPieces
    <3>. QED  BY <2>1, <2>2, <3>1 DEF Got
  <2>5. Large(e) => e.chunk \notin DOMAIN r.inbound
    BY <1>3, <1>4, <2>1
  <2>. QED  BY <2>1, <2>3, <2>4, <2>5 DEF ReadSoFar
<1>. QED  BY <1>5, <1>6 DEF s1, k1, P

\* A packet comes in, for the first time or again, in whatever order: if it
\* completes an event it is one that was sent, as it was sent.
LEMMA LogRead ==
    ASSUME NEW E, NEW D, NEW s \in Nat, NEW k \in Nat, Log(E, D, s, k),
           NEW r, ReadSoFar(E, r, s), NEW b \in D, Parse(b).kind = RELIABLE
    PROVE  /\ ReadSoFar(E, AfterPacket(r, Parse(b)), s)
           /\ \/ Completed(r, Parse(b)) = None
              \/ \E e \in E : Completed(r, Parse(b)) = Some(e.payload)
<1>. DEFINE f == Parse(b)
            r1 == AfterPacket(r, f)
<1>1. PICK e \in E : \E i \in AllPieces(e.payload) : b = Encode(Packet(e, i))
  BY DEF Log
<1>2. PICK i \in AllPieces(e.payload) : b = Encode(Packet(e, i))
  BY <1>1
<1>3. /\ E \subseteq Events /\ e \in Events /\ FitsEvent(e) /\ 1 <= e.seq /\ Upper(e) <= s
      /\ \A g \in E : g = e \/ Upper(e) <= g.seq \/ Upper(g) <= e.seq
      /\ \A g \in E : Large(e) /\ Large(g) /\ e.chunk = g.chunk => e = g
  BY DEF Log
<1>4. /\ e.payload \in Payloads /\ Len(e.payload) \in Nat
      /\ e.seq \in Nat /\ e.chunk \in Nat
      /\ PacketCount(e.payload) \in Nat /\ Upper(e) \in Nat /\ i \in 1 .. PacketCount(e.payload)
  BY <1>3, EventParts DEF AllPieces
<1>5. /\ f \in ReliableFrames /\ f.payload = PiecesOf(e.payload)[i] /\ f.seq = e.seq + i - 1
      /\ f.chunk = None <=> ~Large(e)
      /\ Large(e) => /\ f.chunk[1].id = e.chunk /\ f.chunk[1].offset = From(i)
                     /\ f.chunk[1].total = Len(e.payload)
  BY <1>2, <1>3, PacketRead
<1>6. /\ r \in Readers
      /\ \A n \in r.processed : 1 <= n /\ n < s
      /\ \A j \in DOMAIN r.inbound : \E g \in E : Large(g) /\ g.chunk = j
      /\ \A g \in E : Large(g) =>
            IF g.chunk \in DOMAIN r.inbound
            THEN /\ Partly(g.payload, Got(g, r), r.inbound[g.chunk])
                 /\ Got(g, r) # {} /\ Got(g, r) # AllPieces(g.payload)
            ELSE Got(g, r) \in {{}, AllPieces(g.payload)}
  BY DEF ReadSoFar
<1>. HIDE DEF f
<1>7. r1 \in Readers /\ r1.processed = r.processed \cup {f.seq}
  BY <1>5, <1>6, ReaderStep DEF AfterPacket
<1>8. \A n \in r1.processed : 1 <= n /\ n < s
  <2>1. Upper(e) = e.seq + PacketCount(e.payload)
    BY DEF Upper
  <2>2. 1 <= f.seq /\ f.seq < s
    BY <1>3, <1>4, <1>5, <2>1
  <2>. QED  BY <1>6, <1>7, <2>2
<1>9. CASE f.seq \in r.processed
  <2>1. r1.processed = r.processed /\ r1.inbound = r.inbound /\ Completed(r, f) = None
    BY <1>7, <1>9 DEF AfterPacket, Completed
  <2>. HIDE DEF r1
  <2>2. \A g : Got(g, r1) = Got(g, r)
    BY <2>1 DEF Got
  <2>3. ReadSoFar(E, r1, s)
    BY <1>6, <1>7, <1>8, <2>1, <2>2 DEF ReadSoFar
  <2>. QED  BY <2>1, <2>3 DEF f, r1
<1>10. CASE f.seq \notin r.processed
  <2>1. Got(e, r1) = Got(e, r) \cup {i} /\ i \notin Got(e, r)
    <3>1. \A j \in AllPieces(e.payload) : e.seq + j - 1 = f.seq <=> j = i
      BY <1>4, <1>5 DEF AllPieces
    <3>. HIDE DEF r1
    <3>. QED  BY <1>7, <1>10, <3>1 DEF Got
  <2>2. ASSUME NEW g \in E, g # e PROVE Got(g, r1) = Got(g, r)
    <3>1. g.seq \in Nat /\ Upper(g) = g.seq + PacketCount(g.payload) /\ PacketCount(g.payload) \in Nat
      BY <1>3, EventParts DEF Upper
    <3>2. Upper(e) <= g.seq \/ Upper(g) <= e.seq
      BY <1>3, <2>2
    <3>3. Upper(e) = e.seq + PacketCount(e.payload)
      BY DEF Upper
    <3>4. ASSUME NEW j \in AllPieces(g.payload) PROVE g.seq + j - 1 # f.seq
      <4>. DEFINE m == PacketCount(g.payload)
                  n == PacketCount(e.payload)
      <4>1. j \in 1 .. m
        BY DEF AllPieces
      <4>. HIDE DEF m, n
      <4>2. m \in Nat /\ n \in Nat /\ i \in 1 .. n /\ Upper(g) = g.seq + m /\ Upper(e) = e.seq + n
        BY <1>4, <3>1, <3>3 DEF m, n
      <4>3. e.seq \in Nat /\ g.seq \in Nat /\ f.seq = e.seq + i - 1 /\ j \in Nat /\ i \in Nat
            /\ 1 <= i /\ i <= n /\ 1 <= j /\ j <= m
        BY <1>4, <1>5, <3>1, <4>1, <4>2
      <4>4. e.seq + n <= g.seq \/ g.seq + m <= e.seq
        BY <3>2, <4>2
      <4>. QED  BY <4>2, <4>3, <4>4
    <3>. HIDE DEF r1
    <3>. QED  BY <1>7, <3>4 DEF Got
  <2>3. CASE ~Large(e)
    <3>1. f.chunk = None /\ r1.inbound = r.inbound /\ Completed(r, f) = Some(f.payload)
      BY <1>5, <1>10, <2>3 DEF AfterPacket, Completed
    <3>2. f.payload = e.payload
      <4>1. Len(e.payload) <= ChunkSize
        BY <1>4, <2>3, WireAssumption DEF Large
      <4>2. PacketCount(e.payload) = 1 /\ PiecesOf(e.payload)[1] = e.payload
        BY <1>4, <4>1, PacketPieces
      <4>3. i = 1
        BY <1>4, <4>2
      <4>. QED  BY <1>5, <4>2, <4>3
    <3>. HIDE DEF r1
    <3>3. \A g \in E : Large(g) => Got(g, r1) = Got(g, r)
      BY <2>2, <2>3
    <3>4. ReadSoFar(E, r1, s)
      BY <1>6, <1>7, <1>8, <3>1, <3>3 DEF ReadSoFar
    <3>. QED  BY <3>1, <3>2, <3>4 DEF f, r1
  <2>4. CASE Large(e)
    <3>. DEFINE ch == f.chunk[1]
                old == OldOf(r, ch)
                w == With(r, f)
                all == AllPieces(e.payload)
    <3>0. f.payload = Pieces(e.payload)[i] /\ Len(e.payload) > 0
      BY <1>4, <1>5, <2>4, PacketPieces DEF Large
    <3>1. f.chunk # None /\ ch.id = e.chunk /\ ch.offset = From(i) /\ ch.total = Len(e.payload)
      BY <1>5, <2>4
    <3>2. Partly(e.payload, Got(e, r), old)
      <4>1. CASE e.chunk \in DOMAIN r.inbound
        BY <1>6, <2>4, <3>1, <4>1 DEF OldOf
      <4>2. CASE e.chunk \notin DOMAIN r.inbound
        <5>1. Got(e, r) = {}
          BY <1>6, <2>1, <2>4, <4>2
        <5>2. old = NewReassembly(Len(e.payload))
          BY <3>1, <4>2 DEF OldOf
        <5>. QED  BY <1>4, <5>1, <5>2, StartingBytes
      <4>. QED  BY <4>1, <4>2
    <3>3. PieceFits(old, ch, f.payload) /\ Partly(e.payload, Got(e, r1), WithPiece(old, ch, f.payload))
      <4>. HIDE DEF old, ch, r1
      <4>. QED  BY <1>2, <1>4, <2>1, <3>0, <3>1, <3>2, MoreBytes, ZenonT(60)
    <3>4. w = WithPiece(old, ch, f.payload)
      BY <3>3 DEF With, OldOf
    <3>5. Partly(e.payload, Got(e, r1), w) /\ w \in Reassemblies
      BY <3>3, <3>4 DEF Partly
    <3>6. Got(e, r1) \subseteq all /\ Got(e, r1) # {}
      BY <2>1 DEF Got
    <3>7. /\ IsWhole(w) <=> Got(e, r1) = all
          /\ IsWhole(w) => w.buf = e.payload
      <4>. HIDE DEF w, r1
      <4>. QED  BY <1>4, <3>0, <3>5, <3>6, WholeBytes
    <3>8. r1.inbound = IF IsWhole(w) THEN [j \in DOMAIN r.inbound \ {e.chunk} |-> r.inbound[j]]
                       ELSE [j \in DOMAIN r.inbound \cup {e.chunk} |-> IF j = e.chunk THEN w ELSE r.inbound[j]]
      BY <1>10, <3>1 DEF AfterPacket, Restrict
    <3>9. Completed(r, f) = IF IsWhole(w) THEN Some(w.buf) ELSE None
      BY <1>10, <3>1 DEF Completed
    <3>. HIDE DEF w, r1, ch, old
    <3>10. \A j \in DOMAIN r1.inbound : \E g \in E : Large(g) /\ g.chunk = j
      BY <1>6, <2>4, <3>8
    <3>11. ASSUME NEW g \in E, Large(g)
           PROVE  IF g.chunk \in DOMAIN r1.inbound
                  THEN /\ Partly(g.payload, Got(g, r1), r1.inbound[g.chunk])
                       /\ Got(g, r1) # {} /\ Got(g, r1) # AllPieces(g.payload)
                  ELSE Got(g, r1) \in {{}, AllPieces(g.payload)}
      <4>1. CASE g = e
        <5>1. CASE IsWhole(w)
          <6>1. e.chunk \notin DOMAIN r1.inbound
            BY <3>8, <5>1
          <6>. QED  BY <3>7, <4>1, <5>1, <6>1
        <5>2. CASE ~IsWhole(w)
          <6>1. e.chunk \in DOMAIN r1.inbound /\ r1.inbound[e.chunk] = w
            BY <3>8, <5>2
          <6>. QED  BY <3>5, <3>6, <3>7, <4>1, <5>2, <6>1
        <5>. QED  BY <5>1, <5>2
      <4>2. CASE g # e
        <5>1. g.chunk # e.chunk
          BY <1>3, <2>4, <3>11, <4>2
        <5>2. g.chunk \in DOMAIN r1.inbound <=> g.chunk \in DOMAIN r.inbound
          BY <3>8, <5>1
        <5>3. g.chunk \in DOMAIN r.inbound => r1.inbound[g.chunk] = r.inbound[g.chunk]
          BY <3>8, <5>1
        <5>4. Got(g, r1) = Got(g, r)
          BY <2>2, <4>2
        <5>. QED  BY <1>6, <3>11, <5>2, <5>3, <5>4
      <4>. QED  BY <4>1, <4>2
    <3>12. ReadSoFar(E, r1, s)
      BY <1>7, <1>8, <3>10, <3>11 DEF ReadSoFar
    <3>. QED  BY <3>7, <3>9, <3>12 DEF f, r1
  <2>. QED  BY <2>3, <2>4
<1>. QED  BY <1>9, <1>10

\* What is somewhere in an event has some of its bytes and lacks some.
LEMMA HalfReadParts ==
    ASSUME NEW E, E \subseteq Events, NEW r, NEW s, ReadSoFar(E, r, s)
    PROVE  HalfRead(r)
<1>1. ASSUME NEW j \in DOMAIN r.inbound
      PROVE  r.inbound[j].buf \in Payloads /\ r.inbound[j].have \in 1 .. Len(r.inbound[j].buf) - 1
  <2>. DEFINE a == r.inbound[j]
  <2>1. PICK e \in E : Large(e) /\ e.chunk = j
    BY DEF ReadSoFar
  <2>2. Partly(e.payload, Got(e, r), a) /\ Got(e, r) # {} /\ Got(e, r) # AllPieces(e.payload)
    BY <2>1 DEF ReadSoFar
  <2>3. e.payload \in Payloads /\ Len(e.payload) \in Nat /\ Len(e.payload) > 0
    BY <2>1, EventParts, PacketPieces DEF Large
  <2>4. Got(e, r) \in SUBSET AllPieces(e.payload)
    BY DEF Got
  <2>. HIDE DEF a
  <2>5. a.have >= 1 /\ a.have <= Len(e.payload) /\ ~IsWhole(a)
    BY <2>2, <2>3, <2>4, WholeBytes
  <2>6. a.buf \in Payloads /\ a.have \in Nat /\ Len(a.buf) = Len(e.payload)
    BY <2>2 DEF Partly, Reassemblies
  <2>. QED  BY <2>3, <2>5, <2>6 DEF IsWhole, a
<1>. QED  BY <1>1 DEF HalfRead

-----------------------------------------------------------------------------
(* What is told *)

\* The bytes at a position are the slice there.
LEMMA SliceAt ==
    ASSUME NEW buf \in Seq(Byte), NEW at \in Nat, NEW n \in Nat, NEW s, IsBytes(s, n), At(buf, at, s)
    PROVE  SubSeq(buf, at + 1, at + n) = s
<1>. DEFINE a == at + 1
            b == at + n
            t == SubSeq(buf, a, b)
<1>1. s \in Seq(Byte) /\ Len(s) = n /\ Len(buf) \in Nat
      /\ at + n <= Len(buf) /\ \A k \in 1 .. n : buf[at + k] = s[k]
  BY DEF IsBytes, At, Fits
<1>2. a \in 1 .. Len(buf) + 1 /\ b \in a - 1 .. Len(buf) /\ b - a + 1 = n
      /\ \A k \in 1 .. n : a + k - 1 = at + k
  BY <1>1
<1>. HIDE DEF a, b
<1>3. /\ t \in Seq(Byte) /\ Len(t) = b - a + 1
      /\ \A k \in 1 .. b - a + 1 : t[k] = buf[a + k - 1]
  BY <1>2, SubSeqProperties
<1>. HIDE DEF t
<1>4. \A k \in 1 .. n : t[k] = s[k]
  BY <1>1, <1>2, <1>3
<1>5. t = s
  BY <1>1, <1>2, <1>3, <1>4, SeqEqual
<1>. QED  BY <1>5 DEF t, a, b

\* An event under its twin tells of the one it was made from.
LEMMA TwinTells ==
    ASSUME NEW m \in SaidEvents, Len(m.payload) >= 4,
           Discriminant(m.payload) \in DOMAIN Twins, Discriminant(m.payload) # CARSTATE,
           Discriminant(m.payload) = READY => ~m.reliable
    PROVE  LET t == WithSender(Twins[Discriminant(m.payload)], m.from, m.payload)
           IN  TellsTwin(t, m) /\ Len(t) = Len(m.payload) + 8
<1>. DEFINE p == m.payload
            d == Twins[Discriminant(p)]
            c == m.from
            t == WithSender(d, c, p)
            n == Len(p) - 4
            x == Le(d, U32)
            y == Cat(Le(c, U32), Le(1, U32))
            z == Body(p)
<1>1. p \in Payloads /\ Len(p) \in Nat /\ c \in Nat
  BY RelayAssumption DEF SaidEvents, Clients, Payloads
<1>2. d \in 0 .. 48 /\ d \in Nat
  <2>1. d \in 0 .. 48
    BY TwinNumbers
  <2>. HIDE DEF d
  <2>. QED  BY <2>1
<1>3. n \in Nat /\ ~(Len(p) < 4) /\ 12 + n = Len(p) + 8
  BY <1>1
<1>. HIDE DEF d, c, p
<1>4. /\ t \in Payloads /\ t = Cat(Cat(x, y), z)
      /\ IsBytes(z, IF Len(p) < 4 THEN 0 ELSE Len(p) - 4)
      /\ IsBytes(t, 12 + IF Len(p) < 4 THEN 0 ELSE Len(p) - 4)
  BY <1>1, <1>2, WithSenderBytes
<1>5. IsBytes(z, n) /\ IsBytes(t, 12 + n)
  BY <1>3, <1>4
<1>6. IsBytes(x, 4) /\ IsBytes(y, 8)
  BY <1>1, <1>2, LeWidths, CatBytes
<1>. HIDE DEF x, y, z, n, t
<1>7. IsBytes(Cat(x, y), 12)
  BY <1>6, CatBytes
<1>8. t \in Seq(Byte) /\ Len(t) = 12 + n /\ At(t, 0, t)
  BY <1>5, AtStart DEF IsBytes
<1>9. At(t, 0, Cat(x, y)) /\ At(t, 0 + 12, z)
  <2>. At(t, 0, Cat(Cat(x, y), z))
    BY <1>4, <1>8
  <2>. QED  BY <1>3, <1>5, <1>7, <1>8, CatAt
<1>10. At(t, 0, x) /\ At(t, 0 + 4, y)
  BY <1>6, <1>8, <1>9, CatAt
<1>11. SubSeq(t, 4 + 1, 4 + 8) = y
  <2>. 4 \in Nat /\ 8 \in Nat /\ At(t, 4, y)
    BY <1>10
  <2>. QED  BY <1>6, <1>8, SliceAt
<1>12. SubSeq(t, 12 + 1, 12 + n) = z
  BY <1>3, <1>5, <1>8, <1>9, SliceAt
<1>13. Discriminant(t) = d
  BY <1>2, <1>4, <1>10, SmallDiscriminant DEF x
<1>14. SubSeq(t, U32 + 1, 3 * U32) = PlayerId(m.from)
  <2>1. 4 + 1 = U32 + 1 /\ 4 + 8 = 3 * U32
    BY DEF U32
  <2>2. SubSeq(t, U32 + 1, 3 * U32) = y
    BY <1>11, <2>1
  <2>. QED  BY <2>2 DEF PlayerId, y, Cat, c
<1>15. SubSeq(t, 3 * U32 + 1, Len(t)) = Body(m.payload)
  BY <1>8, <1>12 DEF U32, z, p
<1>17. NamesEvent(t)
  BY <1>3, <1>8 DEF NamesEvent, U32
<1>16. TellsTwin(t, m)
  BY <1>13, <1>14, <1>15, <1>17 DEF TellsTwin, d, p
<1>. QED  BY <1>3, <1>8, <1>16 DEF t, d, c, p

\* What is made of a reliable Ready tells of it.
LEMMA ReadyTells ==
    ASSUME NEW m \in SaidEvents, HasReady(m.payload), Discriminant(m.payload) = READY, m.reliable
    PROVE  LET t == EncodeReadyBroadcast(m.from, m.payload)
           IN  TellsTwin(t, m) /\ Len(t) = 13 /\ Len(m.payload) >= 5
<1>. DEFINE p == m.payload
            d == Twins[READY]
            c == m.from
            t == EncodeReadyBroadcast(c, p)
            v == IF Body(p)[1] = 0 THEN 0 ELSE 1
            x == Le(d, U32)
            y == Cat(Le(c, U32), Le(1, U32))
            z == <<v>>
<1>1. p \in Payloads /\ Len(p) \in Nat /\ c \in Nat
  BY RelayAssumption DEF SaidEvents, Clients, Payloads
<1>2. d \in 0 .. 48 /\ d \in Nat
  <2>1. d \in 0 .. 48
    BY TwinNumbers
  <2>. HIDE DEF d
  <2>. QED  BY <2>1
<1>3. /\ t \in Payloads /\ t = Cat(Cat(x, y), z)
      /\ IsBytes(z, 1) /\ IsBytes(t, 13) /\ Len(p) >= 5
  BY <1>1, ReadyBytes
<1>. HIDE DEF d, c, p
<1>4. IsBytes(x, 4) /\ IsBytes(y, 8)
  BY <1>1, <1>2, LeWidths, CatBytes
<1>. HIDE DEF x, y, z, t
<1>5. IsBytes(Cat(x, y), 12)
  BY <1>4, CatBytes
<1>6. t \in Seq(Byte) /\ Len(t) = 13 /\ At(t, 0, t)
  BY <1>3, AtStart DEF IsBytes
<1>7. At(t, 0, Cat(x, y)) /\ At(t, 0 + 12, z)
  <2>. At(t, 0, Cat(Cat(x, y), z))
    BY <1>3, <1>6
  <2>. QED  BY <1>3, <1>5, <1>6, CatAt
<1>8. At(t, 0, x) /\ At(t, 0 + 4, y)
  BY <1>4, <1>6, <1>7, CatAt
<1>9. SubSeq(t, 4 + 1, 4 + 8) = y
  <2>. 4 \in Nat /\ 8 \in Nat /\ At(t, 4, y)
    BY <1>8
  <2>. QED  BY <1>4, <1>6, SliceAt
<1>10. SubSeq(t, 12 + 1, 12 + 1) = z
  <2>. 12 \in Nat /\ 1 \in Nat /\ At(t, 12, z)
    BY <1>7
  <2>. QED  BY <1>3, <1>6, SliceAt
<1>11. Discriminant(t) = d
  BY <1>2, <1>3, <1>8, SmallDiscriminant DEF x
<1>12. SubSeq(t, U32 + 1, 3 * U32) = PlayerId(m.from)
  <2>1. 4 + 1 = U32 + 1 /\ 4 + 8 = 3 * U32
    BY DEF U32
  <2>2. SubSeq(t, U32 + 1, 3 * U32) = y
    BY <1>9, <2>1
  <2>. QED  BY <2>2 DEF PlayerId, y, Cat, c
<1>13. SubSeq(t, 3 * U32 + 1, Len(t)) = <<v>>
  BY <1>6, <1>10 DEF U32, z
<1>14. NamesEvent(t)
  BY <1>6 DEF NamesEvent, U32
<1>15. TellsTwin(t, m)
  BY <1>11, <1>12, <1>13, <1>14, TwinNumbers DEF TellsTwin, d, p
<1>. QED  BY <1>3, <1>6, <1>15 DEF t, c, p

\* A rewritten car state tells of the car state.
LEMMA CarTells ==
    ASSUME NEW m \in SaidEvents, IsCarState(m.payload), Discriminant(m.payload) = CARSTATE
    PROVE  LET t == EncodeCarBroadcast(m.from, m.payload)
           IN  TellsTwin(t, m) /\ Len(t) = Len(m.payload) + 8
<1>. DEFINE p == m.payload
            c == m.from
            t == EncodeCarBroadcast(c, p)
            b == Body(p)
            n == Len(b) - 8
            x == Le(Twins[CARSTATE], U32)
            y == Cat(Le(c, U32), Le(1, U32))
            u == SubSeq(b, n + 1, Len(b))
            v == SubSeq(b, 1, n)
<1>1. p \in Payloads /\ Len(p) \in Nat /\ c \in Nat
  BY RelayAssumption DEF SaidEvents, Clients, Payloads
<1>2. Twins[CARSTATE] \in 0 .. 48 /\ CARSTATE \in DOMAIN Twins
  BY TwinNumbers
<1>3. /\ t \in Payloads /\ t = Cat(Cat(Cat(x, y), u), v)
      /\ n \in Nat /\ Len(p) = n + 12
      /\ IsBytes(b, n + 8) /\ IsBytes(u, 8) /\ IsBytes(v, n) /\ IsBytes(t, n + 20)
  BY <1>1, CarBroadcastBytes
<1>4. IsBytes(x, 4) /\ IsBytes(y, 8)
  <2>. Twins[CARSTATE] \in Nat
    BY <1>2
  <2>. QED  BY <1>1, LeWidths, CatBytes
<1>0. b \in Seq(Byte) /\ Len(b) = n + 8
  BY <1>3 DEF IsBytes
<1>5. At(b, 0, v) /\ At(b, 0 + n, u)
  <2>. DEFINE k == Len(b)
  <2>1. k \in Nat /\ n \in Nat /\ k = n + 8 /\ b \in Seq(Byte)
    BY <1>0, <1>3
  <2>. HIDE DEF n, b
  <2>2. 1 \in 1 .. Len(b) + 1 /\ n \in 1 - 1 .. Len(b) /\ n + 1 \in 1 .. Len(b) + 1
        /\ Len(b) \in n + 1 - 1 .. Len(b)
    BY <2>1
  <2>3. /\ Len(v) = n - 1 + 1 /\ \A j \in 1 .. n - 1 + 1 : v[j] = b[1 + j - 1]
    BY <2>1, <2>2, SubSeqProperties
  <2>4. /\ Len(u) = Len(b) - (n + 1) + 1
        /\ \A j \in 1 .. Len(b) - (n + 1) + 1 : u[j] = b[(n + 1) + j - 1]
    BY <2>1, <2>2, SubSeqProperties
  <2>. HIDE DEF u, v
  <2>5. At(b, 0, v)
    BY <2>1, <2>3 DEF At, Fits
  <2>6. At(b, n, u)
    <3>1. Len(u) = 8 /\ n + 8 <= Len(b)
      BY <2>1, <2>4
    <3>2. \A j \in 1 .. 8 : u[j] = b[n + j]
      BY <2>1, <2>4
    <3>. QED  BY <3>1, <3>2 DEF At, Fits
  <2>. QED  BY <2>1, <2>5, <2>6
<1>. HIDE DEF x, y, u, v, n, b, t, c, p
<1>6. IsBytes(Cat(x, y), 12) /\ IsBytes(Cat(Cat(x, y), u), 20) /\ IsBytes(Cat(u, v), 8 + n)
      /\ IsBytes(Cat(v, u), n + 8)
  BY <1>3, <1>4, CatBytes
<1>7. b = Cat(v, u)
  <2>1. At(b, 0, Cat(v, u))
    BY <1>0, <1>3, <1>5, CatAt
  <2>2. Cat(v, u) \in Seq(Byte) /\ Len(b) = Len(Cat(v, u))
    BY <1>0, <1>6 DEF IsBytes
  <2>. QED  BY <1>0, <2>1, <2>2, AtAll
<1>8. t \in Seq(Byte) /\ Len(t) = n + 20 /\ At(t, 0, t)
  BY <1>3, AtStart DEF IsBytes
<1>9. At(t, 0, Cat(Cat(x, y), u)) /\ At(t, 0 + 20, v)
  <2>. At(t, 0, Cat(Cat(Cat(x, y), u), v))
    BY <1>3, <1>8
  <2>. QED  BY <1>3, <1>6, <1>8, CatAt
<1>10. At(t, 0, Cat(x, y)) /\ At(t, 0 + 12, u)
  BY <1>3, <1>6, <1>8, <1>9, CatAt
<1>11. At(t, 0, x) /\ At(t, 0 + 4, y)
  BY <1>4, <1>8, <1>10, CatAt
<1>12. At(t, 12, Cat(u, v))
  <2>. At(t, 12, u) /\ At(t, 12 + 8, v)
    BY <1>9, <1>10
  <2>. QED  BY <1>3, <1>8, CatAt
<1>13. SubSeq(t, 4 + 1, 4 + 8) = y
  <2>. 4 \in Nat /\ 8 \in Nat /\ At(t, 4, y)
    BY <1>11
  <2>. QED  BY <1>4, <1>8, SliceAt
<1>14. SubSeq(t, 12 + 1, 12 + (8 + n)) = Cat(u, v)
  <2>. 8 + n \in Nat
    BY <1>3
  <2>. QED  BY <1>6, <1>8, <1>12, SliceAt
<1>. DEFINE body == Cat(u, v)
<1>15. body \in Seq(Byte) /\ Len(body) = 8 + n /\ At(body, 0, body)
  BY <1>6, AtStart DEF IsBytes
<1>16. At(body, 0, u) /\ At(body, 0 + 8, v)
  BY <1>3, <1>15, CatAt
<1>17. SubSeq(body, 0 + 1, 0 + 8) = u
  BY <1>3, <1>15, <1>16, SliceAt
<1>18. SubSeq(body, 8 + 1, 8 + n) = v
  BY <1>3, <1>15, <1>16, SliceAt
<1>. HIDE DEF body
<1>19. Discriminant(t) = Twins[CARSTATE]
  BY <1>2, <1>3, <1>11, SmallDiscriminant DEF x
<1>20. SubSeq(t, U32 + 1, 3 * U32) = PlayerId(m.from)
  <2>1. 4 + 1 = U32 + 1 /\ 4 + 8 = 3 * U32
    BY DEF U32
  <2>2. SubSeq(t, U32 + 1, 3 * U32) = y
    BY <1>13, <2>1
  <2>. QED  BY <2>2 DEF PlayerId, y, Cat, c
<1>21. SubSeq(t, 3 * U32 + 1, Len(t)) = body
  <2>. Len(t) = 12 + (8 + n)
    BY <1>3, <1>8
  <2>. QED  BY <1>14 DEF U32, body
<1>22. SubSeq(body, 2 * U32 + 1, Len(body)) = v /\ SubSeq(body, 1, 2 * U32) = u
  BY <1>15, <1>17, <1>18 DEF U32
<1>25. NamesEvent(t)
  BY <1>3, <1>8 DEF NamesEvent, U32
<1>23. TellsTwin(t, m)
  BY <1>2, <1>7, <1>19, <1>20, <1>21, <1>22, <1>25 DEF TellsTwin, Cat, b, p
<1>24. Len(t) = Len(p) + 8
  BY <1>3, <1>8
<1>. QED  BY <1>23, <1>24 DEF t, c, p

-----------------------------------------------------------------------------
(* The invariant *)

\* The numbers fit their four bytes, the lengths of what is relayed too.
NumbersFit ==
    /\ \A c \in Clients :
        /\ sender[c].seq <= Limit /\ sender[c].chunk <= Limit
        /\ next[c].seq <= Limit /\ next[c].chunk <= Limit /\ next[c].ordered <= Limit
    /\ \A n \in DOMAIN said : Len(said[n].payload) + 8 < Limit

SaidInv ==
    /\ \A n \in DOMAIN said :
        NamesEvent(said[n].payload) /\ said[n].reliable =>
            Discriminant(said[n].payload) \in Reliably
    /\ \A c \in Clients : sender[c].seq >= 1 /\ next[c].seq >= 1

SaidBy(c, reliable, payload) ==
    \E n \in DOMAIN said :
        said[n].from = c /\ said[n].reliable = reliable /\ said[n].payload = payload

\* What a game may be told: car states are rewritten only if they come
\* unreliably.
ToldBy(c, payload, n) ==
    /\ said[n].from # c
    /\ \/ ~NamesEvent(said[n].payload) /\ payload = said[n].payload
       \/ /\ NamesEvent(said[n].payload)
          /\ \/ Discriminant(said[n].payload) = CHAT /\ payload = said[n].payload
             \/ TellsTwin(payload, said[n])
          /\ \/ said[n].from \in lobby
             \/ Discriminant(said[n].payload) = READY /\ said[n].reliable
             \/ Discriminant(said[n].payload) = CHAT /\ ~said[n].reliable
Told(c, payload) ==
    /\ payload \in Payloads
    /\ \E n \in DOMAIN said : /\ Len(payload) <= Len(said[n].payload) + 8
                              /\ CARSTATE \notin Reliably => ToldBy(c, payload, n)

\* Another player said an empty payload, which takes an index and no packet.
EmptySaid(c) ==
    \E n \in DOMAIN said : said[n].from # c /\ said[n].reliable /\ said[n].payload = <<>>

\* The indexes of the ordered stream, below o, in the order of the events; none
\* is skipped unless it may be that of an empty payload.
Dense(E, o, mayskip) ==
    /\ \A e \in E : e.ordered # None /\ e.ordered[1] \in 0 .. o - 1
    /\ mayskip \/ \A i \in 0 .. o - 1 : \E e \in E : e.ordered = Some(i)
    /\ \A e, g \in E : e.seq < g.seq => e.ordered[1] < g.ordered[1]

UpStream(c) ==
    /\ \E E : /\ Log(E, toServer[c], sender[c].seq, sender[c].chunk)
              /\ ReadSoFar(E, server[c], sender[c].seq)
              /\ \A e \in E : SaidBy(c, TRUE, e.payload)
    /\ \A b \in toServer[c] : Parse(b).kind = UNRELIABLE => SaidBy(c, FALSE, Parse(b).payload)

DownStream(c) ==
    /\ \E E : /\ Log(E, toClient[c], next[c].seq, next[c].chunk)
              /\ ReadSoFar(E, reader[c], next[c].seq)
              /\ Dense(E, next[c].ordered, EmptySaid(c))
              /\ \A e \in E : Told(c, e.payload)
    /\ \A b \in toClient[c] : Parse(b).kind = UNRELIABLE => Told(c, Parse(b).payload)
    /\ \A payload \in heard[c] : Told(c, payload)

StreamInv == \A c \in Clients : UpStream(c) /\ DownStream(c)

RelayInv == WireInv /\ SaidInv /\ (NumbersFit => StreamInv)

-----------------------------------------------------------------------------
(* What stays *)

\* Nothing said is unsaid, and nobody leaves the lobby.
Grows ==
    /\ DOMAIN said \subseteq DOMAIN said'
    /\ \A n \in DOMAIN said : said'[n] = said[n]
    /\ lobby \subseteq lobby'

\* What was said and told stays so.
LEMMA SaidStays ==
    ASSUME Grows, NEW c, NEW reliable, NEW payload, SaidBy(c, reliable, payload)
    PROVE  SaidBy(c, reliable, payload)'
BY DEF Grows, SaidBy

LEMMA ToldStays ==
    ASSUME Grows, NEW c, NEW payload, Told(c, payload)
    PROVE  Told(c, payload)'
<1>1. PICK n \in DOMAIN said : /\ Len(payload) <= Len(said[n].payload) + 8
                               /\ CARSTATE \notin Reliably => ToldBy(c, payload, n)
  BY DEF Told
<1>2. n \in DOMAIN said' /\ said'[n] = said[n] /\ lobby \subseteq lobby'
  BY DEF Grows
<1>3. CARSTATE \notin Reliably => ToldBy(c, payload, n)'
  BY <1>1, <1>2 DEF ToldBy
<1>. QED  BY <1>1, <1>2, <1>3 DEF Told

LEMMA DenseStays ==
    ASSUME Grows, NEW c, NEW E, NEW o, Dense(E, o, EmptySaid(c))
    PROVE  Dense(E, o, EmptySaid(c)')
<1>1. EmptySaid(c) => EmptySaid(c)'
  BY DEF Grows, EmptySaid
<1>. DEFINE now == EmptySaid(c)
            then == EmptySaid(c)'
<1>. HIDE DEF now, then
<1>2. Dense(E, o, now) /\ (now => then)
  BY <1>1 DEF now, then
<1>3. Dense(E, o, then)
  BY <1>2 DEF Dense
<1>. QED  BY <1>3 DEF then

\* Streams that a step does not touch.
LEMMA UpStays ==
    ASSUME Grows, NEW c, UpStream(c),
           toServer'[c] = toServer[c], sender'[c] = sender[c], server'[c] = server[c]
    PROVE  UpStream(c)'
<1>1. PICK E : /\ Log(E, toServer[c], sender[c].seq, sender[c].chunk)
               /\ ReadSoFar(E, server[c], sender[c].seq)
               /\ \A e \in E : SaidBy(c, TRUE, e.payload)
  BY DEF UpStream
<1>2. \A e \in E : SaidBy(c, TRUE, e.payload)'
  BY <1>1, SaidStays
<1>3. \A b \in toServer[c] : Parse(b).kind = UNRELIABLE => SaidBy(c, FALSE, Parse(b).payload)'
  BY SaidStays DEF UpStream
<1>. QED  BY <1>1, <1>2, <1>3 DEF UpStream

LEMMA DownStays ==
    ASSUME Grows, NEW c, DownStream(c),
           toClient'[c] = toClient[c], next'[c] = next[c],
           reader'[c] = reader[c], heard'[c] = heard[c]
    PROVE  DownStream(c)'
<1>1. PICK E : /\ Log(E, toClient[c], next[c].seq, next[c].chunk)
               /\ ReadSoFar(E, reader[c], next[c].seq)
               /\ Dense(E, next[c].ordered, EmptySaid(c))
               /\ \A e \in E : Told(c, e.payload)
  BY DEF DownStream
<1>5. Dense(E, next[c].ordered, EmptySaid(c)')
  BY <1>1, DenseStays
<1>2. \A e \in E : Told(c, e.payload)'
  BY <1>1, ToldStays
<1>3. \A b \in toClient[c] : Parse(b).kind = UNRELIABLE => Told(c, Parse(b).payload)'
  BY ToldStays DEF DownStream
<1>4. \A payload \in heard[c] : Told(c, payload)'
  BY ToldStays DEF DownStream
<1>. QED  BY <1>1, <1>2, <1>3, <1>4, <1>5 DEF DownStream

\* Unreliable datagrams are none of the stream's business.
LEMMA LogIgnores ==
    ASSUME NEW E, NEW D, NEW s, NEW k, Log(E, D, s, k), NEW b, Parse(b).kind = UNRELIABLE
    PROVE  Log(E, D \cup {b}, s, k) /\ Log(E, D \ {b}, s, k)
<1>1. RELIABLE # UNRELIABLE
  BY DEF RELIABLE, UNRELIABLE
<1>2. ASSUME NEW e \in E, NEW i \in AllPieces(e.payload) PROVE Encode(Packet(e, i)) # b
  <2>1. e \in Events /\ FitsEvent(e)
    BY DEF Log
  <2>2. Parse(Encode(Packet(e, i))) \in ReliableFrames
    BY <2>1, PacketRead
  <2>3. Parse(Encode(Packet(e, i))).kind = RELIABLE
    BY <2>2 DEF ReliableFrames
  <2>. QED  BY <1>1, <2>3
<1>. QED  BY <1>1, <1>2 DEF Log

-----------------------------------------------------------------------------
(* Initially *)

\* Nothing was sent in the beginning.
LEMMA StreamInit == Init => RelayInv
<1>. SUFFICES ASSUME Init PROVE RelayInv
  OBVIOUS
<1>1. WireInv
  BY WireInit
<1>2. SaidInv
  BY DEF Init, SaidInv
<1>3. ASSUME NEW c \in Clients PROVE UpStream(c) /\ DownStream(c)
  <2>1. /\ toServer[c] = {} /\ toClient[c] = {} /\ heard[c] = {}
        /\ server[c] = NewReader /\ reader[c] = NewReader /\ next[c].ordered = 0
    BY DEF Init
  <2>2. \A s, k : Log({}, {}, s, k)
    BY DEF Log
  <2>3. \A s : ReadSoFar({}, NewReader, s)
    <3>1. NewReader.processed = {} /\ DOMAIN NewReader.inbound = {}
      BY DEF NewReader
    <3>. QED  BY <3>1, NewReaderType DEF ReadSoFar
  <2>4. Dense({}, 0, EmptySaid(c))
    BY DEF Dense
  <2>5. UpStream(c)
    BY <2>1, <2>2, <2>3 DEF UpStream
  <2>6. DownStream(c)
    BY <2>1, <2>2, <2>3, <2>4 DEF DownStream
  <2>. QED  BY <2>5, <2>6
<1>. QED  BY <1>1, <1>2, <1>3 DEF RelayInv, StreamInv

-----------------------------------------------------------------------------
(* A game says something *)

\* One event more, with the discriminant it is to have.
LEMMA SaidMore ==
    ASSUME WireInv, SaidInv, NEW c \in Clients, NEW payload \in Payloads,
           NEW reliable \in BOOLEAN, Say(c, payload, reliable),
           NamesEvent(payload) /\ reliable => Discriminant(payload) \in Reliably
    PROVE  /\ Grows /\ SaidBy(c, reliable, payload)'
           /\ \A n \in DOMAIN said' :
                NamesEvent(said'[n].payload) /\ said'[n].reliable =>
                    Discriminant(said'[n].payload) \in Reliably
           /\ Len(said'[Len(said) + 1].payload) = Len(payload) /\ Len(said) + 1 \in DOMAIN said'
<1>0. said \in Seq(SaidEvents)
  BY DEF WireInv
<1>. DEFINE m == [from |-> c, reliable |-> reliable, payload |-> payload]
<1>2. said' = Append(said, m) /\ UNCHANGED lobby
  BY DEF Say
<1>4. m \in SaidEvents /\ m.payload = payload /\ m.reliable = reliable /\ m.from = c
  BY DEF SaidEvents
<1>. HIDE DEF m
<1>5. /\ DOMAIN said' = 1 .. Len(said) + 1 /\ DOMAIN said = 1 .. Len(said) /\ Len(said) \in Nat
      /\ \A n \in 1 .. Len(said) : said'[n] = said[n]
      /\ said'[Len(said) + 1] = m
  BY <1>0, <1>2, <1>4, AppendElements
<1>6. Grows
  BY <1>2, <1>5 DEF Grows
<1>3. Len(said) + 1 \in DOMAIN said'
  BY <1>5
<1>7. SaidBy(c, reliable, payload)'
  BY <1>3, <1>4, <1>5 DEF SaidBy
<1>8. ASSUME NEW n \in DOMAIN said', NamesEvent(said'[n].payload), said'[n].reliable
      PROVE  Discriminant(said'[n].payload) \in Reliably
  <2>1. CASE n = Len(said) + 1
    <3>1. said'[n].payload = payload /\ said'[n].reliable = reliable
      BY <1>4, <1>5, <2>1
    <3>. QED  BY <1>8, <3>1
  <2>2. CASE n # Len(said) + 1
    <3>. n \in 1 .. Len(said)
      BY <1>5, <2>2
    <3>. QED  BY <1>5, <1>8 DEF SaidInv
  <2>. QED  BY <2>1, <2>2
<1>. QED  BY <1>3, <1>4, <1>5, <1>6, <1>7, <1>8

\* A game sends with the next numbers of its own.
LEMMA SayStep ==
    ASSUME RelayInv, NEW c \in Clients, NEW payload \in Payloads,
           NEW reliable \in BOOLEAN, Say(c, payload, reliable),
           NamesEvent(payload) /\ reliable => Discriminant(payload) \in Reliably
    PROVE  RelayInv'
<1>0. WireInv /\ SaidInv /\ WireInv'
  BY SayTypes DEF RelayInv
<1>1. /\ Grows /\ SaidBy(c, reliable, payload)'
      /\ \A j \in DOMAIN said' :
            NamesEvent(said'[j].payload) /\ said'[j].reliable =>
                Discriminant(said'[j].payload) \in Reliably
      /\ Len(said'[Len(said) + 1].payload) = Len(payload) /\ Len(said) + 1 \in DOMAIN said'
  BY <1>0, SaidMore, ZenonT(60)
<1>. DEFINE n == [seq |-> sender[c].seq, chunk |-> sender[c].chunk, ordered |-> None]
            e == [payload |-> payload, seq |-> sender[c].seq, chunk |-> sender[c].chunk,
                  ordered |-> None]
<1>2. /\ \/ /\ ~reliable
            /\ toServer' = [toServer EXCEPT ![c] = @ \cup {Encode(Unreliable(payload))}]
            /\ UNCHANGED sender
         \/ /\ reliable
            /\ toServer' = [toServer EXCEPT ![c] = @ \cup Packets(payload, n)]
            /\ sender' = [sender EXCEPT ![c] =
                    [seq |-> NextSeq(n, payload), chunk |-> NextChunk(n, payload)]]
      /\ UNCHANGED <<reader, heard, lobby, server, next, toClient>>
  BY DEF Say
<1>3. /\ sender[c].seq \in Nat /\ sender[c].chunk \in Nat /\ sender[c].seq >= 1
      /\ sender \in [Clients -> [seq : Nat, chunk : Nat]]
      /\ toServer \in [Clients -> SUBSET Datagrams]
      /\ next \in [Clients -> [seq : Nat, ordered : Nat, chunk : Nat]]
  BY <1>0 DEF WireInv, SaidInv
<1>4. Numbers(n) /\ e \in Events
  BY <1>3 DEF Numbers, Options, Events
<1>5. /\ Packets(payload, n) = Packets(e.payload, e)
      /\ NextSeq(n, payload) = NextSeq(e, e.payload) /\ NextChunk(n, payload) = NextChunk(e, e.payload)
  BY DEF Packets, NextSeq, NextChunk, OrderedIndex
<1>6. /\ e.seq = sender[c].seq /\ e.chunk = sender[c].chunk /\ e.payload = payload /\ e.ordered = None
  OBVIOUS
<1>. HIDE DEF n, e
<1>7. /\ NextSeq(e, e.payload) = Upper(e) /\ Upper(e) \in Nat /\ e.seq <= Upper(e)
      /\ NextChunk(e, e.payload) \in Nat /\ e.chunk <= NextChunk(e, e.payload)
      /\ Large(e) => e.chunk < NextChunk(e, e.payload)
  <2>1. e.payload \in Payloads /\ Numbers(e) /\ e.seq \in Nat /\ e.chunk \in Nat
        /\ PacketCount(e.payload) \in Nat
    BY <1>4, EventParts
  <2>2. NextSeq(e, e.payload) = e.seq + PacketCount(e.payload) /\ NextSeq(e, e.payload) \in Nat
        /\ NextChunk(e, e.payload) \in Nat /\ e.chunk <= NextChunk(e, e.payload)
    BY <2>1, PacketFrames
  <2>3. Large(e) => NextChunk(e, e.payload) = e.chunk + 1
    BY DEF NextChunk, Large
  <2>4. Upper(e) = e.seq + PacketCount(e.payload)
    BY DEF Upper
  <2>. QED  BY <2>1, <2>2, <2>3, <2>4
<1>8. \A a \in Clients : /\ sender[a].seq \in Nat /\ sender[a].chunk \in Nat
                         /\ sender'[a].seq \in Nat /\ sender'[a].chunk \in Nat
                         /\ sender[a].seq <= sender'[a].seq /\ sender[a].chunk <= sender'[a].chunk
  <2>1. CASE UNCHANGED sender
    BY <1>3, <2>1
  <2>2. CASE sender' = [sender EXCEPT ![c] =
                    [seq |-> NextSeq(n, payload), chunk |-> NextChunk(n, payload)]]
    <3>. TAKE a \in Clients
    <3>1. CASE a = c
      <4>1. sender'[c].seq = Upper(e) /\ sender'[c].chunk = NextChunk(e, e.payload)
        BY <1>3, <1>5, <1>7, <2>2
      <4>. QED  BY <1>3, <1>6, <1>7, <3>1, <4>1
    <3>2. CASE a # c
      <4>. sender'[a] = sender[a]
        BY <1>3, <2>2, <3>2
      <4>. QED  BY <1>3
    <3>. QED  BY <3>1, <3>2
  <2>. QED  BY <1>2, <2>1, <2>2
<1>9. SaidInv'
  <2>. \A a \in Clients : sender'[a].seq >= 1 /\ next'[a].seq >= 1
    BY <1>0, <1>2, <1>3, <1>8 DEF SaidInv
  <2>. QED  BY <1>1 DEF SaidInv
<1>10. ASSUME NumbersFit' PROVE NumbersFit
  <2>1. \A a \in Clients :
            /\ sender[a].seq <= Limit /\ sender[a].chunk <= Limit
            /\ next[a].seq <= Limit /\ next[a].chunk <= Limit /\ next[a].ordered <= Limit
    BY <1>2, <1>8, <1>10, SmallSizes DEF NumbersFit
  <2>2. \A j \in DOMAIN said : Len(said[j].payload) + 8 < Limit
    BY <1>1, <1>10 DEF NumbersFit, Grows
  <2>. QED  BY <2>1, <2>2 DEF NumbersFit
<1>11. ASSUME NumbersFit' PROVE StreamInv'
  <2>1. \A a \in Clients : UpStream(a) /\ DownStream(a)
    BY <1>10, <1>11 DEF RelayInv, StreamInv
  <2>2. \A a \in Clients : DownStream(a)'
    BY <1>1, <1>2, <2>1, DownStays
  <2>3. \A a \in Clients \ {c} : UpStream(a)'
    <3>. TAKE a \in Clients \ {c}
    <3>. toServer'[a] = toServer[a] /\ sender'[a] = sender[a] /\ server'[a] = server[a]
      BY <1>2, <1>3
    <3>. QED  BY <1>1, <2>1, UpStays
  <2>4. UpStream(c)'
    <3>1. PICK E : /\ Log(E, toServer[c], sender[c].seq, sender[c].chunk)
                   /\ ReadSoFar(E, server[c], sender[c].seq)
                   /\ \A g \in E : SaidBy(c, TRUE, g.payload)
      BY <2>1 DEF UpStream
    <3>2. /\ \A g \in E : SaidBy(c, TRUE, g.payload)'
          /\ \A b \in toServer[c] : Parse(b).kind = UNRELIABLE => SaidBy(c, FALSE, Parse(b).payload)'
      BY <1>1, <2>1, <3>1, SaidStays DEF UpStream
    <3>3. CASE ~reliable
      <4>. DEFINE b == Encode(Unreliable(payload))
      <4>1. Parse(b).kind = UNRELIABLE /\ Parse(b).payload = payload
        <5>. Parse(b) = Unreliable(payload)
          BY ParseUnreliable
        <5>. QED  BY DEF Unreliable
      <4>2. toServer'[c] = toServer[c] \cup {b} /\ sender'[c] = sender[c] /\ server'[c] = server[c]
        BY <1>2, <1>3, <3>3
      <4>. HIDE DEF b
      <4>3. Log(E, toServer'[c], sender'[c].seq, sender'[c].chunk)
        <5>. Log(E, toServer[c] \cup {b}, sender[c].seq, sender[c].chunk)
          BY <3>1, <4>1, LogIgnores
        <5>. QED  BY <4>2
      <4>4. \A g \in toServer'[c] : Parse(g).kind = UNRELIABLE => SaidBy(c, FALSE, Parse(g).payload)'
        BY <1>1, <3>2, <3>3, <4>1, <4>2
      <4>. QED  BY <3>1, <3>2, <4>2, <4>3, <4>4 DEF UpStream
    <3>4. CASE reliable
      <4>1. /\ toServer'[c] = toServer[c] \cup Packets(e.payload, e)
            /\ sender'[c].seq = NextSeq(e, e.payload) /\ sender'[c].chunk = NextChunk(e, e.payload)
            /\ server'[c] = server[c]
        BY <1>2, <1>3, <1>5, <3>4
      <4>2. FitsEvent(e)
        <5>1. Len(payload) + 8 < Limit /\ sender'[c].seq <= Limit /\ sender'[c].chunk <= Limit
          BY <1>1, <1>11 DEF NumbersFit
        <5>2. Len(payload) \in Nat
          BY DEF Payloads
        <5>3. Len(e.payload) < Limit
          BY <1>6, <5>1, <5>2, SmallSizes
        <5>4. Large(e) => e.chunk < Limit
          BY <1>3, <1>6, <1>7, <4>1, <5>1, SmallSizes
        <5>. QED  BY <1>6, <1>7, <4>1, <5>1, <5>3, <5>4 DEF FitsEvent
      <4>3. /\ Log(E \cup {e}, toServer'[c], sender'[c].seq, sender'[c].chunk)
            /\ ReadSoFar(E \cup {e}, server'[c], sender'[c].seq)
        <5>. DEFINE s == sender[c].seq
                    k == sender[c].chunk
                    D == toServer[c]
                    r == server[c]
        <5>1. /\ s \in Nat /\ k \in Nat /\ Log(E, D, s, k) /\ 1 <= s /\ ReadSoFar(E, r, s)
              /\ e \in Events /\ e.seq = s /\ e.chunk = k /\ FitsEvent(e)
          BY <1>3, <1>4, <1>6, <3>1, <4>2
        <5>. HIDE DEF s, k, D, r
        <5>2. /\ Log(E \cup {e}, D \cup Packets(e.payload, e), NextSeq(e, e.payload), NextChunk(e, e.payload))
              /\ ReadSoFar(E \cup {e}, r, NextSeq(e, e.payload))
          BY <5>1, LogGrows
        <5>. QED  BY <4>1, <5>2 DEF D, r
      <4>4. \A g \in E \cup {e} : SaidBy(c, TRUE, g.payload)'
        BY <1>1, <1>6, <3>2, <3>4
      <4>5. \A b \in Packets(e.payload, e) : Parse(b).kind # UNRELIABLE
        <5>. TAKE b \in Packets(e.payload, e)
        <5>1. e.payload \in Payloads /\ Numbers(e)
          BY <1>4, EventParts
        <5>2. PICK i \in AllPieces(e.payload) : b = Encode(Packet(e, i))
          BY <5>1, PacketFrames DEF Packet, AllPieces
        <5>3. Parse(b) \in ReliableFrames
          BY <1>4, <4>2, <5>2, PacketRead
        <5>. QED  BY <5>3 DEF ReliableFrames, RELIABLE, UNRELIABLE
      <4>6. \A b \in toServer'[c] : Parse(b).kind = UNRELIABLE => SaidBy(c, FALSE, Parse(b).payload)'
        BY <3>2, <4>1, <4>5
      <4>. QED  BY <4>3, <4>4, <4>6 DEF UpStream
    <3>. QED  BY <3>3, <3>4
  <2>. QED  BY <2>2, <2>3, <2>4 DEF StreamInv
<1>. QED  BY <1>0, <1>9, <1>11 DEF RelayInv

-----------------------------------------------------------------------------
(* A game hears something *)

\* A game hears what it was told.
LEMMA HearStep ==
    ASSUME RelayInv, NEW c \in Clients, NEW b \in toClient[c], Hear(c, b)
    PROVE  RelayInv'
<1>. DEFINE f == Parse(b)
<1>0. WireInv /\ SaidInv /\ WireInv'
  BY HearTypes DEF RelayInv
<1>1. UNCHANGED <<said, sender, toServer, lobby, server, next>>
  BY DEF Hear
<1>2. Grows
  BY <1>1 DEF Grows
<1>3. SaidInv'
  BY <1>0, <1>1 DEF SaidInv
<1>4. NumbersFit' => NumbersFit
  BY <1>1 DEF NumbersFit
<1>5. ASSUME NumbersFit PROVE StreamInv'
  <2>1. \A a \in Clients : UpStream(a) /\ DownStream(a)
    BY <1>5 DEF RelayInv, StreamInv
  <2>2. \A a \in Clients : UpStream(a)'
    BY <1>1, <1>2, <2>1, UpStays
  <2>3. /\ reader \in [Clients -> Readers] /\ heard \in [Clients -> SUBSET Payloads]
        /\ toClient \in [Clients -> SUBSET Datagrams]
        /\ next[c].seq \in Nat /\ next[c].chunk \in Nat
    BY <1>0 DEF WireInv
  <2>4. PICK E : /\ Log(E, toClient[c], next[c].seq, next[c].chunk)
                 /\ ReadSoFar(E, reader[c], next[c].seq)
                 /\ Dense(E, next[c].ordered, EmptySaid(c))
                 /\ \A e \in E : Told(c, e.payload)
    BY <2>1 DEF DownStream
  <2>5. /\ \A g \in toClient[c] : Parse(g).kind = UNRELIABLE => Told(c, Parse(g).payload)
        /\ \A payload \in heard[c] : Told(c, payload)
    BY <2>1 DEF DownStream
  <2>6. \A payload : Told(c, payload) => Told(c, payload)'
    BY <1>2, ToldStays
  <2>9. Dense(E, next[c].ordered, EmptySaid(c)')
    BY <1>2, <2>4, DenseStays
  <2>7. CASE f.kind = UNRELIABLE /\ heard' = [heard EXCEPT ![c] = @ \cup {f.payload}]
             /\ toClient' = [toClient EXCEPT ![c] = @ \ {b}] /\ UNCHANGED reader
    <3>1. \A a \in Clients \ {c} : DownStream(a)'
      <4>. TAKE a \in Clients \ {c}
      <4>. heard'[a] = heard[a] /\ toClient'[a] = toClient[a] /\ reader'[a] = reader[a] /\ next'[a] = next[a]
        BY <1>1, <2>3, <2>7
      <4>. QED  BY <1>2, <2>1, DownStays
    <3>2. heard'[c] = heard[c] \cup {f.payload} /\ toClient'[c] = toClient[c] \ {b}
          /\ reader'[c] = reader[c] /\ next'[c] = next[c]
      BY <1>1, <2>3, <2>7
    <3>3. Told(c, f.payload)
      BY <2>5, <2>7
    <3>4. Log(E, toClient'[c], next'[c].seq, next'[c].chunk)
      <4>. Log(E, toClient[c] \ {b}, next[c].seq, next[c].chunk)
        BY <2>4, <2>7, LogIgnores
      <4>. QED  BY <3>2
    <3>5. \A e \in E : Told(c, e.payload)'
      BY <2>4, <2>6
    <3>6. \A g \in toClient'[c] : Parse(g).kind = UNRELIABLE => Told(c, Parse(g).payload)'
      BY <2>5, <2>6, <3>2
    <3>7. \A payload \in heard'[c] : Told(c, payload)'
      BY <2>5, <2>6, <3>2, <3>3
    <3>8. DownStream(c)'
      BY <2>4, <2>9, <3>2, <3>4, <3>5, <3>6, <3>7 DEF DownStream
    <3>. QED  BY <2>2, <3>1, <3>8 DEF StreamInv
  <2>8. CASE f.kind = RELIABLE /\ heard' = [heard EXCEPT ![c] = @ \cup ToSet(Completed(reader[c], f))]
             /\ reader' = [reader EXCEPT ![c] = AfterPacket(@, f)] /\ UNCHANGED toClient
    <3>1. \A a \in Clients \ {c} : DownStream(a)'
      <4>. TAKE a \in Clients \ {c}
      <4>. heard'[a] = heard[a] /\ toClient'[a] = toClient[a] /\ reader'[a] = reader[a] /\ next'[a] = next[a]
        BY <1>1, <2>3, <2>8
      <4>. QED  BY <1>2, <2>1, DownStays
    <3>2. /\ heard'[c] = heard[c] \cup ToSet(Completed(reader[c], f)) /\ toClient'[c] = toClient[c]
          /\ reader'[c] = AfterPacket(reader[c], f) /\ next'[c] = next[c]
      BY <1>1, <2>3, <2>8
    <3>3. /\ ReadSoFar(E, AfterPacket(reader[c], f), next[c].seq)
          /\ \/ Completed(reader[c], f) = None
             \/ \E e \in E : Completed(reader[c], f) = Some(e.payload)
      <4>. DEFINE D == toClient[c]
                  s == next[c].seq
                  k == next[c].chunk
                  r == reader[c]
      <4>1. /\ s \in Nat /\ k \in Nat /\ Log(E, D, s, k) /\ ReadSoFar(E, r, s)
            /\ b \in D /\ Parse(b).kind = RELIABLE
        BY <2>3, <2>4, <2>8
      <4>. HIDE DEF D, s, k, r
      <4>2. /\ ReadSoFar(E, AfterPacket(r, Parse(b)), s)
            /\ \/ Completed(r, Parse(b)) = None
               \/ \E e \in E : Completed(r, Parse(b)) = Some(e.payload)
        BY <4>1, LogRead
      <4>. QED  BY <4>2 DEF r, s
    <3>4. \A payload \in ToSet(Completed(reader[c], f)) : Told(c, payload)
      BY <2>4, <3>3 DEF None, Some, ToSet
    <3>5. \A e \in E : Told(c, e.payload)'
      BY <2>4, <2>6
    <3>6. \A g \in toClient'[c] : Parse(g).kind = UNRELIABLE => Told(c, Parse(g).payload)'
      BY <2>5, <2>6, <3>2
    <3>7. \A payload \in heard'[c] : Told(c, payload)'
      BY <2>5, <2>6, <3>2, <3>4
    <3>8. DownStream(c)'
      BY <2>4, <2>9, <3>2, <3>3, <3>5, <3>6, <3>7 DEF DownStream
    <3>. QED  BY <2>2, <3>1, <3>8 DEF StreamInv
  <2>. QED  BY <2>7, <2>8 DEF Hear
<1>. QED  BY <1>0, <1>3, <1>4, <1>5 DEF RelayInv

-----------------------------------------------------------------------------
(* The server passes something on *)

\* The next index goes to the next event.
LEMMA DenseGrows ==
    ASSUME NEW E, NEW o \in Nat, NEW skip, Dense(E, o, skip), NEW e, e.ordered = Some(o), e.seq \in Nat,
           \A g \in E : g.seq \in Nat /\ g.seq < e.seq
    PROVE  Dense(E \cup {e}, o + 1, skip)
<1>1. e.ordered # None /\ e.ordered[1] = o
  BY DEF Some, None
<1>2. \A g \in E \cup {e} : g.ordered # None /\ g.ordered[1] \in 0 .. o
  BY <1>1 DEF Dense
<1>3. skip \/ \A i \in 0 .. o : \E g \in E \cup {e} : g.ordered = Some(i)
  <2>. SUFFICES ASSUME ~skip, NEW i \in 0 .. o PROVE \E g \in E \cup {e} : g.ordered = Some(i)
    OBVIOUS
  <2>1. CASE i = o
    BY <2>1
  <2>2. CASE i # o
    <3>. i \in 0 .. o - 1
      BY <2>2
    <3>. QED  BY DEF Dense
  <2>. QED  BY <2>1, <2>2
<1>4. \A g, h \in E \cup {e} : g.seq < h.seq => g.ordered[1] < h.ordered[1]
  <2>. SUFFICES ASSUME NEW g \in E \cup {e}, NEW h \in E \cup {e}, g.seq < h.seq
                PROVE  g.ordered[1] < h.ordered[1]
    OBVIOUS
  <2>1. CASE h = e
    <3>1. g \in E
      BY <2>1
    <3>2. g.ordered[1] \in 0 .. o - 1
      BY <3>1 DEF Dense
    <3>. QED  BY <1>1, <2>1, <3>2
  <2>2. CASE h # e
    <3>1. h \in E /\ h.seq < e.seq /\ h.seq \in Nat
      BY <2>2
    <3>2. g \in E
      BY <3>1
    <3>. QED  BY <3>1, <3>2 DEF Dense
  <2>. QED  BY <2>1, <2>2
<1>5. (o + 1) - 1 = o
  OBVIOUS
<1>. QED  BY <1>2, <1>3, <1>4, <1>5 DEF Dense

\* An index goes to an event of which there is no packet.
LEMMA DenseSkips ==
    ASSUME NEW E, NEW o \in Nat, NEW skip, Dense(E, o, skip)
    PROVE  Dense(E, o + 1, TRUE)
<1>1. \A g \in E : g.ordered # None /\ g.ordered[1] \in 0 .. (o + 1) - 1
  BY DEF Dense
<1>. QED  BY <1>1 DEF Dense

\* A broadcast goes to each with the next numbers of theirs.
LEMMA Broadcasts ==
    ASSUME WireInv, SaidInv, Grows, NumbersFit', UNCHANGED <<said, reader, heard>>,
           NEW S, NEW payload \in Payloads, BroadcastReliable(S, payload),
           NEW a \in Clients, a \in S => Told(a, payload)', DownStream(a),
           a \in S /\ payload = <<>> => EmptySaid(a)'
    PROVE  DownStream(a)'
<1>1. CASE a \notin S
  <2>. toClient'[a] = toClient[a] /\ next'[a] = next[a] /\ reader'[a] = reader[a] /\ heard'[a] = heard[a]
    BY <1>1 DEF BroadcastReliable
  <2>. QED  BY DownStays
<1>3. CASE a \in S /\ payload = <<>>
  <2>1. PICK E : /\ Log(E, toClient[a], next[a].seq, next[a].chunk)
                 /\ ReadSoFar(E, reader[a], next[a].seq)
                 /\ Dense(E, next[a].ordered, EmptySaid(a))
                 /\ \A e \in E : Told(a, e.payload)
    BY DEF DownStream
  <2>2. next[a] \in [seq : Nat, ordered : Nat, chunk : Nat]
    BY DEF WireInv
  <2>3. toClient'[a] = toClient[a] /\ next'[a] = [next[a] EXCEPT !.ordered = @ + 1]
        /\ reader'[a] = reader[a] /\ heard'[a] = heard[a]
    BY <1>3 DEF BroadcastReliable
  <2>4. next'[a].seq = next[a].seq /\ next'[a].chunk = next[a].chunk
        /\ next'[a].ordered = next[a].ordered + 1 /\ next[a].ordered \in Nat
    BY <2>2, <2>3
  <2>5. Dense(E, next'[a].ordered, EmptySaid(a)')
    <3>1. Dense(E, next[a].ordered + 1, TRUE)
      <4>. DEFINE o == next[a].ordered
                  skip == EmptySaid(a)
      <4>1. o \in Nat /\ Dense(E, o, skip)
        BY <2>1, <2>4
      <4>. HIDE DEF o, skip
      <4>2. Dense(E, o + 1, TRUE)
        BY <4>1, DenseSkips
      <4>. QED  BY <4>2 DEF o
    <3>. DEFINE skip == EmptySaid(a)'
                o == next'[a].ordered
    <3>2. skip /\ Dense(E, o, TRUE)
      BY <1>3, <2>4, <3>1
    <3>. HIDE DEF skip, o
    <3>3. Dense(E, o, skip)
      BY <3>2 DEF Dense
    <3>. QED  BY <3>3 DEF skip, o
  <2>6. \A e \in E : Told(a, e.payload)'
    BY <2>1, ToldStays
  <2>7. \A b \in toClient[a] : Parse(b).kind = UNRELIABLE => Told(a, Parse(b).payload)'
    BY ToldStays DEF DownStream
  <2>8. \A p \in heard[a] : Told(a, p)'
    BY ToldStays DEF DownStream
  <2>. QED  BY <2>1, <2>3, <2>4, <2>5, <2>6, <2>7, <2>8 DEF DownStream
<1>2. CASE a \in S /\ payload # <<>>
  <2>1. /\ next[a] \in [seq : Nat, ordered : Nat, chunk : Nat]
        /\ next[a].seq \in Nat /\ next[a].chunk \in Nat /\ next[a].ordered \in Nat /\ next[a].seq >= 1
    BY DEF WireInv, SaidInv
  <2>. DEFINE s == next[a].seq
              k == next[a].chunk
              o == next[a].ordered
              D == toClient[a]
              r == reader[a]
              n == Ordered(a)
              e == [payload |-> payload, seq |-> s, chunk |-> k, ordered |-> Some(o)]
  <2>2. n.seq = s /\ n.chunk = k /\ n.ordered = Some(o)
    BY <2>1 DEF Ordered
  <2>3. Told(a, payload)'
    BY <1>2
  <2>4. /\ Len(payload) \in Nat
        /\ \E j \in DOMAIN said' : Len(payload) <= Len(said'[j].payload) + 8
    BY <2>3 DEF Told, Payloads
  <2>5. e \in Events
    BY <2>1 DEF Events, Options
  <2>6. /\ Packets(payload, n) = Packets(e.payload, e)
        /\ NextSeq(n, payload) = NextSeq(e, e.payload) /\ NextChunk(n, payload) = NextChunk(e, e.payload)
    BY <2>2 DEF Packets, NextSeq, NextChunk, OrderedIndex
  <2>7. /\ toClient'[a] = D \cup Packets(e.payload, e) /\ next'[a].seq = NextSeq(e, e.payload)
        /\ next'[a].chunk = NextChunk(e, e.payload) /\ next'[a].ordered = o + 1
        /\ reader'[a] = r /\ heard'[a] = heard[a]
    BY <1>2, <2>6 DEF BroadcastReliable
  <2>8. PICK E : /\ Log(E, D, s, k) /\ ReadSoFar(E, r, s) /\ Dense(E, o, EmptySaid(a))
                 /\ \A g \in E : Told(a, g.payload)
    BY DEF DownStream
  <2>9. e.seq = s /\ e.chunk = k /\ e.payload = payload /\ e.ordered = Some(o)
    OBVIOUS
  <2>10. s \in Nat /\ k \in Nat /\ o \in Nat /\ 1 <= s
    BY <2>1
  <2>11. next'[a].seq <= Limit /\ next'[a].chunk <= Limit /\ next'[a].ordered <= Limit
         /\ \A j \in DOMAIN said' : Len(said'[j].payload) + 8 < Limit
    BY DEF NumbersFit
  <2>. HIDE DEF s, k, o, D, r, n, e
  <2>12. /\ NextSeq(e, e.payload) = Upper(e) /\ Upper(e) \in Nat
         /\ Large(e) => NextChunk(e, e.payload) = e.chunk + 1
    <3>1. e.payload \in Payloads /\ Numbers(e) /\ e.seq \in Nat /\ e.chunk \in Nat
          /\ PacketCount(e.payload) \in Nat
      BY <2>5, EventParts
    <3>2. NextSeq(e, e.payload) = e.seq + PacketCount(e.payload) /\ NextSeq(e, e.payload) \in Nat
      BY <3>1, PacketFrames
    <3>. QED  BY <3>2 DEF Upper, NextChunk, Large
  <2>13. FitsEvent(e)
    <3>1. Len(e.payload) < Limit
      <4>1. PICK j \in DOMAIN said' : Len(payload) <= Len(said'[j].payload) + 8
        BY <2>4
      <4>2. Len(said'[j].payload) + 8 < Limit
        BY <2>11, <4>1
      <4>3. said' \in Seq(SaidEvents) => Len(said'[j].payload) \in Nat
        BY <4>1 DEF SaidEvents, Payloads
      <4>4. said' \in Seq(SaidEvents)
        BY DEF WireInv
      <4>. QED  BY <2>4, <2>9, <4>1, <4>2, <4>3, <4>4, SmallSizes
    <3>2. Large(e) => e.chunk < Limit
      BY <2>7, <2>9, <2>10, <2>11, <2>12, SmallSizes
    <3>3. e.ordered # None => e.ordered[1] < Limit
      <4>1. o < Limit
        BY <2>7, <2>10, <2>11, SmallSizes
      <4>. QED  BY <2>9, <4>1 DEF Some
    <3>. QED  BY <2>7, <2>11, <2>12, <3>1, <3>2, <3>3 DEF FitsEvent
  <2>14. /\ Log(E \cup {e}, D \cup Packets(e.payload, e), NextSeq(e, e.payload), NextChunk(e, e.payload))
         /\ ReadSoFar(E \cup {e}, r, NextSeq(e, e.payload))
    BY <2>5, <2>8, <2>9, <2>10, <2>13, LogGrows
  <2>15. Dense(E \cup {e}, o + 1, EmptySaid(a)')
    <3>0. Dense(E, o, EmptySaid(a)')
      BY <2>8, DenseStays
    <3>. DEFINE skip == EmptySaid(a)'
    <3>. HIDE DEF skip
    <3>2. Dense(E, o, skip)
      BY <3>0 DEF skip
    <3>1. \A g \in E : g.seq \in Nat /\ g.seq < e.seq
      <4>. TAKE g \in E
      <4>1. g \in Events /\ Upper(g) <= s
        BY <2>8 DEF Log
      <4>2. g.seq \in Nat /\ Upper(g) = g.seq + PacketCount(g.payload)
            /\ PacketCount(g.payload) \in Nat /\ PacketCount(g.payload) > 0
        BY <4>1, EventParts DEF Upper
      <4>. QED  BY <2>9, <2>10, <4>1, <4>2
    <3>3. Dense(E \cup {e}, o + 1, skip)
      BY <2>9, <2>10, <3>1, <3>2, DenseGrows
    <3>. QED  BY <3>3 DEF skip
  <2>16. \A g \in E \cup {e} : Told(a, g.payload)'
    BY <2>3, <2>8, <2>9, ToldStays
  <2>17. \A b \in Packets(e.payload, e) : Parse(b).kind # UNRELIABLE
    <3>. TAKE b \in Packets(e.payload, e)
    <3>1. e.payload \in Payloads /\ Numbers(e)
      BY <2>5, EventParts
    <3>2. PICK i \in AllPieces(e.payload) : b = Encode(Packet(e, i))
      BY <3>1, PacketFrames DEF Packet, AllPieces
    <3>3. Parse(b) \in ReliableFrames
      BY <2>5, <2>13, <3>2, PacketRead
    <3>. QED  BY <3>3 DEF ReliableFrames, RELIABLE, UNRELIABLE
  <2>18. \A b \in toClient'[a] : Parse(b).kind = UNRELIABLE => Told(a, Parse(b).payload)'
    <3>1. \A b \in D : Parse(b).kind = UNRELIABLE => Told(a, Parse(b).payload)
      BY DEF DownStream, D
    <3>. QED  BY <2>7, <2>17, <3>1, ToldStays
  <2>19. \A p \in heard'[a] : Told(a, p)'
    <3>1. \A p \in heard[a] : Told(a, p)
      BY DEF DownStream
    <3>. QED  BY <2>7, <3>1, ToldStays
  <2>. QED  BY <2>7, <2>14, <2>15, <2>16, <2>18, <2>19 DEF DownStream
<1>. QED  BY <1>1, <1>2, <1>3

\* Numbers never go back, so that they fitted before if they fit now.
LEMMA RelayedNumbers ==
    ASSUME WireInv, SaidInv, UNCHANGED <<said, sender>>, NEW S, NEW payload \in Payloads,
           BroadcastReliable(S, payload) \/ SendUnreliable(S, payload) \/ Nothing
    PROVE  SaidInv' /\ (NumbersFit' => NumbersFit)
<1>1. ASSUME NEW a \in Clients
      PROVE  /\ next[a].seq \in Nat /\ next[a].chunk \in Nat /\ next[a].ordered \in Nat
             /\ next'[a].seq \in Nat /\ next'[a].chunk \in Nat /\ next'[a].ordered \in Nat
             /\ next[a].seq <= next'[a].seq /\ next[a].chunk <= next'[a].chunk
             /\ next[a].ordered <= next'[a].ordered
  <2>0. next[a] \in [seq : Nat, ordered : Nat, chunk : Nat]
    BY DEF WireInv
  <2>1. CASE next'[a] = next[a]
    BY <2>0, <2>1
  <2>4. CASE next'[a] = [next[a] EXCEPT !.ordered = @ + 1]
    <3>. next'[a].seq = next[a].seq /\ next'[a].chunk = next[a].chunk
         /\ next'[a].ordered = next[a].ordered + 1
      BY <2>0, <2>4
    <3>. QED  BY <2>0
  <2>2. CASE BroadcastReliable(S, payload) /\ a \in S /\ payload # <<>>
    <3>. DEFINE n == Ordered(a)
    <3>1. n.seq = next[a].seq /\ n.chunk = next[a].chunk /\ n.ordered = Some(next[a].ordered)
      BY <2>0 DEF Ordered
    <3>2. Numbers(n)
      BY <2>0, <3>1 DEF Numbers, Options
    <3>3. /\ next'[a].seq = NextSeq(n, payload) /\ next'[a].chunk = NextChunk(n, payload)
          /\ next'[a].ordered = next[a].ordered + 1
      BY <2>2 DEF BroadcastReliable
    <3>. HIDE DEF n
    <3>4. /\ NextSeq(n, payload) = n.seq + PacketCount(payload) /\ PacketCount(payload) \in Nat
          /\ NextChunk(n, payload) \in Nat /\ n.chunk <= NextChunk(n, payload)
      BY <3>2, PacketFrames
    <3>. QED  BY <2>0, <3>1, <3>3, <3>4
  <2>3. \/ next'[a] = next[a] \/ next'[a] = [next[a] EXCEPT !.ordered = @ + 1]
        \/ BroadcastReliable(S, payload) /\ a \in S /\ payload # <<>>
    BY DEF BroadcastReliable, SendUnreliable, Nothing
  <2>. QED  BY <2>1, <2>2, <2>3, <2>4
<1>2. SaidInv'
  <2>. \A a \in Clients : sender'[a].seq >= 1 /\ next'[a].seq >= 1
    BY <1>1 DEF SaidInv
  <2>. QED  BY DEF SaidInv
<1>3. ASSUME NumbersFit' PROVE NumbersFit
  BY <1>1, <1>3, SmallSizes DEF NumbersFit
<1>. QED  BY <1>2, <1>3

\* Nothing sent, or something unreliable.
LEMMA Nothings ==
    ASSUME Grows, UNCHANGED <<reader, heard>>, Nothing, NEW a \in Clients, DownStream(a)
    PROVE  DownStream(a)'
BY DownStays DEF Nothing

LEMMA Unreliables ==
    ASSUME WireInv, Grows, UNCHANGED <<reader, heard>>,
           NEW S, NEW payload \in Payloads, SendUnreliable(S, payload),
           NEW a \in Clients, a \in S => Told(a, payload)', DownStream(a)
    PROVE  DownStream(a)'
<1>. DEFINE b == Encode(Unreliable(payload))
<1>0. Parse(b).kind = UNRELIABLE /\ Parse(b).payload = payload
  <2>. Parse(b) = Unreliable(payload)
    BY ParseUnreliable
  <2>. QED  BY DEF Unreliable
<1>1. next'[a] = next[a] /\ reader'[a] = reader[a] /\ heard'[a] = heard[a]
      /\ toClient'[a] = IF a \in S THEN toClient[a] \cup {b} ELSE toClient[a]
  BY DEF SendUnreliable
<1>. HIDE DEF b
<1>2. CASE a \notin S
  BY <1>1, <1>2, DownStays
<1>3. CASE a \in S
  <2>1. PICK E : /\ Log(E, toClient[a], next[a].seq, next[a].chunk)
                 /\ ReadSoFar(E, reader[a], next[a].seq)
                 /\ Dense(E, next[a].ordered, EmptySaid(a))
                 /\ \A e \in E : Told(a, e.payload)
    BY DEF DownStream
  <2>2. Log(E, toClient'[a], next'[a].seq, next'[a].chunk)
    <3>. Log(E, toClient[a] \cup {b}, next[a].seq, next[a].chunk)
      BY <1>0, <2>1, LogIgnores
    <3>. QED  BY <1>1, <1>3
  <2>3. \A e \in E : Told(a, e.payload)'
    BY <2>1, ToldStays
  <2>4. \A g \in toClient'[a] : Parse(g).kind = UNRELIABLE => Told(a, Parse(g).payload)'
    <3>1. \A g \in toClient[a] : Parse(g).kind = UNRELIABLE => Told(a, Parse(g).payload)'
      BY ToldStays DEF DownStream
    <3>. QED  BY <1>0, <1>1, <1>3, <3>1
  <2>5. \A p \in heard'[a] : Told(a, p)'
    BY <1>1, ToldStays DEF DownStream
  <2>6. Dense(E, next[a].ordered, EmptySaid(a)')
    BY <2>1, DenseStays
  <2>. QED  BY <1>1, <2>1, <2>2, <2>3, <2>4, <2>5, <2>6 DEF DownStream
<1>. QED  BY <1>2, <1>3

\* What the server makes of an event tells the others of it.
LEMMA TwinTold ==
    ASSUME WireInv, SaidInv, UNCHANGED said, lobby \subseteq lobby',
           NEW c \in Clients, NEW reliable \in BOOLEAN, NEW payload \in Payloads,
           SaidBy(c, reliable, payload), NamesEvent(payload),
           Discriminant(payload) \in DOMAIN Twins, c \in lobby',
           reliable \/ Discriminant(payload) # CARSTATE, ~reliable \/ Discriminant(payload) # READY,
           NEW a \in Clients \ {c}
    PROVE  /\ Told(a, WithSender(Twins[Discriminant(payload)], c, payload))'
           /\ WithSender(Twins[Discriminant(payload)], c, payload) # <<>>
<1>. DEFINE t == WithSender(Twins[Discriminant(payload)], c, payload)
<1>1. PICK n \in DOMAIN said :
        said[n].from = c /\ said[n].reliable = reliable /\ said[n].payload = payload
  BY DEF SaidBy
<1>2. said[n] \in SaidEvents /\ Len(payload) >= 4 /\ Len(payload) \in Nat /\ c \in Nat
      /\ (reliable => Discriminant(payload) \in Reliably)
  BY <1>1, RelayAssumption DEF WireInv, SaidInv, Payloads, Clients, NamesEvent, U32
<1>3. t \in Payloads /\ Len(t) = Len(payload) + 8
  <2>. DEFINE d == Twins[Discriminant(payload)]
  <2>1. d \in 0 .. 48
    BY TwinNumbers
  <2>. HIDE DEF d
  <2>2. d \in Nat
    BY <2>1
  <2>3. /\ WithSender(d, c, payload) \in Payloads
        /\ IsBytes(WithSender(d, c, payload), 12 + IF Len(payload) < 4 THEN 0 ELSE Len(payload) - 4)
    BY <1>2, <2>2, WithSenderBytes
  <2>4. Len(WithSender(d, c, payload)) = Len(payload) + 8
    BY <1>2, <2>3 DEF IsBytes
  <2>. QED  BY <2>3, <2>4 DEF d
<1>4. ASSUME CARSTATE \notin Reliably PROVE TellsTwin(t, said[n])
  <2>. Discriminant(said[n].payload) # CARSTATE
    BY <1>1, <1>2, <1>4
  <2>. Len(said[n].payload) >= 4 /\ Discriminant(said[n].payload) \in DOMAIN Twins
    BY <1>1, <1>2
  <2>. Discriminant(said[n].payload) = READY => ~said[n].reliable
    BY <1>1
  <2>. TellsTwin(WithSender(Twins[Discriminant(said[n].payload)], said[n].from, said[n].payload), said[n])
    BY <1>2, TwinTells
  <2>. QED  BY <1>1
<1>. HIDE DEF t
<1>5. \A x \in {t} : Told(a, x)'
  <2>. TAKE x \in {t}
  <2>1. said'[n].from # a /\ said'[n].from \in lobby' /\ NamesEvent(said'[n].payload)
        /\ n \in DOMAIN said'
    BY <1>1
  <2>2. CARSTATE \notin Reliably => TellsTwin(x, said'[n])
    BY <1>4
  <2>3. CARSTATE \notin Reliably => ToldBy(a, x, n)'
    BY <2>1, <2>2 DEF ToldBy
  <2>4. x \in Payloads /\ Len(x) <= Len(said'[n].payload) + 8
    BY <1>1, <1>2, <1>3
  <2>. QED  BY <2>1, <2>3, <2>4 DEF Told
<1>6. t # <<>>
  BY <1>2, <1>3
<1>. QED  BY <1>5, <1>6 DEF t

\* A reliable Ready.
LEMMA ReadyTold ==
    ASSUME WireInv, UNCHANGED said,
           NEW c \in Clients, NEW payload \in Payloads, SaidBy(c, TRUE, payload),
           NamesEvent(payload), Discriminant(payload) = READY, HasReady(payload),
           NEW a \in Clients \ {c}
    PROVE  Told(a, EncodeReadyBroadcast(c, payload))' /\ EncodeReadyBroadcast(c, payload) # <<>>
<1>. DEFINE t == EncodeReadyBroadcast(c, payload)
<1>1. PICK n \in DOMAIN said :
        said[n].from = c /\ said[n].reliable = TRUE /\ said[n].payload = payload
  BY DEF SaidBy
<1>2. said[n] \in SaidEvents /\ Len(payload) \in Nat /\ c \in Nat
  BY <1>1, RelayAssumption DEF WireInv, Payloads, Clients
<1>3. TellsTwin(t, said[n]) /\ Len(t) = 13 /\ Len(payload) >= 5
  <2>. LET u == EncodeReadyBroadcast(said[n].from, said[n].payload)
       IN  TellsTwin(u, said[n]) /\ Len(u) = 13 /\ Len(said[n].payload) >= 5
    BY <1>1, <1>2, ReadyTells
  <2>. QED  BY <1>1
<1>4. t \in Payloads
  BY <1>2, ReadyBytes
<1>. HIDE DEF t
<1>5. \A x \in {t} : Told(a, x)'
  <2>. TAKE x \in {t}
  <2>1. /\ said'[n].from # a /\ n \in DOMAIN said' /\ TellsTwin(x, said'[n])
        /\ NamesEvent(said'[n].payload) /\ said'[n].reliable
        /\ Discriminant(said'[n].payload) = READY
    BY <1>1, <1>3
  <2>2. ToldBy(a, x, n)'
    BY <2>1 DEF ToldBy
  <2>3. x \in Payloads /\ Len(x) <= Len(said'[n].payload) + 8
    <3>1. said'[n].payload = payload
      BY <1>1
    <3>2. Len(x) = 13 /\ 13 <= Len(payload) + 8
      BY <1>2, <1>3
    <3>. QED  BY <1>4, <3>1, <3>2
  <2>. QED  BY <2>1, <2>2, <2>3 DEF Told
<1>6. t # <<>>
  BY <1>3
<1>. QED  BY <1>5, <1>6 DEF t

\* Chat and what names no event, passed on as it is.
LEMMA VerbatimTold ==
    ASSUME WireInv, SaidInv, UNCHANGED said, lobby \subseteq lobby',
           NEW c \in Clients, NEW reliable \in BOOLEAN, NEW payload \in Payloads,
           SaidBy(c, reliable, payload),
           NamesEvent(payload) => Discriminant(payload) = CHAT /\ (reliable => c \in lobby),
           NEW a \in Clients \ {c}
    PROVE  Told(a, payload)' /\ (payload = <<>> /\ reliable => EmptySaid(a)')
<1>1. PICK n \in DOMAIN said :
        said[n].from = c /\ said[n].reliable = reliable /\ said[n].payload = payload
  BY DEF SaidBy
<1>2. Len(payload) \in Nat
  BY DEF Payloads
<1>3. ToldBy(a, payload, n)'
  <2>. /\ said'[n].from # a /\ said'[n].payload = payload
       /\ NamesEvent(payload) => /\ Discriminant(payload) = CHAT
                                 /\ said'[n].from \in lobby' \/ ~said'[n].reliable
    BY <1>1
  <2>. QED  BY DEF ToldBy
<1>4. n \in DOMAIN said' /\ Len(payload) <= Len(said'[n].payload) + 8
  BY <1>1, <1>2
<1>5. payload = <<>> /\ reliable => EmptySaid(a)'
  <2>. n \in DOMAIN said' /\ said'[n].from # a /\ said'[n].reliable = reliable
       /\ said'[n].payload = payload
    BY <1>1
  <2>. QED  BY DEF EmptySaid
<1>. QED  BY <1>3, <1>4, <1>5 DEF Told

\* A car state.
LEMMA CarTold ==
    ASSUME WireInv, SaidInv, UNCHANGED said, lobby \subseteq lobby',
           NEW c \in Clients, NEW payload \in Payloads,
           SaidBy(c, FALSE, payload), NamesEvent(payload),
           Discriminant(payload) = CARSTATE, IsCarState(payload),
           c \in lobby, NEW a \in Clients \ {c}
    PROVE  Told(a, EncodeCarBroadcast(c, payload))'
<1>. DEFINE t == EncodeCarBroadcast(c, payload)
<1>1. PICK n \in DOMAIN said :
        said[n].from = c /\ said[n].reliable = FALSE /\ said[n].payload = payload
  BY DEF SaidBy
<1>2. said[n] \in SaidEvents /\ Len(payload) \in Nat /\ c \in Nat
  BY <1>1, RelayAssumption DEF WireInv, Payloads, Clients
<1>3. TellsTwin(t, said[n]) /\ Len(t) = Len(payload) + 8
  <2>. LET u == EncodeCarBroadcast(said[n].from, said[n].payload)
       IN  TellsTwin(u, said[n]) /\ Len(u) = Len(said[n].payload) + 8
    BY <1>1, <1>2, CarTells
  <2>. QED  BY <1>1
<1>4. t \in Payloads
  BY <1>2, CarBroadcastBytes
<1>. HIDE DEF t
<1>5. \A x \in {t} : Told(a, x)'
  <2>. TAKE x \in {t}
  <2>1. said'[n].from # a /\ said'[n].from \in lobby' /\ n \in DOMAIN said'
        /\ NamesEvent(said'[n].payload) /\ TellsTwin(x, said'[n])
    BY <1>1, <1>3
  <2>2. ToldBy(a, x, n)'
    BY <2>1 DEF ToldBy
  <2>3. x \in Payloads /\ Len(x) <= Len(said'[n].payload) + 8
    BY <1>1, <1>2, <1>3, <1>4
  <2>. QED  BY <2>1, <2>2, <2>3 DEF Told
<1>. QED  BY <1>5 DEF t

-----------------------------------------------------------------------------
(* The server receives something *)

\* What the server is told unreliably it passes on truly.
LEMMA HandleUnreliableStep ==
    ASSUME RelayInv, NumbersFit', NumbersFit, UNCHANGED <<said, sender, reader, heard>>,
           NEW c \in Clients, NEW payload \in Payloads, SaidBy(c, FALSE, payload),
           HandleUnreliable(c, payload), NEW a \in Clients
    PROVE  DownStream(a)'
<1>0. WireInv /\ SaidInv /\ DownStream(a)
  BY DEF RelayInv, StreamInv
<1>. DEFINE d == Discriminant(payload)
<1>1. /\ lobby' = lobby
      /\ \/ /\ NamesEvent(payload) /\ d = CARSTATE /\ c \in lobby /\ IsCarState(payload)
            /\ EncodeCarBroadcast(c, payload) \in Payloads
            /\ SendUnreliable(Peers(c), EncodeCarBroadcast(c, payload))
         \/ /\ NamesEvent(payload) /\ d \in DOMAIN Twins \ {CARSTATE} /\ c \in lobby
            /\ WithSender(Twins[d], c, payload) \in Payloads
            /\ BroadcastReliable(Peers(c), WithSender(Twins[d], c, payload))
         \/ (NamesEvent(payload) => d = CHAT) /\ SendUnreliable(Peers(c), payload)
         \/ Nothing
  BY UnreliableRelays
<1>. HIDE DEF d
<1>2. Grows /\ lobby \subseteq lobby'
  BY <1>1 DEF Grows
<1>3. PICK S : S = Peers(c)
  OBVIOUS
<1>4. a \in S => a \in Clients \ {c}
  BY <1>3 DEF Peers
<1>5. CASE /\ NamesEvent(payload) /\ d = CARSTATE /\ c \in lobby /\ IsCarState(payload)
           /\ EncodeCarBroadcast(c, payload) \in Payloads
           /\ SendUnreliable(Peers(c), EncodeCarBroadcast(c, payload))
  <2>1. PICK t \in Payloads : t = EncodeCarBroadcast(c, payload)
    BY <1>5
  <2>2. a \in S => Told(a, EncodeCarBroadcast(c, payload))'
    BY <1>0, <1>2, <1>4, <1>5, CarTold DEF d
  <2>3. SendUnreliable(S, t) /\ (a \in S => Told(a, t)')
    BY <1>3, <1>5, <2>1, <2>2
  <2>. QED  BY <1>0, <1>2, <2>3, Unreliables
<1>6. CASE /\ NamesEvent(payload) /\ d \in DOMAIN Twins \ {CARSTATE} /\ c \in lobby
           /\ WithSender(Twins[d], c, payload) \in Payloads
           /\ BroadcastReliable(Peers(c), WithSender(Twins[d], c, payload))
  <2>1. PICK t \in Payloads : t = WithSender(Twins[d], c, payload)
    BY <1>6
  <2>0. FALSE \in BOOLEAN /\ c \in lobby'
    BY <1>2, <1>6
  <2>2. a \in S => /\ Told(a, WithSender(Twins[Discriminant(payload)], c, payload))'
                   /\ WithSender(Twins[Discriminant(payload)], c, payload) # <<>>
    BY <1>0, <1>2, <1>4, <1>6, <2>0, TwinTold DEF d
  <2>3. BroadcastReliable(S, t) /\ (a \in S => Told(a, t)' /\ t # <<>>)
    BY <1>3, <1>6, <2>1, <2>2 DEF d
  <2>. QED  BY <1>0, <1>2, <2>3, Broadcasts
<1>7. CASE (NamesEvent(payload) => d = CHAT) /\ SendUnreliable(Peers(c), payload)
  <2>0. FALSE \in BOOLEAN
    OBVIOUS
  <2>2. a \in S => Told(a, payload)'
    BY <1>0, <1>2, <1>4, <1>7, <2>0, VerbatimTold DEF d
  <2>3. SendUnreliable(S, payload)
    BY <1>3, <1>7
  <2>. QED  BY <1>0, <1>2, <2>2, <2>3, Unreliables
<1>8. CASE Nothing
  BY <1>0, <1>2, <1>8, Nothings
<1>. QED  BY <1>1, <1>5, <1>6, <1>7, <1>8

\* ... and what comes reliably.
LEMMA HandleEventStep ==
    ASSUME RelayInv, NumbersFit', NumbersFit, UNCHANGED <<said, sender, reader, heard>>,
           NEW c \in Clients, NEW payload \in Payloads, SaidBy(c, TRUE, payload),
           HandleEvent(c, payload), NEW a \in Clients
    PROVE  DownStream(a)'
<1>0. WireInv /\ SaidInv /\ DownStream(a)
  BY DEF RelayInv, StreamInv
<1>. DEFINE d == Discriminant(payload)
<1>1. /\ lobby' = lobby \/ (d = GARAGESTATE /\ lobby' = lobby \cup {c})
      /\ \/ /\ NamesEvent(payload) /\ d \in DOMAIN Twins \ {READY} /\ c \in lobby'
            /\ WithSender(Twins[d], c, payload) \in Payloads
            /\ BroadcastReliable(Peers(c), WithSender(Twins[d], c, payload))
         \/ /\ NamesEvent(payload) /\ d = READY /\ HasReady(payload)
            /\ EncodeReadyBroadcast(c, payload) \in Payloads
            /\ BroadcastReliable(Peers(c), EncodeReadyBroadcast(c, payload))
         \/ /\ NamesEvent(payload) => d = CHAT /\ c \in lobby
            /\ BroadcastReliable(Peers(c), payload)
         \/ Nothing
  BY EventRelays
<1>. HIDE DEF d
<1>2. Grows /\ lobby \subseteq lobby'
  BY <1>1 DEF Grows
<1>3. PICK S : S = Peers(c)
  OBVIOUS
<1>4. a \in S => a \in Clients \ {c}
  BY <1>3 DEF Peers
<1>5. TRUE \in BOOLEAN
  OBVIOUS
<1>6. CASE /\ NamesEvent(payload) /\ d \in DOMAIN Twins \ {READY} /\ c \in lobby'
           /\ WithSender(Twins[d], c, payload) \in Payloads
           /\ BroadcastReliable(Peers(c), WithSender(Twins[d], c, payload))
  <2>1. PICK t \in Payloads : t = WithSender(Twins[d], c, payload)
    BY <1>6
  <2>2. a \in S => /\ Told(a, WithSender(Twins[Discriminant(payload)], c, payload))'
                   /\ WithSender(Twins[Discriminant(payload)], c, payload) # <<>>
    BY <1>0, <1>2, <1>4, <1>5, <1>6, TwinTold DEF d
  <2>3. BroadcastReliable(S, t) /\ (a \in S => Told(a, t)' /\ t # <<>>)
    BY <1>3, <1>6, <2>1, <2>2 DEF d
  <2>. QED  BY <1>0, <1>2, <2>3, Broadcasts
<1>9. CASE /\ NamesEvent(payload) /\ d = READY /\ HasReady(payload)
           /\ EncodeReadyBroadcast(c, payload) \in Payloads
           /\ BroadcastReliable(Peers(c), EncodeReadyBroadcast(c, payload))
  <2>1. PICK t \in Payloads : t = EncodeReadyBroadcast(c, payload)
    BY <1>9
  <2>2. a \in S => /\ Told(a, EncodeReadyBroadcast(c, payload))'
                   /\ EncodeReadyBroadcast(c, payload) # <<>>
    BY <1>0, <1>4, <1>9, ReadyTold DEF d
  <2>3. BroadcastReliable(S, t) /\ (a \in S => Told(a, t)' /\ t # <<>>)
    BY <1>3, <1>9, <2>1, <2>2
  <2>. QED  BY <1>0, <1>2, <2>3, Broadcasts
<1>7. CASE /\ NamesEvent(payload) => d = CHAT /\ c \in lobby
           /\ BroadcastReliable(Peers(c), payload)
  <2>2. a \in S => Told(a, payload)' /\ (payload = <<>> => EmptySaid(a)')
    BY <1>0, <1>2, <1>4, <1>5, <1>7, VerbatimTold DEF d
  <2>3. BroadcastReliable(S, payload)
    BY <1>3, <1>7
  <2>. QED  BY <1>0, <1>2, <2>2, <2>3, Broadcasts
<1>8. CASE Nothing
  BY <1>0, <1>2, <1>8, Nothings
<1>. QED  BY <1>1, <1>6, <1>7, <1>8, <1>9

\* A datagram at the server: it completes an event, or passes one on, or
\* neither.
LEMMA HandleStep ==
    ASSUME RelayInv, NEW c \in Clients, NEW b \in toServer[c], Handle(c, b)
    PROVE  RelayInv'
<1>. DEFINE f == Parse(b)
<1>0. WireInv /\ SaidInv /\ WireInv' /\ b \in Datagrams
  BY HandleTypes DEF RelayInv, WireInv
<1>1. /\ f.kind = UNRELIABLE => f.payload \in Payloads
      /\ f.kind = RELIABLE => f \in ReliableFrames
  BY <1>0, DatagramFrame
<1>2. UNCHANGED <<said, sender, reader, heard>>
  BY DEF Handle, gameVars
<1>3. /\ server \in [Clients -> Readers] /\ toServer \in [Clients -> SUBSET Datagrams]
      /\ sender[c].seq \in Nat /\ sender[c].chunk \in Nat /\ lobby \subseteq Clients
  BY <1>0 DEF WireInv
<1>4. CASE f.kind = UNRELIABLE /\ HandleUnreliable(c, f.payload)
           /\ toServer' = [toServer EXCEPT ![c] = @ \ {b}] /\ UNCHANGED server
  <2>1. PICK payload \in Payloads : payload = f.payload
    BY <1>1, <1>4
  <2>2. HandleUnreliable(c, payload)
    BY <1>4, <2>1
  <2>3. \E S \in SUBSET Clients, p \in Payloads :
            BroadcastReliable(S, p) \/ SendUnreliable(S, p) \/ Nothing
    <3>. Peers(c) \in SUBSET Clients
      BY <1>3 DEF Peers
    <3>. QED  BY <2>2, UnreliableRelays
  <2>4. SaidInv' /\ (NumbersFit' => NumbersFit)
    BY <1>0, <1>2, <2>3, RelayedNumbers
  <2>5. Grows
    BY <1>2, <2>2, UnreliableRelays DEF Grows
  <2>6. ASSUME NumbersFit' PROVE StreamInv'
    <3>1. \A a \in Clients : UpStream(a) /\ DownStream(a)
      BY <2>4, <2>6 DEF RelayInv, StreamInv
    <3>2. SaidBy(c, FALSE, payload)
      BY <1>4, <2>1, <3>1 DEF UpStream
    <3>3. \A a \in Clients : DownStream(a)'
      BY <1>2, <2>2, <2>4, <2>6, <3>2, HandleUnreliableStep
    <3>4. \A a \in Clients \ {c} : UpStream(a)'
      <4>. TAKE a \in Clients \ {c}
      <4>. toServer'[a] = toServer[a] /\ sender'[a] = sender[a] /\ server'[a] = server[a]
        BY <1>2, <1>3, <1>4
      <4>. QED  BY <2>5, <3>1, UpStays
    <3>5. toServer'[c] = toServer[c] \ {b} /\ sender'[c] = sender[c] /\ server'[c] = server[c]
      BY <1>2, <1>3, <1>4
    <3>6. PICK E : /\ Log(E, toServer[c], sender[c].seq, sender[c].chunk)
                   /\ ReadSoFar(E, server[c], sender[c].seq)
                   /\ \A e \in E : SaidBy(c, TRUE, e.payload)
      BY <3>1 DEF UpStream
    <3>7. Log(E, toServer'[c], sender'[c].seq, sender'[c].chunk)
      <4>. Log(E, toServer[c] \ {b}, sender[c].seq, sender[c].chunk)
        BY <1>4, <3>6, LogIgnores
      <4>. QED  BY <3>5
    <3>8. \A e \in E : SaidBy(c, TRUE, e.payload)'
      BY <2>5, <3>6, SaidStays
    <3>9. \A g \in toServer'[c] : Parse(g).kind = UNRELIABLE => SaidBy(c, FALSE, Parse(g).payload)'
      <4>. \A g \in toServer[c] : Parse(g).kind = UNRELIABLE => SaidBy(c, FALSE, Parse(g).payload)
        BY <3>1 DEF UpStream
      <4>. QED  BY <2>5, <3>5, SaidStays
    <3>10. UpStream(c)'
      BY <3>5, <3>6, <3>7, <3>8, <3>9 DEF UpStream
    <3>. QED  BY <3>3, <3>4, <3>10 DEF StreamInv
  <2>. QED  BY <1>0, <2>4, <2>6 DEF RelayInv
<1>5. CASE /\ f.kind = RELIABLE
           /\ server' = [server EXCEPT ![c] = AfterPacket(@, f)]
           /\ \/ Completed(server[c], f) = None /\ UNCHANGED lobby /\ Nothing
              \/ Completed(server[c], f) # None /\ HandleEvent(c, Completed(server[c], f)[1])
           /\ UNCHANGED toServer
  <2>1. Completed(server[c], f) \in Options(Payloads)
    BY <1>1, <1>3, <1>5, ReaderStep
  <2>2. Grows /\ \E S \in SUBSET Clients, p \in Payloads :
                        BroadcastReliable(S, p) \/ SendUnreliable(S, p) \/ Nothing
    <3>1. CASE Completed(server[c], f) = None
      <4>. None \in Payloads
        BY DEF None, Payloads
      <4>. QED  BY <1>2, <1>5, <3>1 DEF Grows
    <3>2. CASE Completed(server[c], f) # None
      <4>1. PICK p \in Payloads : p = Completed(server[c], f)[1]
        BY <2>1, <3>2, OptionCases
      <4>2. HandleEvent(c, p)
        BY <1>5, <3>2, <4>1
      <4>3. Peers(c) \in SUBSET Clients
        BY <1>3 DEF Peers
      <4>. QED  BY <1>2, <4>2, <4>3, EventRelays DEF Grows
    <3>. QED  BY <3>1, <3>2
  <2>3. SaidInv' /\ (NumbersFit' => NumbersFit)
    BY <1>0, <1>2, <2>2, RelayedNumbers
  <2>4. ASSUME NumbersFit' PROVE StreamInv'
    <3>1. \A a \in Clients : UpStream(a) /\ DownStream(a)
      BY <2>3, <2>4 DEF RelayInv, StreamInv
    <3>2. PICK E : /\ Log(E, toServer[c], sender[c].seq, sender[c].chunk)
                   /\ ReadSoFar(E, server[c], sender[c].seq)
                   /\ \A e \in E : SaidBy(c, TRUE, e.payload)
      BY <3>1 DEF UpStream
    <3>3. /\ ReadSoFar(E, AfterPacket(server[c], f), sender[c].seq)
          /\ \/ Completed(server[c], f) = None
             \/ \E e \in E : Completed(server[c], f) = Some(e.payload)
      <4>. DEFINE D == toServer[c]
                  s == sender[c].seq
                  k == sender[c].chunk
                  r == server[c]
      <4>1. /\ s \in Nat /\ k \in Nat /\ Log(E, D, s, k) /\ ReadSoFar(E, r, s)
            /\ b \in D /\ Parse(b).kind = RELIABLE
        BY <1>3, <1>5, <3>2
      <4>. HIDE DEF D, s, k, r
      <4>2. /\ ReadSoFar(E, AfterPacket(r, Parse(b)), s)
            /\ \/ Completed(r, Parse(b)) = None
               \/ \E e \in E : Completed(r, Parse(b)) = Some(e.payload)
        BY <4>1, LogRead
      <4>. QED  BY <4>2 DEF r, s
    <3>4. ASSUME NEW a \in Clients PROVE DownStream(a)'
      <4>1. CASE Completed(server[c], f) = None
        BY <1>2, <1>5, <2>2, <3>1, <4>1, Nothings
      <4>2. CASE Completed(server[c], f) # None
        <5>1. PICK e \in E : Completed(server[c], f) = Some(e.payload)
          BY <3>3, <4>2
        <5>2. Completed(server[c], f)[1] = e.payload
          BY <5>1 DEF Some
        <5>3. e.payload \in Payloads
          BY <2>1, <4>2, <5>2, OptionCases
        <5>4. HandleEvent(c, e.payload)
          BY <1>5, <4>2, <5>2
        <5>5. SaidBy(c, TRUE, e.payload)
          BY <3>2
        <5>. QED  BY <1>2, <2>3, <2>4, <5>3, <5>4, <5>5, HandleEventStep
      <4>. QED  BY <4>1, <4>2
    <3>5. \A a \in Clients \ {c} : UpStream(a)'
      <4>. TAKE a \in Clients \ {c}
      <4>. toServer'[a] = toServer[a] /\ sender'[a] = sender[a] /\ server'[a] = server[a]
        BY <1>2, <1>3, <1>5
      <4>. QED  BY <2>2, <3>1, UpStays
    <3>6. toServer'[c] = toServer[c] /\ sender'[c] = sender[c]
          /\ server'[c] = AfterPacket(server[c], f)
      BY <1>2, <1>3, <1>5
    <3>7. \A e \in E : SaidBy(c, TRUE, e.payload)'
      BY <2>2, <3>2, SaidStays
    <3>8. \A g \in toServer'[c] : Parse(g).kind = UNRELIABLE => SaidBy(c, FALSE, Parse(g).payload)'
      <4>. \A g \in toServer[c] : Parse(g).kind = UNRELIABLE => SaidBy(c, FALSE, Parse(g).payload)
        BY <3>1 DEF UpStream
      <4>. QED  BY <2>2, <3>6, SaidStays
    <3>9. UpStream(c)'
      BY <3>2, <3>3, <3>6, <3>7, <3>8 DEF UpStream
    <3>. QED  BY <3>4, <3>5, <3>9 DEF StreamInv
  <2>. QED  BY <1>0, <2>3, <2>4 DEF RelayInv
<1>. QED  BY <1>4, <1>5 DEF Handle

\* The invariant is kept.
LEMMA RelayStep ==
    ASSUME RelayInv, [Next]_vars
    PROVE  RelayInv'
<1>1. CASE Next
  <2>1. PICK c \in Clients :
            \/ \E payload \in Payloads, reliable \in BOOLEAN :
                    /\ Say(c, payload, reliable)
                    /\ NamesEvent(payload) /\ reliable => Discriminant(payload) \in Reliably
            \/ \E b \in toClient[c] : Hear(c, b)
            \/ \E b \in toServer[c] : Handle(c, b)
    BY <1>1, Steps DEF RelayInv
  <2>2. CASE \E payload \in Payloads, reliable \in BOOLEAN :
                    /\ Say(c, payload, reliable)
                    /\ NamesEvent(payload) /\ reliable => Discriminant(payload) \in Reliably
    BY <2>2, SayStep
  <2>. QED  BY <2>1, <2>2, HearStep, HandleStep
<1>2. CASE UNCHANGED vars
  <2>1. WireInv' /\ SaidInv' /\ (NumbersFit' => NumbersFit)
    BY <1>2 DEF RelayInv, WireInv, SaidInv, NumbersFit, vars, gameVars
  <2>2. ASSUME NumbersFit PROVE StreamInv'
    <3>1. \A a \in Clients : UpStream(a) /\ DownStream(a)
      BY <2>2 DEF RelayInv, StreamInv
    <3>2. Grows
      BY <1>2 DEF Grows, vars, gameVars
    <3>3. UNCHANGED <<toServer, sender, server, toClient, next, reader, heard>>
      BY <1>2 DEF vars, gameVars
    <3>. QED  BY <3>1, <3>2, <3>3, UpStays, DownStays DEF StreamInv
  <2>. QED  BY <2>1, <2>2 DEF RelayInv
<1>. QED  BY <1>1, <1>2

\* The invariant of the streams: what is on its way, either way of every
\* connection, are the packets of events that were said or tell of what was
\* said, and what is kept of them are the pieces that are in.
THEOREM StreamsAreAsSent == Spec => []RelayInv
<1>. QED  BY StreamInit, RelayStep, PTL DEF Spec

-----------------------------------------------------------------------------
(* What it is for *)

\* The bound is no empty one: in the beginning the numbers fit.
LEMMA FirstNumbersFit == Init => NumbersFit
BY SmallSizes DEF Init, NumbersFit

\* The types, and that what is half read has some of its bytes and not all.
LEMMA ReadersAreHalfway == RelayInv => (NumbersFit => TypeOK)
<1>. SUFFICES ASSUME RelayInv, NumbersFit PROVE TypeOK
  OBVIOUS
<1>0. WireInv /\ StreamInv
  BY DEF RelayInv
<1>1. ASSUME NEW c \in Clients
      PROVE  /\ toServer[c] \cup toClient[c] \cup heard[c] \subseteq Payloads
             /\ HalfRead(server[c]) /\ HalfRead(reader[c])
             /\ server[c].processed \subseteq 1 .. sender[c].seq - 1
             /\ reader[c].processed \subseteq 1 .. next[c].seq - 1
  <2>1. UpStream(c) /\ DownStream(c)
    BY <1>0 DEF StreamInv
  <2>2. /\ toServer[c] \subseteq Datagrams /\ toClient[c] \subseteq Datagrams /\ heard[c] \subseteq Payloads
        /\ sender[c].seq \in Nat /\ next[c].seq \in Nat
    BY <1>0 DEF WireInv
  <2>3. \A b \in Datagrams : b \in Payloads
    BY DatagramsAreUnambiguous DEF Payloads
  <2>4. PICK E : /\ Log(E, toServer[c], sender[c].seq, sender[c].chunk)
                 /\ ReadSoFar(E, server[c], sender[c].seq)
    BY <2>1 DEF UpStream
  <2>5. PICK F : /\ Log(F, toClient[c], next[c].seq, next[c].chunk)
                 /\ ReadSoFar(F, reader[c], next[c].seq)
    BY <2>1 DEF DownStream
  <2>6. E \subseteq Events /\ F \subseteq Events
    BY <2>4, <2>5 DEF Log
  <2>7. HalfRead(server[c]) /\ HalfRead(reader[c])
    BY <2>4, <2>5, <2>6, HalfReadParts
  <2>8. /\ server[c].processed \subseteq Nat /\ reader[c].processed \subseteq Nat
        /\ \A n \in server[c].processed : 1 <= n /\ n < sender[c].seq
        /\ \A n \in reader[c].processed : 1 <= n /\ n < next[c].seq
    BY <2>4, <2>5, ReaderParts DEF ReadSoFar
  <2>. QED  BY <2>2, <2>3, <2>7, <2>8
<1>. QED  BY <1>0, <1>1 DEF TypeOK, WireInv, SaidEvents

\* As long as the numbers fit, the state of the relay is what it is declared
\* to be: in particular no reader is left with an event that has all of its
\* bytes or none, and none has seen a number that was not sent.
THEOREM TypesHold == Spec => [](NumbersFit => TypeOK)
<1>. QED  BY StreamsAreAsSent, ReadersAreHalfway, PTL

\* A datagram of the ordered stream has the index of its event.
LEMMA StreamIsDense == RelayInv => (NumbersFit => OrderedStreamIsDense)
<1>. SUFFICES ASSUME RelayInv, NumbersFit, NEW c \in Clients
              PROVE  LET fs == {f \in {Parse(b) : b \in toClient[c]} : f.kind = RELIABLE}
                         all == {Some(i) : i \in 0 .. next[c].ordered - 1}
                     IN  /\ {f.ordered : f \in fs} \subseteq all
                         /\ {f.ordered : f \in fs} = all \/ EmptySaid(c)
                         /\ \A f, g \in fs : f.seq < g.seq =>
                              \/ f.ordered[1] < g.ordered[1]
                              \/ /\ f.ordered = g.ordered /\ f.chunk # None /\ g.chunk # None
                                 /\ f.chunk[1].id = g.chunk[1].id
  BY DEF OrderedStreamIsDense, EmptySaid
<1>. DEFINE fs == {f \in {Parse(b) : b \in toClient[c]} : f.kind = RELIABLE}
            o == next[c].ordered
<1>1. PICK E : /\ Log(E, toClient[c], next[c].seq, next[c].chunk) /\ Dense(E, o, EmptySaid(c))
  BY DEF RelayInv, StreamInv, DownStream
<1>2. E \subseteq Events /\ \A e \in E : FitsEvent(e)
  BY <1>1 DEF Log
<1>3. ASSUME NEW f \in fs
      PROVE  \E e \in E : \E i \in AllPieces(e.payload) : f = Parse(Encode(Packet(e, i)))
  BY <1>1 DEF Log
<1>4. ASSUME NEW e \in E, NEW i \in AllPieces(e.payload)
      PROVE  Parse(Encode(Packet(e, i))) \in fs
  <2>1. Encode(Packet(e, i)) \in toClient[c]
    BY <1>1 DEF Log
  <2>2. Parse(Encode(Packet(e, i))) \in ReliableFrames
    BY <1>2, PacketRead
  <2>3. Parse(Encode(Packet(e, i))).kind = RELIABLE
    BY <2>2 DEF ReliableFrames
  <2>. QED  BY <2>1, <2>3
<1>. HIDE DEF fs, o
<1>5. ASSUME NEW e \in E, NEW i \in AllPieces(e.payload)
      PROVE  LET f == Parse(Encode(Packet(e, i)))
             IN  /\ f.seq = e.seq + i - 1 /\ f.ordered = e.ordered
                 /\ Large(e) => f.chunk # None /\ f.chunk[1].id = e.chunk
  BY <1>2, PacketRead
<1>6. /\ {f.ordered : f \in fs} \subseteq {Some(i) : i \in 0 .. o - 1}
      /\ {f.ordered : f \in fs} = {Some(i) : i \in 0 .. o - 1} \/ EmptySaid(c)
  <2>1. ASSUME NEW f \in fs PROVE f.ordered \in {Some(i) : i \in 0 .. o - 1}
    <3>1. PICK e \in E : \E i \in AllPieces(e.payload) : f = Parse(Encode(Packet(e, i)))
      BY <1>3
    <3>2. f.ordered = e.ordered
      BY <1>5, <3>1
    <3>3. e.ordered # None /\ e.ordered[1] \in 0 .. o - 1
      BY <1>1 DEF Dense
    <3>4. e.ordered = Some(e.ordered[1])
      <4>. e.ordered \in Options(Nat)
        BY <1>2, EventParts
      <4>. QED  BY <3>3, OptionCases
    <3>. QED  BY <3>2, <3>3, <3>4
  <2>2. ASSUME ~EmptySaid(c), NEW i \in 0 .. o - 1 PROVE \E f \in fs : f.ordered = Some(i)
    <3>1. PICK e \in E : e.ordered = Some(i)
      BY <1>1, <2>2 DEF Dense
    <3>2. 1 \in AllPieces(e.payload)
      <4>. PacketCount(e.payload) \in Nat /\ PacketCount(e.payload) > 0
        BY <1>2, EventParts
      <4>. QED  BY DEF AllPieces
    <3>. QED  BY <1>4, <1>5, <3>1, <3>2
  <2>. QED  BY <2>1, <2>2
<1>7. ASSUME NEW f \in fs, NEW g \in fs, f.seq < g.seq
      PROVE  \/ f.ordered[1] < g.ordered[1]
             \/ /\ f.ordered = g.ordered /\ f.chunk # None /\ g.chunk # None
                /\ f.chunk[1].id = g.chunk[1].id
  <2>1. PICK e \in E, i \in Nat : i \in AllPieces(e.payload) /\ f = Parse(Encode(Packet(e, i)))
    BY <1>3 DEF AllPieces
  <2>2. PICK h \in E, j \in Nat : j \in AllPieces(h.payload) /\ g = Parse(Encode(Packet(h, j)))
    BY <1>3 DEF AllPieces
  <2>3. /\ f.seq = e.seq + i - 1 /\ f.ordered = e.ordered
        /\ Large(e) => f.chunk # None /\ f.chunk[1].id = e.chunk
        /\ g.seq = h.seq + j - 1 /\ g.ordered = h.ordered
        /\ Large(h) => g.chunk # None /\ g.chunk[1].id = h.chunk
    BY <1>5, <2>1, <2>2
  <2>4. /\ e.seq \in Nat /\ Upper(e) = e.seq + PacketCount(e.payload) /\ PacketCount(e.payload) \in Nat
        /\ h.seq \in Nat /\ Upper(h) = h.seq + PacketCount(h.payload) /\ PacketCount(h.payload) \in Nat
        /\ e.payload \in Payloads /\ Len(e.payload) \in Nat
    BY <1>2, EventParts DEF Upper
  <2>5. i \in 1 .. PacketCount(e.payload) /\ j \in 1 .. PacketCount(h.payload)
    BY <2>1, <2>2 DEF AllPieces
  <2>6. CASE e = h
    <3>1. Large(e)
      <4>. SUFFICES ASSUME ~Large(e) PROVE FALSE
        OBVIOUS
      <4>1. Len(e.payload) <= ChunkSize
        BY <2>4, WireAssumption DEF Large
      <4>2. PacketCount(e.payload) = 1
        BY <2>4, <4>1, PacketPieces
      <4>3. i = 1 /\ j = 1
        BY <2>5, <2>6, <4>2
      <4>. QED  BY <1>7, <2>3, <2>4, <2>6, <4>3
    <3>. QED  BY <2>3, <2>6, <3>1
  <2>7. CASE e # h
    <3>1. Upper(e) <= h.seq \/ Upper(h) <= e.seq
      BY <1>1, <2>7 DEF Log
    <3>2. e.seq < h.seq
      <4>. DEFINE m == PacketCount(e.payload)
                  n == PacketCount(h.payload)
      <4>1. m \in Nat /\ n \in Nat /\ i \in 1 .. m /\ j \in 1 .. n
            /\ (e.seq + m <= h.seq \/ h.seq + n <= e.seq)
        BY <2>4, <2>5, <3>1
      <4>. HIDE DEF m, n
      <4>2. e.seq \in Nat /\ h.seq \in Nat /\ e.seq + i - 1 < h.seq + j - 1
        BY <1>7, <2>3, <2>4
      <4>. QED  BY <4>1, <4>2
    <3>. QED  BY <1>1, <2>3, <3>2 DEF Dense
  <2>. QED  BY <2>6, <2>7
<1>. QED  BY <1>6, <1>7 DEF fs, o

\* As long as the numbers fit, the ordered stream to each client has every
\* index from 0 on, and two packets share one only as pieces of one event: the
\* game waits for no index in vain. The one exception is the code's own: it gives
\* an index to an empty payload and sends no packet of it, so that once another
\* player has said one, an index may be missing.
THEOREM StreamsAreDense == Spec => [](NumbersFit => OrderedStreamIsDense)
<1>. QED  BY StreamsAreAsSent, StreamIsDense, PTL

LEMMA SaidIsHeard == CARSTATE \notin Reliably => (RelayInv => (NumbersFit => HeardAsSaid))
<1>. SUFFICES ASSUME CARSTATE \notin Reliably, RelayInv, NumbersFit,
                     NEW c \in Clients, NEW payload \in heard[c]
              PROVE  \E n \in DOMAIN said : ToldBy(c, payload, n)
  BY DEF HeardAsSaid, ToldBy
<1>1. Told(c, payload)
  BY DEF RelayInv, StreamInv, DownStream
<1>. QED  BY <1>1 DEF Told

\* As long as the numbers fit, whatever a game is handed was said by another
\* player, however the pieces arrive: chat and what names no event byte for byte,
\* a reliable Ready as whether its byte is 0, any other event with the body it
\* had, under its twin and that player's name. Games send car states unreliably
\* (main.rs:25): a reliable one would be re-tagged as any event and read as none.
THEOREM HeardIsSaid == CARSTATE \notin Reliably => (Spec => [](NumbersFit => HeardAsSaid))
<1>. SUFFICES ASSUME CARSTATE \notin Reliably PROVE Spec => [](NumbersFit => HeardAsSaid)
  OBVIOUS
<1>1. RelayInv => (NumbersFit => HeardAsSaid)
  BY SaidIsHeard
<1>. QED  BY <1>1, StreamsAreAsSent, PTL

=============================================================================
