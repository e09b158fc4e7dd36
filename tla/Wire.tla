-------------------------------- MODULE Wire --------------------------------
(***************************************************************************)
(* The bytes on the wire (crates/codec/src/lib.rs): datagrams, called      *)
(* frames, and the events in them.  A byte is a digit of the number system *)
(* with base Base, a word is little-endian, an option is a sequence of at  *)
(* most one element, and positions count from 0 as in the Cursor.  parse   *)
(* is modelled by where its cursor is at each field.                       *)
(***************************************************************************)
EXTENDS Integers, Sequences, SequencesExt, FiniteSets

CONSTANTS
    Base,           \* values of a byte: 256
    ChunkSize       \* CHUNK_SIZE: payload bytes of a datagram

ASSUME WireAssumption ==
    /\ Base \in Nat /\ Base > 4
    /\ ChunkSize \in 1 .. Base * Base - 1

Byte == 0 .. Base - 1
U16 == 2
U32 == 4
U64 == 8

-----------------------------------------------------------------------------
(* Words and options *)

\* to_le_bytes, and from_le_bytes of the w bytes at a position.
LeFault(n, w) ==
    LET rest[k \in 0 .. w] == IF k = 0 THEN n ELSE rest[k - 1] \div Base
    IN  [k \in 1 .. w |-> rest[k - 1]]
Le(n, w) ==
    LET rest[k \in 0 .. w] == IF k = 0 THEN n ELSE rest[k - 1] \div Base
    IN  [k \in 1 .. w |-> rest[k - 1] % Base]
Word(buf, at, w) ==
    LET from[k \in 0 .. w] == IF k = w THEN 0 ELSE buf[at + k + 1] + Base * from[k + 1]
    IN  from[0]

None == <<>>
Some(v) == <<v>>
OptionOfFault(bytes) == IF bytes = <<>> THEN <<>> ELSE <<1>> \o bytes[1]
OptionOf(bytes) == IF bytes = <<>> THEN <<0>> ELSE <<1>> \o bytes[1]

-----------------------------------------------------------------------------
(* Frames *)

RELIABLE == 0
UNRELIABLE == 1
ACK == 2
GREETING == 3

Unreliable(payload) == [kind |-> UNRELIABLE, payload |-> payload]
Number(kind, n) == [kind |-> kind, n |-> n]
Reliable(payload, seq, resend, sentAt, ordered, chunk) ==
    [kind |-> RELIABLE, payload |-> payload, seq |-> seq, resend |-> resend,
     sentAt |-> sentAt, ordered |-> ordered, chunk |-> chunk]
Rejected == [kind |-> -1]

ChunkBytes(ch) == Le(ch.id, U32) \o Le(ch.offset, U32) \o Le(ch.total, U32) \o Le(ch.count, U16)
OrderedBytes(i) == Le(i, U32)

Encode(f) ==
    <<f.kind>> \o
    IF f.kind = UNRELIABLE THEN f.payload
    ELSE IF f.kind # RELIABLE THEN Le(f.n, U32)
    ELSE Le(Len(f.payload), U64) \o f.payload \o Le(f.seq, U32) \o Le(f.resend, 1)
            \o Le(f.sentAt, U64)
            \o OptionOf(IF f.ordered = None THEN None ELSE Some(OrderedBytes(f.ordered[1])))
            \o OptionOf(IF f.chunk = None THEN None ELSE Some(ChunkBytes(f.chunk[1])))

\* Cursor.take: the n bytes at a position are there.
Fits(buf, at, n) == at + n <= Len(buf)
IsTag(buf, at) == Fits(buf, at, 1) /\ buf[at + 1] \in {0, 1}
Tagged(buf, at) == buf[at + 1] = 1

\* A reliable frame: the payload after its length, seq, resend and sent_at,
\* then the two options.  What follows them is ignored.
ParseReliable(buf) ==
    LET n == Word(buf, 1, U64)
        seq == 1 + U64 + n
        ordered == seq + U32 + 1 + U64
        chunk == ordered + 1 + IF Tagged(buf, ordered) THEN U32 ELSE 0
        id == chunk + 1
    IN  IF /\ Fits(buf, 1, U64) /\ n <= Len(buf) - (1 + U64)
           /\ Fits(buf, seq, U32 + 1 + U64)
           /\ IsTag(buf, ordered)
           /\ Tagged(buf, ordered) => Fits(buf, ordered + 1, U32)
           /\ IsTag(buf, chunk)
           /\ Tagged(buf, chunk) => Fits(buf, id, 3 * U32 + U16)
        THEN Reliable(SubSeq(buf, 2 + U64, seq), Word(buf, seq, U32), buf[seq + U32 + 1],
                Word(buf, seq + U32 + 1, U64),
                IF Tagged(buf, ordered) THEN Some(Word(buf, ordered + 1, U32)) ELSE None,
                IF Tagged(buf, chunk)
                THEN Some([id |-> Word(buf, id, U32), offset |-> Word(buf, id + U32, U32),
                           total |-> Word(buf, id + 2 * U32, U32),
                           count |-> Word(buf, id + 3 * U32, U16)])
                ELSE None)
        ELSE Rejected

Parse(buf) ==
    IF buf = <<>> \/ buf[1] > GREETING THEN Rejected
    ELSE IF buf[1] = UNRELIABLE THEN Unreliable(Tail(buf))
    ELSE IF buf[1] = RELIABLE THEN ParseReliable(buf)
    ELSE IF Fits(buf, 1, U32) THEN Number(buf[1], Word(buf, 1, U32))
    ELSE Rejected

-----------------------------------------------------------------------------
(* Events: a discriminant and a body *)

Discriminant(payload) == Word(payload, 0, U32)
Body(payload) == SubSeq(payload, U32 + 1, Len(payload))

\* PlayerId: the client id and the player index, which is 1.
PlayerId(c) == Le(c, U32) \o Le(1, U32)

\* broadcast_twin: the event that tells the others of a player's event.
Twins == [d \in {6, 8, 11, 16, 19, 25, 27, 29, 31, 39, 41} \cup 43 .. 45 |->
            IF d < 43 THEN d + 1 ELSE d + 3]
BroadcastVerbatim(d) == d = 0

\* event_kind and event_discriminant find no event in fewer bytes.
NamesEvent(payload) == Len(payload) >= U32

\* encode_with_sender_disc, and encode_garage_commit for its twin.
WithSender(twin, c, payload) == Le(twin, U32) \o PlayerId(c) \o Body(payload)

\* decode_ready reads one byte of the body; encode_ready_broadcast writes it
\* again as 0 or 1.
READY == 6
HasReady(payload) == Body(payload) # <<>>
EncodeReadyBroadcast(c, payload) ==
    Le(Twins[READY], U32) \o PlayerId(c) \o <<IF Body(payload)[1] = 0 THEN 0 ELSE 1>>

CARSTATE == 11
\* CarState: a state, then the entity and its generation; broadcast, the owner,
\* entity and generation come before the state.
IsCarState(payload) == Len(Body(payload)) >= 2 * U32
EncodeCarBroadcast(c, payload) ==
    LET b == Body(payload)
        n == Len(b) - 2 * U32
    IN  Le(Twins[CARSTATE], U32) \o PlayerId(c) \o SubSeq(b, n + 1, Len(b)) \o SubSeq(b, 1, n)

-----------------------------------------------------------------------------
(* Events larger than a datagram *)

\* slice::chunks: the pieces of a payload.
Pieces(payload) ==
    [i \in 1 .. (Len(payload) + ChunkSize - 1) \div ChunkSize |->
        SubSeq(payload, (i - 1) * ChunkSize + 1,
               IF i * ChunkSize > Len(payload) THEN Len(payload) ELSE i * ChunkSize)]

\* Reassembly: the bytes that are in, the others still 0, and how many.
NewReassembly(total) == [buf |-> [k \in 1 .. total |-> 0], have |-> 0]
PieceFits(r, chunk, piece) == chunk.offset + Len(piece) <= Len(r.buf)
WithPieceFault(r, chunk, piece) ==
    [buf |-> [k \in DOMAIN r.buf |->
                IF k > r.have /\ k <= r.have + Len(piece) THEN piece[k - r.have]
                ELSE r.buf[k]],
     have |-> r.have + Len(piece)]
WithPiece(r, chunk, piece) ==
    [buf |-> [k \in DOMAIN r.buf |->
                IF k - chunk.offset \in DOMAIN piece THEN piece[k - chunk.offset]
                ELSE r.buf[k]],
     have |-> r.have + Len(piece)]
IsWhole(r) == r.have >= Len(r.buf)
=============================================================================
