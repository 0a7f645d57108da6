---------------------------- MODULE PacketReader ----------------------------
(***************************************************************************)
(* How packets are cut out of a connection again: the packet codecs        *)
(* (Decode of codec/packet) over the limit reader and the buffer reader of *)
(* pkg/io/reader, which the transport handler makes anew for every packet  *)
(* and releases after it; and the handler's test of the size.              *)
(*                                                                         *)
(* The stream is what PacketWriter puts on the wire.  The two sides share  *)
(* nothing else, and a reader that is behind only waits: so a packet is    *)
(* read when its Encode has returned and before the next one begins, and   *)
(* the reader is not followed on a wire that holds a broken packet.  A     *)
(* payload codec may call the limit reader in any way, and return when it  *)
(* likes.                                                                  *)
(***************************************************************************)
EXTENDS PacketWriter

CONSTANTS ReadBuf,      \* size of a new buffer of a reader
          Strip,        \* is the delimiter stripped?
          MaxLength,    \* the delimiter codec's limit of a packet
          MaxReceive    \* maxReceiveMessageSize, 0: no limit

ASSUME ReaderAssumption ==
    /\ Strip \in BOOLEAN
    /\ {MaxLength, MaxReceive} \subseteq Nat /\ ReadBuf \in Nat \ {0}

VARIABLES
    r,             \* the reader: buff, readIndex, writeIndex
    pos,           \* bytes taken from the connection
    total, remain, \* the limit reader
    length,        \* bytes peeked by the delimiter codec
    rpc,           \* where Decode is
    out, at,       \* history: the bytes last returned, and the place on the
                   \* wire of the byte that was next
    delivered      \* history: what the limit reader held of each message
                   \* that was passed on

readerVars == <<r, pos, total, remain, length, rpc, out, at, delivered>>
vars == <<codec, writerVars, readerVars>>

NewReader == [buff |-> [i \in 0 .. ReadBuf - 1 |-> Zero], readIndex |-> 0, writeIndex |-> 0]
start == pos - r.writeIndex         \* where the packet begins

\* The connection has failed (Decode returns the error or, when it meets it
\* in a deferred Skip, which drops it, the next Decode does), the packet is
\* refused, or the reader has panicked: the handler closes the channel.
Stopped == {"error", "panic"}

TypeOK ==
    /\ WriterTypeOK
    /\ r.buff \in [0 .. Size(r.buff) - 1 -> Int]
    /\ r.writeIndex \in Nat /\ r.readIndex \in 0 .. r.writeIndex
    /\ pos \in r.writeIndex .. Len(wire)
    /\ total \in Nat /\ remain \in 0 .. total /\ length \in 0 .. MaxLength
    /\ rpc \in {"idle", "header", "search", "payload", "release", "strip", "decoded"} \cup Stopped
    /\ out \in Seq(Int) /\ at \in 0 .. Len(wire)
    /\ delivered \in Seq(Seq(Int))

Init ==
    /\ WriterInit
    /\ r = NewReader /\ pos = 0
    /\ total = 0 /\ remain = 0 /\ length = 0
    /\ rpc = "idle"
    /\ out = <<>> /\ at = 0 /\ delivered = <<>>

-----------------------------------------------------------------------------
(* The buffer reader *)

\* Mutation of Growth: the old bytes are not copied.
MutGrowth(want) == Grown(<<>>, Doubled(Size(r.buff), r.writeIndex + want))

\* growth: a new buffer, whose capacity is computed from writeIndex and the
\* number of bytes that are missing.
Growth(want) == Grown(r.buff, Doubled(Size(r.buff), r.writeIndex + want))

Readable == r.writeIndex - r.readIndex
Room(want) ==
    IF Size(r.buff) - r.writeIndex < want
    THEN Growth(want + r.writeIndex - Size(r.buff))
    ELSE r.buff

Returns(k) ==
    /\ out' = [i \in 1 .. k |-> r'.buff[r.readIndex + i - 1]]
    /\ at' = start + r.readIndex

Fails(why) == rpc' = why /\ UNCHANGED <<r, pos, out, at>>

\* Peek(k), then an advance of the read index by step: ensureReadable reads
\* just what is missing, and panics when the buffer has no room for it.
Take(k, step, next) ==
    LET want == k - Readable
        room == Room(want) IN
    \/ /\ k <= Readable
       /\ r' = [r EXCEPT !.readIndex = @ + step]
       /\ Returns(k)
       /\ rpc' = next
       /\ UNCHANGED pos
    \/ /\ k > Readable
       /\ r.writeIndex + want <= Size(room)
       /\ pos + want <= Len(wire)
       /\ r' = [buff |-> [i \in DOMAIN room |->
                             IF i \in r.writeIndex .. r.writeIndex + want - 1
                             THEN wire[pos + i - r.writeIndex + 1] ELSE room[i]],
                readIndex |-> r.readIndex + step,
                writeIndex |-> r.writeIndex + want]
       /\ pos' = pos + want
       /\ Returns(k)
       /\ rpc' = next
    \/ k > Readable /\ r.writeIndex + want > Size(room) /\ Fails("panic")
    \/ k > Readable /\ Fails("error")       \* the connection fails

\* Mutation of ReadInto: a read past the buffered bytes is not counted.
MutReadInto(k, n) ==
    LET want == IF k > Readable THEN k - Readable ELSE 0 IN
    /\ Readable > 0 => n = k
    /\ out' = [i \in 1 .. n |-> IF i <= Readable THEN r.buff[r.readIndex + i - 1]
                                ELSE wire[pos + i - Readable]]
    /\ pos' = pos + want
    /\ r' = [r EXCEPT !.readIndex = @ + n]

\* Read of k bytes, n of them returned: straight from the connection when
\* nothing is buffered, else all of them, the buffered ones first.
ReadInto(k, n) ==
    LET want == IF k > Readable THEN k - Readable ELSE 0
        new == IF Readable = 0 THEN n ELSE want IN
    /\ Readable > 0 => n = k
    /\ out' = [i \in 1 .. n |-> IF i <= Readable THEN r.buff[r.readIndex + i - 1]
                                ELSE wire[pos + i - Readable]]
    /\ pos' = pos + new
    /\ r' = [buff |-> IF Readable > 0 /\ want > 0 THEN Room(want) ELSE r.buff,
             readIndex |-> r.readIndex + n, writeIndex |-> r.writeIndex + new]

-----------------------------------------------------------------------------
(* Decode *)

Limit(l) == total' = l /\ remain' = l

\* OnMessage: a new reader, and the codec's first call.
Decode ==
    /\ rpc = "idle" /\ wpc = "ok" /\ ~lost /\ pos < Len(wire)
    /\ r' = NewReader
    /\ length' = 0
    /\ Limit(IF codec = "fixed" THEN FixedLen ELSE 0)
    /\ rpc' = CASE codec = "variable"  -> "header"
                [] codec = "fixed"     -> "payload"
                [] codec = "delimiter" -> "search"
    /\ out' = <<>> /\ at' = 0
    /\ UNCHANGED <<pos, delivered>>

\* The variable length codec reads the header and limits the reader to the
\* length it holds.
Header ==
    /\ rpc = "header"
    /\ Take(HeaderLen, HeaderLen, "payload")
    /\ Limit(IF rpc' = "payload" THEN -2 - out'[1] ELSE 0)
    /\ UNCHANGED <<length, delivered>>

EndsInDelimiter(b) ==
    Len(b) >= DelimLen /\ \A i \in Len(b) - DelimLen + 1 .. Len(b) : b[i] = DelimByte

\* The delimiter codec peeks one byte more, until the bytes end in the
\* delimiter or are too many.
Search ==
    /\ rpc = "search"
    /\ length < MaxLength
    /\ length' = length + 1
    /\ \E next \in {"search", "payload"} :
          /\ Take(length', 0, next)
          /\ rpc' = next => (next = "payload" <=> EndsInDelimiter(out'))
    /\ Limit(IF rpc' = "payload" THEN length' - (IF Strip THEN DelimLen ELSE 0) ELSE 0)
    /\ UNCHANGED delivered

TooLong ==
    /\ rpc = "search"
    /\ length = MaxLength
    /\ Fails("error")
    /\ UNCHANGED <<total, remain, length, delivered>>

-----------------------------------------------------------------------------
(* The payload codec on the limit reader *)

\* Next or Skip, Peek and Read of what the limit allows.
Next_(k) ==
    /\ rpc = "payload" /\ k <= remain
    /\ Take(k, k, "payload")
    /\ remain' = IF rpc' = "payload" THEN remain - k ELSE remain
    /\ UNCHANGED <<total, length, delivered>>

Peek(k) ==
    /\ rpc = "payload" /\ k <= remain
    /\ Take(k, 0, "payload")
    /\ UNCHANGED <<total, remain, length, delivered>>

Read(k) ==
    /\ rpc = "payload" /\ k <= remain
    /\ at' = start + r.readIndex
    /\ \E n \in 1 .. k : ReadInto(k, n) /\ remain' = remain - n
    /\ UNCHANGED <<total, length, rpc, delivered>>

\* A read of the connection fails, or the payload codec does.
UnmarshalFails ==
    /\ rpc = "payload"
    /\ Fails("error")
    /\ UNCHANGED <<total, remain, length, delivered>>

Unmarshalled ==
    /\ rpc = "payload"
    /\ rpc' = "release"
    /\ UNCHANGED <<r, pos, total, remain, length, out, at, delivered>>

\* Mutation of Release: the limit reader skips nothing.
MutRelease ==
    /\ rpc = "release"
    /\ rpc' = IF codec = "delimiter" /\ Strip THEN "strip" ELSE "decoded"
    /\ remain' = 0
    /\ UNCHANGED <<r, pos, out, at, total, length, delivered>>

\* Release of the limit reader skips what the payload codec left.
Release ==
    LET next == IF codec = "delimiter" /\ Strip THEN "strip" ELSE "decoded" IN
    /\ rpc = "release"
    /\ Take(remain, remain, next)
    /\ remain' = 0
    /\ UNCHANGED <<total, length, delivered>>

\* The delimiter codec skips its delimiter.
StripDelimiter ==
    /\ rpc = "strip"
    /\ Take(DelimLen, DelimLen, "decoded")
    /\ UNCHANGED <<total, remain, length, delivered>>

\* Mutation of TooLarge: it is the payload that is measured.
MutTooLarge == MaxReceive > 0 /\ total > MaxReceive

\* The handler measures all that the reader has read.
TooLarge == MaxReceive > 0 /\ r.writeIndex > MaxReceive

\* OnRead: a message that is too large is dropped, any other passed on.
OnRead ==
    LET end == start + r.readIndex - (IF codec = "delimiter" /\ Strip THEN DelimLen ELSE 0) IN
    /\ rpc = "decoded"
    /\ rpc' = "idle"
    /\ delivered' = IF TooLarge THEN delivered
                    ELSE Append(delivered, SubSeq(wire, end - total + 1, end))
    /\ UNCHANGED <<r, pos, total, remain, length, out, at>>

ReaderNext ==
    \/ Decode \/ Header \/ Search \/ TooLong
    \/ \E k \in 1 .. remain : Next_(k) \/ Peek(k) \/ Read(k)
    \/ UnmarshalFails \/ Unmarshalled \/ Release \/ StripDelimiter \/ OnRead

-----------------------------------------------------------------------------
Next ==
    \/ rpc = "idle" /\ (wpc = "ok" => pos = Len(wire)) /\ WriterNext /\ UNCHANGED readerVars
    \/ ReaderNext /\ UNCHANGED <<codec, writerVars>>

Spec == Init /\ [][Next]_vars

-----------------------------------------------------------------------------
(* Safety *)

\* Whatever mixture of Read, Next, Peek and Skip went before, across growths
\* of the buffer and reads that bypass it, a call returns the bytes of the
\* stream that follow the ones already consumed.
NextBytes == out = SubSeq(wire, at + 1, at + Len(out))

\* When Decode has returned, however the payload codec behaved, exactly the
\* packet was taken from the connection: the next packet's reader, which
\* starts with an empty buffer, begins at its first byte.
FramingKept == rpc = "decoded" => pos = Len(wire)

\* What the receiver's codec is to be offered of the message g of given, and
\* whether its packet, frame included, is within the limit.
Whole(g) == Packet(g[1], g[2], Zero)
Offered(g) ==
    LET before == IF codec = "variable" THEN HeaderLen ELSE 0
        after == IF codec = "delimiter" /\ Strip THEN DelimLen ELSE 0
    IN SubSeq(Whole(g), before + 1, Len(Whole(g)) - after)
Within(g) == MaxReceive = 0 \/ Len(Whole(g)) <= MaxReceive

\* From end to end: as long as no packet was lost on the sending side, the
\* receiver's codec is offered, in order and each once, the bytes that the
\* sender's codec wrote, with the padding or an unstripped delimiter behind
\* them, for every message whose packet, frame included, is within the limit:
\* the k-th of these messages is the k-th that is delivered.
RoundTrip ==
    LET kept == {i \in DOMAIN given : Within(given[i])}
        place(i) == Cardinality({j \in kept : j <= i})
    IN rpc = "idle" /\ wpc = "ok" /\ pos = Len(wire) /\ ~lost
         => /\ Len(delivered) = Cardinality(kept)
            /\ \A i \in kept : delivered[place(i)] = Offered(given[i])

-----------------------------------------------------------------------------
(* What the code says of itself and does not do *)

\* pkg/io/reader/buffer.go:66: Next returns the next n bytes.
NoPanic == rpc # "panic"
=============================================================================
