---------------------------- MODULE PacketWriter ----------------------------
(***************************************************************************)
(* How packets get onto a connection: the packet codecs (Encode of         *)
(* codec/packet) over the buffer writer of pkg/io/writer, which            *)
(* connection.Writer makes anew for every message.                         *)
(*                                                                         *)
(* A byte is a tag: zero (what make() leaves), a byte of the delimiter, a  *)
(* byte of the header of a body of l bytes, or byte j of message m.        *)
(* Malloc returns a slice of the array the buffer has then; growth moves   *)
(* the buffer to a new array and a Flush advances it.  A payload codec is  *)
(* an interface the user may implement: it may cut its bytes up into       *)
(* Writes and Mallocs as it likes, Flush in between, and fail.             *)
(***************************************************************************)
EXTENDS Integers, Sequences, FiniteSets

CONSTANTS Codecs,       \* packet codecs: "variable", "fixed", "delimiter"
          WriteBuf,     \* size of a new buffer of a writer
          HeaderLen,    \* space taken for the header, one byte of it unused
          DelimLen,     \* length of the delimiter
          FixedLen,     \* length of a packet of the fixed length codec
          Bodies,       \* lengths of the bodies that are sent
          Messages,     \* bound: messages that are sent
          Flushes       \* bound: Flushes by the payload codec, per message

ASSUME CodecAssumption == Codecs \subseteq {"variable", "fixed", "delimiter"}
ASSUME WriterAssumption ==
    /\ Bodies \cup {FixedLen, Messages, Flushes} \subseteq Nat
    /\ {WriteBuf, DelimLen} \subseteq Nat \ {0}
    /\ HeaderLen \in 2 .. WriteBuf

Zero == 0
DelimByte == -1
HeaderByte(l) == -2 - l
BodyByte(m, j) == 100 * m + j
Repeat(x, k) == [i \in 1 .. k |-> x]

VARIABLES
    w,             \* the writer: buff, preWriteIndex, writeIndex; and gen,
                   \* which tells the regions apart that buff has been
    header,        \* the region that the header's slice belongs to
    codec,         \* the packet codec of the handler
    m, body, sent, \* the message: its number, its length, bytes written
    flushes,       \* Flushes by the payload codec
    wpc,           \* where Encode is
    wire,          \* all that was written to the connection
    lost,          \* the wire holds something that is no packet
    first, given   \* history: what was on the wire before the message, and
                   \* the messages of which Encode returned nil

writerVars == <<w, header, m, body, sent, flushes, wpc, wire, lost, first, given>>

Size(b) == Cardinality(DOMAIN b)
NewWriter == [buff |-> [i \in 0 .. WriteBuf - 1 |-> Zero], gen |-> 0,
              preWriteIndex |-> 0, writeIndex |-> 0]

WriterTypeOK ==
    /\ w.buff \in [0 .. Size(w.buff) - 1 -> Int]
    /\ w.gen \in Nat /\ header \in 0 .. w.gen
    /\ w.preWriteIndex \in 0 .. w.writeIndex /\ w.writeIndex \in Nat
    /\ w.preWriteIndex # w.writeIndex => w.writeIndex <= Size(w.buff)
    /\ codec \in Codecs /\ m \in 0 .. Messages
    /\ body \in Bodies \cup {0} /\ sent \in 0 .. body /\ flushes \in 0 .. Flushes
    /\ wpc \in {"marshal", "frame", "flush", "ok", "error", "hang"}
    /\ wire \in Seq(Int) /\ first \in 0 .. Len(wire)
    /\ lost \in BOOLEAN /\ given \in Seq((1 .. Messages) \X Bodies)

WriterInit ==
    /\ w = NewWriter /\ header = 0
    /\ codec \in Codecs
    /\ m = 0 /\ body = 0 /\ sent = 0 /\ flushes = 0
    /\ wpc = "ok"
    /\ wire = <<>> /\ first = 0 /\ lost = FALSE /\ given = <<>>

-----------------------------------------------------------------------------
(* The buffer writer *)

\* The loop that doubles a capacity of size until it is at least min.
Doubled(size, min) ==
    LET capacity[k \in 0 .. min] ==
            IF k = 0 THEN size
            ELSE IF capacity[k - 1] < min THEN 2 * capacity[k - 1] ELSE capacity[k - 1]
    IN capacity[min]

\* b, in a new array of the given length.
Grown(b, size) == [i \in 0 .. size - 1 |-> IF i \in DOMAIN b THEN b[i] ELSE Zero]

Fits(k) == Size(w.buff) - w.writeIndex >= k

\* checkWriteable doubles a capacity of zero for ever.
Stuck(k) == ~Fits(k) /\ Size(w.buff) = 0

\* checkWriteable: the buffer with room for k bytes.
Writeable(k) ==
    IF Fits(k) THEN w
    ELSE [w EXCEPT !.buff = Grown(@, Doubled(Size(@), w.writeIndex + k)), !.gen = @ + 1]

\* Write of the bytes b, or Malloc followed by filling the slice with them.
Write(b) ==
    [Writeable(Len(b)) EXCEPT
        !.buff = [i \in DOMAIN @ |-> IF i \in w.writeIndex .. w.writeIndex + Len(b) - 1
                                     THEN b[i - w.writeIndex + 1] ELSE @[i]],
        !.writeIndex = @ + Len(b)]

\* Mutation of Unflushed: Flush writes the buffer from its beginning.
MutUnflushed == [i \in 1 .. w.writeIndex |-> w.buff[i - 1]]

\* What Flush passes on to the connection.
Unflushed == [i \in 1 .. w.writeIndex - w.preWriteIndex |-> w.buff[w.preWriteIndex + i - 1]]

\* What it leaves: the rest of the buffer, with the indices of before.
Flushed ==
    [w EXCEPT !.buff = [i \in 0 .. Size(@) - w.writeIndex - 1 |-> @[i + w.writeIndex]],
              !.gen = @ + 1, !.preWriteIndex = w.writeIndex]

-----------------------------------------------------------------------------
(* Encode *)

\* A message of b bytes: a new writer, with space taken for the header or for
\* the whole packet of a fixed length.
Encode(b) ==
    LET space == CASE codec = "variable"  -> HeaderLen
                   [] codec = "fixed"     -> FixedLen
                   [] codec = "delimiter" -> 0
        size == IF space <= WriteBuf THEN WriteBuf ELSE Doubled(WriteBuf, space)
    IN
    /\ wpc \in {"ok", "error"} /\ ~lost
    /\ m < Messages
    /\ m' = m + 1 /\ body' = b /\ sent' = 0 /\ flushes' = 0
    /\ w' = [NewWriter EXCEPT !.buff = Grown(@, size), !.writeIndex = space]
    /\ header' = 0
    /\ wpc' = "marshal"
    /\ first' = Len(wire)
    /\ UNCHANGED <<codec, wire, lost, given>>

\* The payload codec writes k bytes: to the buffer, or into the slice of fixed
\* length, in which Flush does nothing.
Marshal(k) ==
    /\ wpc = "marshal"
    /\ k \in 1 .. body - sent
    /\ \/ /\ codec = "fixed" /\ sent + k <= FixedLen
          /\ w' = [w EXCEPT !.buff = [i \in DOMAIN @ |->
                      IF i \in sent .. sent + k - 1 THEN BodyByte(m, i + 1) ELSE @[i]]]
          /\ UNCHANGED wpc
       \/ /\ codec # "fixed" /\ ~Stuck(k)
          /\ w' = Write([i \in 1 .. k |-> BodyByte(m, sent + i)])
          /\ UNCHANGED wpc
       \/ codec # "fixed" /\ Stuck(k) /\ wpc' = "hang" /\ UNCHANGED w
    /\ sent' = IF wpc' = "hang" THEN sent ELSE sent + k
    /\ UNCHANGED <<header, codec, m, body, flushes, wire, lost, first, given>>

\* It calls Flush.
MarshalFlush ==
    /\ wpc = "marshal" /\ codec # "fixed"
    /\ flushes < Flushes /\ w.preWriteIndex # w.writeIndex
    /\ flushes' = flushes + 1
    /\ wire' = wire \o Unflushed
    /\ w' = Flushed
    /\ UNCHANGED <<header, codec, m, body, sent, wpc, lost, first, given>>

\* It fails: by itself, or because the slice is too short.  What it has
\* flushed is no packet.
MarshalFails ==
    /\ wpc = "marshal"
    /\ wpc' = "error"
    /\ lost' = (Len(wire) > first)
    /\ UNCHANGED <<w, header, codec, m, body, sent, flushes, wire, first, given>>

Marshalled ==
    /\ wpc = "marshal"
    /\ sent = body
    /\ wpc' = "frame"
    /\ UNCHANGED <<w, header, codec, m, body, sent, flushes, wire, lost, first, given>>

\* The length goes into the slice that Malloc returned, which is part of the
\* buffer only if that has neither grown nor been flushed since.
PutLength ==
    /\ wpc = "frame" /\ codec = "variable"
    /\ wpc' = "flush"
    /\ w' = [w EXCEPT !.buff = [i \in DOMAIN @ |->
                IF header = w.gen /\ i < HeaderLen - 1 THEN HeaderByte(sent) ELSE @[i]]]
    /\ lost' = (header # w.gen)
    /\ UNCHANGED <<header, codec, m, body, sent, flushes, wire, first, given>>

AppendDelimiter ==
    /\ wpc = "frame" /\ codec = "delimiter"
    /\ IF Stuck(DelimLen)
       THEN wpc' = "hang" /\ UNCHANGED w
       ELSE wpc' = "flush" /\ w' = Write(Repeat(DelimByte, DelimLen))
    /\ UNCHANGED <<header, codec, m, body, sent, flushes, wire, lost, first, given>>

\* Flush writes what it has not written yet to the connection; the fixed
\* length packet needs no frame.  A connection that fails is not used again.
Flush ==
    /\ wpc = "flush" \/ (wpc = "frame" /\ codec = "fixed")
    /\ \/ wpc' = "ok" /\ wire' = wire \o Unflushed /\ given' = Append(given, <<m, body>>) /\ UNCHANGED lost
       \/ wpc' = "error" /\ lost' = TRUE /\ UNCHANGED <<wire, given>>
    /\ w' = IF wpc' = "ok" THEN Flushed ELSE w
    /\ UNCHANGED <<header, codec, m, body, sent, flushes, first>>

WriterNext ==
    \/ \E b \in Bodies : Encode(b)
    \/ \E k \in 1 .. body : Marshal(k)
    \/ MarshalFlush \/ MarshalFails \/ Marshalled
    \/ PutLength \/ AppendDelimiter \/ Flush

-----------------------------------------------------------------------------
(* Safety *)

\* The packet that message i of b bytes should be.
Payload(i, b) == [j \in 1 .. b |-> BodyByte(i, j)]
Packet(i, b, l) ==
    CASE codec = "variable"  -> Repeat(l, HeaderLen - 1) \o <<Zero>> \o Payload(i, b)
      [] codec = "fixed"     -> Payload(i, b) \o Repeat(Zero, FixedLen - b)
      [] codec = "delimiter" -> Payload(i, b) \o Repeat(DelimByte, DelimLen)

\* However the payload codec cuts its bytes up, however often the buffer grows
\* or is flushed on the way, what Encode has put on the wire is a prefix of the
\* packet, nothing unless the codec flushed, and the whole packet once Encode
\* has returned nil.  The exception is the variable length header: when the
\* buffer grew or was flushed after its Malloc the length goes nowhere, zeros
\* are sent and the packet is lost; else it never is.
WholePackets ==
    LET part == SubSeq(wire, first + 1, Len(wire))
        length == IF wpc = "ok" /\ ~lost THEN HeaderByte(body) ELSE Zero
        packet == Packet(m, body, length)
    IN m > 0 =>
        /\ flushes = 0 /\ wpc # "ok" => part = <<>>
        /\ part = SubSeq(packet, 1, Len(part))
        /\ wpc = "ok" => /\ part = packet
                         /\ lost <=> /\ codec = "variable"
                                     /\ flushes > 0 \/ HeaderLen + body > WriteBuf
=============================================================================
