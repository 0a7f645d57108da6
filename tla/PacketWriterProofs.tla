------------------------- MODULE PacketWriterProofs -------------------------
(***************************************************************************)
(* What the writing side of a connection keeps, for every buffer size,     *)
(* body, frame and codec.  PacketReaderProofs puts it together with the    *)
(* reading side.                                                           *)
(***************************************************************************)
EXTENDS PacketWriter, FiniteSetTheorems, SequenceTheorems, WellFoundedInduction, TLAPS

\* A buffer of any length.
Bytes == UNION {[0 .. n - 1 -> Int] : n \in Nat}

\* The length goes into the header: Encode got to its Flush, and the buffer
\* was still the one of the header's slice.
Put == wpc \in {"flush", "ok"} /\ ~lost

\* What the packet has at index i, as far as it is written.
Byte(i) ==
    CASE codec = "variable"  -> IF i < HeaderLen - 1
                                THEN (IF Put THEN HeaderByte(body) ELSE Zero)
                                ELSE IF i = HeaderLen - 1 THEN Zero
                                ELSE BodyByte(m, i - HeaderLen + 1)
      [] codec = "fixed"     -> IF i < sent THEN BodyByte(m, i + 1) ELSE Zero
      [] codec = "delimiter" -> IF i < sent THEN BodyByte(m, i + 1) ELSE DelimByte

\* The length of what is written.
Framed == IF wpc \in {"flush", "ok"} THEN DelimLen ELSE 0
Written ==
    CASE codec = "variable"  -> HeaderLen + sent
      [] codec = "fixed"     -> FixedLen
      [] codec = "delimiter" -> sent + Framed

\* The length of the packet of message i, of b bytes, and the bytes of it.
PacketLen(b) ==
    CASE codec = "variable"  -> HeaderLen + b
      [] codec = "fixed"     -> FixedLen
      [] codec = "delimiter" -> b + DelimLen
PacketByte(i, b, l, j) ==
    CASE codec = "variable"  -> IF j < HeaderLen THEN l
                                ELSE IF j = HeaderLen THEN Zero
                                ELSE BodyByte(i, j - HeaderLen)
      [] codec = "fixed"     -> IF j <= b THEN BodyByte(i, j) ELSE Zero
      [] codec = "delimiter" -> IF j <= b THEN BodyByte(i, j) ELSE DelimByte

\* The writer: what is not flushed lies in the buffer.
BuffInv ==
    /\ w \in [buff : Bytes, gen : Nat, preWriteIndex : Nat, writeIndex : Nat]
    /\ w.preWriteIndex <= w.writeIndex
    /\ w.preWriteIndex # w.writeIndex => w.writeIndex <= Size(w.buff)

MessageInv ==
    /\ header = 0
    /\ codec \in Codecs /\ m \in 0 .. Messages
    /\ body \in Bodies \cup {0} /\ sent \in 0 .. body /\ flushes \in 0 .. Flushes
    /\ wpc \in {"marshal", "frame", "flush", "ok", "error", "hang"}
    /\ wire \in Seq(Int) /\ first \in 0 .. Len(wire)
    /\ lost \in BOOLEAN /\ given \in Seq((1 .. Messages) \X Bodies)
    /\ m = 0 => wpc = "ok" /\ ~lost
    /\ m > 0 => body \in Bodies

WTypes == BuffInv /\ MessageInv

\* How far the indices are.
IndexInv ==
    /\ wpc \in {"marshal", "frame", "flush", "ok"} /\ m > 0 => w.writeIndex = Written
    /\ wpc \in {"frame", "flush", "ok"} => sent = body
    /\ wpc = "ok" => w.preWriteIndex = w.writeIndex
    /\ codec = "fixed" => flushes = 0 /\ sent <= FixedLen
    /\ codec = "delimiter" /\ wpc # "ok" => w.preWriteIndex <= sent
    /\ codec = "variable" /\ m > 0 => w.preWriteIndex <= HeaderLen + sent

\* When the buffer has left the region of the header's slice, and what of the
\* packet is on the wire before its end.
RegionInv ==
    /\ flushes = 0 /\ wpc # "ok" => w.preWriteIndex = 0
    /\ wpc \in {"marshal", "frame"} =>
        /\ ~lost
        /\ flushes > 0 => w.gen > 0
        /\ codec = "variable" /\ flushes = 0 => /\ w.gen > 0 <=> w.writeIndex > WriteBuf
                                                /\ w.gen = 0 => Size(w.buff) = WriteBuf
    /\ wpc \in {"flush", "ok"} /\ m > 0 =>
        (lost <=> codec = "variable" /\ (flushes > 0 \/ HeaderLen + body > WriteBuf))
    /\ wpc = "error" /\ ~lost => w.preWriteIndex = 0

\* What is on the wire and what waits in the buffer.
BytesInv ==
    /\ Len(wire) = first + w.preWriteIndex
    /\ \A i \in 0 .. w.preWriteIndex - 1 : wire[first + i + 1] = Byte(i)
    /\ wpc \in {"marshal", "frame", "flush"} =>
        \A i \in w.preWriteIndex .. w.writeIndex - 1 : w.buff[i] = Byte(i)

WriterInv == WTypes /\ IndexInv /\ RegionInv /\ BytesInv

-----------------------------------------------------------------------------
(* Buffers *)

\* Induction over the natural numbers, for a set.
LEMMA NatSetInduction ==
    ASSUME NEW S, 0 \in S, \A n \in Nat : n \in S => n + 1 \in S
    PROVE  Nat \subseteq S
<1> DEFINE Below == {p \in Nat \X Nat : p[1] < p[2]}
           T == Nat \ S
<1> SUFFICES ASSUME T # {} PROVE FALSE
  OBVIOUS
<1>1. IsWellFoundedOn(Below, Nat)
  BY NatLessThanWellFounded, Zenon DEF OpToRel
<1> HIDE DEF T
<1>2. T \subseteq Nat
  BY DEF T
<1>3. PICK x \in T : \A y \in T : ~ (<<y, x>> \in Below)
  BY <1>1, <1>2, WFMin
<1>4. x # 0 /\ x \in Nat /\ x \notin S
  BY DEF T
<1>5. x - 1 \in Nat /\ <<x - 1, x>> \in Below
  BY <1>4
<1>6. x - 1 \in S
  BY <1>3, <1>5 DEF T
<1>7. x - 1 + 1 \in S
  BY <1>5, <1>6
<1>8. QED
  BY <1>4, <1>7

\* The first n turns of the loop that doubles a capacity.
Turns(f, n, size, min) ==
    f = [k \in 0 .. n |-> IF k = 0 THEN size
                          ELSE IF f[k - 1] < min THEN 2 * f[k - 1] ELSE f[k - 1]]

\* However far the loop goes, there is a record of its turns.
LEMMA TurnsExist ==
    ASSUME NEW size \in Nat, NEW min \in Nat, NEW n \in Nat
    PROVE  \E f : Turns(f, n, size, min)
<1> DEFINE S == {j \in Nat : \E f : Turns(f, j, size, min)}
<1>1. 0 \in S
  <2> DEFINE g == [k \in 0 .. 0 |-> size]
  <2>1. Turns(g, 0, size, min)
    BY DEF Turns
  <2>2. QED
    BY <2>1
<1>2. ASSUME NEW j \in Nat, j \in S PROVE j + 1 \in S
  <2>1. PICK f : Turns(f, j, size, min)
    BY <1>2
  <2> DEFINE g == [k \in 0 .. j + 1 |->
                      IF k \in 0 .. j THEN f[k] ELSE IF f[j] < min THEN 2 * f[j] ELSE f[j]]
  <2>2. ASSUME NEW k \in 0 .. j + 1
        PROVE  g[k] = IF k = 0 THEN size
                      ELSE IF g[k - 1] < min THEN 2 * g[k - 1] ELSE g[k - 1]
    BY <2>1 DEF Turns
  <2>3. Turns(g, j + 1, size, min)
    BY <2>2 DEF Turns
  <2>4. QED
    BY <2>3
<1> HIDE DEF S
<1>3. Nat \subseteq S
  BY <1>1, <1>2, NatSetInduction
<1>4. QED
  BY <1>3 DEF S

\* Doubling a capacity that is not zero reaches any minimum.
LEMMA DoubledBounds ==
    ASSUME NEW size \in Nat, size > 0, NEW min \in Nat
    PROVE  /\ Doubled(size, min) \in Nat
           /\ Doubled(size, min) >= min
           /\ Doubled(size, min) >= size
<1> DEFINE f == CHOOSE g : Turns(g, min, size, min)
<1>1. Turns(f, min, size, min)
  BY TurnsExist
<1>2. Doubled(size, min) = f[min]
  BY DEF Doubled, Turns
<1> HIDE DEF f
<1> DEFINE S == {k \in Nat : k <= min => /\ f[k] \in Nat /\ f[k] >= size
                                         /\ f[k] >= min \/ f[k] >= size + k}
<1>3. 0 \in S
  BY <1>1 DEF Turns
<1>4. ASSUME NEW k \in Nat, k \in S PROVE k + 1 \in S
  <2>1. k + 1 <= min => f[k + 1] = IF f[k] < min THEN 2 * f[k] ELSE f[k]
    BY <1>1 DEF Turns
  <2>2. QED
    BY <1>4, <2>1
<1> HIDE DEF S
<1>5. Nat \subseteq S
  BY <1>3, <1>4, NatSetInduction
<1>6. QED
  BY <1>2, <1>5 DEF S

\* A function on 0 .. n - 1 is a buffer of n bytes, ...
LEMMA SizeIs ==
    ASSUME NEW n \in Nat, NEW b \in [0 .. n - 1 -> Int]
    PROVE  b \in Bytes /\ Size(b) = n /\ DOMAIN b = 0 .. n - 1
<1>1. Cardinality(0 .. n - 1) = n
  BY FS_Interval
<1>2. QED
  BY <1>1 DEF Bytes, Size

\* ... and every buffer is one.
LEMMA SizeOf ==
    ASSUME NEW b \in Bytes
    PROVE  Size(b) \in Nat /\ DOMAIN b = 0 .. Size(b) - 1 /\ b \in [0 .. Size(b) - 1 -> Int]
<1>1. PICK n \in Nat : b \in [0 .. n - 1 -> Int]
  BY DEF Bytes
<1>2. QED
  BY <1>1, SizeIs

\* A buffer is copied to the beginning of a larger array.
LEMMA GrownIs ==
    ASSUME NEW b \in Bytes, NEW n \in Nat
    PROVE  /\ Grown(b, n) \in Bytes /\ Size(Grown(b, n)) = n /\ DOMAIN Grown(b, n) = 0 .. n - 1
           /\ \A i \in 0 .. n - 1 : i \in DOMAIN b => Grown(b, n)[i] = b[i]
<1>1. \A i \in 0 .. n - 1 : i \in DOMAIN b => b[i] \in Int
  BY SizeOf
<1>2. Grown(b, n) \in [0 .. n - 1 -> Int]
  BY <1>1 DEF Grown, Zero
<1>3. QED
  BY <1>2, SizeIs DEF Grown

\* Write makes room and puts the bytes at the write index.
LEMMA WriteIs ==
    ASSUME WTypes, NEW b \in Seq(Int), ~Stuck(Len(b))
    PROVE  /\ Write(b) \in [buff : Bytes, gen : Nat, preWriteIndex : Nat, writeIndex : Nat]
           /\ Write(b).preWriteIndex = w.preWriteIndex
           /\ Write(b).writeIndex = w.writeIndex + Len(b)
           /\ Write(b).writeIndex <= Size(Write(b).buff)
           /\ Write(b).gen = IF Fits(Len(b)) THEN w.gen ELSE w.gen + 1
           /\ Fits(Len(b)) => Size(Write(b).buff) = Size(w.buff)
           /\ \A i \in 0 .. w.writeIndex - 1 :
                i \in DOMAIN w.buff => Write(b).buff[i] = w.buff[i]
           /\ \A i \in w.writeIndex .. w.writeIndex + Len(b) - 1 :
                Write(b).buff[i] = b[i - w.writeIndex + 1]
<1> DEFINE k == Len(b)
           u == Writeable(k)
           nb == [i \in DOMAIN u.buff |-> IF i \in w.writeIndex .. w.writeIndex + k - 1
                                          THEN b[i - w.writeIndex + 1] ELSE u.buff[i]]
<1>1. /\ w.buff \in Bytes /\ w.gen \in Nat /\ w.writeIndex \in Nat /\ w.preWriteIndex \in Nat
      /\ k \in Nat /\ Size(w.buff) \in Nat
  BY SizeOf DEF WTypes, BuffInv, MessageInv
<1>2. /\ u.buff \in Bytes /\ Size(u.buff) >= w.writeIndex + k
      /\ u.gen = IF Fits(k) THEN w.gen ELSE w.gen + 1
      /\ u.preWriteIndex = w.preWriteIndex /\ u.writeIndex = w.writeIndex
      /\ Fits(k) => Size(u.buff) = Size(w.buff)
      /\ u = [buff |-> u.buff, gen |-> u.gen, preWriteIndex |-> u.preWriteIndex,
              writeIndex |-> u.writeIndex]
      /\ \A i \in 0 .. w.writeIndex - 1 : i \in DOMAIN w.buff => u.buff[i] = w.buff[i]
  <2>1. CASE Fits(k)
    <3>1. u = w
      BY <2>1 DEF Writeable
    <3>2. QED
      BY <1>1, <2>1, <3>1 DEF Fits, WTypes, BuffInv, MessageInv
  <2>2. CASE ~Fits(k)
    <3> DEFINE d == Doubled(Size(w.buff), w.writeIndex + k)
    <3>1. Size(w.buff) > 0
      BY <1>1, <2>2 DEF Stuck
    <3>2. d \in Nat /\ d >= w.writeIndex + k
      <4>1. w.writeIndex + k \in Nat
        BY <1>1
      <4>2. QED
        BY <1>1, <3>1, <4>1, DoubledBounds
    <3>3. u.buff = Grown(w.buff, d) /\ u.gen = w.gen + 1
          /\ u.preWriteIndex = w.preWriteIndex /\ u.writeIndex = w.writeIndex
          /\ u = [buff |-> u.buff, gen |-> u.gen, preWriteIndex |-> u.preWriteIndex,
                  writeIndex |-> u.writeIndex]
      BY <2>2 DEF Writeable, WTypes, BuffInv, MessageInv
    <3> HIDE DEF d, u
    <3>4. /\ Grown(w.buff, d) \in Bytes /\ Size(Grown(w.buff, d)) = d
          /\ \A i \in 0 .. d - 1 : i \in DOMAIN w.buff => Grown(w.buff, d)[i] = w.buff[i]
      BY <1>1, <3>2, GrownIs
    <3>5. QED
      BY <1>1, <2>2, <3>2, <3>3, <3>4
  <2>3. QED
    BY <2>1, <2>2
<1>3. Write(b) = [u EXCEPT !.buff = nb, !.writeIndex = @ + k]
  BY Zenon DEF Write
<1> HIDE DEF u
<1>4. Write(b) = [buff |-> nb, gen |-> u.gen, preWriteIndex |-> u.preWriteIndex,
                  writeIndex |-> w.writeIndex + k]
  <2> HIDE DEF nb
  <2>1. QED
    BY <1>2, <1>3
<1>5. Size(u.buff) \in Nat /\ DOMAIN u.buff = 0 .. Size(u.buff) - 1
      /\ u.buff \in [0 .. Size(u.buff) - 1 -> Int]
  BY <1>2, SizeOf
<1>6. nb \in [0 .. Size(u.buff) - 1 -> Int]
  <2>1. ASSUME NEW i \in w.writeIndex .. w.writeIndex + k - 1 PROVE b[i - w.writeIndex + 1] \in Int
    BY <1>1
  <2>2. QED
    BY <1>5, <2>1
<1>7. nb \in Bytes /\ Size(nb) = Size(u.buff)
  BY <1>5, <1>6, SizeIs
<1>8. \A i \in 0 .. w.writeIndex - 1 : i \in DOMAIN w.buff => nb[i] = w.buff[i]
  BY <1>1, <1>2, <1>5
<1>9. \A i \in w.writeIndex .. w.writeIndex + k - 1 : nb[i] = b[i - w.writeIndex + 1]
  BY <1>1, <1>2, <1>5, SMTT(30)
<1> HIDE DEF nb
<1>10. QED
  BY <1>1, <1>2, <1>7, <1>8, <1>9, <1>4

\* Flush leaves the rest of the buffer and passes on what was not passed on.
LEMMA FlushIs ==
    ASSUME WTypes
    PROVE  /\ Flushed \in [buff : Bytes, gen : Nat, preWriteIndex : Nat, writeIndex : Nat]
           /\ Flushed.preWriteIndex = w.writeIndex /\ Flushed.writeIndex = w.writeIndex
           /\ Flushed.gen = w.gen + 1
           /\ Unflushed \in Seq(Int) /\ Len(Unflushed) = w.writeIndex - w.preWriteIndex
           /\ \A i \in 1 .. Len(Unflushed) : Unflushed[i] = w.buff[w.preWriteIndex + i - 1]
<1> DEFINE n == IF w.writeIndex <= Size(w.buff) THEN Size(w.buff) - w.writeIndex ELSE 0
           nb == [i \in 0 .. Size(w.buff) - w.writeIndex - 1 |-> w.buff[i + w.writeIndex]]
           k == w.writeIndex - w.preWriteIndex
<1>1. /\ w.buff \in Bytes /\ w.gen \in Nat /\ w.writeIndex \in Nat /\ w.preWriteIndex \in Nat
      /\ w.preWriteIndex <= w.writeIndex
      /\ w.preWriteIndex # w.writeIndex => w.writeIndex <= Size(w.buff)
  BY DEF WTypes, BuffInv, MessageInv
<1>2. Size(w.buff) \in Nat /\ \A i \in 0 .. Size(w.buff) - 1 : w.buff[i] \in Int
  BY <1>1, SizeOf
<1>3. nb \in Bytes
  <2>1. n \in Nat /\ 0 .. Size(w.buff) - w.writeIndex - 1 = 0 .. n - 1
    BY <1>1, <1>2
  <2>2. \A i \in 0 .. Size(w.buff) - w.writeIndex - 1 : w.buff[i + w.writeIndex] \in Int
    BY <1>1, <1>2
  <2>3. nb \in [0 .. n - 1 -> Int]
    BY <2>1, <2>2
  <2>4. QED
    BY <2>1, <2>3, SizeIs
<1>4. Flushed = [w EXCEPT !.buff = nb, !.gen = @ + 1, !.preWriteIndex = w.writeIndex]
  BY Zenon DEF Flushed
<1> HIDE DEF nb
<1>5. Flushed = [buff |-> nb, gen |-> w.gen + 1, preWriteIndex |-> w.writeIndex,
                 writeIndex |-> w.writeIndex]
  BY <1>4 DEF WTypes, BuffInv, MessageInv
<1>6. k \in Nat /\ \A i \in 1 .. k : w.buff[w.preWriteIndex + i - 1] \in Int
  BY <1>1, <1>2
<1>7. Unflushed = [i \in 1 .. k |-> w.buff[w.preWriteIndex + i - 1]]
  BY DEF Unflushed
<1> HIDE DEF k
<1>8. Unflushed \in [1 .. k -> Int]
  BY <1>6, <1>7
<1>9. Unflushed \in Seq(Int) /\ Len(Unflushed) = k
  BY <1>6, <1>8
<1>10. QED
  BY <1>1, <1>3, <1>5, <1>7, <1>9 DEF k

-----------------------------------------------------------------------------
(* The steps *)

\* The numbers of the configuration.
LEMMA Numbers ==
    /\ WriteBuf \in Nat /\ WriteBuf > 0 /\ HeaderLen \in Nat /\ HeaderLen > 1 /\ HeaderLen <= WriteBuf
    /\ DelimLen \in Nat /\ DelimLen > 0 /\ FixedLen \in Nat /\ Messages \in Nat /\ Flushes \in Nat
    /\ Bodies \subseteq Nat
BY WriterAssumption

\* What the counters of the writer are.
LEMMA Counts ==
    ASSUME WTypes
    PROVE  /\ codec \in {"variable", "fixed", "delimiter"}
           /\ m \in Nat /\ body \in Nat /\ sent \in Nat /\ sent <= body /\ flushes \in Nat
           /\ w.gen \in Nat /\ w.preWriteIndex \in Nat /\ w.writeIndex \in Nat
           /\ w.preWriteIndex <= w.writeIndex
           /\ Len(wire) \in Nat /\ first \in Nat
<1>1. codec \in {"variable", "fixed", "delimiter"}
  BY CodecAssumption DEF WTypes, BuffInv, MessageInv
<1>2. QED
  BY <1>1, Numbers DEF WTypes, BuffInv, MessageInv

\* A new message.
LEMMA EncodeStep ==
    ASSUME WriterInv, NEW b \in Bodies, Encode(b)
    PROVE  WriterInv'
<1> DEFINE space == CASE codec = "variable"  -> HeaderLen
                      [] codec = "fixed"     -> FixedLen
                      [] codec = "delimiter" -> 0
           size == IF space <= WriteBuf THEN WriteBuf ELSE Doubled(WriteBuf, space)
<1>1. space \in Nat /\ size \in Nat /\ size >= space /\ (codec = "variable" => size = WriteBuf)
  BY Numbers, Counts, DoubledBounds DEF WriterInv
<1>2. NewWriter.buff \in Bytes /\ \A i \in DOMAIN NewWriter.buff : NewWriter.buff[i] = Zero
  BY Numbers, SizeIs DEF NewWriter, Zero
<1>3. w' = [NewWriter EXCEPT !.buff = Grown(NewWriter.buff, size), !.writeIndex = space]
  BY Zenon DEF Encode
<1> HIDE DEF space, size
<1>4. w' = [buff |-> Grown(NewWriter.buff, size), gen |-> 0, preWriteIndex |-> 0,
            writeIndex |-> space]
  BY <1>3 DEF NewWriter
<1>5. /\ Grown(NewWriter.buff, size) \in Bytes /\ Size(Grown(NewWriter.buff, size)) = size
      /\ \A i \in 0 .. size - 1 : Grown(NewWriter.buff, size)[i] = Zero
  BY <1>1, <1>2, GrownIs DEF Grown
<1>6. /\ w' \in [buff : Bytes, gen : Nat, preWriteIndex : Nat, writeIndex : Nat]
      /\ w'.preWriteIndex = 0 /\ w'.writeIndex = space /\ w'.gen = 0
      /\ Size(w'.buff) = size /\ \A i \in 0 .. space - 1 : w'.buff[i] = Zero
  BY <1>1, <1>4, <1>5
<1>7. /\ m' = m + 1 /\ m < Messages /\ body' = b /\ sent' = 0 /\ flushes' = 0 /\ header' = 0
      /\ wpc' = "marshal" /\ first' = Len(wire) /\ UNCHANGED <<codec, wire, lost, given>> /\ ~lost
  BY DEF Encode
<1>8. WTypes'
  BY <1>1, <1>6, <1>7, Numbers DEF WriterInv, WTypes, BuffInv, MessageInv
<1>9. IndexInv'
  BY <1>1, <1>6, <1>7, Numbers, Counts, SMTT(30) DEF IndexInv, Written, Framed, WriterInv, space
<1>10. RegionInv'
  BY <1>1, <1>6, <1>7, Numbers, Counts, SMTT(30) DEF RegionInv, WriterInv, space
<1>11. BytesInv'
  <2>1. ASSUME NEW i \in 0 .. space - 1 PROVE Byte(i)' = Zero
    <3> USE <1>7, Numbers DEF Byte, Put, space
    <3>1. CASE codec = "variable"
      BY <3>1
    <3>2. CASE codec = "fixed"
      BY <3>2
    <3>3. CASE codec = "delimiter"
      BY <3>3
    <3>4. QED
      BY <3>1, <3>2, <3>3, Counts DEF WriterInv
  <2>2. QED
    BY <1>1, <1>6, <1>7, <2>1 DEF BytesInv, WriterInv, WTypes, BuffInv, MessageInv
<1>12. QED
  BY <1>8, <1>9, <1>10, <1>11 DEF WriterInv

\* The payload codec writes into the slice of fixed length.
LEMMA MarshalFixedStep ==
    ASSUME WriterInv, NEW k \in 1 .. body, Marshal(k), codec = "fixed"
    PROVE  WriterInv'
<1> DEFINE nb == [i \in DOMAIN w.buff |->
                    IF i \in sent .. sent + k - 1 THEN BodyByte(m, i + 1) ELSE w.buff[i]]
<1>1. /\ wpc = "marshal" /\ k <= body - sent /\ sent + k <= FixedLen
      /\ w' = [w EXCEPT !.buff = nb] /\ wpc' = "marshal"
      /\ sent' = sent + k
      /\ UNCHANGED <<header, codec, m, body, flushes, wire, lost, first, given>>
  BY DEF Marshal
<1>2. nb \in Bytes /\ Size(nb) = Size(w.buff) /\ DOMAIN nb = 0 .. Size(w.buff) - 1
  <2>1. /\ Size(w.buff) \in Nat /\ DOMAIN w.buff = 0 .. Size(w.buff) - 1
        /\ w.buff \in [0 .. Size(w.buff) - 1 -> Int]
    BY SizeOf DEF WriterInv, WTypes, BuffInv, MessageInv
  <2>2. \A i \in 0 .. Size(w.buff) - 1 : BodyByte(m, i + 1) \in Int
    BY <2>1, Counts DEF WriterInv, BodyByte
  <2>3. nb \in [0 .. Size(w.buff) - 1 -> Int]
    BY <2>1, <2>2
  <2>4. QED
    BY <2>1, <2>3, SizeIs
<1>3. \A i \in 0 .. Size(w.buff) - 1 :
        nb[i] = IF i \in sent .. sent + k - 1 THEN BodyByte(m, i + 1) ELSE w.buff[i]
  BY SizeOf DEF WriterInv, WTypes, BuffInv, MessageInv
<1> HIDE DEF nb
<1>4. w' = [buff |-> nb, gen |-> w.gen, preWriteIndex |-> w.preWriteIndex,
            writeIndex |-> w.writeIndex]
  BY <1>1 DEF WriterInv, WTypes, BuffInv, MessageInv
<1>5. /\ sent \in Nat /\ k \in Nat /\ k > 0 /\ body \in Nat /\ m \in Nat /\ m > 0
      /\ w.writeIndex = FixedLen /\ w.preWriteIndex = 0
      /\ FixedLen > 0 /\ FixedLen <= Size(w.buff) /\ Size(w.buff) \in Nat
  <2>1. sent \in Nat /\ k \in Nat /\ k > 0 /\ body \in Nat /\ m \in Nat /\ m > 0
    BY <1>1, Counts DEF WriterInv, WTypes, BuffInv, MessageInv
  <2>2. w.writeIndex = FixedLen /\ w.preWriteIndex = 0 /\ FixedLen > 0
    BY <1>1, <2>1, Numbers DEF WriterInv, IndexInv, RegionInv, Written
  <2>3. QED
    BY <2>1, <2>2, SizeOf DEF WriterInv, WTypes, BuffInv, MessageInv
<1>6. WTypes'
  <2>1. BuffInv'
    BY <1>2, <1>4 DEF WriterInv, WTypes, BuffInv
  <2>2. MessageInv'
    BY <1>1, <1>5 DEF WriterInv, WTypes, MessageInv
  <2>3. QED
    BY <2>1, <2>2 DEF WTypes
<1>7. IndexInv'
  BY <1>1, <1>4, <1>5 DEF WriterInv, IndexInv, Written
<1>8. RegionInv'
  BY <1>1, <1>2, <1>4 DEF WriterInv, RegionInv
<1>9. BytesInv'
  <2>1. ASSUME NEW i \in 0 .. FixedLen - 1 PROVE nb[i] = Byte(i)'
    <3>1. w.buff[i] = IF i < sent THEN BodyByte(m, i + 1) ELSE Zero
      BY <1>1, <1>5 DEF WriterInv, BytesInv, Byte
    <3>2. Byte(i)' = IF i < sent + k THEN BodyByte(m, i + 1) ELSE Zero
      BY <1>1 DEF Byte
    <3>3. nb[i] = IF i \in sent .. sent + k - 1 THEN BodyByte(m, i + 1) ELSE w.buff[i]
      BY <1>3, <1>5, Numbers
    <3>4. QED
      BY <1>5, <3>1, <3>2, <3>3, Numbers
  <2>2. QED
    BY <1>1, <1>4, <1>5, <2>1 DEF WriterInv, BytesInv
<1>10. QED
  BY <1>6, <1>7, <1>8, <1>9 DEF WriterInv

\* A Write keeps the writer in order and the bytes that wait in it.
LEMMA WriteKeeps ==
    ASSUME WTypes, NEW b \in Seq(Int), ~Stuck(Len(b)), w' = Write(b)
    PROVE  /\ BuffInv'
           /\ w'.preWriteIndex = w.preWriteIndex
           /\ w'.writeIndex = w.writeIndex + Len(b)
           /\ w'.gen = IF Fits(Len(b)) THEN w.gen ELSE w.gen + 1
           /\ Fits(Len(b)) => Size(w'.buff) = Size(w.buff)
           /\ \A i \in w.preWriteIndex .. w.writeIndex - 1 : w'.buff[i] = w.buff[i]
           /\ \A i \in w.writeIndex .. w.writeIndex + Len(b) - 1 :
                w'.buff[i] = b[i - w.writeIndex + 1]
<1>1. \A i \in w.preWriteIndex .. w.writeIndex - 1 : i \in 0 .. w.writeIndex - 1 /\ i \in DOMAIN w.buff
  BY SizeOf DEF WTypes, BuffInv
<1>2. w.preWriteIndex <= w.writeIndex + Len(b)
  BY Counts
<1>3. QED
  BY <1>1, <1>2, WriteIs DEF BuffInv

\* The payload codec writes to the buffer.
LEMMA MarshalWriteStep ==
    ASSUME WriterInv, NEW k \in 1 .. body, Marshal(k), codec # "fixed", ~Stuck(k)
    PROVE  WriterInv'
<1> DEFINE b == [i \in 1 .. k |-> BodyByte(m, sent + i)]
<1>1. /\ wpc = "marshal" /\ k <= body - sent /\ w' = Write(b) /\ wpc' = "marshal"
      /\ sent' = sent + k
      /\ UNCHANGED <<header, codec, m, body, flushes, wire, lost, first, given>>
  BY DEF Marshal
<1>2. /\ sent \in Nat /\ k \in Nat /\ k > 0 /\ body \in Nat /\ m \in Nat /\ m > 0
      /\ codec \in {"variable", "delimiter"}
      /\ w.writeIndex \in Nat /\ w.preWriteIndex \in Nat /\ w.preWriteIndex <= w.writeIndex
  BY <1>1, Counts DEF WriterInv, WTypes, MessageInv
<1>3. b \in Seq(Int) /\ Len(b) = k
  <2>1. \A i \in 1 .. k : BodyByte(m, sent + i) \in Int
    BY <1>2 DEF BodyByte
  <2>2. b \in [1 .. k -> Int]
    BY <2>1
  <2>3. QED
    BY <1>2, <2>2
<1>4. \A i \in 1 .. k : b[i] = BodyByte(m, sent + i)
  OBVIOUS
<1> HIDE DEF b
<1>5. /\ BuffInv'
      /\ w'.preWriteIndex = w.preWriteIndex
      /\ w'.writeIndex = w.writeIndex + k
      /\ w'.gen = IF Fits(k) THEN w.gen ELSE w.gen + 1
      /\ Fits(k) => Size(w'.buff) = Size(w.buff)
      /\ \A i \in w.preWriteIndex .. w.writeIndex - 1 : w'.buff[i] = w.buff[i]
      /\ \A i \in w.writeIndex .. w.writeIndex + k - 1 : w'.buff[i] = b[i - w.writeIndex + 1]
  BY <1>1, <1>3, WriteKeeps DEF WriterInv
<1>6. w.writeIndex = IF codec = "variable" THEN HeaderLen + sent ELSE sent
  BY <1>1, <1>2, Numbers DEF WriterInv, IndexInv, Written, Framed
<1>7. MessageInv'
  BY <1>1, <1>2 DEF WriterInv, WTypes, MessageInv
<1>8. IndexInv'
  BY <1>1, <1>2, <1>5, <1>6, Numbers DEF WriterInv, IndexInv, Written, Framed
<1>9. RegionInv'
  <2>1. w.gen \in Nat /\ flushes \in Nat
    BY Counts DEF WriterInv
  <2>2. w.gen = 0 /\ Size(w.buff) = WriteBuf => (Fits(k) <=> w.writeIndex + k <= WriteBuf)
    BY <1>2, Numbers DEF Fits
  <2>3. QED
    BY <1>1, <1>2, <1>5, <2>1, <2>2, Numbers DEF WriterInv, RegionInv
<1>10. BytesInv'
  <2>1. ASSUME NEW i \in 0 .. w.writeIndex - 1 PROVE Byte(i)' = Byte(i)
    <3>1. CASE codec = "variable"
      BY <1>1, <3>1 DEF Byte, Put
    <3>2. CASE codec = "delimiter"
      BY <1>1, <1>2, <1>6, <3>2 DEF Byte
    <3>3. QED
      BY <1>2, <3>1, <3>2
  <2>2. ASSUME NEW i \in w.writeIndex .. w.writeIndex + k - 1 PROVE w'.buff[i] = Byte(i)'
    <3>1. w'.buff[i] = BodyByte(m, sent + (i - w.writeIndex + 1))
      BY <1>2, <1>4, <1>5
    <3>2. CASE codec = "variable"
      <4>1. Byte(i)' = BodyByte(m, i - HeaderLen + 1)
        BY <1>1, <1>2, <1>6, <3>2, Numbers DEF Byte
      <4>2. sent + (i - w.writeIndex + 1) = i - HeaderLen + 1
        BY <1>2, <1>6, <3>2, Numbers
      <4>3. QED
        BY <3>1, <4>1, <4>2
    <3>3. CASE codec = "delimiter"
      <4>1. Byte(i)' = BodyByte(m, i + 1)
        BY <1>1, <1>2, <1>6, <3>3 DEF Byte
      <4>2. sent + (i - w.writeIndex + 1) = i + 1
        BY <1>2, <1>6, <3>3
      <4>3. QED
        BY <3>1, <4>1, <4>2
    <3>4. QED
      BY <1>2, <3>2, <3>3
  <2>3. \A i \in 0 .. w.preWriteIndex - 1 : wire'[first' + i + 1] = Byte(i)'
    BY <1>1, <1>2, <2>1 DEF WriterInv, BytesInv
  <2>4. \A i \in w.preWriteIndex .. w.writeIndex + k - 1 : w'.buff[i] = Byte(i)'
    BY <1>1, <1>2, <1>5, <2>1, <2>2 DEF WriterInv, BytesInv
  <2>5. \A i \in w'.preWriteIndex .. w'.writeIndex - 1 : w'.buff[i] = Byte(i)'
    BY <1>2, <1>5, <2>4
  <2>6. Len(wire') = first' + w'.preWriteIndex
    BY <1>1, <1>5 DEF WriterInv, BytesInv
  <2>7. QED
    BY <1>5, <2>3, <2>5, <2>6 DEF BytesInv
<1>11. QED
  BY <1>5, <1>7, <1>8, <1>9, <1>10 DEF WriterInv, WTypes

\* It meets a capacity of zero.
LEMMA MarshalHangStep ==
    ASSUME WriterInv, NEW k \in 1 .. body, Marshal(k), codec # "fixed", Stuck(k)
    PROVE  WriterInv'
<1>1. /\ wpc = "marshal" /\ wpc' = "hang"
      /\ UNCHANGED <<w, sent, header, codec, m, body, flushes, wire, lost, first, given>>
  BY DEF Marshal
<1>2. BuffInv' /\ MessageInv'
  BY <1>1 DEF WriterInv, WTypes, BuffInv, MessageInv
<1>3. IndexInv' /\ RegionInv'
  BY <1>1 DEF WriterInv, WTypes, IndexInv, RegionInv
<1>4. BytesInv'
  BY <1>1 DEF WriterInv, BytesInv, Byte, Put
<1>5. QED
  BY <1>2, <1>3, <1>4 DEF WriterInv, WTypes

\* Flush appends the bytes that wait to the wire.
LEMMA FlushedWire ==
    ASSUME WTypes, BytesInv, wpc \in {"marshal", "frame", "flush"}
    PROVE  LET all == wire \o Unflushed IN
           /\ all \in Seq(Int) /\ Len(all) = first + w.writeIndex /\ Len(wire) <= Len(all)
           /\ \A i \in 0 .. w.writeIndex - 1 : all[first + i + 1] = Byte(i)
<1> DEFINE all == wire \o Unflushed
           pre == w.preWriteIndex
           write == w.writeIndex
<1>1. /\ Unflushed \in Seq(Int) /\ Len(Unflushed) = write - pre
      /\ \A i \in 1 .. Len(Unflushed) : Unflushed[i] = w.buff[pre + i - 1]
  BY FlushIs
<1>2. write \in Nat /\ pre \in Nat /\ pre <= write /\ Len(wire) \in Nat /\ first \in Nat
  BY Counts
<1>3. /\ all \in Seq(Int) /\ Len(all) = Len(wire) + (write - pre)
      /\ \A i \in 1 .. Len(all) : all[i] = IF i <= Len(wire) THEN wire[i]
                                               ELSE Unflushed[i - Len(wire)]
  <2>1. wire \in Seq(Int) /\ Unflushed \in Seq(Int) /\ Len(Unflushed) = write - pre
    BY <1>1 DEF WTypes, MessageInv
  <2>2. /\ all \in Seq(Int) /\ Len(all) = Len(wire) + (write - pre)
        /\ \A i \in 1 .. Len(wire) + (write - pre) :
             all[i] = IF i <= Len(wire) THEN wire[i] ELSE Unflushed[i - Len(wire)]
    <3>1. /\ all \in Seq(Int) /\ Len(all) = Len(wire) + Len(Unflushed)
          /\ \A j \in 1 .. Len(wire) + Len(Unflushed) :
               all[j] = IF j <= Len(wire) THEN wire[j] ELSE Unflushed[j - Len(wire)]
      BY <2>1, ConcatProperties, Zenon
    <3> HIDE DEF all
    <3>2. QED
      BY <2>1, <3>1, Zenon
  <2> HIDE DEF all
  <2>3. QED
    BY <2>2, Zenon
<1>4. /\ Len(wire) = first + pre
      /\ \A i \in 0 .. pre - 1 : wire[first + i + 1] = Byte(i)
      /\ \A i \in pre .. write - 1 : w.buff[i] = Byte(i)
  BY DEF BytesInv
<1> HIDE DEF pre, write, all
<1>5. Len(all) = first + write /\ Len(wire) <= Len(all)
  BY <1>2, <1>3, <1>4
<1>6. ASSUME NEW i \in 0 .. write - 1 PROVE all[first + i + 1] = Byte(i)
  <2>1. /\ i \in Nat /\ i < write /\ pre \in Nat /\ write \in Nat /\ first \in Nat
        /\ Len(wire) = first + pre /\ Len(all) = first + write
    BY <1>2, <1>4, <1>5
  <2>2. CASE i < pre
    <3>1. /\ first + i + 1 \in 1 .. Len(all) /\ first + i + 1 <= Len(wire)
          /\ i \in 0 .. pre - 1
      BY <2>1, <2>2
    <3>2. QED
      BY <1>3, <1>4, <3>1
  <2>3. CASE i >= pre
    <3>1. /\ first + i + 1 \in 1 .. Len(all) /\ first + i + 1 > Len(wire)
          /\ first + i + 1 - Len(wire) = i - pre + 1
          /\ i - pre + 1 \in 1 .. Len(Unflushed) /\ pre + (i - pre + 1) - 1 = i
          /\ i \in pre .. write - 1
      BY <1>1, <1>2, <1>4, <1>5, <2>1, <2>3, SMTT(30)
    <3>2. all[first + i + 1] = Unflushed[i - pre + 1]
      <4>1. ~(first + i + 1 <= Len(wire))
        BY <2>1, <3>1
      <4>2. \A j \in 1 .. Len(all) : ~(j <= Len(wire)) => all[j] = Unflushed[j - Len(wire)]
        BY <1>3
      <4> DEFINE j == first + i + 1
      <4>3. j \in 1 .. Len(all) /\ ~(j <= Len(wire)) /\ j - Len(wire) = i - pre + 1
        BY <2>1, <3>1, <4>1
      <4> HIDE DEF j
      <4>4. all[j] = Unflushed[i - pre + 1]
        BY <4>2, <4>3
      <4>5. QED
        BY <4>4 DEF j
    <3>3. Unflushed[i - pre + 1] = w.buff[i]
      BY <1>1, <3>1
    <3>4. QED
      BY <1>4, <3>1, <3>2, <3>3
  <2>4. QED
    BY <2>1, <2>2, <2>3
<1>7. QED
  BY <1>3, <1>5, <1>6 DEF write, all

\* It flushes.
LEMMA MarshalFlushStep ==
    ASSUME WriterInv, MarshalFlush
    PROVE  WriterInv'
<1>1. /\ wpc = "marshal" /\ codec # "fixed" /\ flushes < Flushes /\ flushes' = flushes + 1
      /\ wire' = wire \o Unflushed /\ w' = Flushed
      /\ UNCHANGED <<header, codec, m, body, sent, wpc, lost, first, given>>
  BY DEF MarshalFlush
<1>2. /\ w' \in [buff : Bytes, gen : Nat, preWriteIndex : Nat, writeIndex : Nat]
      /\ w'.preWriteIndex = w.writeIndex /\ w'.writeIndex = w.writeIndex /\ w'.gen = w.gen + 1
  BY <1>1, FlushIs DEF WriterInv
<1>3. /\ sent \in Nat /\ body \in Nat /\ m \in Nat /\ m > 0 /\ w.gen \in Nat /\ flushes \in Nat
      /\ codec \in {"variable", "delimiter"} /\ Len(wire) \in Nat /\ first \in 0 .. Len(wire)
      /\ w.writeIndex \in Nat
  BY <1>1, Counts DEF WriterInv, WTypes, MessageInv
<1>4. /\ wire' \in Seq(Int) /\ Len(wire') = first + w.writeIndex /\ Len(wire) <= Len(wire')
      /\ \A i \in 0 .. w.writeIndex - 1 : wire'[first + i + 1] = Byte(i)
  BY <1>1, FlushedWire DEF WriterInv
<1>5. w.writeIndex = IF codec = "variable" THEN HeaderLen + sent ELSE sent
  BY <1>1, <1>3, Numbers, SMTT(30) DEF WriterInv, IndexInv, Written, Framed
<1>6. BuffInv'
  BY <1>2, <1>3 DEF BuffInv
<1>7. MessageInv'
  <2>1. first' \in 0 .. Len(wire') /\ flushes' \in 0 .. Flushes
    BY <1>1, <1>3, <1>4, Numbers DEF WriterInv, WTypes, MessageInv
  <2>2. QED
    BY <1>1, <1>4, <2>1 DEF WriterInv, WTypes, MessageInv
<1>8. IndexInv'
  <2>1. w'.writeIndex = Written'
    BY <1>1, <1>2, <1>3 DEF WriterInv, IndexInv, Written, Framed
  <2>2. QED
    BY <1>1, <1>2, <1>3, <1>5, <2>1, Numbers DEF WriterInv, IndexInv
<1>9. RegionInv'
  BY <1>1, <1>2, <1>3 DEF WriterInv, RegionInv
<1>10. BytesInv'
  <2>1. \A i \in 0 .. w.writeIndex - 1 : Byte(i)' = Byte(i)
    BY <1>1 DEF Byte, Put
  <2>2. w'.preWriteIndex .. w'.writeIndex - 1 = {}
    BY <1>2, <1>3
  <2>3. QED
    BY <1>1, <1>2, <1>4, <2>1, <2>2 DEF BytesInv
<1>11. QED
  BY <1>6, <1>7, <1>8, <1>9, <1>10 DEF WriterInv, WTypes

\* It fails or returns.
LEMMA MarshalEndStep ==
    ASSUME WriterInv, MarshalFails \/ Marshalled
    PROVE  WriterInv'
<1>1. /\ wpc = "marshal"
      /\ UNCHANGED <<w, sent, header, codec, m, body, flushes, wire, first, given>>
      /\ \/ wpc' = "error" /\ lost' = (Len(wire) > first)
         \/ wpc' = "frame" /\ lost' = lost /\ sent = body
  BY DEF MarshalFails, Marshalled
<1>2. /\ Len(wire) = first + w.preWriteIndex /\ first \in Nat /\ w.preWriteIndex \in Nat
      /\ ~lost
  BY <1>1, Counts DEF WriterInv, BytesInv, RegionInv
<1>3. /\ lost' \in BOOLEAN
      /\ wpc' = "frame" => ~lost'
      /\ wpc' = "error" => (lost' <=> w.preWriteIndex > 0)
  <2>1. Len(wire) > first <=> w.preWriteIndex > 0
    BY <1>2
  <2>2. CASE wpc' = "error" /\ lost' = (Len(wire) > first)
    <3>1. CASE Len(wire) > first
      <4>1. lost' = TRUE
        BY <2>2, <3>1, Zenon
      <4>2. QED
        BY <2>1, <2>2, <3>1, <4>1
    <3>2. CASE ~(Len(wire) > first)
      <4>1. lost' = FALSE
        <5>1. (Len(wire) > first) = FALSE
          BY <1>2, <3>2, SMT
        <5>2. QED
          BY <2>2, <5>1, Zenon
      <4>2. QED
        BY <2>1, <2>2, <3>2, <4>1
    <3>3. QED
      BY <3>1, <3>2
  <2>3. CASE wpc' = "frame" /\ lost' = lost
    BY <1>2, <2>3 DEF WriterInv, WTypes, MessageInv
  <2>4. QED
    BY <1>1, <2>2, <2>3
<1>4. wpc' \in {"frame", "error"} /\ (wpc' = "frame" => sent = body)
  BY <1>1
<1>5. UNCHANGED <<w, sent, header, codec, m, body, flushes, wire, first, given>> /\ wpc = "marshal"
  BY <1>1
<1>6. BuffInv' /\ MessageInv'
  BY <1>3, <1>4, <1>5 DEF WriterInv, WTypes, BuffInv, MessageInv
<1>7. IndexInv'
  BY <1>4, <1>5 DEF WriterInv, WTypes, IndexInv, Written, Framed
<1>8. RegionInv'
  BY <1>2, <1>3, <1>4, <1>5 DEF WriterInv, WTypes, RegionInv
<1>9. BytesInv'
  BY <1>4, <1>5 DEF WriterInv, BytesInv, Byte, Put
<1>10. QED
  BY <1>6, <1>7, <1>8, <1>9 DEF WriterInv, WTypes

\* The length is put into the header, or lost.
LEMMA PutLengthStep ==
    ASSUME WriterInv, PutLength
    PROVE  WriterInv'
<1> DEFINE nb == [i \in DOMAIN w.buff |->
                    IF header = w.gen /\ i < HeaderLen - 1 THEN HeaderByte(sent) ELSE w.buff[i]]
<1>1. /\ wpc = "frame" /\ codec = "variable" /\ wpc' = "flush"
      /\ w' = [w EXCEPT !.buff = nb] /\ lost' = (header # w.gen)
      /\ UNCHANGED <<header, codec, m, body, sent, flushes, wire, first, given>>
  BY DEF PutLength
<1>2. /\ header = 0 /\ w.gen \in Nat /\ sent = body /\ body \in Nat /\ m \in Nat /\ m > 0
      /\ w.writeIndex \in Nat /\ w.preWriteIndex \in Nat /\ w.preWriteIndex <= w.writeIndex
      /\ flushes \in Nat
  BY <1>1, Counts DEF WriterInv, WTypes, MessageInv, IndexInv
<1>3. /\ lost' \in BOOLEAN /\ (lost' <=> w.gen > 0)
      /\ w.gen = 0 => flushes = 0 /\ w.preWriteIndex = 0
  <2>1. lost' \in BOOLEAN /\ (lost' <=> w.gen # 0)
    BY <1>1, <1>2
  <2>2. w.gen = 0 => flushes = 0 /\ w.preWriteIndex = 0
    BY <1>1, <1>2 DEF WriterInv, RegionInv
  <2>3. QED
    BY <1>2, <2>1, <2>2
<1>4. /\ Size(w.buff) \in Nat /\ DOMAIN w.buff = 0 .. Size(w.buff) - 1
      /\ w.buff \in [0 .. Size(w.buff) - 1 -> Int]
  BY SizeOf DEF WriterInv, WTypes, BuffInv
<1>5. nb \in Bytes /\ Size(nb) = Size(w.buff)
  <2>1. HeaderByte(sent) \in Int
    BY <1>2 DEF HeaderByte
  <2>2. nb \in [0 .. Size(w.buff) - 1 -> Int]
    BY <1>4, <2>1
  <2>3. QED
    BY <1>4, <2>2, SizeIs
<1>6. \A i \in 0 .. Size(w.buff) - 1 :
        nb[i] = IF w.gen = 0 /\ i < HeaderLen - 1 THEN HeaderByte(body) ELSE w.buff[i]
  BY <1>2, <1>4
<1> HIDE DEF nb
<1>7. w' = [buff |-> nb, gen |-> w.gen, preWriteIndex |-> w.preWriteIndex,
            writeIndex |-> w.writeIndex]
  BY <1>1 DEF WriterInv, WTypes, BuffInv
<1>8. BuffInv'
  BY <1>5, <1>7 DEF WriterInv, WTypes, BuffInv
<1>9. MessageInv'
  BY <1>1, <1>2, <1>3 DEF WriterInv, WTypes, MessageInv
<1>10. w.writeIndex = HeaderLen + body
  BY <1>1, <1>2 DEF WriterInv, IndexInv, Written
<1>11. IndexInv'
  BY <1>1, <1>2, <1>7, <1>10 DEF WriterInv, IndexInv, Written
<1>12. RegionInv'
  <2>1. w.gen > 0 <=> flushes > 0 \/ HeaderLen + body > WriteBuf
    BY <1>1, <1>2, <1>10 DEF WriterInv, RegionInv
  <2>2. QED
    BY <1>1, <1>2, <1>3, <1>7, <2>1 DEF WriterInv, RegionInv
<1>13. BytesInv'
  <2>1. ASSUME NEW i \in w.preWriteIndex .. w.writeIndex - 1 PROVE nb[i] = Byte(i)'
    <3>1. i \in 0 .. Size(w.buff) - 1
      BY <1>2, <1>4 DEF WriterInv, WTypes, BuffInv
    <3>2. w.buff[i] = IF i < HeaderLen - 1 THEN Zero ELSE Byte(i)
      BY <1>1 DEF WriterInv, BytesInv, Byte, Put
    <3>3. Byte(i)' = IF i < HeaderLen - 1 THEN (IF lost' THEN Zero ELSE HeaderByte(body)) ELSE Byte(i)
      BY <1>1 DEF Byte, Put
    <3>4. nb[i] = IF w.gen = 0 /\ i < HeaderLen - 1 THEN HeaderByte(body) ELSE w.buff[i]
      BY <1>6, <3>1
    <3>5. QED
      BY <1>2, <1>3, <3>2, <3>3, <3>4
  <2>2. ASSUME NEW i \in 0 .. w.preWriteIndex - 1 PROVE wire[first + i + 1] = Byte(i)'
    <3>1. lost'
      BY <1>2, <1>3
    <3>2. Byte(i)' = Byte(i)
      BY <1>1, <3>1 DEF Byte, Put
    <3>3. QED
      BY <3>2 DEF WriterInv, BytesInv
  <2>3. QED
    BY <1>1, <1>7, <2>1, <2>2 DEF WriterInv, BytesInv
<1>14. QED
  BY <1>8, <1>9, <1>11, <1>12, <1>13 DEF WriterInv, WTypes

\* The delimiter is appended, or never.
LEMMA AppendDelimiterStep ==
    ASSUME WriterInv, AppendDelimiter
    PROVE  WriterInv'
<1> DEFINE b == Repeat(DelimByte, DelimLen)
<1>1. /\ wpc = "frame" /\ codec = "delimiter"
      /\ IF Stuck(DelimLen) THEN wpc' = "hang" /\ UNCHANGED w
                            ELSE wpc' = "flush" /\ w' = Write(b)
      /\ UNCHANGED <<header, codec, m, body, sent, flushes, wire, lost, first, given>>
  BY DEF AppendDelimiter
<1>2. /\ sent = body /\ body \in Nat /\ m \in Nat /\ m > 0 /\ w.writeIndex = sent
      /\ w.preWriteIndex \in Nat /\ w.preWriteIndex <= w.writeIndex /\ ~lost
  <2>1. /\ sent = body /\ body \in Nat /\ m \in Nat /\ m > 0
        /\ w.preWriteIndex \in Nat /\ w.preWriteIndex <= w.writeIndex
    BY <1>1, Counts DEF WriterInv, WTypes, MessageInv, IndexInv
  <2>2. w.writeIndex = sent /\ ~lost
    BY <1>1, <2>1 DEF WriterInv, IndexInv, RegionInv, Written, Framed
  <2>3. QED
    BY <2>1, <2>2
<1>3. b \in Seq(Int) /\ Len(b) = DelimLen /\ \A i \in 1 .. DelimLen : b[i] = DelimByte
  <2>1. b \in [1 .. DelimLen -> Int] /\ \A i \in 1 .. DelimLen : b[i] = DelimByte
    BY DEF Repeat, DelimByte
  <2>2. QED
    BY <2>1, Numbers
<1> HIDE DEF b
<1>4. CASE Stuck(DelimLen)
  <2>1. wpc' = "hang" /\ UNCHANGED w
    BY <1>1, <1>4
  <2>2. BuffInv' /\ MessageInv'
    BY <1>1, <2>1 DEF WriterInv, WTypes, BuffInv, MessageInv
  <2>3. IndexInv' /\ RegionInv'
    BY <1>1, <2>1 DEF WriterInv, WTypes, IndexInv, RegionInv
  <2>4. BytesInv'
    BY <1>1, <2>1 DEF WriterInv, BytesInv, Byte
  <2>5. QED
    BY <2>2, <2>3, <2>4 DEF WriterInv, WTypes
<1>5. CASE ~Stuck(DelimLen)
  <2>1. wpc' = "flush" /\ w' = Write(b)
    BY <1>1, <1>5
  <2>2. /\ BuffInv'
        /\ w'.preWriteIndex = w.preWriteIndex
        /\ w'.writeIndex = w.writeIndex + DelimLen
        /\ \A i \in w.preWriteIndex .. w.writeIndex - 1 : w'.buff[i] = w.buff[i]
        /\ \A i \in w.writeIndex .. w.writeIndex + DelimLen - 1 :
             w'.buff[i] = b[i - w.writeIndex + 1]
    BY <1>3, <1>5, <2>1, WriteKeeps DEF WriterInv
  <2>3. MessageInv'
    BY <1>1, <1>2, <2>1 DEF WriterInv, WTypes, MessageInv
  <2>4. IndexInv'
    BY <1>1, <1>2, <2>1, <2>2 DEF WriterInv, IndexInv, Written, Framed
  <2>5. RegionInv'
    BY <1>1, <1>2, <2>1, <2>2 DEF WriterInv, RegionInv
  <2>6. BytesInv'
    <3>1. \A i \in Int : Byte(i)' = Byte(i)
      BY <1>1 DEF Byte
    <3>2. ASSUME NEW i \in w.writeIndex .. w.writeIndex + DelimLen - 1 PROVE w'.buff[i] = Byte(i)
      <4>1. i - w.writeIndex + 1 \in 1 .. DelimLen /\ ~(i < sent)
        BY <1>2, Numbers
      <4>2. QED
        BY <1>1, <1>3, <2>2, <4>1 DEF Byte
    <3>3. ASSUME NEW i \in w.preWriteIndex .. w.writeIndex - 1 PROVE w'.buff[i] = Byte(i)
      BY <1>1, <2>2 DEF WriterInv, BytesInv
    <3>4. \A i \in w'.preWriteIndex .. w'.writeIndex - 1 : w'.buff[i] = Byte(i)'
      BY <1>2, <2>2, <3>1, <3>2, <3>3, Numbers
    <3>5. \A i \in 0 .. w'.preWriteIndex - 1 : wire'[first' + i + 1] = Byte(i)'
      BY <1>1, <2>2, <3>1 DEF WriterInv, BytesInv
    <3>6. Len(wire') = first' + w'.preWriteIndex
      BY <1>1, <2>2 DEF WriterInv, BytesInv
    <3>7. QED
      BY <3>4, <3>5, <3>6 DEF BytesInv
  <2>7. QED
    BY <2>2, <2>3, <2>4, <2>5, <2>6 DEF WriterInv, WTypes
<1>6. QED
  BY <1>4, <1>5

\* The last Flush succeeds: the packet is on the wire, ...
LEMMA FlushOkStep ==
    ASSUME WriterInv, Flush, wpc' = "ok"
    PROVE  WriterInv'
<1>1. /\ wpc = "flush" \/ (wpc = "frame" /\ codec = "fixed")
      /\ wire' = wire \o Unflushed /\ given' = Append(given, <<m, body>>) /\ w' = Flushed
      /\ UNCHANGED <<header, codec, m, body, sent, flushes, first, lost>>
  BY DEF Flush
<1>2. /\ w' \in [buff : Bytes, gen : Nat, preWriteIndex : Nat, writeIndex : Nat]
      /\ w'.preWriteIndex = w.writeIndex /\ w'.writeIndex = w.writeIndex
  BY FlushIs, <1>1 DEF WriterInv
<1>3. /\ sent \in Nat /\ body \in Bodies /\ m \in 1 .. Messages /\ flushes \in Nat
      /\ codec \in {"variable", "fixed", "delimiter"}
      /\ Len(wire) \in Nat /\ first \in 0 .. Len(wire) /\ w.writeIndex \in Nat
  BY <1>1, Counts DEF WriterInv, WTypes, MessageInv
<1>4. /\ wire' \in Seq(Int) /\ Len(wire') = first + w.writeIndex /\ Len(wire) <= Len(wire')
      /\ \A i \in 0 .. w.writeIndex - 1 : wire'[first + i + 1] = Byte(i)
  BY <1>1, FlushedWire DEF WriterInv
<1>5. BuffInv'
  BY <1>2, <1>3 DEF BuffInv
<1>6. MessageInv'
  <2>1. first' \in 0 .. Len(wire')
    BY <1>1, <1>3, <1>4
  <2>2. given' \in Seq((1 .. Messages) \X Bodies)
    BY <1>1, <1>3 DEF WriterInv, WTypes, MessageInv
  <2>3. QED
    BY <1>1, <1>3, <1>4, <2>1, <2>2 DEF WriterInv, WTypes, MessageInv
<1>7. IndexInv'
  <2>1. w'.writeIndex = Written'
    <3>1. CASE codec = "fixed"
      BY <1>1, <1>2, <1>3, <3>1 DEF WriterInv, IndexInv, Written
    <3>2. CASE codec # "fixed"
      BY <1>1, <1>2, <1>3, <3>2 DEF WriterInv, IndexInv, Written, Framed
    <3>3. QED
      BY <3>1, <3>2
  <2>2. sent = body
    BY <1>1 DEF WriterInv, IndexInv
  <2>3. codec = "variable" => w.writeIndex = HeaderLen + sent
    BY <1>1, <1>3 DEF WriterInv, IndexInv, Written
  <2>4. QED
    BY <1>1, <1>2, <1>3, <2>1, <2>2, <2>3, Numbers DEF WriterInv, IndexInv
<1>8. RegionInv'
  BY <1>1, <1>2, <1>3 DEF WriterInv, RegionInv
<1>9. BytesInv'
  <2>1. \A i \in 0 .. w.writeIndex - 1 : Byte(i)' = Byte(i)
    BY <1>1, <1>3 DEF Byte, Put
  <2>2. QED
    BY <1>1, <1>2, <1>4, <2>1 DEF BytesInv
<1>10. QED
  BY <1>5, <1>6, <1>7, <1>8, <1>9 DEF WriterInv, WTypes

\* ... or fails.
LEMMA FlushFailsStep ==
    ASSUME WriterInv, Flush, wpc' # "ok"
    PROVE  WriterInv'
<1>1. /\ wpc = "flush" \/ (wpc = "frame" /\ codec = "fixed")
      /\ wpc' = "error" /\ lost' = TRUE
      /\ UNCHANGED <<w, wire, given, header, codec, m, body, sent, flushes, first>>
  BY DEF Flush
<1>2. BuffInv' /\ MessageInv'
  BY <1>1 DEF WriterInv, WTypes, BuffInv, MessageInv
<1>3. IndexInv'
  <2>1. codec = "delimiter" => w.preWriteIndex <= sent
    BY <1>1 DEF WriterInv, IndexInv
  <2>2. QED
    BY <1>1, <2>1 DEF WriterInv, IndexInv
<1>4. RegionInv'
  BY <1>1 DEF WriterInv, RegionInv
<1>5. BytesInv'
  <2>1. ASSUME NEW i \in 0 .. w.preWriteIndex - 1 PROVE Byte(i)' = Byte(i)
    <3>1. w.preWriteIndex > 0 /\ m > 0 /\ flushes \in Nat
      BY <1>1, Counts DEF WriterInv, WTypes, MessageInv
    <3>2. flushes > 0
      BY <1>1, <3>1 DEF WriterInv, RegionInv
    <3>3. codec = "variable" => lost
      BY <1>1, <3>1, <3>2 DEF WriterInv, RegionInv
    <3>4. CASE codec = "variable"
      BY <1>1, <3>3, <3>4 DEF Byte, Put
    <3>5. CASE codec = "fixed"
      BY <1>1, <3>5 DEF Byte
    <3>6. CASE codec = "delimiter"
      BY <1>1, <3>6 DEF Byte
    <3>7. QED
      BY <3>4, <3>5, <3>6, Counts DEF WriterInv
  <2>2. QED
    BY <1>1, <2>1 DEF WriterInv, BytesInv
<1>6. QED
  BY <1>2, <1>3, <1>4, <1>5 DEF WriterInv, WTypes

\* Every step of the writing side keeps its invariant.
LEMMA WriterStep ==
    ASSUME WriterInv, WriterNext
    PROVE  WriterInv'
<1>1. ASSUME NEW k \in 1 .. body, Marshal(k) PROVE WriterInv'
  BY <1>1, MarshalFixedStep, MarshalWriteStep, MarshalHangStep
<1>2. ASSUME Flush PROVE WriterInv'
  BY <1>2, FlushOkStep, FlushFailsStep
<1>3. QED
  BY <1>1, <1>2, EncodeStep, MarshalFlushStep, MarshalEndStep, PutLengthStep, AppendDelimiterStep
     DEF WriterNext

\* The state before the first message.
LEMMA WriterStart == WriterInit => WriterInv
<1> SUFFICES ASSUME WriterInit PROVE WriterInv
  OBVIOUS
<1>1. /\ w = [buff |-> [i \in 0 .. WriteBuf - 1 |-> Zero], gen |-> 0,
              preWriteIndex |-> 0, writeIndex |-> 0]
      /\ header = 0 /\ codec \in Codecs /\ m = 0 /\ body = 0 /\ sent = 0 /\ flushes = 0
      /\ wpc = "ok" /\ wire = <<>> /\ first = 0 /\ lost = FALSE /\ given = <<>>
  BY DEF WriterInit, NewWriter
<1>2. w.buff \in Bytes
  BY <1>1, SizeIs, Numbers DEF Zero
<1>3. BuffInv
  BY <1>1, <1>2 DEF BuffInv
<1>4. MessageInv
  <2>1. wire \in Seq(Int) /\ Len(wire) = 0 /\ given \in Seq((1 .. Messages) \X Bodies)
    BY <1>1
  <2>2. lost \in BOOLEAN /\ ~lost
    BY <1>1, Zenon
  <2>3. header = 0 /\ codec \in Codecs /\ body \in Bodies \cup {0} /\ sent \in 0 .. body
        /\ wpc = "ok" /\ first \in 0 .. Len(wire)
    BY <1>1, <2>1
  <2>4. m = 0 /\ m \in 0 .. Messages /\ flushes \in 0 .. Flushes
    BY <1>1, Numbers
  <2>5. QED
    BY <2>1, <2>2, <2>3, <2>4 DEF MessageInv
<1>5. IndexInv /\ RegionInv
  BY <1>1, Numbers DEF IndexInv, RegionInv
<1>6. BytesInv
  BY <1>1 DEF BytesInv
<1>7. QED
  BY <1>3, <1>4, <1>5, <1>6 DEF WriterInv, WTypes

-----------------------------------------------------------------------------
(* What the invariant says of packets *)

\* The bytes of a header, of a padding, of a delimiter, ...
LEMMA RepeatIs ==
    ASSUME NEW x \in Int, NEW k \in Nat
    PROVE  /\ Repeat(x, k) \in Seq(Int) /\ Len(Repeat(x, k)) = k
           /\ \A j \in 1 .. k : Repeat(x, k)[j] = x
<1>1. Repeat(x, k) \in [1 .. k -> Int] /\ \A j \in 1 .. k : Repeat(x, k)[j] = x
  BY DEF Repeat
<1>2. QED
  BY <1>1

\* ... and of a body.
LEMMA PayloadIs ==
    ASSUME NEW i \in Nat, NEW b \in Nat
    PROVE  /\ Payload(i, b) \in Seq(Int) /\ Len(Payload(i, b)) = b
           /\ \A j \in 1 .. b : Payload(i, b)[j] = BodyByte(i, j)
<1>1. \A j \in 1 .. b : BodyByte(i, j) \in Int
  BY DEF BodyByte
<1>2. Payload(i, b) \in [1 .. b -> Int] /\ \A j \in 1 .. b : Payload(i, b)[j] = BodyByte(i, j)
  BY <1>1 DEF Payload
<1>3. QED
  BY <1>2

\* The bytes of a packet.
LEMMA PacketIs ==
    ASSUME WTypes, NEW i \in Nat, NEW b \in Nat, NEW l \in Int, codec = "fixed" => b <= FixedLen
    PROVE  /\ Packet(i, b, l) \in Seq(Int) /\ Len(Packet(i, b, l)) = PacketLen(b)
           /\ \A j \in 1 .. PacketLen(b) : Packet(i, b, l)[j] = PacketByte(i, b, l, j)
<1> DEFINE q == Payload(i, b)
<1>1. q \in Seq(Int) /\ Len(q) = b /\ \A j \in 1 .. b : q[j] = BodyByte(i, j)
  BY PayloadIs
<1> HIDE DEF q
<1>2. CASE codec = "variable"
  <2> DEFINE h == Repeat(l, HeaderLen - 1)
             z == <<Zero>>
             g == h \o z
             p == g \o q
  <2>1. h \in Seq(Int) /\ Len(h) = HeaderLen - 1 /\ \A j \in 1 .. HeaderLen - 1 : h[j] = l
    <3>1. HeaderLen - 1 \in Nat
      BY Numbers
    <3>2. QED
      BY <3>1, RepeatIs
  <2>2. z \in Seq(Int) /\ Len(z) = 1 /\ z[1] = Zero
    BY DEF Zero
  <2>3. Packet(i, b, l) = p
    BY <1>2 DEF Packet, q
  <2> HIDE DEF h, z
  <2>4. /\ g \in Seq(Int) /\ Len(g) = HeaderLen
        /\ \A j \in 1 .. HeaderLen : g[j] = IF j < HeaderLen THEN l ELSE Zero
    <3>1. /\ g \in Seq(Int) /\ Len(g) = (HeaderLen - 1) + 1
          /\ \A j \in 1 .. (HeaderLen - 1) + 1 :
               g[j] = IF j <= HeaderLen - 1 THEN h[j] ELSE z[j - (HeaderLen - 1)]
      <4>1. /\ g \in Seq(Int) /\ Len(g) = Len(h) + Len(z)
            /\ \A j \in 1 .. Len(h) + Len(z) :
                 g[j] = IF j <= Len(h) THEN h[j] ELSE z[j - Len(h)]
        BY <2>1, <2>2, ConcatProperties, Zenon
      <4> HIDE DEF g
      <4>2. QED
        BY <2>1, <2>2, <4>1, Zenon
    <3> HIDE DEF g
    <3>2. (HeaderLen - 1) + 1 = HeaderLen /\ HeaderLen \in Nat
      BY Numbers
    <3>3. ASSUME NEW j \in 1 .. HeaderLen
          PROVE  g[j] = IF j < HeaderLen THEN l ELSE Zero
      <4>1. CASE j < HeaderLen
        BY <2>1, <3>1, <3>2, <4>1
      <4>2. CASE j = HeaderLen
        <5>1. ~(j <= HeaderLen - 1) /\ j - (HeaderLen - 1) = 1 /\ ~(j < HeaderLen)
          BY <3>2, <4>2
        <5>2. QED
          BY <2>2, <3>1, <3>2, <5>1
      <4>3. QED
        BY <3>2, <4>1, <4>2
    <3>4. QED
      BY <3>1, <3>2, <3>3
  <2>5. /\ p \in Seq(Int) /\ Len(p) = HeaderLen + b
        /\ \A j \in 1 .. HeaderLen + b : p[j] = IF j <= HeaderLen THEN g[j] ELSE q[j - HeaderLen]
    <3>1. /\ p \in Seq(Int) /\ Len(p) = Len(g) + Len(q)
          /\ \A j \in 1 .. Len(g) + Len(q) :
               p[j] = IF j <= Len(g) THEN g[j] ELSE q[j - Len(g)]
      BY <1>1, <2>4, ConcatProperties, Zenon
    <3> HIDE DEF p
    <3>2. QED
      BY <1>1, <2>4, <3>1, Zenon
  <2> HIDE DEF p, g
  <2>6. ASSUME NEW j \in 1 .. HeaderLen + b
        PROVE  p[j] = IF j < HeaderLen THEN l ELSE IF j = HeaderLen THEN Zero
                      ELSE BodyByte(i, j - HeaderLen)
    <3>1. CASE j <= HeaderLen
      <4>1. j \in 1 .. HeaderLen /\ (~(j < HeaderLen) => j = HeaderLen)
        BY <3>1, Numbers
      <4>2. p[j] = g[j]
        BY <2>5, <3>1
      <4>3. QED
        BY <2>4, <4>1, <4>2
    <3>2. CASE ~(j <= HeaderLen)
      <4>1. j - HeaderLen \in 1 .. b /\ ~(j < HeaderLen) /\ j # HeaderLen
        BY <3>2, Numbers
      <4>2. QED
        BY <1>1, <2>5, <3>2, <4>1
    <3>3. QED
      BY <3>1, <3>2
  <2>7. QED
    BY <1>2, <2>3, <2>5, <2>6 DEF PacketLen, PacketByte
<1>3. CASE codec = "fixed"
  <2> DEFINE h == Repeat(Zero, FixedLen - b)
             p == q \o h
  <2>1. h \in Seq(Int) /\ Len(h) = FixedLen - b /\ \A j \in 1 .. FixedLen - b : h[j] = Zero
    <3>1. FixedLen - b \in Nat /\ Zero \in Int
      BY <1>3, Numbers DEF Zero
    <3>2. QED
      BY <3>1, RepeatIs
  <2>2. Packet(i, b, l) = p
    BY <1>3 DEF Packet, q
  <2> HIDE DEF h
  <2>3. /\ p \in Seq(Int) /\ Len(p) = FixedLen
        /\ \A j \in 1 .. FixedLen : p[j] = IF j <= b THEN q[j] ELSE h[j - b]
    <3>1. /\ p \in Seq(Int) /\ Len(p) = b + (FixedLen - b)
          /\ \A j \in 1 .. b + (FixedLen - b) : p[j] = IF j <= b THEN q[j] ELSE h[j - b]
      <4>1. /\ p \in Seq(Int) /\ Len(p) = Len(q) + Len(h)
            /\ \A j \in 1 .. Len(q) + Len(h) :
                 p[j] = IF j <= Len(q) THEN q[j] ELSE h[j - Len(q)]
        BY <1>1, <2>1, ConcatProperties, Zenon
      <4> HIDE DEF p
      <4>2. QED
        BY <1>1, <2>1, <4>1, Zenon
    <3> HIDE DEF p
    <3>2. b + (FixedLen - b) = FixedLen
      BY Numbers
    <3>3. QED
      BY <3>1, <3>2, Zenon
  <2> HIDE DEF p
  <2>4. ASSUME NEW j \in 1 .. FixedLen
        PROVE  p[j] = IF j <= b THEN BodyByte(i, j) ELSE Zero
    <3>1. CASE j <= b
      BY <1>1, <2>3, <3>1, Numbers
    <3>2. CASE ~(j <= b)
      <4>1. j - b \in 1 .. FixedLen - b
        BY <1>3, <3>2, Numbers
      <4>2. QED
        BY <2>1, <2>3, <3>2, <4>1
    <3>3. QED
      BY <3>1, <3>2
  <2>5. QED
    BY <1>3, <2>2, <2>3, <2>4 DEF PacketLen, PacketByte
<1>4. CASE codec = "delimiter"
  <2> DEFINE h == Repeat(DelimByte, DelimLen)
             p == q \o h
  <2>1. h \in Seq(Int) /\ Len(h) = DelimLen /\ \A j \in 1 .. DelimLen : h[j] = DelimByte
    <3>1. DelimLen \in Nat /\ DelimByte \in Int
      BY Numbers DEF DelimByte
    <3>2. QED
      BY <3>1, RepeatIs
  <2>2. Packet(i, b, l) = p
    BY <1>4 DEF Packet, q
  <2> HIDE DEF h
  <2>3. /\ p \in Seq(Int) /\ Len(p) = b + DelimLen
        /\ \A j \in 1 .. b + DelimLen : p[j] = IF j <= b THEN q[j] ELSE h[j - b]
    <3>1. /\ p \in Seq(Int) /\ Len(p) = Len(q) + Len(h)
          /\ \A j \in 1 .. Len(q) + Len(h) :
               p[j] = IF j <= Len(q) THEN q[j] ELSE h[j - Len(q)]
      BY <1>1, <2>1, ConcatProperties, Zenon
    <3> HIDE DEF p
    <3>2. QED
      BY <1>1, <2>1, <3>1, Zenon
  <2> HIDE DEF p
  <2>4. ASSUME NEW j \in 1 .. b + DelimLen
        PROVE  p[j] = IF j <= b THEN BodyByte(i, j) ELSE DelimByte
    <3>1. CASE j <= b
      BY <1>1, <2>3, <3>1, Numbers
    <3>2. CASE ~(j <= b)
      <4>1. j - b \in 1 .. DelimLen
        BY <3>2, Numbers
      <4>2. QED
        BY <2>1, <2>3, <3>2, <4>1
    <3>3. QED
      BY <3>1, <3>2
  <2>5. QED
    BY <1>4, <2>2, <2>3, <2>4 DEF PacketLen, PacketByte
<1>5. QED
  BY <1>2, <1>3, <1>4, Counts

\* Bytes that are those of the beginning of a sequence.
LEMMA PrefixOf ==
    ASSUME NEW p \in Seq(Int), NEW s \in Seq(Int), Len(s) <= Len(p),
           \A j \in 1 .. Len(s) : s[j] = p[j]
    PROVE  s = SubSeq(p, 1, Len(s))
<1> DEFINE n == Len(s)
           q == SubSeq(p, 1, n)
<1>1. n \in Nat /\ Len(p) \in Nat /\ n <= Len(p)
  OBVIOUS
<1>2. /\ q \in Seq(Int) /\ Len(q) = IF 1 <= n THEN n - 1 + 1 ELSE 0
      /\ \A j \in 1 .. n - 1 + 1 : q[j] = p[1 + j - 1]
  <2>1. \A j \in 1 .. n : p[j] \in Int
    BY <1>1
  <2>2. QED
    BY <1>1, <2>1, SubSeqProperties
<1> HIDE DEF q, n
<1>3. Len(q) = n /\ n - 1 + 1 = n /\ \A j \in 1 .. n : 1 + j - 1 = j
  BY <1>1, <1>2
<1>4. \A j \in 1 .. n : q[j] = s[j]
  BY <1>2, <1>3 DEF n
<1>5. QED
  BY <1>2, <1>3, <1>4, SeqEqual DEF q, n

\* Where the header got its length, a packet that is whole says it.
LEMMA WriterInvWhole == WriterInv => WholePackets
<1> SUFFICES ASSUME WriterInv, m > 0 PROVE WholePackets
  BY DEF WholePackets
<1> DEFINE part == SubSeq(wire, first + 1, Len(wire))
           length == IF wpc = "ok" /\ ~lost THEN HeaderByte(body) ELSE Zero
           packet == Packet(m, body, length)
           pre == w.preWriteIndex
<1>1. /\ m \in Nat /\ body \in Nat /\ sent \in Nat /\ sent <= body /\ flushes \in Nat
      /\ codec \in {"variable", "fixed", "delimiter"}
      /\ pre \in Nat /\ first \in Nat /\ Len(wire) = first + pre /\ wire \in Seq(Int) /\ WTypes
  BY Counts DEF WriterInv, WTypes, MessageInv, BytesInv
<1>2. /\ part \in Seq(Int) /\ Len(part) = pre
      /\ \A j \in 1 .. pre : part[j] = wire[first + j]
  <2>1. \A j \in first + 1 .. Len(wire) : wire[j] \in Int
    BY <1>1
  <2>2. /\ part \in Seq(Int)
        /\ Len(part) = IF first + 1 <= Len(wire) THEN Len(wire) - (first + 1) + 1 ELSE 0
        /\ \A j \in 1 .. Len(wire) - (first + 1) + 1 : part[j] = wire[first + 1 + j - 1]
    <3>1. first + 1 \in Int /\ Len(wire) \in Int
      BY <1>1
    <3>2. QED
      BY <2>1, <3>1, SubSeqProperties
  <2> HIDE DEF part
  <2>3. Len(part) = pre /\ 1 .. Len(wire) - (first + 1) + 1 = 1 .. pre
    <3> DEFINE len == Len(wire)
    <3>1. len = first + pre /\ first \in Nat /\ pre \in Nat
      BY <1>1
    <3> HIDE DEF len, pre
    <3>2. len - (first + 1) + 1 = pre
      BY <3>1
    <3>3. (IF first + 1 <= len THEN len - (first + 1) + 1 ELSE 0) = pre
      BY <3>1
    <3>4. QED
      BY <2>2, <3>2, <3>3 DEF len
  <2>4. \A j \in 1 .. pre : first + 1 + j - 1 = first + j
    BY <1>1
  <2>5. QED
    BY <2>2, <2>3, <2>4
<1>3. ASSUME NEW j \in 1 .. pre PROVE part[j] = Byte(j - 1)
  <2>1. j - 1 \in 0 .. pre - 1 /\ first + (j - 1) + 1 = first + j
    BY <1>1
  <2>2. wire[first + (j - 1) + 1] = Byte(j - 1)
    BY <2>1 DEF WriterInv, BytesInv
  <2>3. QED
    BY <1>2, <2>1, <2>2
<1>4. length \in Int
  BY <1>1 DEF HeaderByte, Zero
<1> HIDE DEF part, length, packet, pre
<1>5. flushes = 0 /\ wpc # "ok" => part = <<>>
  <2>1. flushes = 0 /\ wpc # "ok" => pre = 0
    BY DEF WriterInv, RegionInv, pre
  <2>2. QED
    BY <1>2, <2>1, EmptySeq
<1>6. CASE wpc = "ok"
  <2>1. (codec = "fixed" => body <= FixedLen) /\ pre = PacketLen(body)
    BY <1>1, <1>6 DEF WriterInv, IndexInv, Written, Framed, PacketLen, pre
  <2>2. sent = body
    BY <1>6 DEF WriterInv, IndexInv
  <2>3. /\ packet \in Seq(Int) /\ Len(packet) = pre
        /\ \A j \in 1 .. pre : packet[j] = PacketByte(m, body, length, j)
    BY <1>1, <1>4, <2>1, PacketIs, Zenon DEF packet
  <2>4. ASSUME NEW j \in 1 .. pre PROVE packet[j] = Byte(j - 1)
    <3>1. /\ j - 1 < HeaderLen - 1 <=> j < HeaderLen
          /\ j - 1 = HeaderLen - 1 <=> j = HeaderLen
          /\ j - 1 < sent <=> j <= body
          /\ j - 1 - HeaderLen + 1 = j - HeaderLen /\ j - 1 + 1 = j
      BY <1>1, <2>2, Numbers
    <3>2. length = IF Put THEN HeaderByte(body) ELSE Zero
      BY <1>6 DEF length, Put
    <3>3. CASE codec = "variable"
      BY <2>3, <3>1, <3>2, <3>3 DEF Byte, PacketByte
    <3>4. CASE codec = "fixed"
      BY <2>3, <3>1, <3>4 DEF Byte, PacketByte
    <3>5. CASE codec = "delimiter"
      BY <2>3, <3>1, <3>5 DEF Byte, PacketByte
    <3>6. QED
      BY <1>1, <3>3, <3>4, <3>5
  <2>5. part = packet
    BY <1>2, <1>3, <2>3, <2>4, SeqEqual
  <2>6. part = SubSeq(packet, 1, Len(part))
    BY <2>3, <2>5, SubSeqFull
  <2>7. lost <=> codec = "variable" /\ (flushes > 0 \/ HeaderLen + body > WriteBuf)
    BY <1>6 DEF WriterInv, RegionInv
  <2>8. QED
    BY <1>5, <2>5, <2>6, <2>7 DEF WholePackets, part, packet, length
<1>7. CASE wpc # "ok" /\ pre = 0
  <2>1. part = <<>> /\ SubSeq(packet, 1, Len(part)) = <<>>
    BY <1>2, <1>7, EmptySeq, SubSeqEmpty
  <2>2. QED
    BY <1>5, <1>7, <2>1 DEF WholePackets, part, packet, length
<1>8. CASE wpc # "ok" /\ pre > 0
  <2>1. /\ flushes > 0 /\ codec # "fixed" /\ (codec = "variable" => ~Put) /\ length = Zero
        /\ pre <= IF codec = "variable" THEN HeaderLen + sent ELSE sent
    <3>1. flushes > 0
      BY <1>1, <1>8 DEF WriterInv, RegionInv, pre
    <3>2. codec # "fixed" /\ pre <= IF codec = "variable" THEN HeaderLen + sent ELSE sent
      BY <1>1, <1>8, <3>1 DEF WriterInv, IndexInv, pre
    <3>3. codec = "variable" => ~Put
      <4>1. wpc = "flush" /\ codec = "variable" => lost
        BY <3>1, <1>1 DEF WriterInv, RegionInv
      <4>2. QED
        BY <1>8, <4>1 DEF Put
    <3>4. length = Zero
      BY <1>8 DEF length
    <3>5. QED
      BY <3>1, <3>2, <3>3, <3>4, Zenon
  <2>2. /\ packet \in Seq(Int) /\ Len(packet) = PacketLen(body)
        /\ \A j \in 1 .. PacketLen(body) : packet[j] = PacketByte(m, body, length, j)
    BY <1>1, <1>4, <2>1, PacketIs, Zenon DEF packet
  <2> HIDE DEF packet
  <2>3. PacketLen(body) \in Nat /\ pre <= PacketLen(body)
    <3>1. CASE codec = "variable"
      BY <1>1, <2>1, <3>1, Numbers, SMTT(30) DEF PacketLen
    <3>2. CASE codec = "delimiter"
      BY <1>1, <2>1, <3>2, Numbers, SMTT(30) DEF PacketLen
    <3>3. QED
      BY <1>1, <2>1, <3>1, <3>2
  <2>4. ASSUME NEW j \in 1 .. pre PROVE packet[j] = Byte(j - 1)
    <3>1. j \in 1 .. PacketLen(body)
      BY <1>1, <2>3
    <3>2. CASE codec = "variable"
      <4>1. /\ j - 1 < HeaderLen - 1 <=> j < HeaderLen
            /\ j - 1 = HeaderLen - 1 <=> j = HeaderLen
            /\ j - 1 - HeaderLen + 1 = j - HeaderLen
        BY <1>1, Numbers
      <4>2. QED
        BY <2>1, <2>2, <3>1, <3>2, <4>1 DEF Byte, PacketByte
    <3>3. CASE codec = "delimiter"
      <4>1. j - 1 < sent /\ j <= body /\ j - 1 + 1 = j
        BY <1>1, <2>1, <3>3
      <4>2. QED
        BY <2>2, <3>1, <3>3, <4>1 DEF Byte, PacketByte
    <3>4. QED
      BY <1>1, <2>1, <3>2, <3>3
  <2>5. part = SubSeq(packet, 1, Len(part))
    BY <1>2, <1>3, <2>2, <2>3, <2>4, PrefixOf
  <2>6. QED
    BY <1>5, <1>8, <2>5 DEF WholePackets, part, packet, length
<1>9. QED
  BY <1>1, <1>6, <1>7, <1>8 DEF pre

\* The types.
LEMMA WriterInvTypes == WriterInv => WriterTypeOK
<1> SUFFICES ASSUME WriterInv PROVE WriterTypeOK
  OBVIOUS
<1>1. BuffInv /\ MessageInv
  BY DEF WriterInv, WTypes
<1>2. /\ w.buff \in [0 .. Size(w.buff) - 1 -> Int] /\ w.gen \in Nat /\ w.writeIndex \in Nat
      /\ w.preWriteIndex \in 0 .. w.writeIndex
  BY <1>1, SizeOf DEF BuffInv
<1>3. QED
  BY <1>1, <1>2 DEF BuffInv, MessageInv, WriterTypeOK
=============================================================================
