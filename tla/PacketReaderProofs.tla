------------------------- MODULE PacketReaderProofs -------------------------
(***************************************************************************)
(* What the two sides of a connection keep, for every size of the buffers, *)
(* frame, body and limit: the packets on the wire are whole, the reader    *)
(* returns the bytes of the stream in order, a Decode that succeeds leaves *)
(* the stream at the beginning of the next packet, and from end to end the *)
(* messages within the limit arrive in order and each once.                *)
(***************************************************************************)
EXTENDS PacketReader, PacketWriterProofs

\* What Decode leaves behind the payload codec's bytes.
Behind == IF codec = "delimiter" /\ Strip THEN DelimLen ELSE 0

\* What it reads before them.
Front == IF codec = "variable" THEN HeaderLen ELSE 0

RBuff ==
    /\ r \in [buff : Bytes, readIndex : Nat, writeIndex : Nat]
    /\ Size(r.buff) > 0 /\ r.readIndex <= r.writeIndex
    /\ pos \in Nat /\ r.writeIndex <= pos /\ pos <= Len(wire)
    /\ out \in Seq(Int) /\ at \in Nat

RCounts ==
    /\ total \in Nat /\ remain \in 0 .. total /\ length \in 0 .. MaxLength
    /\ rpc \in {"idle", "header", "search", "payload", "release", "strip", "decoded"} \cup Stopped
    /\ delivered \in Seq(Seq(Int))

\* A packet is read when it is whole, from its beginning; between packets the
\* reader is at the beginning or at the end of the last one.
TurnInv ==
    /\ m = 0 => wire = <<>>
    /\ rpc # "idle" => /\ wpc = "ok" /\ ~lost /\ m > 0
                       /\ pos = first + r.writeIndex
    /\ rpc = "idle" => /\ pos \in {first, Len(wire)}
                       /\ wpc # "ok" => pos = first

\* What is buffered is what follows on the wire.
AheadInv ==
    rpc # "idle" =>
        \A i \in r.readIndex .. r.writeIndex - 1 :
            i \in DOMAIN r.buff /\ r.buff[i] = wire[first + i + 1]

\* How far Decode is in the packet.
PlaceInv ==
    /\ rpc = "header" => codec = "variable" /\ r.readIndex = 0
    /\ rpc = "search" => codec = "delimiter" /\ r.readIndex = 0
    /\ rpc \in {"payload", "release"} => r.readIndex + remain = PacketLen(body) - Behind
    /\ rpc = "strip" => r.readIndex + Behind = PacketLen(body) /\ Behind = DelimLen
    /\ rpc = "decoded" => r.readIndex = PacketLen(body)
    /\ rpc \in {"payload", "release", "strip", "decoded"} =>
          Front + total + Behind = PacketLen(body)

\* What was returned last.
OutInv ==
    /\ at + Len(out) <= Len(wire)
    /\ \A i \in 1 .. Len(out) : out[i] = wire[at + i]

ReaderInv == RBuff /\ RCounts /\ TurnInv /\ AheadInv /\ PlaceInv /\ OutInv

-----------------------------------------------------------------------------
(* The buffer reader *)

\* The sizes of the reader.
LEMMA Limits ==
    ReadBuf \in Nat /\ ReadBuf > 0 /\ Strip \in BOOLEAN /\ MaxLength \in Nat /\ MaxReceive \in Nat
BY ReaderAssumption

\* What the counters of the reader are.
LEMMA Indices ==
    ASSUME WriterInv, RBuff
    PROVE  /\ r.buff \in Bytes /\ Size(r.buff) \in Nat /\ DOMAIN r.buff = 0 .. Size(r.buff) - 1
           /\ r.readIndex \in Nat /\ r.writeIndex \in Nat /\ r.readIndex <= r.writeIndex
           /\ pos \in Nat /\ first \in Nat /\ Len(wire) \in Nat /\ wire \in Seq(Int)
           /\ pos <= Len(wire)
<1>1. r.buff \in Bytes /\ r.readIndex \in Nat /\ r.writeIndex \in Nat /\ r.readIndex <= r.writeIndex
  BY DEF RBuff
<1>2. first \in Nat /\ Len(wire) \in Nat /\ wire \in Seq(Int) /\ pos \in Nat /\ pos <= Len(wire)
  BY Counts DEF WriterInv, WTypes, MessageInv, RBuff
<1>3. QED
  BY <1>1, <1>2, SizeOf

\* Growth loses nothing of the buffer.
LEMMA RoomIs ==
    ASSUME WriterInv, RBuff, NEW want \in Nat
    PROVE  /\ Room(want) \in Bytes /\ Size(Room(want)) > 0
           /\ \A i \in DOMAIN r.buff : i \in DOMAIN Room(want) /\ Room(want)[i] = r.buff[i]
<1> DEFINE size == Size(r.buff)
           min == r.writeIndex + (want + r.writeIndex - size)
           new == Doubled(size, min)
<1>1. r.buff \in Bytes /\ size \in Nat /\ DOMAIN r.buff = 0 .. size - 1 /\ r.writeIndex \in Nat
  BY Indices
<1>2. size > 0
  BY DEF RBuff
<1> HIDE DEF size
<1>3. CASE size - r.writeIndex < want
  <2>1. min \in Nat
    BY <1>1, <1>3
  <2>2. Room(want) = Grown(r.buff, new)
    BY <1>3 DEF Room, Growth, size
  <2> HIDE DEF min
  <2>3. new \in Nat /\ new >= size
    BY <1>1, <1>2, <2>1, DoubledBounds
  <2> HIDE DEF new
  <2>4. 0 .. size - 1 \subseteq 0 .. new - 1 /\ new > 0
    BY <1>1, <1>2, <2>3
  <2>5. /\ Grown(r.buff, new) \in Bytes /\ Size(Grown(r.buff, new)) = new
        /\ DOMAIN Grown(r.buff, new) = 0 .. new - 1
        /\ \A i \in 0 .. new - 1 : i \in DOMAIN r.buff => Grown(r.buff, new)[i] = r.buff[i]
    BY <1>1, <2>3, GrownIs
  <2>6. QED
    BY <1>1, <2>2, <2>4, <2>5
<1>4. CASE ~(size - r.writeIndex < want)
  BY <1>1, <1>2, <1>4 DEF Room, size
<1>5. QED
  BY <1>3, <1>4

\* A call that returns the k bytes that are next and advances by step.
Moved(k, step) ==
    /\ r' \in [buff : Bytes, readIndex : Nat, writeIndex : Nat] /\ Size(r'.buff) > 0
    /\ r'.readIndex = r.readIndex + step /\ r'.readIndex <= r'.writeIndex
    /\ pos' = first + r'.writeIndex /\ pos' <= Len(wire)
    /\ \A i \in r'.readIndex .. r'.writeIndex - 1 :
            i \in DOMAIN r'.buff /\ r'.buff[i] = wire[first + i + 1]
    /\ out' \in Seq(Int) /\ Len(out') = k
    /\ at' = first + r.readIndex /\ first + r.readIndex + k <= Len(wire)
    /\ \A i \in 1 .. k : out'[i] = wire[first + r.readIndex + i]

\* It returns what it should when what is buffered is what is next.
LEMMA ReturnsNext ==
    ASSUME WriterInv, RBuff, TurnInv, rpc # "idle", NEW k \in Nat, Returns(k),
           NEW n \in Nat, r.readIndex + k <= n, first + n <= Len(wire),
           \A i \in r.readIndex .. n - 1 : r'.buff[i] = wire[first + i + 1]
    PROVE  /\ out' \in Seq(Int) /\ Len(out') = k /\ at' = first + r.readIndex
           /\ \A i \in 1 .. k : out'[i] = wire[first + r.readIndex + i]
<1> DEFINE len == Len(wire)
<1>1. /\ r.readIndex \in Nat /\ r.writeIndex \in Nat /\ first \in Nat /\ len \in Nat
      /\ first + n <= len
  BY Indices
<1>w. wire \in Seq(Int) /\ Len(wire) = len
  BY Indices
<1> HIDE DEF len
<1>2. at' = first + r.readIndex
  <2>1. pos = first + r.writeIndex
    BY DEF TurnInv
  <2>2. pos - r.writeIndex = first
    BY <1>1, <2>1
  <2>3. QED
    BY <2>2 DEF Returns, start
<1>3. ASSUME NEW i \in 1 .. k
      PROVE  /\ r'.buff[r.readIndex + i - 1] = wire[first + r.readIndex + i]
             /\ wire[first + r.readIndex + i] \in Int
  <2>1. /\ r.readIndex + i - 1 \in r.readIndex .. n - 1
        /\ first + (r.readIndex + i - 1) + 1 = first + r.readIndex + i
        /\ first + r.readIndex + i \in 1 .. len
    <3> DEFINE read == r.readIndex
    <3>1. read \in Nat /\ read + k <= n /\ i \in Nat /\ i >= 1 /\ i <= k
      BY <1>1
    <3> HIDE DEF read
    <3>2. read + i - 1 \in read .. n - 1
      BY <3>1
    <3>3. first + (read + i - 1) + 1 = first + read + i
      BY <1>1, <3>1
    <3>4. first + read + i \in 1 .. len
      BY <1>1, <3>1
    <3>5. QED
      BY <3>2, <3>3, <3>4, Zenon DEF read
  <2>2. wire[first + r.readIndex + i] \in Int
    BY <1>w, <2>1, ElementOfSeq
  <2>3. r'.buff[r.readIndex + i - 1] = wire[first + (r.readIndex + i - 1) + 1]
    BY <2>1, Zenon
  <2>4. QED
    BY <2>1, <2>2, <2>3
<1>4. out' = [i \in 1 .. k |-> wire[first + r.readIndex + i]]
  BY <1>3 DEF Returns
<1>5. out' \in [1 .. k -> Int] /\ \A i \in 1 .. k : out'[i] = wire[first + r.readIndex + i]
  BY <1>3, <1>4
<1>6. out' \in Seq(Int) /\ Len(out') = k
  BY <1>5
<1>7. QED
  BY <1>2, <1>5, <1>6

\* Peek, Next and Skip.
LEMMA TakeIs ==
    ASSUME WriterInv, RBuff, TurnInv, AheadInv, rpc # "idle",
           NEW k \in Nat, NEW step \in 0 .. k, NEW next, Take(k, step, next)
    PROVE  \/ rpc' = next /\ Moved(k, step)
           \/ rpc' \in Stopped /\ UNCHANGED <<r, pos, out, at>>
<1> DEFINE readable == r.writeIndex - r.readIndex
           want == k - readable
           room == Room(want)
           n == r.writeIndex + want
           last == r.writeIndex + want - 1
           nb == [i \in DOMAIN room |-> IF i \in r.writeIndex .. last
                                        THEN wire[pos + i - r.writeIndex + 1] ELSE room[i]]
<1>1. /\ r.buff \in Bytes /\ DOMAIN r.buff = 0 .. Size(r.buff) - 1
      /\ r.readIndex \in Nat /\ r.writeIndex \in Nat /\ r.readIndex <= r.writeIndex
      /\ pos \in Nat /\ first \in Nat /\ Len(wire) \in Nat /\ wire \in Seq(Int) /\ pos <= Len(wire)
  BY Indices
<1>2. pos = first + r.writeIndex
  BY DEF TurnInv
<1>3. \A i \in r.readIndex .. r.writeIndex - 1 : i \in DOMAIN r.buff /\ r.buff[i] = wire[first + i + 1]
  BY DEF AheadInv
<1>4. r \in [buff : Bytes, readIndex : Nat, writeIndex : Nat] /\ Size(r.buff) > 0
  BY DEF RBuff
<1>5. CASE /\ k <= readable
           /\ r' = [r EXCEPT !.readIndex = @ + step]
           /\ Returns(k) /\ rpc' = next /\ UNCHANGED pos
  <2>1. /\ r'.buff = r.buff /\ r'.readIndex = r.readIndex + step /\ r'.writeIndex = r.writeIndex
        /\ r' \in [buff : Bytes, readIndex : Nat, writeIndex : Nat]
    BY <1>1, <1>4, <1>5, SMTT(30)
  <2>2. r.readIndex + k <= r.writeIndex /\ first + r.writeIndex <= Len(wire)
    BY <1>1, <1>2, <1>5
  <2>3. \A i \in r.readIndex .. r.writeIndex - 1 : r'.buff[i] = wire[first + i + 1]
    BY <1>3, <2>1
  <2>4. /\ out' \in Seq(Int) /\ Len(out') = k /\ at' = first + r.readIndex
        /\ \A i \in 1 .. k : out'[i] = wire[first + r.readIndex + i]
    BY <1>1, <1>5, <2>2, <2>3, ReturnsNext
  <2>5. r.readIndex + step <= r.writeIndex /\ first + r.readIndex + k <= Len(wire)
    BY <1>1, <2>2
  <2>6. \A i \in r.readIndex + step .. r.writeIndex - 1 : i \in r.readIndex .. r.writeIndex - 1
    BY <1>1
  <2>7. QED
    BY <1>2, <1>3, <1>4, <1>5, <2>1, <2>2, <2>4, <2>5, <2>6 DEF Moved
<1>6. CASE /\ k > readable
           /\ r.writeIndex + want <= Size(room)
           /\ pos + want <= Len(wire)
           /\ r' = [buff |-> nb, readIndex |-> r.readIndex + step, writeIndex |-> n]
           /\ pos' = pos + want
           /\ Returns(k) /\ rpc' = next
  <2>1. want \in Nat /\ n \in Nat /\ n = r.readIndex + k /\ last = n - 1
    BY <1>1, <1>6, SMTT(30)
  <2>2. /\ room \in Bytes /\ Size(room) > 0
        /\ \A i \in DOMAIN r.buff : i \in DOMAIN room /\ room[i] = r.buff[i]
    BY <2>1, RoomIs
  <2>3. Size(room) \in Nat /\ DOMAIN room = 0 .. Size(room) - 1 /\ room \in [0 .. Size(room) - 1 -> Int]
    BY <2>2, SizeOf
  <2>4. n <= Size(room) /\ first + n <= Len(wire) /\ pos' = first + n
    <3>1. /\ n <= Size(room) /\ pos + want <= Len(wire) /\ pos' = pos + want
      BY <1>6
    <3>2. pos + want = first + n
      <4> HIDE DEF want
      <4>1. QED
        BY <1>1, <1>2, <2>1
    <3>3. QED
      BY <3>1, <3>2, Zenon
  <2>5. r' = [buff |-> nb, readIndex |-> r.readIndex + step, writeIndex |-> n]
    BY <1>6
  <2> HIDE DEF room, want, n, last
  <2>6. ASSUME NEW i \in r.writeIndex .. last
        PROVE  /\ wire[pos + i - r.writeIndex + 1] = wire[first + i + 1] /\ wire[first + i + 1] \in Int
               /\ i \in DOMAIN room
    <3> DEFINE len == Len(wire)
               size == Size(room)
    <3>1. /\ r.writeIndex \in Nat /\ pos \in Nat /\ first \in Nat /\ len \in Nat /\ n \in Nat /\ size \in Nat
          /\ n <= size /\ first + n <= len /\ pos = first + r.writeIndex /\ last = n - 1
      BY <1>1, <1>2, <2>1, <2>3, <2>4
    <3> HIDE DEF len, size
    <3>2. /\ pos + i - r.writeIndex + 1 = first + i + 1 /\ first + i + 1 \in 1 .. len
          /\ i \in 0 .. size - 1
      BY <3>1
    <3>3. QED
      BY <1>1, <2>3, <3>2, ElementOfSeq DEF len, size
  <2>7. nb \in Bytes /\ Size(nb) = Size(room) /\ DOMAIN nb = DOMAIN room
    <3>1. ASSUME NEW i \in DOMAIN room PROVE nb[i] \in Int
      <4>1. CASE i \in r.writeIndex .. last
        BY <2>6, <4>1
      <4>2. CASE i \notin r.writeIndex .. last
        BY <2>3, <4>2
      <4>3. QED
        BY <4>1, <4>2
    <3>2. nb \in [0 .. Size(room) - 1 -> Int]
      BY <2>3, <3>1
    <3>3. QED
      BY <2>3, <3>2, SizeIs
  <2>8. ASSUME NEW i \in r.readIndex .. n - 1
        PROVE  i \in DOMAIN nb /\ nb[i] = wire[first + i + 1]
    <3>1. CASE i < r.writeIndex
      <4>1. i \in r.readIndex .. r.writeIndex - 1 /\ i \notin r.writeIndex .. last
        BY <1>1, <2>1, <3>1
      <4>2. i \in DOMAIN room /\ room[i] = wire[first + i + 1]
        BY <1>3, <2>2, <4>1
      <4>3. QED
        BY <2>7, <4>1, <4>2
    <3>2. CASE ~(i < r.writeIndex)
      <4>1. i \in r.writeIndex .. last
        BY <1>1, <2>1, <3>2
      <4>2. i \in DOMAIN room /\ wire[pos + i - r.writeIndex + 1] = wire[first + i + 1]
        BY <2>6, <4>1
      <4>3. nb[i] = wire[pos + i - r.writeIndex + 1]
        BY <4>1, <4>2, Zenon
      <4>4. QED
        BY <2>7, <4>2, <4>3
    <3>3. QED
      BY <3>1, <3>2
  <2> HIDE DEF nb
  <2>9. /\ r'.buff = nb /\ r'.readIndex = r.readIndex + step /\ r'.writeIndex = n
        /\ r' \in [buff : Bytes, readIndex : Nat, writeIndex : Nat]
    BY <1>1, <2>1, <2>5, <2>7
  <2>10. /\ out' \in Seq(Int) /\ Len(out') = k /\ at' = first + r.readIndex
         /\ \A i \in 1 .. k : out'[i] = wire[first + r.readIndex + i]
    <3>1. \A i \in r.readIndex .. n - 1 : r'.buff[i] = wire[first + i + 1]
      BY <2>8, <2>9
    <3>2. r.readIndex + k <= n
      BY <1>1, <2>1
    <3>3. QED
      BY <1>6, <2>1, <2>4, <3>1, <3>2, ReturnsNext
  <2>11. /\ r.readIndex + step <= n /\ first + r.readIndex + k = first + n
         /\ \A i \in r.readIndex + step .. n - 1 : i \in r.readIndex .. n - 1
    <3> DEFINE read == r.readIndex
    <3>1. read \in Nat /\ first \in Nat /\ n \in Nat /\ n = read + k
      BY <1>1, <2>1
    <3> HIDE DEF read
    <3>2. read + step <= n /\ first + read + k = first + n
      BY <3>1
    <3>3. \A i \in read + step .. n - 1 : i \in read .. n - 1
      BY <3>1
    <3>4. QED
      BY <3>2, <3>3 DEF read
  <2>12. QED
    BY <1>6, <2>2, <2>4, <2>7, <2>8, <2>9, <2>10, <2>11 DEF Moved
<1>7. CASE rpc' \in Stopped /\ UNCHANGED <<r, pos, out, at>>
  BY <1>7
<1>8. QED
  BY <1>5, <1>6, <1>7, Zenon DEF Take, Fails, Stopped, Readable

\* What a call of the buffer reader keeps.
LEMMA MovedKeeps ==
    ASSUME WriterInv, ReaderInv, rpc # "idle", rpc' # "idle", UNCHANGED <<codec, writerVars>>,
           NEW k \in Nat, NEW step \in Nat, Moved(k, step)
    PROVE  RBuff' /\ TurnInv' /\ AheadInv' /\ OutInv'
<1>1. /\ r.readIndex \in Nat /\ first \in Nat /\ Len(wire) \in Nat
  BY Indices DEF ReaderInv
<1>2. UNCHANGED <<m, wpc, wire, lost, first>>
  BY DEF writerVars
<1>3. RBuff'
  <2>1. /\ r'.writeIndex \in Nat /\ r'.readIndex \in Nat
        /\ pos' = first + r'.writeIndex /\ at' = first + r.readIndex
    BY DEF Moved
  <2>2. pos' \in Nat /\ r'.writeIndex <= pos' /\ at' \in Nat
    BY <1>1, <2>1, SMTT(30)
  <2>3. QED
    BY <1>2, <2>2 DEF Moved, RBuff
<1>4. TurnInv'
  BY <1>2 DEF Moved, TurnInv, ReaderInv
<1>5. AheadInv'
  BY <1>2 DEF Moved, AheadInv
<1>6. OutInv'
  BY <1>2 DEF Moved, OutInv
<1>7. QED
  BY <1>3, <1>4, <1>5, <1>6

\* What is kept when the buffer reader is not called, or fails.
LEMMA StillKeeps ==
    ASSUME ReaderInv, rpc # "idle", rpc' # "idle", UNCHANGED <<codec, writerVars>>,
           UNCHANGED <<r, pos, out, at>>
    PROVE  RBuff' /\ TurnInv' /\ AheadInv' /\ OutInv'
<1>1. UNCHANGED <<m, wpc, wire, lost, first>>
  BY DEF writerVars
<1>2. RBuff'
  BY <1>1 DEF ReaderInv, RBuff
<1>3. TurnInv'
  BY <1>1 DEF ReaderInv, TurnInv
<1>4. AheadInv'
  BY <1>1 DEF ReaderInv, AheadInv
<1>5. OutInv'
  BY <1>1 DEF ReaderInv, OutInv
<1>6. QED
  BY <1>2, <1>3, <1>4, <1>5

\* Either way of the outcomes of Peek, Next and Skip.
LEMMA TakeKeeps ==
    ASSUME WriterInv, ReaderInv, rpc # "idle", UNCHANGED <<codec, writerVars>>,
           NEW k \in Nat, NEW step \in 0 .. k, NEW next, next # "idle", Take(k, step, next)
    PROVE  /\ RBuff' /\ TurnInv' /\ AheadInv' /\ OutInv'
           /\ \/ rpc' = next /\ Moved(k, step)
              \/ rpc' \in Stopped /\ UNCHANGED <<r, pos, out, at>>
<1>1. \/ rpc' = next /\ Moved(k, step)
      \/ rpc' \in Stopped /\ UNCHANGED <<r, pos, out, at>>
  BY TakeIs DEF ReaderInv
<1>2. step \in Nat /\ rpc' # "idle"
  BY <1>1 DEF Stopped
<1>3. QED
  BY <1>1, <1>2, MovedKeeps, StillKeeps

\* The bytes of the packet that is on the wire.
LEMMA OnWire ==
    ASSUME WriterInv, wpc = "ok", ~lost, m > 0
    PROVE  /\ Put /\ sent = body /\ PacketLen(body) \in Nat
           /\ Len(wire) = first + PacketLen(body)
           /\ \A i \in 0 .. PacketLen(body) - 1 : wire[first + i + 1] = Byte(i)
<1>1. sent = body /\ w.preWriteIndex = w.writeIndex /\ w.writeIndex = Written
  BY DEF WriterInv, IndexInv
<1>2. codec \in {"variable", "fixed", "delimiter"} /\ body \in Nat
  BY Counts DEF WriterInv
<1>3. Written = PacketLen(body)
  BY <1>1, <1>2 DEF Written, PacketLen, Framed
<1>4. PacketLen(body) \in Nat
  <2>1. CASE codec = "variable"
    BY <1>2, <2>1, Numbers DEF PacketLen
  <2>2. CASE codec = "fixed"
    BY <2>2, Numbers DEF PacketLen
  <2>3. CASE codec = "delimiter"
    BY <1>2, <2>3, Numbers DEF PacketLen
  <2>4. QED
    BY <1>2, <2>1, <2>2, <2>3
<1>5. w.preWriteIndex = PacketLen(body)
  BY <1>1, <1>3
<1>6. QED
  BY <1>1, <1>4, <1>5 DEF Put, WriterInv, BytesInv

\* Read, which may go past the buffer.
LEMMA ReadIs ==
    ASSUME WriterInv, RBuff, TurnInv, AheadInv, rpc # "idle",
           NEW k \in Nat, NEW n \in 1 .. k, first + r.readIndex + k <= Len(wire),
           ReadInto(k, n), at' = start + r.readIndex
    PROVE  Moved(n, n)
<1> DEFINE read == r.readIndex
           write == r.writeIndex
           readable == write - read
           want == IF k > readable THEN k - readable ELSE 0
           new == IF readable = 0 THEN n ELSE want
           nb == IF readable > 0 /\ want > 0 THEN Room(want) ELSE r.buff
           len == Len(wire)
<1>1. /\ r.buff \in Bytes /\ read \in Nat /\ write \in Nat /\ read <= write
      /\ first \in Nat /\ len \in Nat /\ first + read + k <= len
  BY Indices
<1>2. wire \in Seq(Int)
  BY Indices
<1>3. pos = first + write
  BY DEF TurnInv
<1>4. \A i \in read .. write - 1 : i \in DOMAIN r.buff /\ r.buff[i] = wire[first + i + 1]
  BY DEF AheadInv
<1>5. Size(r.buff) > 0
  BY DEF RBuff
<1>6. /\ readable > 0 => n = k
      /\ out' = [i \in 1 .. n |-> IF i <= readable THEN r.buff[read + i - 1]
                                  ELSE wire[pos + i - readable]]
      /\ pos' = pos + new
      /\ r' = [buff |-> nb, readIndex |-> read + n, writeIndex |-> write + new]
  BY Zenon DEF ReadInto, Readable
<1>7. at' = first + read
  BY <1>1, <1>3 DEF start
<1>n. n \in Nat /\ 1 <= n /\ n <= k
  OBVIOUS
<1> HIDE DEF nb, len, read, write
<1>8. want \in Nat /\ new \in Nat
  BY <1>1
<1>9. nb \in Bytes /\ Size(nb) > 0 /\ \A i \in DOMAIN r.buff : i \in DOMAIN nb /\ nb[i] = r.buff[i]
  BY <1>1, <1>5, <1>8, RoomIs DEF nb
<1>10. /\ read + n <= write + new /\ first + (write + new) <= len /\ first + read + n <= len
       /\ write + new > read + n => new = 0
  <2>1. CASE readable = 0
    BY <1>1, <2>1
  <2>2. CASE readable > 0 /\ k > readable
    <3>1. n = k /\ new = k - (write - read)
      BY <1>1, <1>6, <2>2
    <3> HIDE DEF new
    <3>2. write + new = read + n
      BY <1>1, <1>n, <3>1
    <3>3. first + (write + new) = first + read + k /\ first + read + n <= len
      BY <1>1, <1>n, <3>1
    <3>4. QED
      BY <1>1, <1>n, <3>2, <3>3
  <2>3. CASE readable > 0 /\ ~(k > readable)
    <3>1. n = k /\ new = 0
      BY <1>1, <1>6, <2>3
    <3> HIDE DEF new
    <3>2. first + write <= len
      BY <1>3 DEF RBuff, len
    <3>3. QED
      BY <1>1, <2>3, <3>1, <3>2
  <2>4. QED
    BY <1>1, <2>1, <2>2, <2>3
<1> HIDE DEF new, want
<1>11. ASSUME NEW i \in read + n .. (write + new) - 1
       PROVE  i \in DOMAIN nb /\ nb[i] = wire[first + i + 1]
  <2>1. new = 0
    <3>1. write + new > read + n
      BY <1>1, <1>8, <1>n
    <3>2. QED
      BY <1>10, <3>1
  <2>2. i \in read .. write - 1
    BY <1>1, <2>1
  <2>3. QED
    BY <1>4, <1>9, <2>2
<1>12. ASSUME NEW i \in 1 .. n
       PROVE  /\ (IF i <= readable THEN r.buff[read + i - 1] ELSE wire[pos + i - readable])
                  = wire[first + read + i]
              /\ wire[first + read + i] \in Int
  <2>1. first + read + i \in 1 .. len
    BY <1>1, <1>10
  <2>2. wire[first + read + i] \in Int
    BY <1>2, <2>1, ElementOfSeq DEF len
  <2>3. CASE i <= readable
    <3>1. read + i - 1 \in read .. write - 1 /\ first + (read + i - 1) + 1 = first + read + i
      BY <1>1, <2>3
    <3>2. r.buff[read + i - 1] = wire[first + (read + i - 1) + 1]
      BY <1>4, <3>1, Zenon
    <3>3. QED
      BY <2>2, <2>3, <3>1, <3>2
  <2>4. CASE ~(i <= readable)
    <3>1. pos + i - readable = first + read + i
      BY <1>1, <1>3
    <3>2. QED
      BY <2>2, <2>4, <3>1
  <2>5. QED
    BY <2>3, <2>4
<1> HIDE DEF readable
<1>13. out' = [i \in 1 .. n |-> wire[first + read + i]]
  BY <1>6, <1>12
<1>14. out' \in [1 .. n -> Int] /\ \A i \in 1 .. n : out'[i] = wire[first + read + i]
  BY <1>12, <1>13
<1>15. out' \in Seq(Int) /\ Len(out') = n
  BY <1>14
<1>16. /\ r'.buff = nb /\ r'.readIndex = read + n /\ r'.writeIndex = write + new
       /\ r' \in [buff : Bytes, readIndex : Nat, writeIndex : Nat]
  BY <1>1, <1>6, <1>8, <1>9, <1>n
<1>17. pos' = first + (write + new)
  BY <1>1, <1>3, <1>6, <1>8
<1>18. \A i \in r'.readIndex .. r'.writeIndex - 1 :
          i \in DOMAIN r'.buff /\ r'.buff[i] = wire[first + i + 1]
  BY <1>11, <1>16
<1>19. /\ pos' = first + r'.writeIndex /\ pos' <= Len(wire) /\ r'.readIndex <= r'.writeIndex
       /\ Size(r'.buff) > 0
  BY <1>9, <1>10, <1>16, <1>17 DEF len
<1>20. QED
  BY <1>7, <1>10, <1>14, <1>15, <1>16, <1>18, <1>19, Zenon DEF Moved, len, read

-----------------------------------------------------------------------------
(* Decode *)

\* The frame of the packet that is read.
LEMMA Frame ==
    ASSUME WriterInv, wpc = "ok", ~lost, m > 0
    PROVE  /\ codec \in {"variable", "fixed", "delimiter"} /\ body \in Nat
           /\ PacketLen(body) \in Nat /\ Front \in Nat /\ Behind \in Nat /\ Behind <= PacketLen(body)
           /\ codec = "variable" => /\ PacketLen(body) = HeaderLen + body
                                    /\ Front = HeaderLen /\ Behind = 0
           /\ codec = "fixed" => PacketLen(body) = FixedLen /\ Behind = 0 /\ Front = 0
           /\ codec = "delimiter" => /\ PacketLen(body) = body + DelimLen
                                     /\ Front = 0 /\ Behind = IF Strip THEN DelimLen ELSE 0
<1>1. codec \in {"variable", "fixed", "delimiter"} /\ body \in Nat /\ PacketLen(body) \in Nat
  BY Counts, OnWire DEF WriterInv
<1>2. /\ codec = "variable" => PacketLen(body) = HeaderLen + body /\ Behind = 0 /\ Front = HeaderLen
      /\ codec = "fixed" => PacketLen(body) = FixedLen /\ Behind = 0 /\ Front = 0
      /\ codec = "delimiter" => /\ PacketLen(body) = body + DelimLen
                                /\ Front = 0 /\ Behind = IF Strip THEN DelimLen ELSE 0
  BY DEF PacketLen, Behind, Front
<1>3. Behind \in Nat /\ Behind <= PacketLen(body)
  <2>1. CASE codec = "delimiter" /\ Strip
    <3>1. Behind = DelimLen /\ PacketLen(body) = body + DelimLen
      BY <2>1 DEF Behind, PacketLen
    <3>2. QED
      BY <1>1, <3>1, Numbers
  <2>2. CASE ~(codec = "delimiter" /\ Strip)
    BY <1>1, <2>2 DEF Behind
  <2>3. QED
    BY <2>1, <2>2
<1>4. Front \in Nat
  BY Numbers DEF Front
<1>5. QED
  BY <1>1, <1>2, <1>3, <1>4

\* The reader does not change the frame of the packet.
LEMMA SameFrame ==
    ASSUME UNCHANGED <<codec, writerVars>>
    PROVE  PacketLen(body)' = PacketLen(body) /\ Behind' = Behind /\ Front' = Front
BY DEF PacketLen, Behind, Front, writerVars

\* OnMessage.
LEMMA DecodeStep ==
    ASSUME WriterInv, ReaderInv, UNCHANGED <<codec, writerVars>>, Decode
    PROVE  ReaderInv'
<1>1. /\ rpc = "idle" /\ wpc = "ok" /\ ~lost /\ pos < Len(wire)
      /\ r' = NewReader /\ length' = 0 /\ total' = remain'
      /\ remain' = IF codec = "fixed" THEN FixedLen ELSE 0
      /\ rpc' = CASE codec = "variable"  -> "header"
                  [] codec = "fixed"     -> "payload"
                  [] codec = "delimiter" -> "search"
      /\ out' = <<>> /\ at' = 0 /\ pos' = pos /\ delivered' = delivered
  BY DEF Decode, Limit
<1>2. UNCHANGED <<m, wpc, wire, lost, first, body>>
  BY DEF writerVars
<1>3. pos \in Nat /\ first \in Nat /\ Len(wire) \in Nat /\ pos <= Len(wire)
  BY Indices DEF ReaderInv
<1>4. pos = first /\ m > 0
  <2>1. pos \in {first, Len(wire)} /\ (m = 0 => wire = <<>>)
    BY <1>1 DEF ReaderInv, TurnInv
  <2>2. pos # Len(wire) /\ Len(wire) # 0
    BY <1>1, <1>3
  <2>3. m \in Nat /\ m # 0
    BY <2>1, <2>2, Counts DEF WriterInv
  <2>4. QED
    BY <2>1, <2>2, <2>3
<1>5. /\ r' \in [buff : Bytes, readIndex : Nat, writeIndex : Nat] /\ Size(r'.buff) > 0
      /\ r'.readIndex = 0 /\ r'.writeIndex = 0
  <2>1. [i \in 0 .. ReadBuf - 1 |-> Zero] \in [0 .. ReadBuf - 1 -> Int]
    BY DEF Zero
  <2>2. NewReader.buff \in Bytes /\ Size(NewReader.buff) = ReadBuf
    BY <2>1, Limits, SizeIs DEF NewReader
  <2>3. QED
    BY <1>1, <2>2, Limits DEF NewReader
<1>6. RBuff'
  BY <1>1, <1>2, <1>3, <1>5 DEF RBuff
<1>7. codec \in {"variable", "fixed", "delimiter"}
  BY Counts DEF WriterInv
<1>8. RCounts'
  <2>1. remain' \in Nat /\ MaxLength \in Nat
    BY <1>1, Numbers, Limits
  <2>2. rpc' \in {"header", "payload", "search"}
    BY <1>1, <1>7
  <2>3. total' \in Nat /\ remain' \in 0 .. total' /\ length' \in 0 .. MaxLength
    <3>1. total' = remain' /\ length' = 0
      BY <1>1
    <3>2. QED
      BY <2>1, <3>1
  <2>4. delivered' = delivered
    BY <1>1
  <2>5. QED
    BY <2>2, <2>3, <2>4 DEF RCounts, ReaderInv
<1>9. rpc' # "idle" /\ rpc' \notin {"release", "strip", "decoded"}
  BY <1>1, <1>7
<1>10. TurnInv'
  <2>1. pos' = first' + r'.writeIndex
    BY <1>1, <1>2, <1>3, <1>4, <1>5
  <2>2. QED
    BY <1>1, <1>2, <1>4, <1>9, <2>1 DEF TurnInv
<1>11. AheadInv'
  BY <1>5 DEF AheadInv
<1>12. PlaceInv'
  <2>1. /\ rpc' = "header" => codec = "variable"
        /\ rpc' = "search" => codec = "delimiter"
        /\ rpc' = "payload" => codec = "fixed" /\ remain' = FixedLen /\ total' = FixedLen
    BY <1>1, <1>7
  <2>2. codec = "fixed" => PacketLen(body) = FixedLen /\ Behind = 0 /\ Front = 0
    BY <1>1, <1>4, Frame
  <2>3. PacketLen(body)' = PacketLen(body) /\ Behind' = Behind /\ Front' = Front
    BY SameFrame
  <2>4. rpc' = "payload" => /\ r'.readIndex + remain' = PacketLen(body)' - Behind'
                            /\ Front' + total' + Behind' = PacketLen(body)'
    BY <1>5, <2>1, <2>2, <2>3, Numbers
  <2>5. QED
    BY <1>5, <1>9, <2>1, <2>4 DEF PlaceInv
<1>13. OutInv'
  BY <1>1, <1>2, <1>3 DEF OutInv
<1>14. QED
  BY <1>6, <1>8, <1>10, <1>11, <1>12, <1>13 DEF ReaderInv

\* Where Decode gets on, or gives up.
LEMMA PlaceKept ==
    ASSUME UNCHANGED <<codec, writerVars>>, rpc' \in Stopped
    PROVE  PlaceInv'
BY DEF PlaceInv, Stopped

\* The header holds the length of the body.
LEMMA HeaderStep ==
    ASSUME WriterInv, ReaderInv, UNCHANGED <<codec, writerVars>>, Header
    PROVE  ReaderInv'
<1>1. /\ rpc = "header" /\ Take(HeaderLen, HeaderLen, "payload")
      /\ total' = remain' /\ remain' = (IF rpc' = "payload" THEN -2 - out'[1] ELSE 0)
      /\ length' = length /\ delivered' = delivered
  BY DEF Header, Limit
<1>2. /\ RBuff' /\ TurnInv' /\ AheadInv' /\ OutInv'
      /\ \/ rpc' = "payload" /\ Moved(HeaderLen, HeaderLen)
         \/ rpc' \in Stopped /\ UNCHANGED <<r, pos, out, at>>
  <2>1. HeaderLen \in Nat /\ HeaderLen \in 0 .. HeaderLen
    BY Numbers
  <2>2. QED
    BY <1>1, <2>1, TakeKeeps
<1>3. wpc = "ok" /\ ~lost /\ m > 0 /\ codec = "variable" /\ r.readIndex = 0
  BY <1>1 DEF ReaderInv, TurnInv, PlaceInv
<1>4. /\ body \in Nat /\ PacketLen(body) = HeaderLen + body /\ Behind = 0 /\ Front = HeaderLen
      /\ first \in Nat
  BY <1>3, Frame, Indices DEF ReaderInv
<1>5. PacketLen(body)' = PacketLen(body) /\ Behind' = Behind /\ Front' = Front
  BY SameFrame
<1>6. CASE rpc' = "payload" /\ Moved(HeaderLen, HeaderLen)
  <2>1. out'[1] = HeaderByte(body)
    <3>1. 0 \in 0 .. PacketLen(body) - 1 /\ 1 \in 1 .. HeaderLen /\ 0 < HeaderLen - 1
      BY <1>4, Numbers
    <3>2. out'[1] = wire[first + r.readIndex + 1]
      BY <1>6, <3>1 DEF Moved
    <3>3. wire[first + 0 + 1] = Byte(0)
      BY <1>3, <3>1, OnWire
    <3>4. Byte(0) = HeaderByte(body)
      BY <1>3, <3>1, OnWire DEF Byte
    <3>5. QED
      BY <1>3, <3>2, <3>3, <3>4
  <2>2. remain' = body /\ total' = body
    BY <1>1, <1>4, <1>6, <2>1 DEF HeaderByte
  <2>3. r'.readIndex = HeaderLen
    <3>1. r'.readIndex = r.readIndex + HeaderLen
      BY <1>6 DEF Moved
    <3>2. QED
      BY <1>3, <3>1, Numbers
  <2>4. RCounts'
    BY <1>1, <1>4, <1>6, <2>2 DEF RCounts, ReaderInv
  <2>5. /\ r'.readIndex + remain' = PacketLen(body)' - Behind'
        /\ Front' + total' + Behind' = PacketLen(body)'
    BY <1>4, <1>5, <2>2, <2>3, Numbers
  <2>6. PlaceInv'
    BY <1>6, <2>5 DEF PlaceInv
  <2>7. QED
    BY <1>2, <2>4, <2>6 DEF ReaderInv
<1>7. CASE rpc' \in Stopped
  <2>1. remain' = 0 /\ total' = 0
    BY <1>1, <1>7 DEF Stopped
  <2>2. RCounts'
    BY <1>1, <1>7, <2>1 DEF RCounts, ReaderInv
  <2>3. QED
    BY <1>2, <1>7, <2>2, PlaceKept DEF ReaderInv
<1>8. QED
  BY <1>2, <1>6, <1>7

\* The bytes that were peeked end in the delimiter at the end of the packet
\* and not before: a byte of the body is none of the delimiter.
LEMMA DelimiterIsLast ==
    ASSUME WriterInv, wpc = "ok", ~lost, m > 0, codec = "delimiter",
           NEW k \in Nat, first + k <= Len(wire),
           NEW b \in Seq(Int), Len(b) = k, \A i \in 1 .. k : b[i] = wire[first + i],
           EndsInDelimiter(b)
    PROVE  k = PacketLen(body)
<1> DEFINE i == k - DelimLen + 1
<1>1. /\ sent = body /\ PacketLen(body) = body + DelimLen
      /\ \A j \in 0 .. PacketLen(body) - 1 : wire[first + j + 1] = Byte(j)
  BY OnWire, Frame
<1>2. /\ body \in Nat /\ m \in Nat /\ first \in Nat /\ DelimLen \in Nat /\ DelimLen > 0
      /\ k <= body + DelimLen /\ k >= DelimLen
  <2>1. Len(wire) = first + (body + DelimLen) /\ k >= DelimLen
    BY <1>1, OnWire DEF EndsInDelimiter
  <2>2. body \in Nat /\ m \in Nat /\ first \in Nat /\ DelimLen \in Nat /\ DelimLen > 0
    BY Counts, Numbers DEF WriterInv
  <2>3. first + k <= first + (body + DelimLen)
    BY <2>1
  <2>4. QED
    BY <2>1, <2>2, <2>3
<1>l. PacketLen(body) = body + DelimLen
  BY <1>1
<1>e. k < body + DelimLen \/ k = body + DelimLen
  <2> DEFINE last == body + DelimLen
  <2>1. last \in Nat /\ k <= last
    BY <1>2
  <2> HIDE DEF last
  <2>2. k < last \/ k = last
    BY <2>1
  <2>3. QED
    BY <2>2 DEF last
<1>3. SUFFICES ASSUME k < body + DelimLen PROVE FALSE
  BY <1>e, <1>l, Zenon
<1>4. /\ i \in Nat /\ 1 <= i /\ i <= body /\ i \in k - DelimLen + 1 .. k /\ i \in 1 .. k
      /\ i - 1 \in 0 .. PacketLen(body) - 1
      /\ first + (i - 1) + 1 = first + i /\ i - 1 < body /\ i - 1 + 1 = i
  BY <1>2, <1>3, <1>l
<1> HIDE DEF i
<1>5. b[i] = DelimByte
  BY <1>4 DEF EndsInDelimiter
<1>6. b[i] = wire[first + i]
  BY <1>4
<1>7. wire[first + (i - 1) + 1] = Byte(i - 1)
  BY <1>1, <1>4
<1>8. Byte(i - 1) = BodyByte(m, i)
  BY <1>1, <1>4 DEF Byte
<1>9. BodyByte(m, i) = DelimByte
  BY <1>4, <1>5, <1>6, <1>7, <1>8
<1>10. QED
  BY <1>2, <1>4, <1>9 DEF BodyByte, DelimByte

\* The search ends at the end of the packet, or in an error.
LEMMA SearchStep ==
    ASSUME WriterInv, ReaderInv, UNCHANGED <<codec, writerVars>>, Search
    PROVE  ReaderInv'
<1> DEFINE k == length + 1
<1>1. /\ rpc = "search" /\ length < MaxLength /\ length' = k /\ delivered' = delivered
      /\ total' = remain'
      /\ remain' = (IF rpc' = "payload" THEN k - (IF Strip THEN DelimLen ELSE 0) ELSE 0)
  BY DEF Search, Limit
<1>2. PICK next \in {"search", "payload"} :
         /\ Take(k, 0, next) /\ (rpc' = next => (next = "payload" <=> EndsInDelimiter(out')))
  BY <1>1 DEF Search
<1>3. k \in Nat /\ 0 \in 0 .. k /\ k \in 0 .. MaxLength
  BY <1>1, Limits DEF ReaderInv, RCounts
<1>4. /\ RBuff' /\ TurnInv' /\ AheadInv' /\ OutInv'
      /\ \/ rpc' = next /\ Moved(k, 0)
         \/ rpc' \in Stopped /\ UNCHANGED <<r, pos, out, at>>
  <2> HIDE DEF k
  <2>1. QED
    BY <1>1, <1>2, <1>3, TakeKeeps
<1>5. wpc = "ok" /\ ~lost /\ m > 0 /\ codec = "delimiter" /\ r.readIndex = 0
  BY <1>1 DEF ReaderInv, TurnInv, PlaceInv
<1>6. /\ body \in Nat /\ PacketLen(body) = body + DelimLen /\ first \in Nat
      /\ Front = 0 /\ Behind = IF Strip THEN DelimLen ELSE 0
  BY <1>5, Frame, Indices DEF ReaderInv
<1>7. PacketLen(body)' = PacketLen(body) /\ Behind' = Behind /\ Front' = Front
  BY SameFrame
<1> HIDE DEF k
<1>8. CASE rpc' = "payload"
  <2>1. Moved(k, 0) /\ EndsInDelimiter(out')
    BY <1>2, <1>4, <1>8 DEF Stopped
  <2>2. /\ out' \in Seq(Int) /\ Len(out') = k /\ first + r.readIndex + k <= Len(wire)
        /\ \A i \in 1 .. k : out'[i] = wire[first + r.readIndex + i]
        /\ r'.readIndex = r.readIndex + 0
    BY <2>1 DEF Moved
  <2>3. first + r.readIndex = first /\ r'.readIndex = 0
    BY <1>5, <1>6, <2>2
  <2>4. k = PacketLen(body)
    BY <1>3, <1>5, <2>1, <2>2, <2>3, DelimiterIsLast
  <2>5. remain' = PacketLen(body) - Behind /\ remain' \in Nat /\ Behind \in Nat
    BY <1>1, <1>6, <1>8, <2>4, Numbers
  <2>6. RCounts'
    <3>1. total' \in Nat /\ remain' \in 0 .. total' /\ length' \in 0 .. MaxLength
      BY <1>1, <1>3, <2>5
    <3>2. QED
      BY <1>1, <1>8, <3>1 DEF RCounts, ReaderInv
  <2>7. /\ r'.readIndex + remain' = PacketLen(body)' - Behind'
        /\ Front' + total' + Behind' = PacketLen(body)'
    <3>1. total' = remain'
      BY <1>1
    <3>2. PacketLen(body) \in Nat /\ Front = 0
      BY <1>6, Numbers
    <3>3. QED
      BY <1>7, <2>3, <2>5, <3>1, <3>2
  <2>8. PlaceInv'
    BY <1>8, <2>7 DEF PlaceInv
  <2>9. QED
    BY <1>4, <2>6, <2>8 DEF ReaderInv
<1>9. CASE rpc' # "payload"
  <2>1. (rpc' = "search" /\ r'.readIndex = r.readIndex + 0) \/ rpc' \in Stopped
    BY <1>4, <1>9 DEF Moved
  <2>2. remain' = 0 /\ total' = 0
    BY <1>1, <1>9
  <2>3. RCounts'
    <3>1. rpc' \in {"search"} \cup Stopped
      BY <2>1
    <3>2. QED
      BY <1>1, <1>3, <2>2, <3>1 DEF RCounts, ReaderInv
  <2>4. PlaceInv'
    <3>1. CASE rpc' = "search"
      <4>1. r'.readIndex = 0 /\ codec' = "delimiter"
        BY <1>5, <2>1, <3>1 DEF Stopped
      <4>2. QED
        BY <3>1, <4>1 DEF PlaceInv
    <3>2. QED
      BY <2>1, <3>1, PlaceKept
  <2>5. QED
    BY <1>4, <2>3, <2>4 DEF ReaderInv
<1>10. QED
  BY <1>8, <1>9

\* Decode, or the payload codec, gives up.
LEMMA GiveUpStep ==
    ASSUME ReaderInv, UNCHANGED <<codec, writerVars>>, TooLong \/ UnmarshalFails
    PROVE  ReaderInv'
<1>1. /\ rpc # "idle" /\ rpc' = "error"
      /\ UNCHANGED <<r, pos, out, at, total, remain, length, delivered>>
  BY DEF TooLong, UnmarshalFails, Fails
<1>2. RBuff' /\ TurnInv' /\ AheadInv' /\ OutInv'
  BY <1>1, StillKeeps
<1>3. RCounts'
  BY <1>1 DEF RCounts, ReaderInv, Stopped
<1>4. PlaceInv'
  BY <1>1, PlaceKept DEF Stopped
<1>5. QED
  BY <1>2, <1>3, <1>4 DEF ReaderInv

-----------------------------------------------------------------------------
(* The payload codec on the limit reader *)

\* It moves the limit as far as the buffer reader.
LEMMA LimitStep ==
    ASSUME WriterInv, ReaderInv, UNCHANGED <<codec, writerVars, total, length, delivered>>,
           rpc = "payload", rpc' = "payload", NEW k \in Nat, NEW step \in 0 .. remain,
           Moved(k, step), remain' = remain - step
    PROVE  ReaderInv'
<1>1. total \in Nat /\ remain \in Nat /\ remain <= total /\ step \in Nat /\ step <= remain
  BY DEF ReaderInv, RCounts
<1>2. UNCHANGED <<codec, writerVars>>
  BY DEF writerVars
<1>3. RBuff' /\ TurnInv' /\ AheadInv' /\ OutInv'
  BY <1>1, <1>2, MovedKeeps
<1>4. RCounts'
  <2>1. remain' \in 0 .. total'
    BY <1>1
  <2>2. QED
    BY <2>1 DEF RCounts, ReaderInv
<1>5. PlaceInv'
  <2>1. PacketLen(body)' = PacketLen(body) /\ Behind' = Behind /\ Front' = Front
    BY <1>2, SameFrame
  <2>2. /\ r.readIndex + remain = PacketLen(body) - Behind
        /\ Front + total + Behind = PacketLen(body)
    BY DEF ReaderInv, PlaceInv
  <2>3. r'.readIndex = r.readIndex + step /\ r.readIndex \in Nat
    BY Indices DEF Moved, ReaderInv
  <2>4. r'.readIndex + remain' = r.readIndex + remain
    BY <1>1, <2>3
  <2>5. QED
    BY <2>1, <2>2, <2>4 DEF PlaceInv
<1>6. QED
  BY <1>3, <1>4, <1>5 DEF ReaderInv

\* The connection fails under a call, or the call panics.
LEMMA StoppedStep ==
    ASSUME ReaderInv, UNCHANGED <<codec, writerVars>>, rpc # "idle", rpc' \in Stopped,
           remain' \in {remain, 0}, UNCHANGED <<r, pos, out, at, total, length, delivered>>
    PROVE  ReaderInv'
<1>1. RBuff' /\ TurnInv' /\ AheadInv' /\ OutInv'
  BY StillKeeps DEF Stopped
<1>2. RCounts'
  <2>1. remain' \in 0 .. total'
    BY DEF RCounts, ReaderInv
  <2>2. QED
    BY <2>1 DEF RCounts, ReaderInv
<1>3. QED
  BY <1>1, <1>2, PlaceKept DEF ReaderInv

\* Next and Skip of the limit reader, ...
LEMMA NextStep ==
    ASSUME WriterInv, ReaderInv, UNCHANGED <<codec, writerVars>>, NEW k \in 1 .. remain, Next_(k)
    PROVE  ReaderInv'
<1>1. /\ rpc = "payload" /\ Take(k, k, "payload")
      /\ remain' = IF rpc' = "payload" THEN remain - k ELSE remain
      /\ UNCHANGED <<total, length, delivered>>
  BY DEF Next_
<1>2. k \in Nat /\ k \in 0 .. k /\ k \in 0 .. remain
  BY DEF ReaderInv, RCounts
<1>3. \/ rpc' = "payload" /\ Moved(k, k)
      \/ rpc' \in Stopped /\ UNCHANGED <<r, pos, out, at>>
  BY <1>1, <1>2, TakeKeeps
<1>4. CASE rpc' = "payload" /\ Moved(k, k)
  BY <1>1, <1>2, <1>4, LimitStep
<1>5. CASE rpc' \in Stopped /\ UNCHANGED <<r, pos, out, at>>
  BY <1>1, <1>5, StoppedStep DEF Stopped
<1>6. QED
  BY <1>3, <1>4, <1>5

\* ... Peek, which leaves the limit where it is, ...
LEMMA PeekStep ==
    ASSUME WriterInv, ReaderInv, UNCHANGED <<codec, writerVars>>, NEW k \in 1 .. remain, Peek(k)
    PROVE  ReaderInv'
<1>1. /\ rpc = "payload" /\ Take(k, 0, "payload")
      /\ UNCHANGED <<total, remain, length, delivered>>
  BY DEF Peek
<1>2. k \in Nat /\ 0 \in 0 .. k /\ 0 \in 0 .. remain /\ remain - 0 = remain
  BY DEF ReaderInv, RCounts
<1>3. \/ rpc' = "payload" /\ Moved(k, 0)
      \/ rpc' \in Stopped /\ UNCHANGED <<r, pos, out, at>>
  BY <1>1, <1>2, TakeKeeps
<1>4. CASE rpc' = "payload" /\ Moved(k, 0)
  BY <1>1, <1>2, <1>4, LimitStep
<1>5. CASE rpc' \in Stopped /\ UNCHANGED <<r, pos, out, at>>
  BY <1>1, <1>5, StoppedStep DEF Stopped
<1>6. QED
  BY <1>3, <1>4, <1>5

\* ... and Read, which may return less than it is asked for.
LEMMA ReadStep ==
    ASSUME WriterInv, ReaderInv, UNCHANGED <<codec, writerVars>>, NEW k \in 1 .. remain, Read(k)
    PROVE  ReaderInv'
<1>1. rpc = "payload" /\ at' = start + r.readIndex /\ UNCHANGED <<total, length, rpc, delivered>>
  BY DEF Read
<1>2. PICK n \in 1 .. k : ReadInto(k, n) /\ remain' = remain - n
  BY DEF Read
<1>3. k \in Nat /\ n \in Nat /\ n \in 0 .. remain /\ remain \in Nat /\ k <= remain
  BY DEF ReaderInv, RCounts
<1>4. first + r.readIndex + k <= Len(wire)
  <2>1. wpc = "ok" /\ ~lost /\ m > 0 /\ r.readIndex + remain = PacketLen(body) - Behind
    BY <1>1 DEF ReaderInv, TurnInv, PlaceInv
  <2>2. /\ PacketLen(body) \in Nat /\ Behind \in Nat /\ r.readIndex \in Nat /\ first \in Nat
    BY <2>1, Frame, Indices DEF ReaderInv
  <2>3. Len(wire) = first + PacketLen(body)
    BY <2>1, OnWire
  <2>4. first + r.readIndex + k <= first + PacketLen(body)
    BY <1>3, <2>1, <2>2
  <2>5. QED
    BY <2>3, <2>4
<1>5. Moved(n, n)
  BY <1>1, <1>2, <1>3, <1>4, ReadIs DEF ReaderInv
<1>6. QED
  BY <1>1, <1>2, <1>3, <1>5, LimitStep

\* The payload codec returns, whatever it has left.
LEMMA UnmarshalledStep ==
    ASSUME ReaderInv, UNCHANGED <<codec, writerVars>>, Unmarshalled
    PROVE  ReaderInv'
<1>1. /\ rpc = "payload" /\ rpc' = "release"
      /\ UNCHANGED <<r, pos, total, remain, length, out, at, delivered>>
  BY DEF Unmarshalled
<1>2. RBuff' /\ TurnInv' /\ AheadInv' /\ OutInv'
  BY <1>1, StillKeeps
<1>3. RCounts'
  BY <1>1 DEF RCounts, ReaderInv
<1>4. PlaceInv'
  BY <1>1, SameFrame DEF PlaceInv, ReaderInv
<1>5. QED
  BY <1>2, <1>3, <1>4 DEF ReaderInv

\* Release takes the rest.
LEMMA ReleaseStep ==
    ASSUME WriterInv, ReaderInv, UNCHANGED <<codec, writerVars>>, Release
    PROVE  ReaderInv'
<1> DEFINE next == IF codec = "delimiter" /\ Strip THEN "strip" ELSE "decoded"
<1>1. /\ rpc = "release" /\ Take(remain, remain, next) /\ remain' = 0
      /\ UNCHANGED <<total, length, delivered>>
  BY DEF Release
<1>2. next \in {"strip", "decoded"} /\ (next = "strip" <=> codec = "delimiter" /\ Strip)
  OBVIOUS
<1> HIDE DEF next
<1>3. remain \in Nat /\ remain \in 0 .. remain /\ total \in Nat
  BY DEF ReaderInv, RCounts
<1>4. /\ RBuff' /\ TurnInv' /\ AheadInv' /\ OutInv'
      /\ \/ rpc' = next /\ Moved(remain, remain)
         \/ rpc' \in Stopped /\ UNCHANGED <<r, pos, out, at>>
  BY <1>1, <1>2, <1>3, TakeKeeps
<1>5. CASE rpc' = next /\ Moved(remain, remain)
  <2>1. /\ wpc = "ok" /\ ~lost /\ m > 0
        /\ r.readIndex + remain = PacketLen(body) - Behind
        /\ Front + total + Behind = PacketLen(body)
    BY <1>1 DEF ReaderInv, TurnInv, PlaceInv
  <2>2. PacketLen(body) \in Nat /\ Behind \in Nat
    BY <2>1, Frame
  <2>3. /\ next = "strip" => Behind = DelimLen
        /\ next = "decoded" => Behind = 0
    BY <1>2 DEF Behind
  <2>4. r'.readIndex = PacketLen(body) - Behind
    BY <1>5, <2>1 DEF Moved
  <2>5. /\ next = "strip" => r'.readIndex + Behind = PacketLen(body)
        /\ next = "decoded" => r'.readIndex = PacketLen(body)
    BY <2>2, <2>3, <2>4
  <2>6. PacketLen(body)' = PacketLen(body) /\ Behind' = Behind /\ Front' = Front
    BY SameFrame
  <2>7. PlaceInv'
    BY <1>1, <1>2, <1>5, <2>1, <2>3, <2>5, <2>6 DEF PlaceInv
  <2>8. RCounts'
    BY <1>1, <1>2, <1>3, <1>5 DEF RCounts, ReaderInv
  <2>9. QED
    BY <1>4, <2>7, <2>8 DEF ReaderInv
<1>6. CASE rpc' \in Stopped /\ UNCHANGED <<r, pos, out, at>>
  BY <1>1, <1>6, StoppedStep DEF Stopped
<1>7. QED
  BY <1>4, <1>5, <1>6

\* The delimiter is taken with a Skip of its own.
LEMMA StripDelimiterStep ==
    ASSUME WriterInv, ReaderInv, UNCHANGED <<codec, writerVars>>, StripDelimiter
    PROVE  ReaderInv'
<1>1. /\ rpc = "strip" /\ Take(DelimLen, DelimLen, "decoded")
      /\ UNCHANGED <<total, remain, length, delivered>>
  BY DEF StripDelimiter
<1>2. DelimLen \in Nat /\ DelimLen \in 0 .. DelimLen
  BY Numbers
<1>3. /\ RBuff' /\ TurnInv' /\ AheadInv' /\ OutInv'
      /\ \/ rpc' = "decoded" /\ Moved(DelimLen, DelimLen)
         \/ rpc' \in Stopped /\ UNCHANGED <<r, pos, out, at>>
  BY <1>1, <1>2, TakeKeeps
<1>4. CASE rpc' = "decoded" /\ Moved(DelimLen, DelimLen)
  <2>1. /\ r.readIndex + DelimLen = PacketLen(body)
        /\ Front + total + Behind = PacketLen(body)
    BY <1>1 DEF ReaderInv, PlaceInv
  <2>2. r'.readIndex = PacketLen(body)
    BY <1>4, <2>1 DEF Moved
  <2>3. PlaceInv'
    BY <1>1, <1>4, <2>1, <2>2, SameFrame DEF PlaceInv
  <2>4. RCounts'
    BY <1>1, <1>4 DEF RCounts, ReaderInv
  <2>5. QED
    BY <1>3, <2>3, <2>4 DEF ReaderInv
<1>5. CASE rpc' \in Stopped /\ UNCHANGED <<r, pos, out, at>>
  BY <1>1, <1>5, StoppedStep DEF Stopped
<1>6. QED
  BY <1>3, <1>4, <1>5

\* A Decode that succeeds has taken its packet from the stream.
LEMMA ReaderInvFraming == WriterInv /\ ReaderInv => FramingKept
<1> SUFFICES ASSUME WriterInv, ReaderInv, rpc = "decoded" PROVE pos = Len(wire)
  BY DEF FramingKept
<1>1. /\ wpc = "ok" /\ ~lost /\ m > 0 /\ pos = first + r.writeIndex
      /\ r.readIndex = PacketLen(body)
  BY DEF ReaderInv, TurnInv, PlaceInv
<1>2. Len(wire) = first + PacketLen(body) /\ PacketLen(body) \in Nat
  BY <1>1, OnWire
<1>3. /\ first \in Nat /\ r.writeIndex \in Nat /\ r.readIndex <= r.writeIndex
      /\ pos <= Len(wire)
  BY Indices DEF ReaderInv
<1>4. QED
  BY <1>1, <1>2, <1>3

\* What OnRead passes on.
Taken ==
    LET end == start + r.readIndex - (IF codec = "delimiter" /\ Strip THEN DelimLen ELSE 0)
    IN SubSeq(wire, end - total + 1, end)

\* It is the packet without what lies before and behind the limit.
LEMMA TakenIs ==
    ASSUME WriterInv, ReaderInv, rpc = "decoded"
    PROVE  /\ Taken \in Seq(Int) /\ Len(Taken) = total /\ total \in Nat
           /\ \A i \in 1 .. total : Taken[i] = wire[first + Front + i]
<1> DEFINE end == start + r.readIndex - (IF codec = "delimiter" /\ Strip THEN DelimLen ELSE 0)
           packet == PacketLen(body)
           len == Len(wire)
           begin == end - total + 1
           message == SubSeq(wire, begin, end)
<1>0. /\ wpc = "ok" /\ ~lost /\ m > 0 /\ pos = first + r.writeIndex
      /\ r.readIndex = packet /\ Front + total + Behind = packet
  BY DEF ReaderInv, TurnInv, PlaceInv
<1>1. /\ packet \in Nat /\ Behind \in Nat /\ total \in Nat /\ Front \in Nat
      /\ Front + total + Behind = packet
      /\ first \in Nat /\ len = first + packet
  BY <1>0, Frame, OnWire, Indices DEF ReaderInv, RCounts
<1>2. end = first + packet - Behind
  <2>1. r.writeIndex \in Nat /\ r.readIndex = packet /\ pos = first + r.writeIndex
    BY <1>0, Indices DEF ReaderInv
  <2>2. pos - r.writeIndex = first
    BY <1>1, <2>1
  <2>3. end = (pos - r.writeIndex) + (r.readIndex - Behind)
    BY Zenon DEF start, Behind
  <2>4. QED
    BY <2>1, <2>2, <2>3
<1>3. wire \in Seq(Int)
  BY Indices DEF ReaderInv
<1>4. Taken = message
  BY DEF Taken
<1> HIDE DEF end, packet, len
<1>5. /\ end \in Int /\ begin \in Int /\ end <= len /\ begin >= 1 /\ len \in Nat
      /\ begin = first + Front + 1 /\ end - begin + 1 = total
  BY <1>1, <1>2
<1> HIDE DEF begin
<1>6. \A i \in begin .. end : i \in 1 .. len
  BY <1>5
<1>7. \A i \in begin .. end : wire[i] \in Int
  BY <1>3, <1>6, ElementOfSeq DEF len
<1>8. /\ message \in Seq(Int) /\ Len(message) = IF begin <= end THEN end - begin + 1 ELSE 0
      /\ \A i \in 1 .. end - begin + 1 : message[i] = wire[begin + i - 1]
  BY <1>5, <1>7, SubSeqProperties
<1> HIDE DEF message
<1>9. Len(message) = total
  BY <1>1, <1>5, <1>8
<1>10. ASSUME NEW i \in 1 .. total PROVE message[i] = wire[first + Front + i]
  <2>1. begin + i - 1 = first + Front + i
    BY <1>1, <1>5
  <2>2. QED
    BY <1>5, <1>8, <2>1
<1>11. QED
  BY <1>1, <1>4, <1>8, <1>9, <1>10

\* The message is passed on or dropped; the stream is at the end of it.
LEMMA OnReadStep ==
    ASSUME WriterInv, ReaderInv, UNCHANGED <<codec, writerVars>>, OnRead
    PROVE  ReaderInv'
<1> DEFINE end == start + r.readIndex - (IF codec = "delimiter" /\ Strip THEN DelimLen ELSE 0)
           message == SubSeq(wire, end - total + 1, end)
<1>1. /\ rpc = "decoded" /\ rpc' = "idle"
      /\ delivered' = IF TooLarge THEN delivered ELSE Append(delivered, message)
      /\ UNCHANGED <<r, pos, total, remain, length, out, at>>
  BY DEF OnRead
<1>2. /\ wpc = "ok" /\ ~lost /\ m > 0 /\ pos = first + r.writeIndex
      /\ r.readIndex = PacketLen(body) /\ Front + total + Behind = PacketLen(body)
  BY <1>1 DEF ReaderInv, TurnInv, PlaceInv
<1>3. pos = Len(wire)
  BY <1>1, ReaderInvFraming DEF FramingKept
<1>4. UNCHANGED <<m, wpc, wire, lost, first>>
  BY DEF writerVars
<1>5. message \in Seq(Int)
  BY <1>1, TakenIs DEF Taken
<1> HIDE DEF message
<1>6. delivered' \in Seq(Seq(Int))
  <2>1. delivered \in Seq(Seq(Int))
    BY DEF ReaderInv, RCounts
  <2>2. QED
    BY <1>1, <1>5, <2>1
<1>7. RBuff'
  BY <1>1, <1>4 DEF ReaderInv, RBuff
<1>8. RCounts'
  BY <1>1, <1>6 DEF ReaderInv, RCounts
<1>9. TurnInv'
  BY <1>1, <1>2, <1>3, <1>4 DEF TurnInv
<1>10. AheadInv'
  BY <1>1 DEF AheadInv
<1>11. PlaceInv'
  BY <1>1 DEF PlaceInv
<1>12. OutInv'
  BY <1>1, <1>4 DEF ReaderInv, OutInv
<1>13. QED
  BY <1>7, <1>8, <1>9, <1>10, <1>11, <1>12 DEF ReaderInv

-----------------------------------------------------------------------------
(* The two sides *)

\* Encode begins where the wire ends; what comes later only adds to the wire.
LEMMA WriterMoves ==
    ASSUME WriterNext
    PROVE  \/ /\ wpc \in {"ok", "error"} /\ ~lost /\ m' = m + 1
              /\ first' = Len(wire) /\ wire' = wire
           \/ /\ wpc \notin {"ok", "error"} /\ m' = m
              /\ first' = first /\ wire' \in {wire, wire \o Unflushed}
<1>1. ASSUME NEW b \in Bodies, Encode(b)
      PROVE  /\ wpc \in {"ok", "error"} /\ ~lost /\ m' = m + 1
             /\ first' = Len(wire) /\ wire' = wire
  BY <1>1, Zenon DEF Encode
<1> DEFINE after == /\ wpc \notin {"ok", "error"} /\ m' = m
                    /\ first' = first /\ wire' \in {wire, wire \o Unflushed}
<1>2. ASSUME NEW k \in 1 .. body, Marshal(k) PROVE after
  BY <1>2, Zenon DEF Marshal
<1>3. ASSUME MarshalFlush \/ MarshalFails \/ Marshalled PROVE after
  BY <1>3, Zenon DEF MarshalFlush, MarshalFails, Marshalled
<1>4. ASSUME PutLength \/ AppendDelimiter \/ Flush PROVE after
  BY <1>4, Zenon DEF PutLength, AppendDelimiter, Flush
<1>5. QED
  BY <1>1, <1>2, <1>3, <1>4, Zenon DEF WriterNext

\* The bytes that are on the wire stay.
LEMMA WireGrows ==
    ASSUME WriterInv, wire' \in {wire, wire \o Unflushed}
    PROVE  Len(wire) <= Len(wire') /\ \A i \in 1 .. Len(wire) : wire'[i] = wire[i]
<1> DEFINE more == Unflushed
           all == wire \o more
<1>1. wire \in Seq(Int) /\ more \in Seq(Int)
  BY FlushIs DEF WriterInv, WTypes, MessageInv
<1>2. Len(wire) \in Nat /\ Len(more) \in Nat
  BY <1>1
<1> HIDE DEF more
<1>3. /\ Len(all) = Len(wire) + Len(more)
      /\ \A i \in 1 .. Len(wire) + Len(more) :
            all[i] = IF i <= Len(wire) THEN wire[i] ELSE more[i - Len(wire)]
  BY <1>1, ConcatProperties, Zenon
<1> HIDE DEF all
<1>4. Len(wire) <= Len(all) /\ \A i \in 1 .. Len(wire) : all[i] = wire[i]
  <2> DEFINE len == Len(wire)
             add == Len(more)
  <2>1. \A i \in 1 .. len : i \in 1 .. len + add /\ i <= len
    BY <1>2
  <2>2. len <= len + add
    BY <1>2
  <2>3. QED
    BY <1>3, <2>1, <2>2
<1>5. CASE wire' = wire
  BY <1>2, <1>5
<1>6. CASE wire' = all
  BY <1>4, <1>6
<1>7. QED
  BY <1>5, <1>6 DEF all, more

\* The sender goes on when the reader has what was sent.
LEMMA WriterTurnStep ==
    ASSUME WriterInv, ReaderInv, rpc = "idle", wpc = "ok" => pos = Len(wire), WriterNext,
           UNCHANGED readerVars
    PROVE  WriterInv' /\ ReaderInv'
<1>1. WriterInv'
  BY WriterStep
<1>2. UNCHANGED <<r, pos, total, remain, length, rpc, out, at, delivered>>
  BY DEF readerVars
<1>3. Len(wire) <= Len(wire') /\ \A i \in 1 .. Len(wire) : wire'[i] = wire[i]
  <2>1. wire' \in {wire, wire \o Unflushed}
    BY WriterMoves, Zenon
  <2>2. QED
    BY <2>1, WireGrows
<1>4. Len(wire) \in Nat /\ Len(wire') \in Nat /\ pos \in Nat /\ pos <= Len(wire)
  BY <1>1, Indices, Counts DEF ReaderInv, WriterInv, WTypes, MessageInv
<1>5. RBuff'
  <2>1. pos' <= Len(wire')
    BY <1>2, <1>3, <1>4
  <2>2. QED
    BY <1>2, <2>1 DEF ReaderInv, RBuff
<1>6. RCounts'
  BY <1>2 DEF ReaderInv, RCounts
<1>7. TurnInv'
  <2>1. m \in Nat /\ m' # 0
    <3>1. m \in Nat /\ (m = 0 => wpc = "ok")
      BY Counts DEF WriterInv, WTypes, MessageInv
    <3>2. QED
      BY <3>1, WriterMoves
  <2>2. pos = first'
    <3>1. CASE wpc \in {"ok", "error"} /\ ~lost /\ first' = Len(wire)
      <4>1. wpc = "error" => pos = Len(wire)
        <5>1. wpc = "error" => w.preWriteIndex = 0 /\ pos = first /\ Len(wire) = first + w.preWriteIndex
          BY <3>1 DEF WriterInv, RegionInv, BytesInv, ReaderInv, TurnInv
        <5>2. first \in Nat
          BY Counts DEF WriterInv
        <5>3. QED
          BY <5>1, <5>2
      <4>2. QED
        BY <3>1, <4>1
    <3>2. CASE wpc \notin {"ok", "error"} /\ first' = first
      BY <3>2 DEF ReaderInv, TurnInv
    <3>3. QED
      BY <3>1, <3>2, WriterMoves, Zenon
  <2>3. QED
    BY <1>2, <2>1, <2>2 DEF TurnInv
<1>8. AheadInv'
  BY <1>2 DEF AheadInv
<1>9. PlaceInv'
  BY <1>2 DEF PlaceInv
<1>10. OutInv'
  <2>1. /\ at \in Nat /\ Len(out) \in Nat /\ at + Len(out) <= Len(wire)
        /\ \A i \in 1 .. Len(out) : out[i] = wire[at + i]
    BY DEF ReaderInv, RBuff, OutInv
  <2> DEFINE len == Len(wire)
             n == Len(out)
  <2>2. at \in Nat /\ n \in Nat /\ len \in Nat /\ at + n <= len
    BY <1>4, <2>1
  <2> HIDE DEF len, n
  <2>3. \A i \in 1 .. n : at + i \in 1 .. len
    BY <2>2
  <2>4. \A i \in 1 .. n : out[i] = wire'[at + i]
    BY <1>3, <2>1, <2>3 DEF n, len
  <2>5. at + Len(out) <= Len(wire')
    BY <1>3, <1>4, <2>1
  <2>6. QED
    BY <1>2, <2>4, <2>5 DEF OutInv, n
<1>11. QED
  BY <1>1, <1>5, <1>6, <1>7, <1>8, <1>9, <1>10 DEF ReaderInv

\* The reader leaves the writer alone.
LEMMA WriterSame ==
    ASSUME WriterInv, UNCHANGED <<codec, writerVars>>
    PROVE  WriterInv'
<1>1. UNCHANGED <<codec, w, header, m, body, sent, flushes, wpc, wire, lost, first, given>>
  BY DEF writerVars
<1>2. WTypes'
  BY <1>1 DEF WriterInv, WTypes, BuffInv, MessageInv
<1>3. IndexInv'
  BY <1>1 DEF WriterInv, IndexInv, Written, Framed
<1>4. RegionInv'
  BY <1>1 DEF WriterInv, RegionInv
<1>5. BytesInv'
  <2>1. ASSUME NEW i PROVE Byte(i)' = Byte(i)
    BY <1>1 DEF Byte, Put
  <2>2. QED
    BY <1>1, <2>1 DEF WriterInv, BytesInv
<1>6. QED
  BY <1>2, <1>3, <1>4, <1>5 DEF WriterInv

\* Every step of the reader.
LEMMA ReaderStep ==
    ASSUME WriterInv, ReaderInv, ReaderNext, UNCHANGED <<codec, writerVars>>
    PROVE  ReaderInv'
<1>1. ASSUME NEW k \in 1 .. remain, Next_(k) \/ Peek(k) \/ Read(k) PROVE ReaderInv'
  BY <1>1, NextStep, PeekStep, ReadStep
<1>2. QED
  BY <1>1, DecodeStep, HeaderStep, SearchStep, GiveUpStep, UnmarshalledStep, ReleaseStep,
     StripDelimiterStep, OnReadStep DEF ReaderNext

\* Stuttering.
LEMMA ReaderSame ==
    ASSUME ReaderInv, UNCHANGED vars
    PROVE  ReaderInv'
<1>1. UNCHANGED <<codec, m, body, wpc, wire, lost, first>>
      /\ UNCHANGED <<r, pos, total, remain, length, rpc, out, at, delivered>>
  BY DEF vars, writerVars, readerVars
<1>2. PacketLen(body)' = PacketLen(body) /\ Behind' = Behind /\ Front' = Front
  BY <1>1 DEF PacketLen, Behind, Front
<1>3. RBuff' /\ RCounts'
  BY <1>1 DEF ReaderInv, RBuff, RCounts
<1>4. TurnInv' /\ AheadInv' /\ OutInv'
  BY <1>1 DEF ReaderInv, TurnInv, AheadInv, OutInv
<1>5. PlaceInv'
  BY <1>1, <1>2 DEF ReaderInv, PlaceInv
<1>6. QED
  BY <1>3, <1>4, <1>5 DEF ReaderInv

\* The state before the first packet.
LEMMA ReaderStart == Init => ReaderInv
<1> SUFFICES ASSUME Init PROVE ReaderInv
  OBVIOUS
<1>1. /\ r = NewReader /\ pos = 0 /\ total = 0 /\ remain = 0 /\ length = 0 /\ rpc = "idle"
      /\ out = <<>> /\ at = 0 /\ delivered = <<>> /\ wire = <<>> /\ first = 0 /\ wpc = "ok"
  BY DEF Init, WriterInit
<1>2. NewReader.buff \in Bytes /\ Size(NewReader.buff) = ReadBuf
  <2>1. [i \in 0 .. ReadBuf - 1 |-> Zero] \in [0 .. ReadBuf - 1 -> Int]
    BY DEF Zero
  <2>2. QED
    BY <2>1, Limits, SizeIs DEF NewReader
<1>3. RBuff
  BY <1>1, <1>2, Limits DEF RBuff, NewReader
<1>4. RCounts
  BY <1>1, Limits DEF RCounts
<1>5. TurnInv /\ AheadInv /\ PlaceInv /\ OutInv
  BY <1>1 DEF TurnInv, AheadInv, PlaceInv, OutInv
<1>6. QED
  BY <1>3, <1>4, <1>5 DEF ReaderInv

\* What is returned is what is next.
LEMMA ReaderInvNext == WriterInv /\ ReaderInv => NextBytes
<1> SUFFICES ASSUME WriterInv, ReaderInv PROVE NextBytes
  OBVIOUS
<1> DEFINE n == Len(out)
           len == Len(wire)
           next == SubSeq(wire, at + 1, at + n)
<1>1. /\ out \in Seq(Int) /\ at \in Nat /\ n \in Nat /\ at + n <= len
      /\ \A i \in 1 .. n : out[i] = wire[at + i]
  BY DEF ReaderInv, RBuff, OutInv
<1>2. wire \in Seq(Int) /\ len \in Nat
  BY Indices DEF ReaderInv
<1> HIDE DEF n, len
<1>3. at + 1 \in Int /\ at + n \in Int /\ \A i \in at + 1 .. at + n : i \in 1 .. len
  BY <1>1, <1>2
<1>4. \A i \in at + 1 .. at + n : wire[i] \in Int
  BY <1>2, <1>3, ElementOfSeq DEF len
<1>5. /\ next \in Seq(Int)
      /\ Len(next) = IF at + 1 <= at + n THEN (at + n) - (at + 1) + 1 ELSE 0
      /\ \A i \in 1 .. (at + n) - (at + 1) + 1 : next[i] = wire[at + 1 + i - 1]
  BY <1>3, <1>4, SubSeqProperties
<1> HIDE DEF next
<1>6. /\ (at + n) - (at + 1) + 1 = n
      /\ (IF at + 1 <= at + n THEN (at + n) - (at + 1) + 1 ELSE 0) = n
      /\ \A i \in 1 .. n : at + 1 + i - 1 = at + i
  BY <1>1
<1>7. Len(next) = n /\ \A i \in 1 .. n : out[i] = next[i]
  BY <1>1, <1>5, <1>6
<1>8. QED
  BY <1>1, <1>5, <1>7, SeqEqual DEF NextBytes, n, next

\* The types.
LEMMA ReaderInvTypes == WriterInv /\ ReaderInv => TypeOK
<1> SUFFICES ASSUME WriterInv, ReaderInv PROVE TypeOK
  OBVIOUS
<1>1. WriterTypeOK
  BY WriterInvTypes
<1>2. /\ r.buff \in [0 .. Size(r.buff) - 1 -> Int]
      /\ r.writeIndex \in Nat /\ r.readIndex \in 0 .. r.writeIndex
  BY SizeOf DEF ReaderInv, RBuff
<1>3. pos \in r.writeIndex .. Len(wire)
  BY Indices DEF ReaderInv, RBuff
<1>4. at \in 0 .. Len(wire)
  <2>1. at \in Nat /\ Len(out) \in Nat /\ at + Len(out) <= Len(wire) /\ Len(wire) \in Nat
    BY Indices DEF ReaderInv, RBuff, OutInv
  <2>2. QED
    BY <2>1
<1>5. QED
  BY <1>1, <1>2, <1>3, <1>4 DEF TypeOK, ReaderInv, RBuff, RCounts

-----------------------------------------------------------------------------
(* From end to end *)

\* What is to be offered of a message is its packet without the frame that the
\* limit leaves out.
LEMMA OfferedIs ==
    ASSUME WTypes, NEW i \in Nat, NEW b \in Nat, codec = "fixed" => b <= FixedLen
    PROVE  /\ Len(Whole(<<i, b>>)) = PacketLen(b)
           /\ Front + Behind <= PacketLen(b)
           /\ Offered(<<i, b>>) \in Seq(Int)
           /\ Len(Offered(<<i, b>>)) = PacketLen(b) - Front - Behind
           /\ \A j \in 1 .. PacketLen(b) - Front - Behind :
                  Offered(<<i, b>>)[j] = PacketByte(i, b, Zero, Front + j)
<1> DEFINE g == <<i, b>>
           n == PacketLen(b)
           p == Whole(g)
           last == n - Behind
           q == SubSeq(p, Front + 1, last)
<1>1. p \in Seq(Int) /\ Len(p) = n /\ \A j \in 1 .. n : p[j] = PacketByte(i, b, Zero, j)
  <2>1. Zero \in Int
    BY DEF Zero
  <2>2. p = Packet(i, b, Zero)
    BY DEF Whole
  <2>3. QED
    BY <2>1, <2>2, PacketIs
<1>2. n \in Nat /\ Front \in Nat /\ Behind \in Nat /\ Front + Behind <= n
  <2>1. codec \in {"variable", "fixed", "delimiter"}
    BY Counts
  <2>2. CASE codec = "variable"
    <3>1. n = HeaderLen + b /\ Front = HeaderLen /\ Behind = 0
      BY <2>2 DEF PacketLen, Front, Behind
    <3>2. QED
      BY <3>1, Numbers
  <2>3. CASE codec = "fixed"
    <3>1. n = FixedLen /\ Front = 0 /\ Behind = 0
      BY <2>3 DEF PacketLen, Front, Behind
    <3>2. QED
      BY <3>1, Numbers
  <2>4. CASE codec = "delimiter"
    <3>1. n = b + DelimLen /\ Front = 0 /\ Behind \in {0, DelimLen}
      BY <2>4 DEF PacketLen, Front, Behind
    <3>2. QED
      BY <3>1, Numbers
  <2>5. QED
    BY <2>1, <2>2, <2>3, <2>4
<1>3. Offered(g) = q
  BY <1>1 DEF Offered, Front, Behind
<1> HIDE DEF n, p
<1>4. /\ Front + 1 \in Int /\ last \in Int /\ last - (Front + 1) + 1 = n - Front - Behind
      /\ \A j \in Front + 1 .. last : j \in 1 .. n
  BY <1>2
<1>5. \A j \in Front + 1 .. last : p[j] \in Int
  BY <1>1, <1>4, ElementOfSeq
<1>6. /\ q \in Seq(Int) /\ Len(q) = IF Front + 1 <= last THEN last - (Front + 1) + 1 ELSE 0
      /\ \A j \in 1 .. last - (Front + 1) + 1 : q[j] = p[Front + 1 + j - 1]
  BY <1>4, <1>5, SubSeqProperties
<1> HIDE DEF q
<1>7. Len(q) = n - Front - Behind
  BY <1>2, <1>6
<1>8. ASSUME NEW j \in 1 .. n - Front - Behind
      PROVE  q[j] = PacketByte(i, b, Zero, Front + j)
  <2>1. Front + 1 + j - 1 = Front + j /\ Front + j \in 1 .. n
    BY <1>2
  <2>2. q[j] = p[Front + j]
    BY <1>4, <1>6, <2>1
  <2>3. QED
    BY <1>1, <2>1, <2>2
<1>9. QED
  BY <1>1, <1>2, <1>3, <1>6, <1>7, <1>8 DEF n, p

\* What OnRead passes on is what is to be offered of the last message, and it
\* measures the whole packet.
LEMMA TakenIsOffered ==
    ASSUME WriterInv, ReaderInv, rpc = "decoded"
    PROVE  /\ Taken = Offered(<<m, body>>) /\ Taken \in Seq(Int)
           /\ TooLarge <=> ~Within(<<m, body>>)
<1> DEFINE n == PacketLen(body)
           o == Offered(<<m, body>>)
<1>1. /\ wpc = "ok" /\ ~lost /\ m > 0 /\ pos = first + r.writeIndex
      /\ r.readIndex = n /\ Front + total + Behind = n
  BY DEF ReaderInv, TurnInv, PlaceInv
<1>2. /\ n \in Nat /\ Front \in Nat /\ Behind \in Nat /\ total \in Nat /\ first \in Nat
      /\ r.writeIndex \in Nat /\ body \in Nat /\ m \in Nat
      /\ codec \in {"variable", "fixed", "delimiter"}
  BY <1>1, Frame, Indices, Counts DEF ReaderInv, RCounts, WriterInv
<1>3. codec = "fixed" => body <= FixedLen
  BY <1>1, OnWire DEF WriterInv, IndexInv
<1>4. /\ Len(Whole(<<m, body>>)) = n /\ o \in Seq(Int) /\ Len(o) = n - Front - Behind
      /\ \A j \in 1 .. n - Front - Behind : o[j] = PacketByte(m, body, Zero, Front + j)
  BY <1>2, <1>3, OfferedIs DEF WriterInv
<1>5. /\ Taken \in Seq(Int) /\ Len(Taken) = total
      /\ \A i \in 1 .. total : Taken[i] = wire[first + Front + i]
  BY TakenIs
<1>6. /\ Len(wire) = first + n /\ sent = body
      /\ \A i \in 0 .. n - 1 : wire[first + i + 1] = Byte(i)
  BY <1>1, OnWire
<1>7. Front = (IF codec = "variable" THEN HeaderLen ELSE 0)
  BY DEF Front
<1> HIDE DEF n, o
<1>8. n - Front - Behind = total
  BY <1>1, <1>2
<1>9. ASSUME NEW i \in 1 .. total PROVE Taken[i] = o[i]
  <2> DEFINE j == Front + i - 1
  <2>1. /\ j \in 0 .. n - 1 /\ j \in Int /\ j >= Front
        /\ first + Front + i = first + j + 1 /\ Front + i = j + 1
    BY <1>1, <1>2
  <2> HIDE DEF j
  <2>2. Taken[i] = Byte(j)
    BY <1>5, <1>6, <2>1
  <2>3. Byte(j) = PacketByte(m, body, Zero, j + 1)
    <3>1. CASE codec = "variable"
      <4>1. ~(j < HeaderLen - 1) /\ j # HeaderLen - 1 /\ ~(j + 1 < HeaderLen) /\ j + 1 # HeaderLen
            /\ j - HeaderLen + 1 = j + 1 - HeaderLen
        BY <1>7, <2>1, <3>1, Numbers
      <4>2. HeaderLen \in Int /\ j \in Int
        BY <2>1, Numbers
      <4>3. QED
        BY <3>1, <4>1, <4>2 DEF Byte, PacketByte, BodyByte
    <3>2. CASE codec # "variable"
      <4>1. j < sent <=> j + 1 <= body
        BY <1>2, <1>6, <2>1
      <4>2. QED
        BY <1>2, <3>2, <4>1 DEF Byte, PacketByte
    <3>3. QED
      BY <3>1, <3>2
  <2>4. o[i] = PacketByte(m, body, Zero, j + 1)
    BY <1>4, <1>8, <2>1
  <2>5. QED
    BY <2>2, <2>3, <2>4
<1>10. Taken = o
  BY <1>4, <1>5, <1>8, <1>9, SeqEqual
<1>11. r.writeIndex = n
  <2>1. pos = Len(wire)
    BY ReaderInvFraming DEF FramingKept
  <2>2. QED
    BY <1>1, <1>2, <1>6, <2>1
<1>12. TooLarge <=> ~Within(<<m, body>>)
  BY <1>2, <1>4, <1>11, Limits DEF TooLarge, Within
<1>13. QED
  BY <1>5, <1>10, <1>12 DEF o

\* The last message that was sent is still to be read, or being read.
Unread == wpc = "ok" /\ ~lost /\ m > 0 /\ (rpc # "idle" \/ pos # Len(wire))
Done == IF Unread THEN Len(given) - 1 ELSE Len(given)

\* The messages within the limit among the first n, and that they are what was
\* delivered.
Kept(n) == {i \in 1 .. n : Within(given[i])}
Handed(n) ==
    /\ Len(delivered) = Cardinality(Kept(n))
    /\ \A i \in Kept(n) :
          delivered[Cardinality({j \in Kept(n) : j <= i})] = Offered(given[i])

GivenInv ==
    /\ wpc = "ok" /\ m > 0 => Len(given) > 0 /\ given[Len(given)] = <<m, body>>
    /\ \A i \in DOMAIN given : codec = "fixed" => given[i][2] <= FixedLen

TripInv == GivenInv /\ (~lost => Handed(Done))

\* Places are counted in a set of numbers that grows at its end.
LEMMA Places ==
    ASSUME NEW n \in Nat, NEW K \in SUBSET (1 .. n)
    PROVE  /\ Cardinality(K) \in Nat /\ Cardinality(K \cup {n + 1}) = Cardinality(K) + 1
           /\ \A i \in K :
                 /\ Cardinality({j \in K : j <= i}) \in 1 .. Cardinality(K)
                 /\ {j \in K \cup {n + 1} : j <= i} = {j \in K : j <= i}
           /\ {j \in K \cup {n + 1} : j <= n + 1} = K \cup {n + 1}
<1>1. IsFiniteSet(K) /\ Cardinality(K) \in Nat
  <2>1. IsFiniteSet(1 .. n)
    <3>1. 1 \in Int /\ n \in Int
      OBVIOUS
    <3>2. QED
      BY <3>1, FS_Interval
  <2>2. QED
    BY <2>1, FS_Subset, FS_CardinalityType
<1>2. n + 1 \notin K /\ \A j \in K : j \in Int /\ j < n + 1
  OBVIOUS
<1>3. Cardinality(K \cup {n + 1}) = Cardinality(K) + 1
  BY <1>1, <1>2, FS_AddElement
<1>4. ASSUME NEW i \in K
      PROVE  /\ Cardinality({j \in K : j <= i}) \in 1 .. Cardinality(K)
             /\ {j \in K \cup {n + 1} : j <= i} = {j \in K : j <= i}
  <2> DEFINE B == {j \in K : j <= i}
  <2>1. i \in B /\ B \in SUBSET K
    BY <1>2
  <2>2. IsFiniteSet(B) /\ Cardinality(B) <= Cardinality(K) /\ Cardinality(B) \in Nat
    BY <1>1, <2>1, FS_Subset, FS_CardinalityType
  <2>3. Cardinality(B) # 0
    BY <2>1, <2>2, FS_EmptySet
  <2>4. {j \in K \cup {n + 1} : j <= i} = B
    BY <1>2
  <2> HIDE DEF B
  <2>5. Cardinality(B) \in 1 .. Cardinality(K)
    BY <1>1, <2>2, <2>3
  <2>6. QED
    BY <2>4, <2>5 DEF B
<1>5. {j \in K \cup {n + 1} : j <= n + 1} = K \cup {n + 1}
  <2>1. \A j \in K \cup {n + 1} : j <= n + 1
    BY <1>2
  <2>2. QED
    BY <2>1, Zenon
<1>6. QED
  BY <1>1, <1>3, <1>4, <1>5

\* One more message: the next place is its own.
LEMMA HandedMore ==
    ASSUME NEW n \in Nat, Handed(n), delivered \in Seq(Seq(Int)), UNCHANGED <<codec, given>>,
           IF Within(given[n + 1])
           THEN /\ Offered(given[n + 1]) \in Seq(Int)
                /\ delivered' = Append(delivered, Offered(given[n + 1]))
           ELSE delivered' = delivered
    PROVE  Handed(n + 1)'
<1> DEFINE K == Kept(n)
           L == Kept(n + 1)
           x == Offered(given[n + 1])
           d == delivered'
           place(S, i) == Cardinality({j \in S : j <= i})
<1>1. K \in SUBSET (1 .. n)
  BY DEF Kept
<1>2. L = IF Within(given[n + 1]) THEN K \cup {n + 1} ELSE K
  <2>1. 1 .. n + 1 = (1 .. n) \cup {n + 1}
    OBVIOUS
  <2>2. QED
    BY <2>1 DEF Kept
<1>3. /\ Kept(n + 1)' = L /\ \A i : Offered(given[i])' = Offered(given[i])
  BY DEF Kept, Within, Whole, Packet, Offered
<1>4. /\ Len(delivered) = Cardinality(K)
      /\ \A i \in K : delivered[place(K, i)] = Offered(given[i])
  BY DEF Handed
<1>5. /\ Cardinality(K) \in Nat /\ Cardinality(K \cup {n + 1}) = Cardinality(K) + 1
      /\ \A i \in K : /\ place(K, i) \in 1 .. Cardinality(K)
                      /\ place(K \cup {n + 1}, i) = place(K, i)
      /\ place(K \cup {n + 1}, n + 1) = Cardinality(K \cup {n + 1})
  BY <1>1, Places
<1> SUFFICES /\ Len(d) = Cardinality(L)
             /\ \A i \in L : d[place(L, i)] = Offered(given[i])
  BY <1>3 DEF Handed
<1> HIDE DEF K, L, place, d
<1>6. CASE Within(given[n + 1])
  <2>1. L = K \cup {n + 1}
    BY <1>2, <1>6
  <2>2. /\ Len(d) = Len(delivered) + 1 /\ d[Len(delivered) + 1] = x
        /\ \A k \in 1 .. Len(delivered) : d[k] = delivered[k]
    <3>1. x \in Seq(Int) /\ d = Append(delivered, x)
      BY <1>6 DEF d
    <3> HIDE DEF x
    <3>2. QED
      BY <3>1, AppendProperties
  <2> HIDE DEF x
  <2>3. d[place(L, n + 1)] = x
    BY <1>4, <1>5, <2>1, <2>2
  <2>4. ASSUME NEW i \in K PROVE d[place(L, i)] = Offered(given[i])
    BY <1>4, <1>5, <2>1, <2>2
  <2>5. QED
    BY <1>4, <1>5, <2>1, <2>2, <2>3, <2>4 DEF x
<1>7. CASE ~Within(given[n + 1])
  <2>1. L = K /\ d = delivered
    BY <1>2, <1>7 DEF d
  <2>2. QED
    BY <1>4, <2>1
<1>8. QED
  BY <1>6, <1>7

\* Messages that come later change nothing about the first n.
LEMMA HandedSame ==
    ASSUME NEW n \in Nat, Handed(n), UNCHANGED <<codec, delivered>>,
           \A i \in 1 .. n : given'[i] = given[i]
    PROVE  Handed(n)'
<1>1. Kept(n)' = Kept(n) /\ \A i \in 1 .. n : Offered(given[i])' = Offered(given[i])
  BY DEF Kept, Within, Whole, Packet, Offered
<1>2. Kept(n) \subseteq 1 .. n
  BY DEF Kept
<1>3. QED
  BY <1>1, <1>2 DEF Handed

\* A step of the writer.
LEMMA TripWriterStep ==
    ASSUME WriterInv, ReaderInv, TripInv, FixedLen > 0,
           rpc = "idle", wpc = "ok" => pos = Len(wire), WriterNext, UNCHANGED readerVars
    PROVE  TripInv'
<1>1. UNCHANGED <<pos, rpc, delivered>>
  BY DEF readerVars
<1>2. /\ given \in Seq((1 .. Messages) \X Bodies) /\ Len(given) \in Nat
      /\ DOMAIN given = 1 .. Len(given)
  BY DEF WriterInv, WTypes, MessageInv
<1>3. ~Unread /\ Done = Len(given)
  BY DEF Unread, Done
<1>4. CASE given' = given /\ wpc' # "ok" /\ codec' = codec /\ (lost => lost')
  <2>1. GivenInv'
    BY <1>4 DEF TripInv, GivenInv
  <2>2. ~lost' => Handed(Len(given))'
    <3>1. ASSUME ~lost' PROVE Handed(Len(given))'
      <4>1. Handed(Len(given))
        BY <1>3, <1>4, <3>1 DEF TripInv
      <4>2. UNCHANGED <<codec, delivered, given>>
        BY <1>1, <1>4
      <4>3. Kept(Len(given))' = Kept(Len(given)) /\ \A i : Offered(given[i])' = Offered(given[i])
        BY <4>2 DEF Kept, Within, Whole, Packet, Offered
      <4>4. QED
        BY <4>1, <4>2, <4>3 DEF Handed
    <3>2. QED
      BY <3>1
  <2>3. Done' = Len(given)'
    BY <1>4 DEF Done, Unread
  <2>4. QED
    BY <2>1, <2>2, <2>3 DEF TripInv
<1>5. CASE Flush /\ wpc' = "ok"
  <2>1. /\ wpc = "flush" \/ (wpc = "frame" /\ codec = "fixed")
        /\ given' = Append(given, <<m, body>>)
        /\ UNCHANGED <<codec, m, body, sent, first, lost>>
    BY <1>5 DEF Flush
  <2>2. m > 0 /\ m \in 1 .. Messages /\ body \in Bodies /\ body \in Nat
    BY <2>1, Counts DEF WriterInv, WTypes, MessageInv
  <2>3. WriterInv'
    BY WriterStep
  <2>4. /\ Len(given') = Len(given) + 1 /\ given'[Len(given) + 1] = <<m, body>>
        /\ \A i \in 1 .. Len(given) : given'[i] = given[i]
        /\ DOMAIN given' = 1 .. Len(given) + 1
    <3>1. <<m, body>> \in (1 .. Messages) \X Bodies
      BY <2>2
    <3>2. QED
      BY <1>2, <2>1, <3>1, AppendProperties
  <2>5. codec = "fixed" => body <= FixedLen
    BY <2>1 DEF WriterInv, IndexInv
  <2>6. GivenInv'
    <3>1. Len(given') > 0 /\ given'[Len(given')] = <<m, body>>'
      BY <1>2, <2>1, <2>4
    <3>2. ASSUME NEW i \in DOMAIN given', codec' = "fixed" PROVE given'[i][2] <= FixedLen
      <4>1. CASE i \in 1 .. Len(given)
        <5>1. given[i][2] <= FixedLen
          BY <1>2, <2>1, <3>2, <4>1 DEF TripInv, GivenInv
        <5>2. QED
          BY <2>4, <4>1, <5>1
      <4>2. CASE i = Len(given) + 1
        BY <2>1, <2>4, <2>5, <3>2, <4>2
      <4>3. QED
        BY <1>2, <2>4, <4>1, <4>2
    <3>3. QED
      BY <3>1, <3>2 DEF GivenInv
  <2>7. ASSUME ~lost' PROVE Handed(Done)'
    <3>1. pos = first
      BY <2>1 DEF ReaderInv, TurnInv
    <3>2. PICK size \in Nat : size = PacketLen(body) /\ size > 0
      <4>1. codec \in {"variable", "fixed", "delimiter"}
        BY Counts DEF WriterInv
      <4>2. PacketLen(body) \in Nat /\ PacketLen(body) > 0
        BY <2>2, <4>1, Numbers DEF PacketLen
      <4>3. QED
        BY <4>2
    <3>3. Len(wire)' = first + size
      <4>1. Len(wire)' = first' + w'.preWriteIndex
        BY <2>3 DEF WriterInv, BytesInv
      <4>2. w'.preWriteIndex = Written' /\ sent' = body'
        BY <1>5, <2>1, <2>2, <2>3 DEF WriterInv, IndexInv
      <4>3. Written' = size
        BY <1>5, <2>1, <3>2, <4>2 DEF Written, Framed, PacketLen
      <4>4. QED
        BY <2>1, <4>1, <4>2, <4>3
    <3>4. first \in Nat /\ first' = first
      BY <2>1, Counts DEF WriterInv
    <3>5. Unread'
      <4>1. pos' # Len(wire)'
        BY <1>1, <3>1, <3>2, <3>3, <3>4
      <4>2. QED
        BY <1>5, <2>1, <2>2, <2>7, <4>1 DEF Unread
    <3>6. Done' = Len(given)
      <4>1. Done' = Len(given') - 1
        BY <3>5 DEF Done
      <4>2. QED
        BY <1>2, <2>4, <4>1
    <3>7. Handed(Len(given))
      BY <1>3, <2>1, <2>7 DEF TripInv
    <3>8. PICK n \in Nat : n = Len(given)
      BY <1>2
    <3>9. Handed(n)'
      BY <1>1, <2>1, <2>4, <3>7, <3>8, HandedSame
    <3>10. QED
      BY <3>6, <3>8, <3>9 DEF Handed, Kept
  <2>8. QED
    BY <2>6, <2>7 DEF TripInv
<1>6. ASSUME NEW b \in Bodies, Encode(b)
      PROVE  given' = given /\ wpc' # "ok" /\ codec' = codec /\ (lost => lost')
  BY <1>6 DEF Encode
<1>7. ASSUME NEW k \in 1 .. body, Marshal(k)
      PROVE  given' = given /\ wpc' # "ok" /\ codec' = codec /\ (lost => lost')
  BY <1>7 DEF Marshal
<1>8. ASSUME MarshalFlush \/ MarshalFails \/ Marshalled \/ PutLength \/ AppendDelimiter
      PROVE  given' = given /\ wpc' # "ok" /\ codec' = codec /\ (lost => lost')
  <2>1. wpc \in {"marshal", "frame"} => ~lost
    BY DEF WriterInv, RegionInv
  <2>2. QED
    BY <1>8, <2>1 DEF MarshalFlush, MarshalFails, Marshalled, PutLength, AppendDelimiter
<1>9. ASSUME Flush, wpc' # "ok"
      PROVE  given' = given /\ wpc' # "ok" /\ codec' = codec /\ (lost => lost')
  BY <1>9 DEF Flush
<1>10. QED
  BY <1>4, <1>5, <1>6, <1>7, <1>8, <1>9 DEF WriterNext

\* A step of the reader.
LEMMA TripReaderStep ==
    ASSUME WriterInv, ReaderInv, TripInv, ReaderNext, UNCHANGED <<codec, writerVars>>
    PROVE  TripInv'
<1>1. UNCHANGED <<codec, m, body, wpc, wire, lost, given>>
  BY DEF writerVars
<1>2. Len(given) \in Nat
  BY DEF WriterInv, WTypes, MessageInv
<1>3. GivenInv'
  BY <1>1 DEF TripInv, GivenInv
<1>4. wpc = "ok" /\ ~lost /\ m > 0 /\ Unread
  <2>1. CASE rpc # "idle"
    BY <2>1 DEF ReaderInv, TurnInv, Unread
  <2>2. CASE rpc = "idle"
    <3>1. Decode
      BY <2>2 DEF ReaderNext, Header, Search, TooLong, Next_, Peek, Read, UnmarshalFails,
                  Unmarshalled, Release, StripDelimiter, OnRead
    <3>2. wpc = "ok" /\ ~lost /\ pos < Len(wire)
      BY <3>1 DEF Decode
    <3>3. pos \in Nat /\ Len(wire) \in Nat
      BY Indices DEF ReaderInv
    <3>4. m # 0 /\ m \in Nat
      <4>1. m = 0 => Len(wire) = 0
        BY DEF ReaderInv, TurnInv
      <4>2. QED
        BY <3>2, <3>3, <4>1, Counts DEF WriterInv
    <3>5. QED
      BY <3>2, <3>3, <3>4 DEF Unread
  <2>3. QED
    BY <2>1, <2>2
<1>5. /\ Len(given) > 0 /\ given[Len(given)] = <<m, body>>
      /\ Done = Len(given) - 1 /\ Handed(Done)
  BY <1>4 DEF TripInv, GivenInv, Done
<1>6. PICK n \in Nat : n = Len(given) - 1 /\ n + 1 = Len(given)
  BY <1>2, <1>5
<1>7. Handed(n)
  BY <1>5, <1>6 DEF Handed, Kept
<1>8. CASE rpc' # "idle" /\ delivered' = delivered
  <2>1. Unread' /\ Done' = n
    BY <1>1, <1>4, <1>6, <1>8 DEF Unread, Done
  <2>2. Handed(n)'
    BY <1>1, <1>7, <1>8, HandedSame
  <2>3. QED
    BY <1>3, <2>1, <2>2 DEF TripInv, Handed, Kept
<1>9. CASE OnRead
  <2>1. /\ rpc = "decoded" /\ rpc' = "idle" /\ pos' = pos
        /\ delivered' = IF TooLarge THEN delivered ELSE Append(delivered, Taken)
    BY <1>9 DEF OnRead, Taken
  <2>2. pos = Len(wire)
    BY <2>1, ReaderInvFraming DEF FramingKept
  <2>3. ~Unread' /\ Done' = n + 1
    BY <1>1, <1>6, <2>1, <2>2 DEF Unread, Done
  <2>4. /\ Taken = Offered(given[n + 1]) /\ Offered(given[n + 1]) \in Seq(Int)
        /\ TooLarge <=> ~Within(given[n + 1])
    BY <1>5, <1>6, <2>1, TakenIsOffered
  <2>5. delivered \in Seq(Seq(Int))
    BY DEF ReaderInv, RCounts
  <2>6. Handed(n + 1)'
    <3>1. IF Within(given[n + 1])
          THEN /\ Offered(given[n + 1]) \in Seq(Int)
               /\ delivered' = Append(delivered, Offered(given[n + 1]))
          ELSE delivered' = delivered
      BY <2>1, <2>4
    <3>2. QED
      BY <1>1, <1>7, <2>5, <3>1, HandedMore
  <2>7. QED
    BY <1>3, <2>3, <2>6 DEF TripInv, Handed, Kept
<1>10. ASSUME ~OnRead PROVE rpc' # "idle" /\ delivered' = delivered
  <2>1. ASSUME NEW k \in 1 .. remain, Next_(k) \/ Peek(k) \/ Read(k)
        PROVE  rpc' # "idle" /\ delivered' = delivered
    BY <2>1 DEF Next_, Peek, Read, Take, Fails
  <2>2. ASSUME Decode PROVE rpc' # "idle" /\ delivered' = delivered
    <3>1. codec \in {"variable", "fixed", "delimiter"}
      BY Counts DEF WriterInv
    <3>2. QED
      BY <2>2, <3>1 DEF Decode
  <2>3. ASSUME Header PROVE rpc' # "idle" /\ delivered' = delivered
    BY <2>3 DEF Header, Take, Fails
  <2>4. ASSUME Search PROVE rpc' # "idle" /\ delivered' = delivered
    BY <2>4 DEF Search, Take, Fails
  <2>5. ASSUME TooLong \/ UnmarshalFails \/ Unmarshalled
        PROVE  rpc' # "idle" /\ delivered' = delivered
    BY <2>5 DEF TooLong, UnmarshalFails, Unmarshalled, Fails
  <2>6. ASSUME Release PROVE rpc' # "idle" /\ delivered' = delivered
    BY <2>6 DEF Release, Take, Fails
  <2>7. ASSUME StripDelimiter PROVE rpc' # "idle" /\ delivered' = delivered
    BY <2>7 DEF StripDelimiter, Take, Fails
  <2>8. QED
    BY <1>10, <2>1, <2>2, <2>3, <2>4, <2>5, <2>6, <2>7 DEF ReaderNext
<1>11. QED
  BY <1>8, <1>9, <1>10

-----------------------------------------------------------------------------
(* The theorems *)

\* The invariant of both sides is inductive.
LEMMA PacketInvHolds == Spec => [](WriterInv /\ ReaderInv)
<1>1. Init => WriterInv /\ ReaderInv
  BY WriterStart, ReaderStart DEF Init
<1>2. WriterInv /\ ReaderInv /\ [Next]_vars => (WriterInv /\ ReaderInv)'
  <2> SUFFICES ASSUME WriterInv, ReaderInv, [Next]_vars PROVE WriterInv' /\ ReaderInv'
    OBVIOUS
  <2>1. CASE /\ rpc = "idle" /\ (wpc = "ok" => pos = Len(wire)) /\ WriterNext
             /\ UNCHANGED readerVars
    BY <2>1, WriterTurnStep
  <2>2. CASE ReaderNext /\ UNCHANGED <<codec, writerVars>>
    BY <2>2, ReaderStep, WriterSame
  <2>3. CASE UNCHANGED vars
    <3>1. UNCHANGED <<codec, writerVars>>
      BY <2>3 DEF vars, writerVars
    <3>2. QED
      BY <2>3, <3>1, WriterSame, ReaderSame
  <2>4. QED
    BY <2>1, <2>2, <2>3 DEF Next
<1>3. QED
  BY <1>1, <1>2, PTL DEF Spec

\* The types of both sides: indices within their buffers, whatever they grow to.
THEOREM PacketTypes == Spec => []TypeOK
BY PacketInvHolds, ReaderInvTypes, PTL

\* What Encode has put on the wire is a prefix of the packet, the whole packet
\* once it has returned nil, however the payload codec writes and flushes; and
\* the length of a variable length packet is lost just when the buffer grew or
\* was flushed after the header's Malloc.
THEOREM PacketsWhole == Spec => []WholePackets
BY PacketInvHolds, WriterInvWhole, PTL

\* Peek, Next, Skip and Read return the bytes of the stream that follow the
\* ones consumed before, across growths and reads that bypass the buffer.
THEOREM BytesInOrder == Spec => []NextBytes
BY PacketInvHolds, ReaderInvNext, PTL

\* A Decode that returns has taken its whole packet and no byte more.
THEOREM FramesKept == Spec => []FramingKept
BY PacketInvHolds, ReaderInvFraming, PTL

\* From end to end, for every size of buffers, frames and bodies, every limit
\* and every use the payload codecs make of reader and writer: as long as no
\* packet was lost, the k-th message within the limit is the k-th delivered, with
\* the bytes that were sent.  A fixed length of zero, with which a message puts
\* nothing on the wire, is left out.
THEOREM TripKept ==
    ASSUME FixedLen > 0
    PROVE  Spec => []RoundTrip
<1>1. Init => TripInv
  <2> SUFFICES ASSUME Init PROVE TripInv
    OBVIOUS
  <2>1. m = 0 /\ given = <<>> /\ delivered = <<>>
    BY DEF Init, WriterInit
  <2>2. ~Unread /\ Len(given) = 0 /\ DOMAIN given = {} /\ Len(delivered) = 0
    BY <2>1 DEF Unread
  <2>3. Done = 0 /\ Kept(Done) = {}
    BY <2>2 DEF Done, Kept
  <2>4. QED
    BY <2>1, <2>2, <2>3, FS_EmptySet DEF TripInv, GivenInv, Handed
<1>2. WriterInv /\ ReaderInv /\ TripInv /\ [Next]_vars => TripInv'
  <2> SUFFICES ASSUME WriterInv, ReaderInv, TripInv, [Next]_vars PROVE TripInv'
    OBVIOUS
  <2>1. CASE /\ rpc = "idle" /\ (wpc = "ok" => pos = Len(wire)) /\ WriterNext
             /\ UNCHANGED readerVars
    BY <2>1, TripWriterStep
  <2>2. CASE ReaderNext /\ UNCHANGED <<codec, writerVars>>
    BY <2>2, TripReaderStep
  <2>3. CASE UNCHANGED vars
    <3>1. UNCHANGED <<codec, m, body, wpc, wire, lost, given, pos, rpc, delivered>>
      BY <2>3 DEF vars, writerVars, readerVars
    <3>2. GivenInv' /\ Done' = Done
      BY <3>1 DEF TripInv, GivenInv, Done, Unread
    <3>3. \A n : Kept(n)' = Kept(n) /\ \A i : Offered(given[i])' = Offered(given[i])
      BY <3>1 DEF Kept, Within, Whole, Packet, Offered
    <3>4. Handed(Done)' <=> Handed(Done)
      BY <3>1, <3>2, <3>3 DEF Handed
    <3>5. QED
      BY <3>1, <3>2, <3>4 DEF TripInv
  <2>4. QED
    BY <2>1, <2>2, <2>3 DEF Next
<1>3. WriterInv /\ TripInv => RoundTrip
  <2> SUFFICES ASSUME WriterInv, TripInv, rpc = "idle", wpc = "ok", pos = Len(wire), ~lost
               PROVE  RoundTrip
    BY DEF RoundTrip
  <2>1. DOMAIN given = 1 .. Len(given)
    BY DEF WriterInv, WTypes, MessageInv
  <2>2. Done = Len(given) /\ Handed(Done)
    BY DEF TripInv, Done, Unread
  <2>3. Kept(Done) = {i \in DOMAIN given : Within(given[i])}
    BY <2>1, <2>2 DEF Kept
  <2>4. QED
    BY <2>2, <2>3 DEF Handed, RoundTrip
<1>4. QED
  BY <1>1, <1>2, <1>3, PacketInvHolds, PTL DEF Spec
=============================================================================
