---------------------------- MODULE FramingProofs ----------------------------
(* The framing of packets, for every size of the buffers and all streams.   *)
EXTENDS Framing, TLAPS

(* What Int32ToByteArr writes are bytes, and ByteArrToInt32 reads the same   *)
(* value back, for all values of an __int32 (PacketUtil.h).                  *)
THEOREM HeaderRoundTrip ==
  ASSUME NEW v \in Int32
  PROVE  /\ \A i \in 1..4 : Int32ToByteArr(v)[i] \in Byte
         /\ ByteArrToInt32(Int32ToByteArr(v)) = v
<1> DEFINE q1 == v \div 256
           q2 == v \div 65536
           q3 == v \div 16777216
<1>1. 2^8 = 256 /\ 2^16 = 65536 /\ 2^24 = 16777216
  BY SMT
<1>2. v \in Int /\ v >= -2147483648 /\ v <= 2147483647
  BY SMT, <1>1 DEF Int32
<1>3. Int32ToByteArr(v) = <<q3 % 256, q2 % 256, q1 % 256, v % 256>>
  BY SMT, <1>1 DEF Int32ToByteArr
<1>4. /\ q1 \in Int /\ q2 \in Int /\ q3 \in Int
      /\ v = 256 * q1 + (v % 256)
      /\ q1 = 256 * q2 + (q1 % 256)
      /\ q2 = 256 * q3 + (q2 % 256)
      /\ q3 >= -128 /\ q3 <= 127
      /\ v % 256 \in 0..255 /\ q1 % 256 \in 0..255 /\ q2 % 256 \in 0..255
  BY SMT, <1>2
<1> HIDE DEF q1, q2, q3
<1>5. q3 % 256 \in 0..255 /\ q3 = IF (q3 % 256) >= 128 THEN (q3 % 256) - 256 ELSE (q3 % 256)
  <2>1. \A q \in (-128)..127 :
          q % 256 \in 0..255 /\ q = IF (q % 256) >= 128 THEN (q % 256) - 256 ELSE (q % 256)
    BY SMT
  <2>2. q3 \in (-128)..127
    BY SMT, <1>4
  <2> QED
    BY SMT, <2>1, <2>2
<1>6. ByteArrToInt32(Int32ToByteArr(v)) =
        q3 * 16777216 + (q2 % 256) * 65536 + (q1 % 256) * 256 + (v % 256)
  BY SMT, <1>1, <1>3, <1>5 DEF ByteArrToInt32
<1>7. \A i \in 1..4 : Int32ToByteArr(v)[i] \in Byte
  BY SMT, <1>3, <1>4, <1>5 DEF Byte
<1> QED
  BY SMT, <1>4, <1>6, <1>7

-----------------------------------------------------------------------------
(* Where the packets of the stream are *)

(* Where the first d packets end. *)
EndOf(d) == IF d = 0 THEN 0 ELSE ends[d]

LEMMA StreamFacts ==
  ASSUME ends \in Streams
  PROVE  /\ ends \in Seq(Nat)
         /\ Len(ends) \in Nat
         /\ \A d \in 0..Len(ends) : EndOf(d) \in Nat
         /\ \A k \in 1..Len(ends) :
              /\ Start(k) = EndOf(k - 1)
              /\ ends[k] = EndOf(k)
              /\ EndOf(k - 1) + 4 <= EndOf(k)
              /\ EndOf(k) <= EndOf(k - 1) + MAX_SOCK_RECVBUF
         /\ \A c, d \in 0..Len(ends) : c < d => EndOf(c) < EndOf(d)
<1>1. /\ ends \in Seq(Nat) /\ Len(ends) \in Nat
      /\ \A k \in 1..Len(ends) :
           /\ StartIn(ends, k) + 4 <= ends[k]
           /\ ends[k] <= StartIn(ends, k) + MAX_SOCK_RECVBUF
           /\ \A j \in 1..(k - 1) : ends[j] < ends[k]
  BY StreamsAssumption DEF HeaderSize
<1>2. \A d \in 0..Len(ends) : EndOf(d) \in Nat
  BY <1>1 DEF EndOf
<1>3. \A k \in 1..Len(ends) : Start(k) = EndOf(k - 1) /\ ends[k] = EndOf(k)
  BY <1>1 DEF EndOf, Start, StartIn
<1>4. ASSUME NEW c \in 0..Len(ends), NEW d \in 0..Len(ends), c < d
      PROVE  EndOf(c) < EndOf(d)
  <2>1. CASE c = 0
    <3>1. EndOf(d) > StartIn(ends, d) /\ StartIn(ends, d) \in Nat
      BY <1>1, <1>4 DEF EndOf, StartIn
    <3> QED
      BY <2>1, <3>1, <1>2 DEF EndOf
  <2>2. CASE c # 0
    BY <1>1, <1>4, <2>2 DEF EndOf
  <2> QED
    BY <2>1, <2>2
<1>5. ASSUME NEW k \in 1..Len(ends)
      PROVE  EndOf(k - 1) + 4 <= EndOf(k) /\ EndOf(k) <= EndOf(k - 1) + MAX_SOCK_RECVBUF
  BY <1>1, <1>3 DEF Start
<1> QED
  BY <1>1, <1>2, <1>3, <1>4, <1>5

(* The length in a header is that of its packet. *)
LEMMA LengthIs ==
  ASSUME ends \in Streams, NEW k \in 1..Len(ends)
  PROVE  /\ Length(k) = EndOf(k) - EndOf(k - 1)
         /\ Length(k) \in 4..MAX_SOCK_RECVBUF
<1> DEFINE n == ends[k] - Start(k) - HeaderSize
<1>1. /\ EndOf(k) \in Nat /\ EndOf(k - 1) \in Nat
      /\ Start(k) = EndOf(k - 1) /\ ends[k] = EndOf(k)
      /\ EndOf(k - 1) + 4 <= EndOf(k)
      /\ EndOf(k) <= EndOf(k - 1) + MAX_SOCK_RECVBUF
  BY StreamFacts
<1>2. MAX_SOCK_RECVBUF \in Int /\ n \in 0..MAX_SOCK_RECVBUF
  BY <1>1, BufferAssumption DEF HeaderSize, Int32
<1>3. n \in Int32
  BY SMT, <1>2, BufferAssumption DEF Int32
<1>4. Length(k) = n + HeaderSize
  <2>1. ByteArrToInt32(Int32ToByteArr(n)) = n
    BY <1>3, HeaderRoundTrip
  <2> QED
    BY <2>1 DEF Length
<1> QED
  BY <1>1, <1>2, <1>4 DEF HeaderSize

(* A header is at a place when its four bytes are there. *)
LEMMA HeaderMeans ==
  ASSUME ends \in Streams, NEW buffer \in Buffer, NEW pos \in Nat,
         NEW k \in 1..Len(ends)
  PROVE  k \in HeadersAt(buffer, pos)
           <=> \A i \in 1..4 : buffer[pos + i] = EndOf(k - 1) + i
<1>1. ends[k] - Start(k) >= 4 /\ Start(k) = EndOf(k - 1) /\ EndOf(k - 1) \in Nat
      /\ ends[k] \in Nat
  BY StreamFacts
<1>2. Bytes(Packet(k), 0, HeaderSize) = [i \in 1..4 |-> EndOf(k - 1) + i]
  BY <1>1 DEF Bytes, Packet, HeaderSize
<1>3. Bytes(buffer, pos, HeaderSize) = [i \in 1..4 |-> buffer[pos + i]]
  BY DEF Bytes, HeaderSize
<1> QED
  BY <1>2, <1>3 DEF HeadersAt

(* The header after the first d packets is that of the next one. *)
LEMMA NextHeader ==
  ASSUME ends \in Streams, NEW buffer \in Buffer, NEW pos \in Nat,
         NEW d \in 0..Len(ends),
         \A i \in 1..4 : buffer[pos + i] = EndOf(d) + i
  PROVE  /\ HeadersAt(buffer, pos) \subseteq {d + 1}
         /\ d < Len(ends) => HeadersAt(buffer, pos) = {d + 1}
<1>1. ASSUME NEW k \in HeadersAt(buffer, pos) PROVE k = d + 1
  <2>1. k \in 1..Len(ends) /\ k - 1 \in 0..Len(ends)
    BY StreamFacts DEF HeadersAt
  <2>2. buffer[pos + 1] = EndOf(k - 1) + 1 /\ buffer[pos + 1] = EndOf(d) + 1
    BY <2>1, <1>1, HeaderMeans
  <2>3. EndOf(k - 1) \in Nat /\ EndOf(d) \in Nat /\ Len(ends) \in Nat
    BY <2>1, StreamFacts
  <2>4. EndOf(k - 1) = EndOf(d)
    BY <2>2, <2>3
  <2>5. \A b, c \in 0..Len(ends) : b < c => EndOf(b) < EndOf(c)
    BY StreamFacts
  <2>6. ~(k - 1 < d) /\ ~(d < k - 1)
    BY <2>1, <2>3, <2>4, <2>5
  <2> QED
    BY <2>1, <2>3, <2>6
<1>2. ASSUME d < Len(ends) PROVE d + 1 \in HeadersAt(buffer, pos)
  <2>1. d + 1 \in 1..Len(ends) /\ (d + 1) - 1 = d
    BY <1>2, StreamFacts
  <2> QED
    BY <2>1, HeaderMeans
<1> QED
  BY <1>1, <1>2

-----------------------------------------------------------------------------
(* The inductive invariant *)

(* A rest is shorter than the packet whose header it begins with.           *)
RestShort ==
  \A k \in HeadersAt(buf1, 0) : lastSize >= 4 => lastSize < Length(k)

Handed == Len(delivered)

Received == \A i \in 1..size : mRecvBuf[i] = arrived - size + i

RestKept(before) ==
  /\ before - lastSize = EndOf(Handed)
  /\ \A i \in 1..lastSize : buf1[i] = EndOf(Handed) + i

(* Where OnReceive is in the stream, while that is clean.                   *)
InStream ==
  /\ Handed <= Len(ends)
  /\ \A k \in 1..Handed : delivered[k] = Packet(k)
  /\ arrived <= EndOf(Len(ends))
  /\ pc # "lost"
  /\ pc = "idle" =>
       /\ RestKept(arrived)
       /\ \A k \in 1..Len(ends) : EndOf(k) <= arrived => k <= Handed
  /\ pc = "complete" =>
       /\ lastSize > 0
       /\ curPos = 0
       /\ RestKept(arrived - size)
       /\ Received
       /\ Handed < Len(ends)
       /\ EndOf(Handed + 1) <= arrived
  /\ pc = "unpack" =>
       /\ curPos <= size
       /\ arrived - size + curPos = EndOf(Handed)
       /\ Received

FramingInv ==
  /\ TypeOK
  /\ pc = "unpack" => lastSize = 0
  /\ RestShort
  /\ clean => curPos <= size /\ InStream

(* What is handed over is appended, or there is no change.                  *)
LEMMA HandOverType ==
  ASSUME NEW bytes \in Seq(Nat), delivered \in Seq(Seq(Nat)), HandOver(bytes)
  PROVE  delivered' \in Seq(Seq(Nat))
<1>1. ASSUME NEW S, NEW b \in S, NEW q \in Seq(S) PROVE Append(q, b) \in Seq(S)
  OBVIOUS
<1>2. Append(delivered, bytes) \in Seq(Seq(Nat))
  BY <1>1
<1> QED
  BY <1>2 DEF HandOver

LEMMA HandOverNext ==
  ASSUME ends \in Streams, delivered \in Seq(Seq(Nat)),
         Handed < Len(ends),
         \A k \in 1..Handed : delivered[k] = Packet(k),
         clean, HandOver(Packet(Handed + 1)), UNCHANGED ends
  PROVE  /\ Handed' = Handed + 1
         /\ \A k \in 1..Handed' : delivered'[k] = Packet(k)'
<1>1. Handed + 1 \in 1..Len(ends)
  BY StreamFacts DEF Handed
<1>2. delivered' = Append(delivered, Packet(Handed + 1))
  BY <1>1 DEF HandOver
<1>3. \A k \in 1..(Handed + 1) : Packet(k)' = Packet(k)
  BY DEF Packet, Start
<1>4. Handed' = Handed + 1
  BY <1>2 DEF Handed
<1>5. ASSUME NEW k \in 1..(Handed + 1) PROVE delivered'[k] = Packet(k)
  BY <1>2 DEF Handed
<1> QED
  BY <1>3, <1>4, <1>5

(* The bytes of the packet after the first d, wherever they are.            *)
LEMMA BytesArePacket ==
  ASSUME ends \in Streams, NEW buffer, NEW pos \in Nat, NEW d \in 0..(Len(ends) - 1),
         \A i \in 1..Length(d + 1) : buffer[pos + i] = EndOf(d) + i
  PROVE  Bytes(buffer, pos, Length(d + 1)) = Packet(d + 1)
<1>1. d + 1 \in 1..Len(ends) /\ (d + 1) - 1 = d
  BY StreamFacts
<1>2. Start(d + 1) = EndOf(d) /\ ends[d + 1] = EndOf(d + 1)
      /\ Length(d + 1) = EndOf(d + 1) - EndOf(d)
  BY <1>1, StreamFacts, LengthIs
<1> QED
  BY <1>2 DEF Bytes, Packet

LEMMA InitFraming == Init => FramingInv
<1> SUFFICES ASSUME Init PROVE FramingInv
  OBVIOUS
<1>1. TypeOK
  BY BufferAssumption DEF Init, TypeOK, Junk, Buffer, Int32
<1>2. Handed = 0 /\ EndOf(0) = 0 /\ EndOf(Len(ends)) \in Nat /\ Len(ends) \in Nat
  BY StreamFacts DEF Init, Handed, EndOf
<1>3. \A k \in 1..Len(ends) : EndOf(k) \in Nat /\ EndOf(k) > 0
  BY <1>2, StreamFacts DEF Init
<1>4. InStream
  <2>1. RestKept(arrived)
    BY <1>2 DEF Init, RestKept
  <2>2. \A k \in 1..Len(ends) : EndOf(k) <= arrived => k <= Handed
    BY <1>3 DEF Init
  <2> QED
    BY <1>2, <2>1, <2>2 DEF Init, InStream
<1>5. RestShort
  BY DEF Init, RestShort
<1> QED
  BY <1>1, <1>4, <1>5 DEF FramingInv, Init

-----------------------------------------------------------------------------
(* One lemma per action *)

LEMMA SameRest ==
  ASSUME RestShort, UNCHANGED <<ends, buf1, lastSize>> PROVE RestShort'
<1>1. HeadersAt(buf1, 0)' = HeadersAt(buf1, 0)
  BY DEF HeadersAt, Bytes, Packet, Start
<1>2. \A k : Length(k)' = Length(k)
  BY DEF Length, Start
<1> QED
  BY <1>1, <1>2 DEF RestShort

LEMMA SameStream ==
  ASSUME UNCHANGED ends
  PROVE  /\ \A d : EndOf(d)' = EndOf(d)
         /\ \A k : Packet(k)' = Packet(k)
BY DEF EndOf, Packet, Start

LEMMA ReceiveFraming ==
  ASSUME FramingInv, NEW n \in 1..MAX_SOCK_RECVBUF, Receive(n) PROVE FramingInv'
<1> USE DEF FramingInv, Receive
<1>1. /\ arrived \in Nat /\ lastSize \in Nat /\ size' = n /\ arrived' = arrived + n
      /\ MAX_SOCK_RECVBUF \in Nat /\ mRecvBuf \in Buffer /\ ends \in Streams
      /\ Len(ends) \in Nat /\ ends # <<>> /\ ends \in Seq(Nat)
  BY BufferAssumption, StreamFacts DEF TypeOK, Int32
<1>2. mRecvBuf' \in Buffer /\ \A i \in 1..n : mRecvBuf'[i] = arrived + i
  BY <1>1 DEF Buffer
<1>3. TypeOK'
  BY <1>1, <1>2 DEF TypeOK, restVars
<1>4. RestShort'
  BY SameRest DEF restVars
<1>5. ASSUME clean' PROVE InStream'
  <2>1. clean /\ InStream /\ Completes(n)
    BY <1>5
  <2>2. Received'
    BY <1>1, <1>2 DEF Received
  <2>3. /\ Handed' = Handed /\ Handed \in 0..Len(ends)
        /\ RestKept(arrived)
        /\ \A k \in 1..Handed : delivered[k] = Packet(k)
    BY <1>1, <2>1 DEF InStream, Handed, TypeOK
  <2>4. arrived' <= EndOf(Len(ends))'
    BY <1>1 DEF EndOf
  <2>5. CASE lastSize = 0
    BY <1>1, <2>2, <2>3, <2>4, <2>5, SameStream DEF InStream, RestKept
  <2>6. CASE lastSize # 0
    <3>1. PICK k \in 1..Len(ends) : Start(k) = arrived - lastSize /\ ends[k] <= arrived + n
      BY <2>1, <2>6 DEF Completes
    <3>2. k - 1 \in 0..Len(ends) /\ EndOf(k - 1) = EndOf(Handed) /\ EndOf(k) <= arrived'
      BY <1>1, <2>3, <3>1, StreamFacts DEF RestKept
    <3>3. k = Handed + 1
      <4>1. EndOf(k - 1) \in Nat /\ EndOf(Handed) \in Nat
        BY <1>1, <2>3, <3>2, StreamFacts
      <4>2. \A b, c \in 0..Len(ends) : b < c => EndOf(b) < EndOf(c)
        BY StreamFacts, <1>1
      <4>3. ~(k - 1 < Handed) /\ ~(Handed < k - 1)
        BY <2>3, <3>2, <4>1, <4>2
      <4> QED
        BY <2>3, <3>2, <4>3
    <3>4. RestKept(arrived - size)'
      <4>1. arrived' - size' = arrived /\ lastSize' = lastSize /\ buf1' = buf1
        BY <1>1 DEF restVars
      <4> QED
        BY <2>3, <4>1, SameStream DEF RestKept
    <3> QED
      BY <1>1, <2>2, <2>3, <2>4, <2>6, <3>2, <3>3, <3>4, SameStream DEF InStream, restVars
  <2> QED
    BY <2>5, <2>6
<1>6. (pc = "unpack" => lastSize = 0)' /\ (curPos <= size)'
  BY <1>1 DEF restVars
<1> QED
  BY <1>3, <1>4, <1>5, <1>6

LEMMA ReconnectFraming ==
  ASSUME FramingInv, NEW s \in Streams, NEW rest \in 0..MAX_SOCK_RECVBUF, Reconnect(s, rest)
  PROVE  FramingInv'
<1> USE DEF FramingInv, Reconnect
<1>1. TypeOK'
  BY BufferAssumption DEF TypeOK, Junk, Buffer, Int32
<1>2. ends' \in Streams /\ Len(ends)' \in Nat
  BY StreamsAssumption
<1>3. HeadersAt(buf1, 0)' = {}
  <2> DEFINE none == [i \in 1..MAX_SOCK_RECVBUF |-> 0]
  <2>1. ASSUME NEW k \in 1..Len(s), Bytes(none, 0, 4) = Bytes(Packet(k)', 0, 4) PROVE FALSE
    <3>1. Packet(k)' = [i \in 1..(s[k] - StartIn(s, k)) |-> StartIn(s, k) + i]
      BY DEF Packet, Start
    <3>2. s[k] - StartIn(s, k) >= 4 /\ StartIn(s, k) \in Nat /\ s[k] \in Nat
      BY StreamsAssumption DEF StartIn, HeaderSize
    <3>3. 4 <= MAX_SOCK_RECVBUF /\ MAX_SOCK_RECVBUF \in Int
      BY <3>2, StreamsAssumption, BufferAssumption DEF HeaderSize, Int32
    <3>4. Packet(k)'[0 + 1] = StartIn(s, k) + 1 /\ none[0 + 1] = 0
      BY <3>1, <3>2, <3>3
    <3>5. Bytes(none, 0, 4)[1] = none[0 + 1] /\ Bytes(Packet(k)', 0, 4)[1] = Packet(k)'[0 + 1]
      BY DEF Bytes
    <3> QED
      BY <2>1, <3>2, <3>4, <3>5
  <2>2. buf1' = none /\ ends' = s
    BY DEF Junk
  <2> HIDE DEF none
  <2> QED
    BY <2>1, <2>2 DEF HeadersAt, HeaderSize, Bytes
<1>4. RestShort'
  BY <1>3 DEF RestShort
<1>5. ASSUME clean' PROVE InStream'
  <2>1. lastSize' = 0 /\ arrived' = 0 /\ Handed' = 0 /\ EndOf(Handed)' = 0 /\ pc' = "idle"
    BY <1>5 DEF Handed, EndOf
  <2>2. EndOf(Len(ends))' \in Nat /\ \A k \in 1..Len(ends)' : EndOf(k)' > 0 /\ EndOf(k)' \in Nat
    <3>1. \A d \in 0..Len(s) : EndOf(d)' = IF d = 0 THEN 0 ELSE s[d]
      BY DEF EndOf
    <3>2. s \in Seq(Nat) /\ \A k \in 1..Len(s) : StartIn(s, k) + 4 <= s[k] /\ StartIn(s, k) \in Nat
      BY StreamsAssumption DEF StartIn, HeaderSize
    <3>3. EndOf(Len(ends))' = IF Len(s) = 0 THEN 0 ELSE s[Len(s)]
      BY DEF EndOf
    <3>4. \A k \in 1..Len(s) : s[k] > 0 /\ s[k] \in Nat
      BY <3>2
    <3> QED
      BY <3>1, <3>2, <3>3, <3>4
  <2>3. RestKept(arrived)'
    BY <2>1 DEF RestKept
  <2> QED
    BY <1>2, <2>1, <2>2, <2>3 DEF InStream
<1> QED
  BY <1>1, <1>4, <1>5

(* A header read from the rest and the receive is that of a packet that fits *)
(* in the buffer and is no shorter than the rest.                            *)
LEMMA HeaderOfJoined ==
  ASSUME TypeOK, RestShort, NEW k \in HeadersAt(Joined, 0)
  PROVE  /\ Joined \in Buffer
         /\ k \in 1..Len(ends)
         /\ Length(k) \in 4..MAX_SOCK_RECVBUF
         /\ lastSize <= Length(k)
<1>1. /\ ends \in Streams /\ MAX_SOCK_RECVBUF \in Nat /\ lastSize \in Nat
      /\ buf1 \in Buffer /\ mRecvBuf \in Buffer
  BY BufferAssumption DEF TypeOK, Int32
<1>2. Joined \in Buffer
  BY <1>1 DEF Joined, Buffer
<1>3. k \in 1..Len(ends) /\ Length(k) \in 4..MAX_SOCK_RECVBUF
  BY <1>1, LengthIs DEF HeadersAt
<1>4. CASE lastSize < 4
  BY <1>1, <1>2, <1>3, <1>4
<1>5. CASE lastSize >= 4
  <2>1. \A i \in 1..4 : Joined[0 + i] = buf1[0 + i]
    BY <1>1, <1>3, <1>5 DEF Joined, Buffer
  <2>2. Bytes(Joined, 0, HeaderSize) = Bytes(buf1, 0, HeaderSize)
    BY <2>1 DEF Bytes, HeaderSize
  <2>3. k \in HeadersAt(buf1, 0)
    BY <2>2 DEF HeadersAt
  <2> QED
    BY <1>1, <1>2, <1>3, <1>5, <2>3 DEF RestShort
<1> QED
  BY <1>1, <1>4, <1>5

LEMMA BytesType ==
  ASSUME NEW buffer \in Buffer, NEW pos \in Nat, NEW n \in Nat, pos + n <= MAX_SOCK_RECVBUF
  PROVE  Bytes(buffer, pos, n) \in Seq(Nat)
<1>1. MAX_SOCK_RECVBUF \in Nat
  BY BufferAssumption DEF Int32
<1>2. Bytes(buffer, pos, n) \in [1..n -> Nat]
  BY <1>1 DEF Bytes, Buffer
<1> QED
  BY <1>2

(* A rest that is completed in a clean stream begins with the next packet, *)
(* and the receive brings all of it.                                       *)
LEMMA CompleteFinds ==
  ASSUME FramingInv, clean, pc = "complete"
  PROVE  /\ InStream /\ Handed \in 0..(Len(ends) - 1)
         /\ HeadersAt(Joined, 0) = {Handed + 1}
         /\ Length(Handed + 1) = EndOf(Handed + 1) - EndOf(Handed)
         /\ EndOf(Handed + 1) \in Nat /\ EndOf(Handed) \in Nat
         /\ EndOf(Handed) = arrived - size - lastSize
         /\ EndOf(Handed + 1) <= arrived
         /\ Bytes(Joined, 0, Length(Handed + 1)) = Packet(Handed + 1)
<1> USE DEF FramingInv
<1>0. /\ ends \in Streams /\ MAX_SOCK_RECVBUF \in Nat /\ lastSize \in Nat /\ size \in Nat
      /\ arrived \in Nat /\ buf1 \in Buffer /\ mRecvBuf \in Buffer
      /\ delivered \in Seq(Seq(Nat)) /\ Handed \in Nat
      /\ Len(ends) \in Nat
  BY BufferAssumption, StreamFacts DEF TypeOK, Int32, Handed
<1>1. InStream
  OBVIOUS
<1>2. /\ Handed \in 0..(Len(ends) - 1)
      /\ EndOf(Handed) = arrived - size - lastSize
      /\ EndOf(Handed + 1) <= arrived
      /\ \A i \in 1..lastSize : buf1[i] = EndOf(Handed) + i
      /\ \A i \in 1..size : mRecvBuf[i] = arrived - size + i
  <2>1. arrived - size - lastSize = EndOf(Handed)
    BY <1>1 DEF InStream, RestKept
  <2> QED
    BY <1>0, <1>1, <2>1 DEF InStream, RestKept, Received
<1>3. Handed + 1 \in 1..Len(ends) /\ (Handed + 1) - 1 = Handed /\ Handed \in 0..Len(ends)
  BY <1>0, <1>2
<1>4. /\ Length(Handed + 1) = EndOf(Handed + 1) - EndOf(Handed)
      /\ Length(Handed + 1) \in 4..MAX_SOCK_RECVBUF
      /\ EndOf(Handed + 1) \in Nat /\ EndOf(Handed) \in Nat
  BY <1>0, <1>3, LengthIs, StreamFacts
<1>5. \A i \in 1..Length(Handed + 1) : Joined[i] = EndOf(Handed) + i
  <2>1. SUFFICES ASSUME NEW i \in 1..Length(Handed + 1) PROVE Joined[i] = EndOf(Handed) + i
    OBVIOUS
  <2>2. i \in DOMAIN buf1 /\ i \in Nat /\ i >= 1 /\ i <= arrived - EndOf(Handed)
    <3>1. i \in Nat /\ i >= 1 /\ i <= Length(Handed + 1)
      BY ONLY <1>4, i \in 1..Length(Handed + 1), <1>0
    <3>2. i \in 1..MAX_SOCK_RECVBUF /\ DOMAIN buf1 = 1..MAX_SOCK_RECVBUF
      BY ONLY <1>0, <1>4, <3>1 DEF Buffer
    <3>3. i <= arrived - EndOf(Handed)
      BY ONLY <1>0, <1>2, <1>4, <3>1
    <3> QED
      BY ONLY <3>1, <3>2, <3>3
  <2>3. CASE i <= lastSize
    <3>1. i \in 1..lastSize
      BY ONLY <1>0, <2>2, <2>3
    <3>2. buf1[i] = EndOf(Handed) + i
      BY ONLY <1>2, <3>1
    <3>3. Joined[i] = buf1[i]
      BY ONLY <2>2, <2>3 DEF Joined
    <3> QED
      BY ONLY <3>2, <3>3
  <2>4. CASE i > lastSize
    <3>1. i - lastSize \in 1..size
      BY <1>0, <1>2, <1>4, <2>2, <2>4
    <3>2. mRecvBuf[i - lastSize] = arrived - size + (i - lastSize)
      BY <1>2, <3>1
    <3>3. Joined[i] = mRecvBuf[i - lastSize]
      BY <1>0, <2>2, <2>4 DEF Joined
    <3> QED
      BY <1>0, <1>2, <1>4, <2>2, <3>2, <3>3
  <2> QED
    BY <1>0, <2>2, <2>3, <2>4
<1>6. Joined \in Buffer
  BY <1>0 DEF Joined, Buffer
<1>7. \A i \in 1..4 : Joined[0 + i] = EndOf(Handed) + i
  BY <1>4, <1>5
<1>8. HeadersAt(Joined, 0) = {Handed + 1}
  <2>1. Handed < Len(ends)
    BY <1>0, <1>2
  <2> QED
    BY ONLY <1>0, <1>3, <1>6, <1>7, <2>1, NextHeader
<1>9. Bytes(Joined, 0, Length(Handed + 1)) = Packet(Handed + 1)
  <2>1. \A i \in 1..Length(Handed + 1) : Joined[0 + i] = EndOf(Handed) + i
    BY <1>4, <1>5
  <2> QED
    BY <1>0, <1>2, <2>1, BytesArePacket
<1> QED
  BY <1>1, <1>2, <1>4, <1>8, <1>9

LEMMA CompleteFraming == ASSUME FramingInv, Complete PROVE FramingInv'
<1> USE DEF FramingInv, Complete
<1>1. /\ ends \in Streams /\ MAX_SOCK_RECVBUF \in Nat /\ lastSize \in Nat /\ size \in Nat
      /\ arrived \in Nat /\ buf1 \in Buffer /\ mRecvBuf \in Buffer
      /\ delivered \in Seq(Seq(Nat)) /\ Handed \in Nat
      /\ Len(ends) \in Nat
  BY BufferAssumption, StreamFacts DEF TypeOK, Int32, Handed
<1>2. PICK k \in HeadersAt(Joined, 0) :
        /\ HandOver(Bytes(Joined, 0, Length(k)))
        /\ curPos' = Length(k) - lastSize
  BY DEF PlaceAfter
<1>3. /\ lastSize' = 0 /\ pc' = "unpack" /\ buf1' = Junk
      /\ UNCHANGED <<ends, receiveVars, clean>>
  OBVIOUS
<1>4. /\ Joined \in Buffer /\ k \in 1..Len(ends) /\ lastSize <= Length(k)
      /\ Length(k) \in 4..MAX_SOCK_RECVBUF
  BY HeaderOfJoined
<1>5. buf1' \in Buffer
  BY <1>1, <1>3 DEF Junk, Buffer
<1>6. delivered' \in Seq(Seq(Nat))
  BY <1>1, <1>2, <1>4, BytesType, HandOverType
<1>7. TypeOK'
  BY <1>1, <1>2, <1>3, <1>4, <1>5, <1>6 DEF TypeOK, receiveVars
<1>8. RestShort'
  BY <1>3 DEF RestShort
<1>9. ASSUME clean' PROVE (curPos <= size)' /\ InStream'
  <2>1. /\ clean /\ InStream /\ k = Handed + 1
        /\ Handed \in 0..(Len(ends) - 1)
        /\ Length(k) = EndOf(Handed + 1) - EndOf(Handed)
        /\ EndOf(Handed + 1) \in Nat /\ EndOf(Handed) \in Nat
        /\ EndOf(Handed) = arrived - size - lastSize
        /\ EndOf(Handed + 1) <= arrived
        /\ Bytes(Joined, 0, Length(k)) = Packet(Handed + 1)
    BY <1>3, <1>9, CompleteFinds
  <2>2. /\ Handed' = Handed + 1
        /\ \A j \in 1..Handed' : delivered'[j] = Packet(j)'
    <3>1. HandOver(Packet(Handed + 1)) /\ Handed < Len(ends)
          /\ \A j \in 1..Handed : delivered[j] = Packet(j)
      BY <1>1, <1>2, <2>1 DEF InStream
    <3> QED
      BY <1>1, <1>3, <2>1, <3>1, HandOverNext
  <2>3. /\ EndOf(Handed)' = EndOf(Handed + 1)
        /\ EndOf(Len(ends))' = EndOf(Len(ends))
    BY <1>3, <2>2 DEF EndOf
  <2>4. /\ arrived - size + curPos' = EndOf(Handed + 1)
        /\ curPos' <= size
    BY <1>1, <1>2, <2>1
  <2>5. Received'
    BY <1>3, <2>1 DEF Received, InStream, receiveVars
  <2>6. Handed' <= Len(ends)' /\ arrived' <= EndOf(Len(ends))'
    BY <1>1, <1>3, <2>1, <2>2, <2>3 DEF InStream, receiveVars
  <2> QED
    BY <1>3, <2>2, <2>3, <2>4, <2>5, <2>6 DEF InStream, receiveVars
<1> QED
  BY <1>3, <1>7, <1>8, <1>9

LEMMA CompleteNoHeaderFraming == ASSUME FramingInv, CompleteNoHeader PROVE FramingInv'
<1> USE DEF FramingInv, CompleteNoHeader
<1>1. ~clean /\ ~clean'
  BY CompleteFinds
<1>2. MAX_SOCK_RECVBUF \in Nat /\ lastSize \in 0..MAX_SOCK_RECVBUF
  BY BufferAssumption DEF TypeOK, Int32
<1>3. CASE pc' = "lost"
  <2>1. UNCHANGED <<ends, receiveVars, curPos, restVars, delivered, clean>> /\ pc' = "lost"
    BY <1>3
  <2> QED
    BY <1>1, <2>1, SameRest DEF TypeOK, receiveVars, restVars
<1>4. CASE pc' = "unpack"
  <2>1. /\ curPos' \in 0..MAX_SOCK_RECVBUF /\ lastSize' = 0 /\ buf1' = Junk
        /\ UNCHANGED <<ends, receiveVars, delivered, clean>>
    BY <1>2, <1>4
  <2>2. buf1' \in Buffer
    BY <1>2, <2>1 DEF Junk, Buffer
  <2>3. TypeOK'
    BY <1>2, <1>4, <2>1, <2>2 DEF TypeOK, receiveVars
  <2>4. RestShort'
    BY <2>1 DEF RestShort
  <2> QED
    BY <1>1, <1>4, <2>1, <2>3, <2>4
<1> QED
  BY <1>3, <1>4

(* What a turn of the loop finds in a clean stream: the rest of the receive  *)
(* begins with the next packet.                                              *)
LEMMA LoopFinds ==
  ASSUME FramingInv, clean, pc = "unpack", curPos < size
  PROVE  LET d == Handed IN
         /\ InStream /\ d \in 0..(Len(ends) - 1)
         /\ EndOf(d) \in Nat /\ EndOf(d + 1) \in Nat
         /\ EndOf(d) = arrived - size + curPos
         /\ Length(d + 1) = EndOf(d + 1) - EndOf(d)
         /\ Length(d + 1) \in 4..MAX_SOCK_RECVBUF
         /\ \A i \in 1..(size - curPos) : mRecvBuf[curPos + i] = EndOf(d) + i
         /\ Readable => HeadersAt(mRecvBuf, curPos) = {d + 1}
<1> DEFINE d == Handed
<1>1. /\ ends \in Streams /\ size \in Nat /\ curPos \in Nat /\ arrived \in Nat
      /\ mRecvBuf \in Buffer /\ d \in Nat /\ Len(ends) \in Nat
  BY StreamFacts DEF FramingInv, TypeOK, Handed
<1>2. /\ InStream /\ d <= Len(ends) /\ arrived <= EndOf(Len(ends))
      /\ EndOf(d) = arrived - size + curPos
      /\ \A i \in 1..size : mRecvBuf[i] = arrived - size + i
  <2>1. InStream /\ arrived - size + curPos = EndOf(Handed)
    BY DEF FramingInv, InStream
  <2> QED
    BY <2>1 DEF InStream, Received
<1>3. d # Len(ends)
  BY <1>1, <1>2
<1>4. d + 1 \in 1..Len(ends) /\ (d + 1) - 1 = d /\ d \in 0..Len(ends) /\ d + 1 \in 0..Len(ends)
  BY <1>1, <1>2, <1>3
<1>5. /\ EndOf(d) \in Nat /\ EndOf(d + 1) \in Nat
      /\ Length(d + 1) = EndOf(d + 1) - EndOf(d)
      /\ Length(d + 1) \in 4..MAX_SOCK_RECVBUF
  BY <1>1, <1>4, StreamFacts, LengthIs
<1>6. \A i \in 1..(size - curPos) : mRecvBuf[curPos + i] = EndOf(d) + i
  <2>1. ASSUME NEW i \in 1..(size - curPos) PROVE mRecvBuf[curPos + i] = EndOf(d) + i
    <3>1. curPos + i \in 1..size
      BY <1>1
    <3>2. mRecvBuf[curPos + i] = arrived - size + (curPos + i)
      BY <1>2, <3>1
    <3> QED
      BY <1>1, <1>2, <1>5, <3>2
  <2> QED
    BY <2>1
<1>7. ASSUME Readable PROVE HeadersAt(mRecvBuf, curPos) = {d + 1}
  <2>1. \A i \in 1..4 : mRecvBuf[curPos + i] = EndOf(d) + i
    BY <1>1, <1>6, <1>7 DEF Readable, HeaderSize
  <2>2. d \in 0..Len(ends) /\ d < Len(ends)
    BY ONLY <1>1, <1>4
  <2> QED
    BY ONLY <1>1, <2>1, <2>2, NextHeader
<1> QED
  BY <1>1, <1>2, <1>4, <1>5, <1>6, <1>7

LEMMA UnpackNextFraming == ASSUME FramingInv, UnpackNext PROVE FramingInv'
<1> USE DEF UnpackNext
<1>1. /\ ends \in Streams /\ MAX_SOCK_RECVBUF \in Nat /\ size \in 0..MAX_SOCK_RECVBUF
      /\ curPos \in Nat /\ arrived \in Nat /\ buf1 \in Buffer /\ mRecvBuf \in Buffer
      /\ delivered \in Seq(Seq(Nat)) /\ Handed \in Nat /\ Len(ends) \in Nat
  BY BufferAssumption, StreamFacts DEF FramingInv, TypeOK, Int32, Handed
<1>2. PICK k \in HeadersAt(mRecvBuf, curPos) :
        /\ curPos + Length(k) <= size
        /\ HandOver(Bytes(mRecvBuf, curPos, Length(k)))
        /\ curPos' = curPos + Length(k)
  BY DEF Fits
<1>3. k \in 1..Len(ends) /\ Length(k) \in 4..MAX_SOCK_RECVBUF
  BY <1>1, LengthIs DEF HeadersAt
<1>4. delivered' \in Seq(Seq(Nat))
  BY <1>1, <1>2, <1>3, BytesType, HandOverType
<1>5. TypeOK'
  BY <1>1, <1>2, <1>3, <1>4 DEF TypeOK, FramingInv, receiveVars
<1>6. RestShort'
  BY DEF RestShort
<1>7. ASSUME clean' PROVE (curPos <= size)' /\ InStream'
  <2> DEFINE d == Handed
  <2>1. /\ InStream /\ d \in 0..(Len(ends) - 1) /\ k = d + 1
        /\ EndOf(d) \in Nat /\ EndOf(d + 1) \in Nat
        /\ EndOf(d) = arrived - size + curPos
        /\ Length(k) = EndOf(d + 1) - EndOf(d)
        /\ \A i \in 1..(size - curPos) : mRecvBuf[curPos + i] = EndOf(d) + i
    BY <1>2, <1>7, LoopFinds
  <2>2. \A i \in 1..Length(k) : mRecvBuf[curPos + i] = EndOf(d) + i
    <3>1. \A i \in 1..Length(k) : i \in 1..(size - curPos)
      BY <1>1, <1>2, <1>3
    <3> QED
      BY <2>1, <3>1
  <2>3. Bytes(mRecvBuf, curPos, Length(k)) = Packet(d + 1)
    BY <1>1, <2>1, <2>2, BytesArePacket
  <2>4. /\ Handed' = d + 1
        /\ \A j \in 1..Handed' : delivered'[j] = Packet(j)'
    <3>1. HandOver(Packet(d + 1)) /\ d < Len(ends) /\ \A j \in 1..d : delivered[j] = Packet(j)
      BY <1>1, <1>2, <2>1, <2>3 DEF InStream
    <3> QED
      BY <1>1, <1>7, <3>1, HandOverNext
  <2>5. EndOf(Handed)' = EndOf(d + 1) /\ EndOf(Len(ends))' = EndOf(Len(ends))
    BY <2>4 DEF EndOf
  <2>6. curPos' <= size /\ arrived - size + curPos' = EndOf(d + 1)
    BY <1>1, <1>2, <1>3, <2>1
  <2>7. Received'
    BY <2>1 DEF Received, InStream, receiveVars
  <2>8. Handed' <= Len(ends)' /\ arrived' <= EndOf(Len(ends))'
    BY <1>1, <2>1, <2>4, <2>5 DEF InStream, receiveVars
  <2> QED
    BY <2>4, <2>5, <2>6, <2>7, <2>8 DEF InStream, receiveVars
<1> QED
  BY <1>5, <1>6, <1>7 DEF FramingInv

LEMMA NoHeaderFraming == ASSUME FramingInv, NoHeader PROVE FramingInv'
<1>1. ~clean /\ ~clean'
  BY LoopFinds DEF NoHeader
<1>2. curPos' \in 0..MAX_SOCK_RECVBUF /\ lastSize' = 0
  <2>1. MAX_SOCK_RECVBUF \in Nat /\ size \in 0..MAX_SOCK_RECVBUF
    BY BufferAssumption DEF FramingInv, TypeOK, Int32
  <2> QED
    BY <2>1 DEF NoHeader
<1>3. UNCHANGED <<ends, receiveVars, buf1, pc, delivered, clean>>
  BY DEF NoHeader
<1>4. TypeOK'
  BY <1>1, <1>2, <1>3, BufferAssumption DEF FramingInv, TypeOK, Int32, receiveVars
<1>5. RestShort'
  BY <1>2 DEF RestShort
<1> QED
  BY <1>1, <1>2, <1>4, <1>5 DEF FramingInv

LEMMA KeepRestFraming == ASSUME FramingInv, KeepRest PROVE FramingInv'
<1> USE DEF KeepRest, SizeOfRest, RestAt
<1> DEFINE rest == size - curPos
<1>1. /\ ends \in Streams /\ MAX_SOCK_RECVBUF \in Nat /\ size \in 0..MAX_SOCK_RECVBUF
      /\ curPos \in Nat /\ arrived \in Nat /\ buf1 \in Buffer /\ mRecvBuf \in Buffer
      /\ Handed \in Nat /\ Len(ends) \in Nat /\ rest \in 1..MAX_SOCK_RECVBUF
      /\ lastSize' = rest
  BY BufferAssumption, StreamFacts DEF FramingInv, TypeOK, Int32, Handed
<1>2. buf1' \in Buffer /\ \A i \in 1..rest : buf1'[i] = mRecvBuf[curPos + i]
  BY <1>1 DEF Buffer
<1>3. TypeOK'
  BY <1>1, <1>2 DEF TypeOK, FramingInv, receiveVars
<1>4. RestShort'
  <2>1. SUFFICES ASSUME NEW k \in HeadersAt(buf1, 0)', rest >= 4 PROVE rest < Length(k)
    BY <1>1 DEF RestShort, Length, Start
  <2>2. \A i \in 1..4 : buf1'[0 + i] = mRecvBuf[curPos + i]
    <3>1. ASSUME NEW i \in 1..4 PROVE buf1'[0 + i] = mRecvBuf[curPos + i]
      <4>1. i \in 1..rest /\ 0 + i = i
        BY ONLY <1>1, <2>1, i \in 1..4
      <4> QED
        BY ONLY <1>2, <4>1
    <3> QED
      BY ONLY <3>1
  <2>3. Bytes(buf1', 0, HeaderSize) = Bytes(mRecvBuf, curPos, HeaderSize)
    BY <2>2 DEF Bytes, HeaderSize
  <2>4. k \in HeadersAt(mRecvBuf, curPos)
    <3>1. k \in 1..Len(ends) /\ Bytes(buf1', 0, HeaderSize) = Bytes(Packet(k), 0, HeaderSize)
      BY SameStream DEF HeadersAt, Bytes
    <3> QED
      BY <2>3, <3>1 DEF HeadersAt
  <2>5. Readable
    BY <1>1, <2>1 DEF Readable, HeaderSize
  <2>6. ~(curPos + Length(k) <= size)
    BY <2>4, <2>5 DEF Fits
  <2>7. Length(k) \in Nat
    BY <1>1, <2>4, LengthIs DEF HeadersAt
  <2> QED
    BY <1>1, <2>6, <2>7
<1>5. ASSUME clean' PROVE (curPos <= size)' /\ InStream'
  <2> DEFINE d == Handed
  <2>1. /\ InStream /\ d \in 0..(Len(ends) - 1)
        /\ EndOf(d) \in Nat /\ EndOf(d + 1) \in Nat
        /\ EndOf(d) = arrived - size + curPos
        /\ Length(d + 1) = EndOf(d + 1) - EndOf(d)
        /\ Length(d + 1) \in 4..MAX_SOCK_RECVBUF
        /\ \A i \in 1..(size - curPos) : mRecvBuf[curPos + i] = EndOf(d) + i
        /\ Readable => HeadersAt(mRecvBuf, curPos) = {d + 1}
    BY <1>5, LoopFinds
  <2>2. Handed' = d /\ EndOf(Handed)' = EndOf(d) /\ EndOf(Len(ends))' = EndOf(Len(ends))
    BY DEF Handed, EndOf
  <2>3. RestKept(arrived)'
    <3>1. arrived' - lastSize' = EndOf(d)
      BY <1>1, <2>1 DEF receiveVars
    <3>2. \A i \in 1..lastSize' : buf1'[i] = EndOf(d) + i
      BY <1>1, <1>2, <2>1
    <3> QED
      BY <2>2, <3>1, <3>2 DEF RestKept
  <2>4. EndOf(d + 1) > arrived
    <3>1. CASE Readable
      <4>1. ~(curPos + Length(d + 1) <= size)
        BY <2>1, <3>1 DEF Fits
      <4> QED
        BY <1>1, <2>1, <4>1
    <3>2. CASE ~Readable
      BY <1>1, <2>1, <3>2 DEF Readable, HeaderSize
    <3> QED
      BY <3>1, <3>2
  <2>5. ASSUME NEW k \in 1..Len(ends), EndOf(k) <= arrived PROVE k <= d
    <3>1. EndOf(k) \in Nat /\ k \in 0..Len(ends) /\ d + 1 \in 0..Len(ends)
          /\ \A b, c \in 0..Len(ends) : b < c => EndOf(b) < EndOf(c)
      BY <1>1, <2>1, StreamFacts
    <3>2. ~(d + 1 < k) /\ k # d + 1
      BY <1>1, <2>1, <2>4, <2>5, <3>1
    <3> QED
      BY <1>1, <3>1, <3>2
  <2>6. \A k \in 1..Len(ends)' : EndOf(k)' <= arrived' => k <= Handed'
    BY <2>2, <2>5, SameStream DEF receiveVars
  <2>7. /\ Handed' <= Len(ends)' /\ arrived' <= EndOf(Len(ends))'
        /\ \A j \in 1..Handed' : delivered'[j] = Packet(j)'
    BY <1>1, <2>1, <2>2, SameStream DEF InStream, receiveVars
  <2> QED
    BY <1>1, <2>3, <2>6, <2>7 DEF InStream, receiveVars
<1> QED
  BY <1>3, <1>4, <1>5 DEF FramingInv

LEMMA ReturnFraming == ASSUME FramingInv, Return PROVE FramingInv'
<1> USE DEF Return
<1>1. TypeOK' /\ RestShort' /\ lastSize = 0
  BY SameRest DEF FramingInv, TypeOK, receiveVars, restVars
<1>2. ASSUME clean' PROVE (curPos <= size)' /\ InStream'
  <2>1. /\ InStream /\ curPos <= size /\ arrived - size + curPos = EndOf(Handed)
        /\ ends \in Streams /\ arrived \in Nat /\ size \in Nat /\ curPos \in Nat
        /\ Handed \in Nat /\ Handed <= Len(ends) /\ Len(ends) \in Nat
    BY <1>2, StreamFacts DEF FramingInv, InStream, TypeOK, Handed
  <2>2. EndOf(Handed) = arrived
    BY <2>1
  <2>3. ASSUME NEW k \in 1..Len(ends), EndOf(k) <= arrived PROVE k <= Handed
    <3>1. EndOf(k) \in Nat /\ k \in 0..Len(ends) /\ Handed \in 0..Len(ends)
          /\ \A b, c \in 0..Len(ends) : b < c => EndOf(b) < EndOf(c)
      BY <2>1, StreamFacts
    <3>2. ~(Handed < k)
      BY <2>1, <2>2, <2>3, <3>1
    <3> QED
      BY <2>1, <3>1, <3>2
  <2>4. Handed' = Handed /\ EndOf(Handed)' = EndOf(Handed)
    BY DEF Handed, EndOf
  <2>5. RestKept(arrived)'
    BY <1>1, <2>1, <2>2, <2>4 DEF RestKept, receiveVars, restVars
  <2>6. \A k \in 1..Len(ends)' : EndOf(k)' <= arrived' => k <= Handed'
    BY <2>3, <2>4, SameStream DEF receiveVars
  <2>7. /\ Handed' <= Len(ends)' /\ arrived' <= EndOf(Len(ends))'
        /\ \A j \in 1..Handed' : delivered'[j] = Packet(j)'
    BY <2>1, <2>4, SameStream DEF InStream, receiveVars
  <2> QED
    BY <2>1, <2>5, <2>6, <2>7 DEF InStream, receiveVars
<1> QED
  BY <1>1, <1>2 DEF FramingInv

LEMMA NextFraming == FramingInv /\ [Next]_vars => FramingInv'
<1> SUFFICES ASSUME FramingInv, [Next]_vars PROVE FramingInv'
  OBVIOUS
<1>1. CASE UNCHANGED vars
  <2>1. RestShort'
    BY <1>1, SameRest DEF FramingInv, vars, restVars
  <2>2. UNCHANGED <<ends, arrived, mRecvBuf, size, curPos, buf1, lastSize, pc, delivered, clean>>
    BY <1>1 DEF vars, receiveVars, restVars
  <2>3. TypeOK'
    BY <2>2 DEF FramingInv, TypeOK
  <2>4. InStream => InStream'
    BY <2>2, SameStream DEF InStream, RestKept, Received, Handed
  <2> QED
    BY <2>1, <2>2, <2>3, <2>4 DEF FramingInv
<1>2. CASE \E n \in 1..MAX_SOCK_RECVBUF : Receive(n)
  BY <1>2, ReceiveFraming
<1>3. CASE OnReceive
  BY <1>3, CompleteFraming, CompleteNoHeaderFraming, UnpackNextFraming, NoHeaderFraming,
     KeepRestFraming, ReturnFraming
  DEF OnReceive
<1>4. CASE \E s \in Streams, rest \in 0..MAX_SOCK_RECVBUF : Reconnect(s, rest)
  BY <1>4, ReconnectFraming
<1> QED
  BY <1>1, <1>2, <1>3, <1>4 DEF Next

LEMMA FramingInvariant == Spec => []FramingInv
  BY InitFraming, NextFraming, PTL DEF Spec

-----------------------------------------------------------------------------
(* The buffers and counters of OnReceive (GameServer.h) stay in their range, *)
(* also in streams that it gets wrong.                                       *)
THEOREM TypeCorrect == Spec => []TypeOK
<1>1. FramingInv => TypeOK
  BY DEF FramingInv
<1> QED
  BY <1>1, FramingInvariant, PTL

(* ReceivePacketData gets the packets that the client sent, whole, once each *)
(* and in order, wherever the receives cut the stream (GameServer.h).        *)
THEOREM AlwaysDeliversTheStream == Spec => []DeliversTheStream
<1>1. FramingInv => DeliversTheStream
  BY DEF FramingInv, InStream, Handed, DeliversTheStream
<1> QED
  BY <1>1, FramingInvariant, PTL

(* When OnReceive has returned it holds no packet back that has arrived.     *)
THEOREM NeverHoldsBack == Spec => []NothingHeldBack
<1>1. FramingInv => NothingHeldBack
  <2>1. ends \in Streams => \A k \in 1..Len(ends) : ends[k] = EndOf(k)
    BY StreamFacts
  <2> QED
    BY <2>1 DEF FramingInv, TypeOK, InStream, Handed, NothingHeldBack
<1> QED
  BY <1>1, FramingInvariant, PTL

(* OnReceive reads lengths where there are lengths, and nothing beyond what  *)
(* the receive has brought.                                                  *)
THEOREM AlwaysReadsWhatCame == Spec => []ReadsWhatCame
<1>1. FramingInv => ReadsWhatCame
  <2> SUFFICES ASSUME FramingInv, clean
               PROVE  /\ curPos <= size /\ pc # "lost"
                      /\ pc = "complete" => HeadersAt(Joined, 0) # {}
                      /\ pc = "unpack" /\ Readable => HeadersAt(mRecvBuf, curPos) # {}
    BY DEF ReadsWhatCame
  <2>1. curPos <= size /\ pc # "lost"
    BY DEF FramingInv, InStream
  <2>2. pc = "complete" => HeadersAt(Joined, 0) # {}
    BY CompleteFinds
  <2>3. ASSUME pc = "unpack", Readable PROVE HeadersAt(mRecvBuf, curPos) # {}
    <3>1. curPos < size
      BY <2>3 DEF Readable, HeaderSize, FramingInv, TypeOK
    <3> QED
      BY <2>3, <3>1, LoopFinds
  <2> QED
    BY <2>1, <2>2, <2>3
<1> QED
  BY <1>1, FramingInvariant, PTL
=============================================================================
