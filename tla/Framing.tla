------------------------------- MODULE Framing -------------------------------
(***************************************************************************)
(* GameServer::OnReceive (GameServer.h): the packets of a client's stream, *)
(* put together again from receives that cut the stream anywhere.  The     *)
(* slot has one receive buffer and one buffer for the rest of an unfinished *)
(* packet, and its receives come one after the other (OneReader, Session). *)
(*                                                                         *)
(* A byte is its position in the stream of the connected client.  It is 0  *)
(* if an earlier client of the slot sent it, or an earlier receive than    *)
(* the one at hand: what matters is which bytes are where, and where the   *)
(* packets end.  Of mUserRecvBuf only the rest is kept, what is behind it  *)
(* is written before it is read.                                           *)
(***************************************************************************)
EXTENDS PacketUtil, Sequences

CONSTANTS Streams,            \* the streams of clients: where their packets end
          MAX_SOCK_RECVBUF    \* size of both buffers

HeaderSize == 4               \* sizeof(__int32): the length of the packet

StartIn(s, k) == IF k = 1 THEN 0 ELSE s[k - 1]

ASSUME BufferAssumption == MAX_SOCK_RECVBUF \in Int32 /\ MAX_SOCK_RECVBUF > 0

(* No packet is larger than the buffers (which the code does not test).    *)
ASSUME StreamsAssumption ==
  \A s \in Streams :
    /\ s \in Seq(Nat)
    /\ \A k \in 1..Len(s) : /\ StartIn(s, k) + HeaderSize <= s[k]
                            /\ s[k] <= StartIn(s, k) + MAX_SOCK_RECVBUF
                            /\ \A j \in 1..(k - 1) : s[j] < s[k]

VARIABLES ends,         \* the stream of the connected client
          arrived,      \* how much of it has been received
          mRecvBuf,     \* the receive buffer,
          size,         \* how much of it the receive at hand has filled (size_)
          curPos,       \* and how much of that has been unpacked
          buf1,         \* mUserRecvBuf: the rest of an unfinished packet
          lastSize,     \* mUserRecvLastSize: its length
          pc,           \* where the worker is in OnReceive
          delivered,    \* history: what went to ReceivePacketData, in order
          clean         \* history: see Receive

receiveVars == <<mRecvBuf, size, arrived>>
restVars == <<buf1, lastSize>>
vars == <<ends, receiveVars, curPos, restVars, pc, delivered, clean>>

Buffer == [1..MAX_SOCK_RECVBUF -> Nat]

Start(k) == StartIn(ends, k)

(* The bytes of the k-th packet. *)
Packet(k) == [i \in 1..(ends[k] - Start(k)) |-> Start(k) + i]

Bytes(buffer, from, n) == [i \in 1..n |-> buffer[from + i]]

TypeOK ==
  /\ ends \in Streams
  /\ arrived \in Nat
  /\ mRecvBuf \in Buffer
  /\ size \in 0..MAX_SOCK_RECVBUF
  /\ curPos \in 0..MAX_SOCK_RECVBUF
  /\ buf1 \in Buffer
  /\ lastSize \in 0..MAX_SOCK_RECVBUF
  /\ pc \in {"idle", "complete", "unpack", "lost"}
  /\ delivered \in Seq(Seq(Nat))
  /\ clean \in BOOLEAN

Junk == [i \in 1..MAX_SOCK_RECVBUF |-> 0]

Init == /\ ends \in Streams
        /\ arrived = 0
        /\ mRecvBuf = Junk
        /\ size = 0
        /\ curPos = 0
        /\ buf1 = Junk
        /\ lastSize = 0
        /\ pc = "idle"
        /\ delivered = <<>>
        /\ clean = TRUE

-----------------------------------------------------------------------------
(* The environment *)

(* The rest of a packet, if there is one, is completed by n more bytes.    *)
Completes(n) == \/ lastSize = 0
                \/ \E k \in 1..Len(ends) : /\ Start(k) = arrived - lastSize
                                           /\ ends[k] <= arrived + n

(* n more bytes of the stream arrive and OnReceive is called.  It is right *)
(* only if no packet takes three receives: that is recorded in "clean".    *)
Receive(n) ==
  /\ pc = "idle"
  /\ ends # <<>> /\ arrived + n <= ends[Len(ends)]
  /\ arrived' = arrived + n
  /\ mRecvBuf' = [i \in DOMAIN mRecvBuf |-> IF i <= n THEN arrived + i ELSE 0]
  /\ size' = n
  /\ curPos' = 0
  /\ pc' = IF lastSize = 0 THEN "unpack" ELSE "complete"
  /\ clean' = (clean /\ Completes(n))
  /\ UNCHANGED <<ends, restVars, delivered>>

(* The client leaves and another one gets the slot: the rest of the last   *)
(* stream stays where it is.  After bytes that are no packet it is any.    *)
Reconnect(s, rest) ==
  /\ pc \in {"idle", "lost"}
  /\ pc = "idle" => rest = lastSize
  /\ ends' = s
  /\ arrived' = 0
  /\ mRecvBuf' = Junk
  /\ buf1' = Junk
  /\ lastSize' = rest
  /\ size' = 0
  /\ curPos' = 0
  /\ pc' = "idle"
  /\ delivered' = <<>>
  /\ clean' = (rest = 0)

-----------------------------------------------------------------------------
(* OnReceive *)

(* The packets whose header is at this place.  There may be none, in a     *)
(* stream that is not clean: then the four bytes are read for a length all *)
(* the same, and may be any __int32.                                       *)
HeadersAt(buffer, pos) ==
  {k \in 1..Len(ends) : Bytes(buffer, pos, HeaderSize) = Bytes(Packet(k), 0, HeaderSize)}

(* The length of a packet as its header has it, and the header. *)
Length(k) ==
  ByteArrToInt32(Int32ToByteArr(ends[k] - Start(k) - HeaderSize)) + HeaderSize

(* Unpack, then ReceivePacketData.  Bytes that are no packet may, but need *)
(* not, fail to unpack.  The history is that of clean streams.             *)
HandOver(bytes) ==
  \/ clean /\ delivered' = Append(delivered, bytes)
  \/ /\ clean => \A k \in 1..Len(ends) : bytes # Packet(k)
     /\ UNCHANGED delivered

(* The rest followed by the receive. *)
Joined == [i \in DOMAIN buf1 |-> IF i <= lastSize THEN buf1[i] ELSE mRecvBuf[i - lastSize]]

(* Mutant: the part of the receive that completed the packet is skipped    *)
(* together with as many bytes as the rest had.                            *)
PlaceAfterWhole(k) == Length(k)

PlaceAfter(k) == Length(k) - lastSize

(* A rest is taken to be completed by the receive, however short that is.  *)
(* The two branches for a rest with and without its header do the same.    *)
Complete ==
  /\ pc = "complete"
  /\ \E k \in HeadersAt(Joined, 0) :
       /\ HandOver(Bytes(Joined, 0, Length(k)))
       /\ curPos' = PlaceAfter(k)
  /\ buf1' = Junk
  /\ lastSize' = 0
  /\ pc' = "unpack"
  /\ UNCHANGED <<ends, receiveVars, clean>>

(* A rest that begins with no header: n bytes that are no packet are       *)
(* joined.  With a length that the buffers or the rest do not allow the    *)
(* copy goes past them, and the worker is lost.                            *)
CompleteNoHeader ==
  /\ pc = "complete"
  /\ HeadersAt(Joined, 0) = {}
  /\ \/ /\ \E n \in lastSize..MAX_SOCK_RECVBUF :
              n >= HeaderSize /\ curPos' = n - lastSize
        /\ buf1' = Junk
        /\ lastSize' = 0
        /\ pc' = "unpack"
     \/ /\ pc' = "lost"
        /\ UNCHANGED <<curPos, restVars>>
  /\ UNCHANGED <<ends, receiveVars, delivered, clean>>

Readable == curPos + HeaderSize <= size

(* Mutant: the test is off by one. *)
FitsStrictly(k) == curPos + Length(k) < size

Fits(k) == curPos + Length(k) <= size

UnpackNext ==
  /\ pc = "unpack"
  /\ curPos < size
  /\ Readable
  /\ \E k \in HeadersAt(mRecvBuf, curPos) :
       /\ Fits(k)
       /\ HandOver(Bytes(mRecvBuf, curPos, Length(k)))
       /\ curPos' = curPos + Length(k)
  /\ lastSize' = 0
  /\ UNCHANGED <<ends, receiveVars, buf1, pc, clean>>

(* No header: with a length that seems to fit, Unpack fails or hands over  *)
(* what is no packet, and the place moves by it.  A length of -4 leaves it *)
(* where it is, and one below that moves it back, not beyond the front     *)
(* (the sum is unsigned and then fits nowhere): what was unpacked once is  *)
(* unpacked again, and OnReceive may never return.                         *)
NoHeader ==
  /\ pc = "unpack"
  /\ curPos < size
  /\ Readable
  /\ HeadersAt(mRecvBuf, curPos) = {}
  /\ curPos' \in 0..size
  /\ lastSize' = 0
  /\ UNCHANGED <<ends, receiveVars, buf1, pc, delivered, clean>>

(* Mutant: the rest is copied from the front of the receive. *)
RestFromFront(i) == mRecvBuf[i]

RestAt(i) == mRecvBuf[curPos + i]

(* Mutant: the difference is the other way round. *)
SizeOfRestSwapped == curPos - size

SizeOfRest == size - curPos

(* The rest is kept and OnReceive returns. *)
KeepRest ==
  /\ pc = "unpack"
  /\ curPos < size
  /\ Readable => \A k \in HeadersAt(mRecvBuf, curPos) : ~Fits(k)
  /\ lastSize' = SizeOfRest
  /\ buf1' = [i \in DOMAIN buf1 |-> IF i <= SizeOfRest THEN RestAt(i) ELSE 0]
  /\ pc' = "idle"
  /\ UNCHANGED <<ends, receiveVars, curPos, delivered, clean>>

(* Mutant: the loop has another turn at the end of the receive, and stays. *)
ReturnPastEnd == /\ pc = "unpack"
                 /\ curPos >= size
                 /\ pc' = IF curPos > size THEN "idle" ELSE pc
                 /\ UNCHANGED <<ends, receiveVars, curPos, restVars, delivered, clean>>

Return == /\ pc = "unpack"
          /\ curPos >= size
          /\ pc' = "idle"
          /\ UNCHANGED <<ends, receiveVars, curPos, restVars, delivered, clean>>

OnReceive == Complete \/ CompleteNoHeader \/ UnpackNext \/ NoHeader \/ KeepRest \/ Return

Next == \/ \E n \in 1..MAX_SOCK_RECVBUF : Receive(n)
        \/ OnReceive
        \/ \E s \in Streams, rest \in 0..MAX_SOCK_RECVBUF : Reconnect(s, rest)

(* The worker that runs OnReceive waits for nothing. *)
Spec == Init /\ [][Next]_vars /\ WF_vars(OnReceive)

-----------------------------------------------------------------------------
(* Properties, of the streams of which no packet took more than two        *)
(* receives, in slots whose last client left no unfinished packet.         *)

(* ReceivePacketData gets the packets that the client sent, whole, once    *)
(* each and in order, wherever the receives cut the stream.                *)
DeliversTheStream ==
  clean => /\ Len(delivered) <= Len(ends)
           /\ \A k \in 1..Len(delivered) : delivered[k] = Packet(k)

(* When OnReceive has returned, no packet that has arrived is held back:   *)
(* the client may wait for its answer before it sends more.                *)
NothingHeldBack ==
  clean /\ pc = "idle"
     => \A k \in 1..Len(ends) : ends[k] <= arrived => k <= Len(delivered)

(* OnReceive never takes for a length what is none, and reads nothing that *)
(* the receive did not bring.                                              *)
ReadsWhatCame ==
  clean => /\ curPos <= size
           /\ pc = "complete" => HeadersAt(Joined, 0) # {}
           /\ pc = "unpack" /\ Readable => HeadersAt(mRecvBuf, curPos) # {}
           /\ pc # "lost"

(* OnReceive returns (GameServer.h, the loop): only then is the next       *)
(* receive posted.  It needs a stream of packets: a length of -4 passes    *)
(* the test, and the loop stays where it is for ever.                      *)
Returns == (clean /\ pc \in {"complete", "unpack"}) ~> pc = "idle"
=============================================================================
