---------------------------- MODULE SessionProofs ----------------------------
(* A slot, for every number of workers, sockets and messages.  First sending: *)
(* messages go out in order, and the one that a completion frees is the one   *)
(* that was sent, whoever sends, however operations end and whatever sessions *)
(* come and go.  Then the life of a slot: its types, its receive buffer and   *)
(* the end of its sessions.  Last, that Session implements SlotEvents.        *)
EXTENDS Session, FiniteSetTheorems, TLAPS

Sends == {o \in operations : o.op = "SEND"}

(* The queue holds the last messages given to SendMsg. *)
Consecutive ==
  /\ messages \in Nat
  /\ mSendDataqueue \in Seq(Nat)
  /\ Len(mSendDataqueue) <= messages
  /\ \A k \in 1..Len(mSendDataqueue) :
       mSendDataqueue[k] = messages - Len(mSendDataqueue) + k

(* At most one send is pending, and it is the front of the queue. *)
OnePending ==
  /\ \A o, p \in Sends : o = p
  /\ \A o \in Sends : /\ Len(mSendDataqueue) > 0
                      /\ o.message = messages - Len(mSendDataqueue) + 1

(* Nothing was sent that is behind the front of the queue: only a message    *)
(* that comes to the front is sent.                                          *)
FrontMessage == IF Len(mSendDataqueue) = 0 THEN messages
                ELSE messages - Len(mSendDataqueue) + 1

OnlyFront == /\ wire \in Seq(Nat)
             /\ \A k \in 1..Len(wire) : wire[k] <= FrontMessage
             /\ SendsInOrder

(* The inductive invariant. *)
SendInv == Consecutive /\ OnePending /\ OnlyFront

-----------------------------------------------------------------------------
LEMMA InitSend == Init => SendInv
  BY DEF Init, SendInv, Consecutive, OnePending, OnlyFront, FrontMessage, Sends, SendsInOrder

(* Only SendMsg and SendCompleted touch the queue; the others post no send.  *)
LEMMA OthersSendNothing ==
  ASSUME SendInv, UNCHANGED sendVars, Sends' \subseteq Sends
  PROVE  SendInv'
<1>1. Consecutive'
  BY DEF SendInv, Consecutive, sendVars
<1>2. OnePending'
  BY DEF SendInv, OnePending, sendVars
<1>3. OnlyFront'
  BY DEF SendInv, OnlyFront, FrontMessage, SendsInOrder, sendVars
<1> QED
  BY <1>1, <1>2, <1>3 DEF SendInv

(* SendIO sends the front of q, or nothing; what else was pending is gone.   *)
LEMMA SendIOSends ==
  ASSUME NEW q \in Seq(Nat), q # <<>>, NEW others,
         \A o \in others : o.op # "SEND",
         SendIO(q, others)
  PROVE  /\ \A o \in Sends' : o.message = Head(q)
         /\ \A o, p \in Sends' : o = p
         /\ wire' \in {wire, Append(wire, Head(q))}
<1> DEFINE new == [op |-> "SEND", socket |-> mSocket, message |-> Head(q)]
<1>1. operations' \subseteq others \union {new}
  BY DEF SendIO
<1>2. Sends' \subseteq {new}
  BY <1>1 DEF Sends
<1> QED
  BY <1>2 DEF SendIO

(* A message that is sent is later than all that were sent before.           *)
LEMMA AppendInOrder ==
  ASSUME NEW m \in Nat, wire \in Seq(Nat), SendsInOrder,
         \A k \in 1..Len(wire) : wire[k] < m,
         wire' \in {wire, Append(wire, m)}
  PROVE  /\ wire' \in Seq(Nat)
         /\ \A k \in 1..Len(wire') : wire'[k] <= m
         /\ SendsInOrder'
<1>1. CASE wire' = wire
  BY <1>1 DEF SendsInOrder
<1>2. CASE wire' = Append(wire, m)
  <2>1. /\ Len(wire') = Len(wire) + 1
        /\ wire'[Len(wire) + 1] = m
        /\ \A k \in 1..Len(wire) : wire'[k] = wire[k]
        /\ wire' \in Seq(Nat)
    BY <1>2
  <2> DEFINE n == Len(wire)
  <2> n \in Nat /\ \A k \in 1..n : wire[k] \in Nat
    OBVIOUS
  <2>2. ASSUME NEW k \in 1..Len(wire') PROVE wire'[k] <= m
    <3>1. k \in 1..n \/ k = n + 1
      BY <2>1
    <3> QED
      BY <2>1, <3>1
  <2>3. ASSUME NEW j \in 1..Len(wire'), NEW k \in 1..Len(wire'), j < k
        PROVE  wire'[j] < wire'[k]
    <3>1. j \in 1..n /\ (k \in 1..n \/ k = n + 1)
      BY <2>1, <2>3
    <3>2. CASE k \in 1..n
      BY <2>1, <2>3, <3>1, <3>2 DEF SendsInOrder
    <3>3. CASE k = n + 1
      BY <2>1, <3>1, <3>3
    <3> QED
      BY <3>1, <3>2, <3>3
  <2> QED
    BY <2>1, <2>2, <2>3 DEF SendsInOrder
<1> QED
  BY <1>1, <1>2

LEMMA SendMsgSend == ASSUME SendInv, SendMsg PROVE SendInv'
<1> DEFINE q == mSendDataqueue
<1>1. /\ messages' = messages + 1
      /\ q' = Append(q, messages')
      /\ messages \in Nat
      /\ q \in Seq(Nat)
      /\ Len(q) <= messages
  BY DEF SendMsg, SendInv, Consecutive
<1>2. /\ Len(q') = Len(q) + 1
      /\ q' \in Seq(Nat)
      /\ q' # <<>>
      /\ q'[Len(q) + 1] = messages'
      /\ \A k \in 1..Len(q) : q'[k] = q[k]
  BY <1>1
<1>3. Consecutive'
  BY <1>1, <1>2 DEF SendInv, Consecutive
<1>4. CASE q = <<>>
  <2>1. \A o \in operations : o.op # "SEND"
    BY <1>4 DEF SendInv, OnePending, Sends
  <2>2. SendIO(q', operations)
    BY <1>4 DEF SendMsg
  <2>3. Head(q') = messages' /\ Len(q') = 1
    BY <1>1, <1>2, <1>4
  <2>4. /\ \A o \in Sends' : o.message = messages'
        /\ \A o, p \in Sends' : o = p
        /\ wire' \in {wire, Append(wire, messages')}
    BY <1>2, <2>1, <2>2, <2>3, SendIOSends
  <2>5. OnePending'
    BY <1>1, <2>3, <2>4 DEF OnePending
  <2>6. wire \in Seq(Nat) /\ SendsInOrder /\ \A k \in 1..Len(wire) : wire[k] < messages'
    BY <1>1, <1>4 DEF SendInv, OnlyFront, FrontMessage
  <2>7. /\ wire' \in Seq(Nat)
        /\ \A k \in 1..Len(wire') : wire'[k] <= messages'
        /\ SendsInOrder'
    <3>1. messages' \in Nat
      BY <1>1
    <3> HIDE DEF q
    <3> QED
      BY <2>4, <2>6, <3>1, AppendInOrder
  <2>8. OnlyFront'
    BY <1>1, <2>3, <2>7 DEF OnlyFront, FrontMessage
  <2> QED
    BY <1>3, <2>5, <2>8 DEF SendInv
<1>5. CASE q # <<>>
  <2>1. UNCHANGED <<operations, wire>> /\ Len(q) > 0
    BY <1>1, <1>5 DEF SendMsg
  <2>2. OnePending'
    BY <1>1, <1>2, <2>1 DEF SendInv, OnePending, Sends
  <2>3. OnlyFront'
    BY <1>1, <1>2, <2>1 DEF SendInv, OnlyFront, FrontMessage, SendsInOrder
  <2> QED
    BY <1>3, <2>2, <2>3 DEF SendInv
<1> QED
  BY <1>4, <1>5

LEMMA SendCompletedSend ==
  ASSUME SendInv, NEW w \in Workers, SendCompleted(w) PROVE SendInv'
<1> DEFINE q == mSendDataqueue
<1>1. PICK o \in operations :
        /\ o.op = "SEND"
        /\ q' = Tail(q)
        /\ IF q' # <<>> THEN SendIO(q', operations \ {o})
                        ELSE operations' = operations \ {o} /\ UNCHANGED wire
  BY DEF SendCompleted
<1>2. UNCHANGED messages
  BY DEF SendCompleted
<1>3. /\ messages \in Nat
      /\ q \in Seq(Nat)
      /\ Len(q) > 0
      /\ Len(q) <= messages
      /\ \A p \in operations \ {o} : p.op # "SEND"
  BY <1>1 DEF SendInv, Consecutive, OnePending, Sends
<1>4. /\ q' \in Seq(Nat)
      /\ Len(q') = Len(q) - 1
      /\ \A k \in 1..Len(q') : q'[k] = q[k + 1]
  BY <1>1, <1>3
<1>5. Consecutive'
  BY <1>2, <1>3, <1>4 DEF SendInv, Consecutive
<1>6. CASE q' # <<>>
  <2>1. Len(q') > 0 /\ Head(q') = messages - Len(q) + 2
    BY <1>3, <1>4, <1>6 DEF SendInv, Consecutive
  <2>2. /\ \A p \in Sends' : p.message = Head(q')
        /\ \A p, r \in Sends' : p = r
        /\ wire' \in {wire, Append(wire, Head(q'))}
    BY <1>1, <1>3, <1>4, <1>6, SendIOSends
  <2>3. OnePending'
    BY <1>2, <1>3, <1>4, <2>1, <2>2 DEF OnePending
  <2>4. /\ wire \in Seq(Nat) /\ SendsInOrder
        /\ \A k \in 1..Len(wire) : wire[k] <= messages - Len(q) + 1
    BY <1>3 DEF SendInv, OnlyFront, FrontMessage
  <2>5. /\ Head(q') \in Nat
        /\ \A k \in 1..Len(wire) : wire[k] < Head(q')
    <3>1. \A k \in 1..Len(wire) : wire[k] \in Nat
      BY <2>4
    <3>2. Len(q) \in Nat
      BY <1>3
    <3> HIDE DEF q
    <3> QED
      BY <1>3, <2>1, <2>4, <3>1, <3>2
  <2>6. /\ wire' \in Seq(Nat)
        /\ \A k \in 1..Len(wire') : wire'[k] <= Head(q')
        /\ SendsInOrder'
    BY <2>2, <2>4, <2>5, AppendInOrder
  <2>7. OnlyFront'
    <3>1. FrontMessage' = messages - Len(q) + 2
      <4>1. Len(q) \in Nat /\ messages \in Nat
        BY <1>3
      <4>2. FrontMessage' = messages - (Len(q) - 1) + 1
        BY <1>2, <1>4, <2>1 DEF FrontMessage
      <4> HIDE DEF q
      <4> QED
        BY <4>1, <4>2
    <3> QED
      BY <2>1, <2>6, <3>1 DEF OnlyFront
  <2> QED
    BY <1>5, <2>3, <2>7 DEF SendInv
<1>7. CASE q' = <<>>
  <2>1. operations' = operations \ {o} /\ UNCHANGED wire
    BY <1>1, <1>7
  <2>2. OnePending'
    BY <1>3, <2>1 DEF OnePending, Sends
  <2>3. OnlyFront'
    BY <1>2, <1>3, <1>4, <1>7, <2>1 DEF SendInv, OnlyFront, FrontMessage, SendsInOrder
  <2> QED
    BY <1>5, <2>2, <2>3 DEF SendInv
<1> QED
  BY <1>6, <1>7

LEMMA NextSend == SendInv /\ [Next]_vars => SendInv'
<1> SUFFICES ASSUME SendInv, [Next]_vars PROVE SendInv'
  OBVIOUS
<1>1. CASE UNCHANGED vars
  BY <1>1, OthersSendNothing DEF vars, sendVars, Sends
<1>2. CASE AccepterThread
  BY <1>2, OthersSendNothing
  DEF AccepterThread, WaitElapses, PostAcceptFails, PostAccept, Sends
<1>3. CASE SendMsg
  BY <1>3, SendMsgSend
<1>4. ASSUME NEW w \in Workers, Handle(w) PROVE SendInv'
  <2>1. UNCHANGED sendVars
    BY <1>4 DEF Handle, FirstBindRecv, OnConnect, NextBindRecv, CloseSocket, Close, OnClose
  <2>2. Sends' \subseteq Sends
    BY <1>4 DEF Handle, FirstBindRecv, OnConnect, NextBindRecv, CloseSocket, Close, OnClose,
                BindRecv, Sends
  <2> QED
    BY <2>1, <2>2, OthersSendNothing
<1>5. ASSUME NEW w \in Workers, Complete(w) PROVE SendInv'
  <2>1. CASE TakeAccept(w)
    BY <2>1, OthersSendNothing DEF TakeAccept, Sends
  <2>2. CASE TakeRecv(w)
    BY <2>2, OthersSendNothing DEF TakeRecv, Sends
  <2>3. CASE SendCompleted(w)
    BY <2>3, SendCompletedSend
  <2>4. CASE TakeFailure(w)
    BY <2>4, OthersSendNothing DEF TakeFailure, Sends
  <2> QED
    BY <1>5, <2>1, <2>2, <2>3, <2>4 DEF Complete
<1> QED
  BY <1>1, <1>2, <1>3, <1>4, <1>5 DEF Next, WokerThread

LEMMA SendInvariant == Spec => []SendInv
  BY InitSend, NextSend, PTL DEF Spec

-----------------------------------------------------------------------------
(* The messages of a slot go out once each and in the order of the calls of *)
(* SendMsg (ClientInfo.h), whoever calls it.                                *)
THEOREM AlwaysSendsInOrder == Spec => []SendsInOrder
<1>1. SendInv => SendsInOrder
  BY DEF SendInv, OnlyFront
<1> QED
  BY <1>1, SendInvariant, PTL

(* SendCompleted (ClientInfo.h) frees the message that was sent: the front  *)
(* of the queue is the one of every completion of a send still to come.     *)
THEOREM AlwaysFreesWhatWasSent == Spec => []FreesWhatWasSent
<1>1. SendInv => FreesWhatWasSent
  <2> SUFFICES ASSUME SendInv, NEW o \in operations, o.op = "SEND"
               PROVE  mSendDataqueue # <<>> /\ o.message = Head(mSendDataqueue)
    BY DEF FreesWhatWasSent
  <2>1. /\ Len(mSendDataqueue) > 0
        /\ o.message = messages - Len(mSendDataqueue) + 1
    BY DEF SendInv, OnePending, Sends
  <2>2. mSendDataqueue \in Seq(Nat) /\ mSendDataqueue[1] = messages - Len(mSendDataqueue) + 1
    BY <2>1 DEF SendInv, Consecutive
  <2> QED
    BY <2>1, <2>2
<1> QED
  BY <1>1, SendInvariant, PTL

-----------------------------------------------------------------------------
(* The life of the slot.  Between two sessions nothing of the last one is    *)
(* left (that is what the wait is taken to ensure), so that the accept that  *)
(* begins the next one is all there is.                                      *)

Accepts == {o \in operations : o.op = "ACCEPT"}
Recvs == {o \in operations : o.op = "RECV"}
Quiet == \A w \in Workers : pc[w] = "idle"

LifeInv ==
  /\ mLatestClosedTimeSec = "long" => ~mIsConnect /\ operations = {} /\ Quiet
  /\ mLatestClosedTimeSec = "just" => ~mIsConnect /\ Accepts = {}
  /\ mLatestClosedTimeSec = "never" /\ ~mIsConnect
       => Quiet /\ operations = Accepts /\ (Accepts # {} => mSocket \in Sockets)
  /\ mIsConnect => Accepts = {}
  /\ \A o, p \in Accepts : o = p

(* One worker, or one pending receive, has the receive buffer.               *)
Reader(w) == pc[w] \in {"bind", "receive"}

ReaderInv == /\ \A w, x \in Workers : Reader(w) /\ Reader(x) => w = x
             /\ \A o, p \in Recvs : o = p
             /\ \A w \in Workers : Reader(w) => Recvs = {}

(* One worker announces a session, and only once.                            *)
Announcer(w) == pc[w] \in {"bind", "connect"}

AnnounceInv == /\ \A w, x \in Workers : Announcer(w) /\ Announcer(x) => w = x
               /\ \A w \in Workers : Announcer(w) => "CONNECT" \notin Range(pushed)

(* An end that has not been announced is about to be.                        *)
EndInv == \/ mIsConnect
          \/ "DISCONNECT" \in Range(pushed)
          \/ \E w \in Workers : pc[w] = "announce"

SlotInv == TypeOK /\ SendInv /\ LifeInv /\ ReaderInv /\ AnnounceInv /\ EndInv

LEMMA InitSlot == Init => SlotInv
<1> SUFFICES ASSUME Init
             PROVE  SlotInv
  OBVIOUS
<1>1. TypeOK
  <2>1. pushed \in Seq({"CONNECT", "DISCONNECT"})
    BY DEF Init
  <2>2. mSendDataqueue \in Seq(Message) /\ wire \in Seq(Message)
    BY DEF Init
  <2>3. messages \in 0..MaxMessages
    BY MaxMessagesAssumption DEF Init
  <2> QED
    BY <2>1, <2>2, <2>3 DEF Init, TypeOK
<1>2. LifeInv /\ ReaderInv /\ AnnounceInv
  BY DEF Init, LifeInv, ReaderInv, AnnounceInv, Accepts, Recvs, Quiet, Reader, Announcer
<1>3. EndInv
  <2>1. pushed[2] = "DISCONNECT" /\ 2 \in DOMAIN pushed
    BY DEF Init
  <2> QED
    BY <2>1 DEF EndInv, Range
<1> QED
  BY <1>1, <1>2, <1>3, InitSend DEF SlotInv

(* The completion that begins a session is all that is left of the slot.     *)
LEMMA AcceptAlone ==
  ASSUME SlotInv, NEW o \in operations, o.op = "ACCEPT"
  PROVE  /\ ~mIsConnect /\ mLatestClosedTimeSec = "never"
         /\ Quiet /\ operations = {o} /\ mSocket \in Sockets
  BY DEF SlotInv, LifeInv, Accepts, TypeOK

(* What SendIO may add.                                                      *)
LEMMA SendIOType ==
  ASSUME TypeOK, NEW q \in Seq(Message), q # <<>>, NEW others \in SUBSET operations,
         SendIO(q, others)
  PROVE  /\ operations' \subseteq Operation
         /\ wire' \in Seq(Message)
         /\ \A o \in operations' : o \in others \/ (o.op = "SEND" /\ mIsConnect)
<1>1. Head(q) \in Message
  OBVIOUS
<1> DEFINE new == [op |-> "SEND", socket |-> mSocket, message |-> Head(q)]
<1>2. mIsConnect => new \in Operation /\ new.op = "SEND"
  BY <1>1 DEF TypeOK, Operation
<1>3. Append(wire, Head(q)) \in Seq(Message)
  BY <1>1 DEF TypeOK
<1> QED
  BY <1>2, <1>3 DEF SendIO, TypeOK

LEMMA SendMsgType ==
  ASSUME SlotInv, SendMsg
  PROVE  /\ TypeOK'
         /\ \A o \in operations' : o \in operations \/ (o.op = "SEND" /\ mIsConnect)
<1>0. TypeOK /\ UNCHANGED <<slotVars, pc, gameVars, failed>>
  BY DEF SlotInv, SendMsg
<1>1. messages' \in Message /\ messages' \in 0..MaxMessages
  BY <1>0, MaxMessagesAssumption DEF SendMsg, TypeOK, Message
<1>2. mSendDataqueue' \in Seq(Message) /\ mSendDataqueue' # <<>>
  BY <1>0, <1>1 DEF SendMsg, TypeOK
<1>3. /\ operations' \subseteq Operation
      /\ wire' \in Seq(Message)
      /\ \A o \in operations' : o \in operations \/ (o.op = "SEND" /\ mIsConnect)
  <2>1. CASE mSendDataqueue = <<>>
    BY <1>0, <1>2, <2>1, SendIOType DEF SendMsg
  <2>2. CASE mSendDataqueue # <<>>
    BY <1>0, <2>2 DEF SendMsg, TypeOK
  <2> QED
    BY <2>1, <2>2
<1> QED
  BY <1>0, <1>1, <1>2, <1>3 DEF TypeOK, slotVars, gameVars

LEMMA SendCompletedType ==
  ASSUME SlotInv, NEW w \in Workers, SendCompleted(w)
  PROVE  /\ TypeOK'
         /\ \A o \in operations' : o \in operations \/ (o.op = "SEND" /\ mIsConnect)
<1>0. TypeOK /\ UNCHANGED <<slotVars, messages, pc, gameVars, failed>>
  BY DEF SlotInv, SendCompleted
<1>1. PICK o \in operations :
        /\ o.op = "SEND"
        /\ mSendDataqueue' = Tail(mSendDataqueue)
        /\ IF mSendDataqueue' # <<>> THEN SendIO(mSendDataqueue', operations \ {o})
                                     ELSE operations' = operations \ {o} /\ UNCHANGED wire
  BY DEF SendCompleted
<1>2. mSendDataqueue # <<>>
  BY <1>1 DEF SlotInv, SendInv, OnePending, Sends
<1>3. mSendDataqueue' \in Seq(Message)
  BY <1>0, <1>1, <1>2 DEF TypeOK
<1>4. /\ operations' \subseteq Operation
      /\ wire' \in Seq(Message)
      /\ \A p \in operations' : p \in operations \/ (p.op = "SEND" /\ mIsConnect)
  <2>1. CASE mSendDataqueue' # <<>>
    BY <1>0, <1>1, <1>3, <2>1, SendIOType
  <2>2. CASE mSendDataqueue' = <<>>
    BY <1>0, <1>1, <2>2 DEF TypeOK
  <2> QED
    BY <2>1, <2>2
<1> QED
  BY <1>0, <1>3, <1>4 DEF TypeOK, slotVars, gameVars

LEMMA TypeNext == SlotInv /\ [Next]_vars => TypeOK'
<1> SUFFICES ASSUME SlotInv, [Next]_vars
             PROVE  TypeOK'
  OBVIOUS
<1>0. TypeOK
  BY DEF SlotInv
<1>1. CASE WaitElapses
  BY <1>0, <1>1 DEF TypeOK, slotVars, sendVars, gameVars, WaitElapses
<1>2. ASSUME NEW s \in Sockets, PostAccept(s)
      PROVE  TypeOK'
  BY <1>0, <1>2 DEF TypeOK, slotVars, sendVars, gameVars, PostAccept, Operation
<1>3. CASE PostAcceptFails
  BY <1>0, <1>3 DEF TypeOK, slotVars, sendVars, gameVars, PostAcceptFails
<1>4. CASE SendMsg
  BY <1>4, SendMsgType
<1>5. ASSUME NEW w \in Workers, TakeAccept(w)
      PROVE  TypeOK'
  <2>1. mSocket \in Sockets
    BY <1>5, AcceptAlone DEF TakeAccept
  <2>2. pushed' = <<>> /\ pushed' \in Seq({"CONNECT", "DISCONNECT"})
    BY <1>5 DEF TakeAccept
  <2> QED
    BY <1>0, <1>5, <2>1, <2>2 DEF TypeOK, TakeAccept, Goto, sendVars
<1>6. ASSUME NEW w \in Workers, FirstBindRecv(w) \/ NextBindRecv(w)
      PROVE  TypeOK'
  <2>1. operations' \subseteq Operation
    BY <1>0, <1>6 DEF FirstBindRecv, NextBindRecv, BindRecv, TypeOK, Operation
  <2> QED
    BY <1>0, <1>6, <2>1 DEF TypeOK, FirstBindRecv, NextBindRecv, Goto, slotVars, sendVars, gameVars
<1>7. ASSUME NEW w \in Workers, OnConnect(w)
      PROVE  TypeOK'
  BY <1>0, <1>7 DEF TypeOK, slotVars, sendVars, gameVars, OnConnect, Goto
<1>8. ASSUME NEW w \in Workers, TakeRecv(w) \/ TakeFailure(w)
      PROVE  TypeOK'
  <2>1. operations' \subseteq operations /\ pc' \in {[pc EXCEPT ![w] = to] : to \in {"receive", "check"}}
    BY <1>8 DEF TakeRecv, TakeFailure, Goto
  <2>2. UNCHANGED <<slotVars, sendVars, pushed, failed>> /\ known' \in BOOLEAN
    BY <1>0, <1>8 DEF TakeRecv, TakeFailure, gameVars, TypeOK
  <2> QED
    BY <1>0, <2>1, <2>2 DEF TypeOK, slotVars, sendVars
<1>9. ASSUME NEW w \in Workers, CloseSocket(w)
      PROVE  TypeOK'
  BY <1>0, <1>9 DEF TypeOK, slotVars, sendVars, gameVars, CloseSocket, Goto
<1>10. ASSUME NEW w \in Workers, Close(w)
      PROVE  TypeOK'
  BY <1>0, <1>10 DEF TypeOK, slotVars, sendVars, gameVars, Close, Goto
<1>11. ASSUME NEW w \in Workers, OnClose(w)
      PROVE  TypeOK'
  BY <1>0, <1>11 DEF TypeOK, slotVars, sendVars, gameVars, OnClose, Goto
<1>12. ASSUME NEW w \in Workers, SendCompleted(w)
      PROVE  TypeOK'
  BY <1>12, SendCompletedType
<1>13. CASE UNCHANGED vars
  BY <1>0, <1>13 DEF TypeOK, slotVars, sendVars, gameVars, vars
<1> QED
  BY <1>1, <1>2, <1>3, <1>4, <1>5, <1>6, <1>7, <1>8, <1>9, <1>10, <1>11, <1>12, <1>13 DEF Next, AccepterThread, WokerThread, Handle, Complete

LEMMA LifeNext == SlotInv /\ [Next]_vars => LifeInv'
<1> SUFFICES ASSUME SlotInv, [Next]_vars
             PROVE  LifeInv'
  OBVIOUS
<1>0. TypeOK
  BY DEF SlotInv
<1>life. LifeInv
  BY DEF SlotInv
<1>1. CASE WaitElapses
  BY <1>0, <1>life, <1>1 DEF LifeInv, Accepts, Quiet, TypeOK, slotVars, Goto, WaitElapses
<1>2. ASSUME NEW s \in Sockets, PostAccept(s)
      PROVE  LifeInv'
  BY <1>0, <1>life, <1>2 DEF LifeInv, Accepts, Quiet, TypeOK, slotVars, Goto, PostAccept
<1>3. CASE PostAcceptFails
  BY <1>0, <1>life, <1>3 DEF LifeInv, Accepts, Quiet, TypeOK, slotVars, Goto, PostAcceptFails
<1>4. CASE SendMsg
  <2>1. \A o \in operations' : o \in operations \/ (o.op = "SEND" /\ mIsConnect)
    BY <1>4, SendMsgType
  <2>2. UNCHANGED <<slotVars, pc>> /\ operations \subseteq operations'
    BY <1>4 DEF SendMsg, SendIO
  <2> QED
    BY <1>life, <2>1, <2>2 DEF LifeInv, Accepts, Quiet, slotVars
<1>5. ASSUME NEW w \in Workers, TakeAccept(w)
      PROVE  LifeInv'
  <2>1. ~mIsConnect /\ mLatestClosedTimeSec = "never" /\ operations' = {}
    BY <1>5, AcceptAlone DEF TakeAccept
  <2>2. mIsConnect' /\ UNCHANGED mLatestClosedTimeSec
    BY <1>5 DEF TakeAccept
  <2> QED
    BY <2>1, <2>2 DEF LifeInv, Accepts
<1>6. ASSUME NEW w \in Workers, FirstBindRecv(w) \/ NextBindRecv(w)
      PROVE  LifeInv'
  <2>1. ~Quiet /\ UNCHANGED slotVars /\ Accepts' = Accepts
    BY <1>6 DEF FirstBindRecv, NextBindRecv, BindRecv, Goto, Quiet, Accepts
  <2> QED
    BY <1>0, <1>life, <2>1 DEF LifeInv, TypeOK, slotVars
<1>7. ASSUME NEW w \in Workers, OnConnect(w) \/ OnClose(w) \/ CloseSocket(w)
      PROVE  LifeInv'
  <2>1. ~Quiet /\ UNCHANGED <<slotVars, operations>>
    BY <1>7 DEF OnConnect, OnClose, CloseSocket, Goto, Quiet
  <2> QED
    BY <1>0, <1>life, <2>1 DEF LifeInv, Accepts, TypeOK, slotVars
<1>8. ASSUME NEW w \in Workers, TakeRecv(w) \/ TakeFailure(w)
      PROVE  LifeInv'
  <2>1. operations # Accepts /\ UNCHANGED slotVars /\ Accepts' = Accepts /\ operations # {}
    BY <1>8 DEF TakeRecv, TakeFailure, Accepts
  <2> QED
    BY <1>0, <1>life, <2>1 DEF LifeInv, TypeOK, slotVars
<1>9. ASSUME NEW w \in Workers, Close(w)
      PROVE  LifeInv'
  <2>1. ~Quiet /\ UNCHANGED operations /\ ~mIsConnect' /\ mLatestClosedTimeSec' = "just"
    BY <1>9 DEF Close, Goto, Quiet
  <2> QED
    BY <1>0, <1>life, <2>1 DEF LifeInv, Accepts, TypeOK
<1>10. ASSUME NEW w \in Workers, SendCompleted(w)
      PROVE  LifeInv'
  <2>1. \A o \in operations' : o \in operations \/ (o.op = "SEND" /\ mIsConnect)
    BY <1>10, SendCompletedType
  <2>2. UNCHANGED <<slotVars, pc>> /\ \E o \in operations : o.op = "SEND"
    BY <1>10 DEF SendCompleted
  <2>3. Accepts' \subseteq Accepts
    BY <2>1 DEF Accepts
  <2>4. mLatestClosedTimeSec # "long" /\ ~(mLatestClosedTimeSec = "never" /\ ~mIsConnect)
    BY <1>life, <2>2 DEF LifeInv, Accepts
  <2> QED
    BY <1>life, <2>2, <2>3, <2>4 DEF LifeInv, slotVars
<1>11. CASE UNCHANGED vars
  BY <1>0, <1>life, <1>11 DEF LifeInv, Accepts, Quiet, TypeOK, slotVars, Goto, vars
<1> QED
  BY <1>1, <1>2, <1>3, <1>4, <1>5, <1>6, <1>7, <1>8, <1>9, <1>10, <1>11 DEF Next, AccepterThread, WokerThread, Handle, Complete

LEMMA ReaderNext == SlotInv /\ [Next]_vars => ReaderInv'
<1> SUFFICES ASSUME SlotInv, [Next]_vars
             PROVE  ReaderInv'
  OBVIOUS
<1>0. TypeOK
  BY DEF SlotInv
<1>same. ASSUME \A o \in Recvs' : o \in Recvs, \A x \in Workers : Reader(x)' => Reader(x)
         PROVE  ReaderInv'
  BY <1>same DEF SlotInv, ReaderInv
<1>1. CASE AccepterThread
  <2>1. Recvs' = Recvs /\ UNCHANGED pc
    BY <1>1 DEF AccepterThread, PostAccept, PostAcceptFails, WaitElapses, Recvs
  <2> QED
    BY <1>same, <2>1 DEF Reader
<1>2. CASE SendMsg
  <2>1. \A o \in operations' : o \in operations \/ (o.op = "SEND" /\ mIsConnect)
    BY <1>2, SendMsgType
  <2> QED
    BY <1>2, <1>same, <2>1 DEF SendMsg, Recvs, Reader
<1>3. ASSUME NEW w \in Workers, SendCompleted(w)
      PROVE  ReaderInv'
  <2>1. \A o \in operations' : o \in operations \/ (o.op = "SEND" /\ mIsConnect)
    BY <1>3, SendCompletedType
  <2> QED
    BY <1>3, <1>same, <2>1 DEF SendCompleted, Recvs, Reader
<1>4. ASSUME NEW w \in Workers, TakeAccept(w)
      PROVE  ReaderInv'
  <2>1. operations' = {} /\ Quiet
    BY <1>4, AcceptAlone DEF TakeAccept
  <2>2. pc' = [pc EXCEPT ![w] = "bind"]
    BY <1>4 DEF TakeAccept, Goto
  <2> QED
    BY <1>0, <2>1, <2>2 DEF ReaderInv, Reader, Recvs, Quiet, TypeOK
<1>5. ASSUME NEW w \in Workers, FirstBindRecv(w) \/ NextBindRecv(w)
      PROVE  ReaderInv'
  <2>1. Reader(w) /\ ~Reader(w)' /\ \A x \in Workers : x # w => Reader(x)' = Reader(x)
    BY <1>0, <1>5 DEF FirstBindRecv, NextBindRecv, Goto, Reader, TypeOK
  <2>2. Recvs = {}
    BY <2>1 DEF SlotInv, ReaderInv
  <2>3. \A o, p \in Recvs' : o = p
    BY <1>5, <2>2 DEF FirstBindRecv, NextBindRecv, BindRecv, Recvs
  <2> QED
    BY <2>1, <2>3 DEF SlotInv, ReaderInv
<1>6. ASSUME NEW w \in Workers, TakeRecv(w)
      PROVE  ReaderInv'
  <2>1. PICK o \in Recvs : operations' = operations \ {o}
    BY <1>6 DEF TakeRecv, Recvs
  <2>2. Recvs' = {} /\ \A x \in Workers : ~Reader(x)
    BY <2>1 DEF SlotInv, ReaderInv, Recvs
  <2>3. \A x \in Workers : Reader(x)' => x = w
    BY <1>0, <1>6, <2>2 DEF TakeRecv, Goto, Reader, TypeOK
  <2> QED
    BY <2>2, <2>3 DEF ReaderInv
<1>7. ASSUME NEW w \in Workers, TakeFailure(w)
      PROVE  ReaderInv'
  BY <1>0, <1>7, <1>same DEF TakeFailure, Goto, Reader, Recvs, TypeOK
<1>8. ASSUME NEW w \in Workers, OnConnect(w) \/ CloseSocket(w) \/ Close(w) \/ OnClose(w)
      PROVE  ReaderInv'
  BY <1>0, <1>8, <1>same DEF OnConnect, CloseSocket, Close, OnClose, Goto, Reader, Recvs, TypeOK
<1>9. CASE UNCHANGED vars
  BY <1>9, <1>same DEF vars, Reader, Recvs
<1> QED
  BY <1>1, <1>2, <1>3, <1>4, <1>5, <1>6, <1>7, <1>8, <1>9 DEF Next, AccepterThread, WokerThread, Handle, Complete

LEMMA RangeOfAppend ==
  ASSUME NEW S, NEW s \in Seq(S), NEW e
  PROVE  Range(Append(s, e)) = Range(s) \union {e}
<1> DEFINE n == Len(s)
<1>1. /\ n \in Nat /\ DOMAIN s = 1..n /\ DOMAIN Append(s, e) = 1..(n + 1)
      /\ \A k \in 1..n : Append(s, e)[k] = s[k]
      /\ Append(s, e)[n + 1] = e
  OBVIOUS
<1> HIDE DEF n
<1>2. \A k \in 1..(n + 1) : k \in 1..n \/ k = n + 1
  BY <1>1
<1>3. \A k \in 1..n : k \in 1..(n + 1)
  BY <1>1
<1>4. n + 1 \in 1..(n + 1)
  BY <1>1
<1> QED
  BY <1>1, <1>2, <1>3, <1>4 DEF Range

LEMMA AnnounceNext == SlotInv /\ [Next]_vars => AnnounceInv'
<1> SUFFICES ASSUME SlotInv, [Next]_vars
             PROVE  AnnounceInv'
  OBVIOUS
<1>0. TypeOK
  BY DEF SlotInv
<1>same. ASSUME pushed' = pushed, \A x \in Workers : Announcer(x)' => Announcer(x)
         PROVE  AnnounceInv'
  BY <1>same DEF SlotInv, AnnounceInv
<1>1. CASE AccepterThread \/ SendMsg
  BY <1>1, <1>same DEF AccepterThread, PostAccept, PostAcceptFails, WaitElapses, SendMsg, Announcer, gameVars
<1>2. ASSUME NEW w \in Workers, TakeAccept(w)
      PROVE  AnnounceInv'
  <2>1. Quiet /\ pushed' = <<>> /\ pc' = [pc EXCEPT ![w] = "bind"]
    BY <1>2, AcceptAlone DEF TakeAccept, Goto
  <2> QED
    BY <1>0, <2>1 DEF AnnounceInv, Announcer, Quiet, TypeOK, Range
<1>3. ASSUME NEW w \in Workers, OnConnect(w)
      PROVE  AnnounceInv'
  <2>1. \A x \in Workers : Announcer(x) => x = w
    BY <1>3 DEF OnConnect, Goto, Announcer, SlotInv, AnnounceInv
  <2>2. \A x \in Workers : ~Announcer(x)'
    BY <1>0, <1>3, <2>1 DEF OnConnect, Goto, Announcer, TypeOK
  <2> QED
    BY <2>2 DEF AnnounceInv
<1>4. ASSUME NEW w \in Workers, OnClose(w)
      PROVE  AnnounceInv'
  <2>1. Range(pushed') \subseteq Range(pushed) \union {"DISCONNECT"}
    BY <1>0, <1>4, RangeOfAppend DEF OnClose, TypeOK
  <2>2. \A x \in Workers : Announcer(x)' => Announcer(x)
    BY <1>0, <1>4 DEF OnClose, Goto, Announcer, TypeOK
  <2> QED
    BY <2>1, <2>2 DEF SlotInv, AnnounceInv
<1>5. ASSUME NEW w \in Workers, TakeRecv(w) \/ TakeFailure(w) \/ SendCompleted(w)
      PROVE  AnnounceInv'
  BY <1>0, <1>5, <1>same DEF TakeRecv, TakeFailure, SendCompleted, Goto, Announcer, TypeOK, gameVars
<1>6. ASSUME NEW w \in Workers, FirstBindRecv(w) \/ NextBindRecv(w) \/ CloseSocket(w) \/ Close(w)
      PROVE  AnnounceInv'
  BY <1>0, <1>6, <1>same DEF FirstBindRecv, NextBindRecv, CloseSocket, Close, Goto, Announcer, TypeOK,
                           gameVars
<1>7. CASE UNCHANGED vars
  BY <1>7, <1>same DEF vars, gameVars, Announcer
<1> QED
  BY <1>1, <1>2, <1>3, <1>4, <1>5, <1>6, <1>7 DEF Next, AccepterThread, WokerThread, Handle, Complete

LEMMA EndNext == SlotInv /\ [Next]_vars => EndInv'
<1> SUFFICES ASSUME SlotInv, [Next]_vars
             PROVE  EndInv'
  OBVIOUS
<1>0. TypeOK
  BY DEF SlotInv
<1>same. ASSUME mIsConnect' = mIsConnect, Range(pushed) \subseteq Range(pushed'),
                \A x \in Workers : pc[x] = "announce" => pc'[x] = "announce"
         PROVE  EndInv'
  BY <1>same DEF SlotInv, EndInv
<1>1. CASE AccepterThread \/ SendMsg
  BY <1>1, <1>same DEF AccepterThread, PostAccept, PostAcceptFails, WaitElapses, SendMsg, gameVars, slotVars
<1>2. ASSUME NEW w \in Workers, TakeAccept(w)
      PROVE  EndInv'
  BY <1>2 DEF TakeAccept, EndInv
<1>3. ASSUME NEW w \in Workers, OnConnect(w)
      PROVE  EndInv'
  BY <1>0, <1>3, <1>same, RangeOfAppend DEF OnConnect, Goto, TypeOK, slotVars
<1>4. ASSUME NEW w \in Workers, Close(w)
      PROVE  EndInv'
  BY <1>0, <1>4 DEF Close, Goto, TypeOK, EndInv
<1>5. ASSUME NEW w \in Workers, OnClose(w)
      PROVE  EndInv'
  BY <1>0, <1>5, RangeOfAppend DEF OnClose, TypeOK, EndInv
<1>6. ASSUME NEW w \in Workers, TakeRecv(w) \/ TakeFailure(w) \/ SendCompleted(w)
      PROVE  EndInv'
  BY <1>0, <1>6, <1>same DEF TakeRecv, TakeFailure, SendCompleted, Goto, TypeOK, slotVars, gameVars
<1>7. ASSUME NEW w \in Workers, FirstBindRecv(w) \/ NextBindRecv(w) \/ CloseSocket(w)
      PROVE  EndInv'
  BY <1>0, <1>7, <1>same DEF FirstBindRecv, NextBindRecv, CloseSocket, Goto, TypeOK, slotVars, gameVars
<1>8. CASE UNCHANGED vars
  BY <1>8, <1>same DEF vars, gameVars, slotVars
<1> QED
  BY <1>1, <1>2, <1>3, <1>4, <1>5, <1>6, <1>7, <1>8 DEF Next, AccepterThread, WokerThread, Handle, Complete

LEMMA SlotInvariant == Spec => []SlotInv
<1>1. SlotInv /\ [Next]_vars => SlotInv'
  <2> SUFFICES ASSUME SlotInv, [Next]_vars
               PROVE  SlotInv'
    OBVIOUS
  <2>1. SendInv'
    BY NextSend DEF SlotInv
  <2> QED
    BY <2>1, TypeNext, LifeNext, ReaderNext, AnnounceNext, EndNext DEF SlotInv
<1> QED
  BY <1>1, InitSlot, PTL DEF Spec

(* The slot keeps its types; a connected slot has a socket, and what is      *)
(* taken from the queue and sent are messages.                               *)
THEOREM SlotTypeCorrect == Spec => []TypeOK
<1>1. SlotInv => TypeOK
  BY DEF SlotInv
<1> QED
  BY <1>1, SlotInvariant, PTL

(* The one receive buffer of the slot has one user (BindRecv and OnReceive), *)
(* whichever workers get the completions.                                    *)
THEOREM AlwaysOneReader == Spec => []OneReader
<1>1. SlotInv => OneReader
  <2> SUFFICES ASSUME SlotInv
               PROVE  OneReader
    OBVIOUS
  <2> DEFINE readers == {w \in Workers : pc[w] = "receive"}
             pending == {o \in operations : o.op = "RECV"}
  <2>1. /\ \A w, x \in readers : w = x
        /\ \A o, p \in pending : o = p
        /\ readers = {} \/ pending = {}
    BY DEF SlotInv, ReaderInv, Reader, Recvs
  <2> HIDE DEF readers, pending
  <2>2. ASSUME NEW S, \A x, y \in S : x = y
        PROVE  Cardinality(S) \in {0, 1}
    <3>1. CASE S = {}
      BY <3>1, FS_EmptySet
    <3>2. CASE S # {}
      <4>1. PICK x \in S : S = {x}
        BY <2>2, <3>2
      <4> QED
        BY <4>1, FS_Singleton
    <3> QED
      BY <3>1, <3>2
  <2>3. Cardinality({}) = 0
    BY FS_EmptySet
  <2>4. Cardinality(readers) \in {0, 1} /\ Cardinality(pending) \in {0, 1}
    BY <2>1, <2>2
  <2>5. Cardinality(readers) = 0 \/ Cardinality(pending) = 0
    BY <2>1, <2>3
  <2>6. Cardinality(readers) + Cardinality(pending) <= 1
    BY <2>4, <2>5
  <2> QED
    BY <2>6 DEF OneReader, readers, pending
<1> QED
  BY <1>1, SlotInvariant, PTL

(* However a session ends and whoever finds out, its end is announced when   *)
(* the workers are done with it.                                             *)
THEOREM AlwaysEveryEndAnnounced == Spec => []EveryEndAnnounced
<1>1. SlotInv => EveryEndAnnounced
  BY DEF SlotInv, EndInv, EveryEndAnnounced
<1> QED
  BY <1>1, SlotInvariant, PTL

-----------------------------------------------------------------------------
(* The slot implements SlotEvents.  What needs an argument is that its end   *)
(* is not announced a third time, however many workers there are: a session  *)
(* has one chain of receives and, as a failed send is not taken from the     *)
(* queue and nothing is sent after it, one failure of a send.                *)

Closers == {w \in Workers : pc[w] \in {"check", "close", "announce"}}
Ends == {k \in DOMAIN pushed : pushed[k] = "DISCONNECT"}
ReceivesLeft == IF Recvs # {} \/ \E w \in Workers : Reader(w) THEN 1 ELSE 0
SendsLeft == IF mSendDataqueue # <<>> /\ Sends = {} THEN 0 ELSE 1

CloseInv ==
  /\ IsFiniteSet(Closers) /\ IsFiniteSet(Ends)
  /\ Cardinality(Closers) + Cardinality(Ends) + ReceivesLeft + SendsLeft <= 2
  /\ \A w \in Workers : pc[w] = "announce" => ~mIsConnect

(* No step adds to the sum.                                                  *)
LEMMA ClosersMove ==
  ASSUME TypeOK, NEW w \in Workers, NEW to, pc' = [pc EXCEPT ![w] = to], IsFiniteSet(Closers)
  PROVE  /\ IsFiniteSet(Closers') /\ Cardinality(Closers) \in Nat /\ Cardinality(Closers') \in Nat
         /\ Cardinality(Closers') <= Cardinality(Closers) + 1
         /\ to \notin {"check", "close", "announce"} => Cardinality(Closers') <= Cardinality(Closers)
         /\ w \in Closers => Cardinality(Closers') <= Cardinality(Closers)
         /\ w \in Closers /\ to \notin {"check", "close", "announce"}
              => Cardinality(Closers') = Cardinality(Closers) - 1
<1>1. CASE to \in {"check", "close", "announce"}
  <2>1. Closers' = Closers \union {w}
    BY <1>1 DEF TypeOK, Closers
  <2>2. /\ IsFiniteSet(Closers')
        /\ Cardinality(Closers') = IF w \in Closers THEN Cardinality(Closers)
                                                    ELSE Cardinality(Closers) + 1
    BY <2>1, FS_AddElement
  <2>3. Cardinality(Closers) \in Nat
    BY FS_CardinalityType
  <2> QED
    BY <1>1, <2>2, <2>3
<1>2. CASE to \notin {"check", "close", "announce"}
  <2>1. Closers' = Closers \ {w}
    BY <1>2 DEF TypeOK, Closers
  <2>2. /\ IsFiniteSet(Closers')
        /\ Cardinality(Closers') = IF w \in Closers THEN Cardinality(Closers) - 1
                                                    ELSE Cardinality(Closers)
    BY <2>1, FS_RemoveElement
  <2>3. Cardinality(Closers) \in Nat /\ Cardinality(Closers') \in Nat
    BY <2>2, FS_CardinalityType
  <2> QED
    BY <1>2, <2>2, <2>3
<1> QED
  BY <1>1, <1>2

LEMMA EndsGrow ==
  ASSUME TypeOK, NEW e, pushed' = Append(pushed, e), IsFiniteSet(Ends)
  PROVE  /\ IsFiniteSet(Ends')
         /\ Cardinality(Ends') = IF e = "DISCONNECT" THEN Cardinality(Ends) + 1
                                                     ELSE Cardinality(Ends)
<1> DEFINE n == Len(pushed)
<1>1. /\ n \in Nat /\ DOMAIN pushed = 1..n /\ DOMAIN pushed' = 1..(n + 1)
      /\ \A k \in 1..n : pushed'[k] = pushed[k]
      /\ pushed'[n + 1] = e
  BY DEF TypeOK
<1> HIDE DEF n
<1>2. n + 1 \notin 1..n /\ 1..(n + 1) = (1..n) \union {n + 1}
  BY <1>1
<1>3. CASE e = "DISCONNECT"
  <2>1. Ends' = Ends \union {n + 1} /\ n + 1 \notin Ends
    BY <1>1, <1>2, <1>3 DEF Ends
  <2> QED
    BY <1>3, <2>1, FS_AddElement
<1>4. CASE e # "DISCONNECT"
  <2>1. Ends' = Ends
    BY <1>1, <1>2, <1>4 DEF Ends
  <2> QED
    BY <1>4, <2>1
<1> QED
  BY <1>3, <1>4

LEMMA InitClose == Init => CloseInv
<1> SUFFICES ASSUME Init
             PROVE  CloseInv
  OBVIOUS
<1>1. Closers = {} /\ ReceivesLeft = 0 /\ SendsLeft = 1
  BY DEF Init, Closers, ReceivesLeft, SendsLeft, Recvs, Reader
<1>2. Ends = {2}
  BY DEF Init, Ends
<1>3. Cardinality(Closers) = 0 /\ Cardinality(Ends) = 1 /\ IsFiniteSet(Closers) /\ IsFiniteSet(Ends)
  BY <1>1, <1>2, FS_EmptySet, FS_Singleton
<1> QED
  BY <1>1, <1>3 DEF CloseInv, Init

LEMMA CloseNext == SlotInv /\ CloseInv /\ [Next]_vars => CloseInv'
<1> SUFFICES ASSUME SlotInv, CloseInv, [Next]_vars
             PROVE  CloseInv'
  OBVIOUS
<1>0. TypeOK
  BY DEF SlotInv
<1>N. /\ Cardinality(Closers) \in Nat /\ Cardinality(Ends) \in Nat
      /\ ReceivesLeft \in {0, 1} /\ SendsLeft \in {0, 1}
      /\ ReceivesLeft' \in {0, 1} /\ SendsLeft' \in {0, 1}
      /\ IsFiniteSet(Closers) /\ IsFiniteSet(Ends)
      /\ Cardinality(Closers) + Cardinality(Ends) + ReceivesLeft + SendsLeft <= 2
  BY FS_CardinalityType DEF CloseInv, ReceivesLeft, SendsLeft
<1>same. ASSUME UNCHANGED <<pc, mIsConnect, pushed>>, ReceivesLeft' = ReceivesLeft,
                SendsLeft' <= SendsLeft
         PROVE  CloseInv'
  BY <1>N, <1>same DEF CloseInv, Closers, Ends
<1>1. CASE AccepterThread
  <2>1. Recvs' = Recvs /\ Sends' = Sends /\ UNCHANGED <<pc, mIsConnect, pushed, mSendDataqueue>>
    BY <1>1 DEF AccepterThread, PostAccept, PostAcceptFails, WaitElapses, Recvs, Sends, sendVars,
                gameVars
  <2> QED
    BY <1>N, <1>same, <2>1 DEF ReceivesLeft, SendsLeft, Reader
<1>2. CASE SendMsg
  <2>1. UNCHANGED <<pc, mIsConnect, pushed>>
    BY <1>2 DEF SendMsg, slotVars, gameVars
  <2>2. Recvs' = Recvs
    BY <1>2 DEF SendMsg, SendIO, Recvs
  <2>3. SendsLeft = 0 => SendsLeft' = 0
    <3>1. SUFFICES ASSUME mSendDataqueue # <<>>, Sends = {}
                   PROVE  mSendDataqueue' # <<>> /\ Sends' = {}
      BY DEF SendsLeft
    <3>2. mSendDataqueue' = Append(mSendDataqueue, messages')
      BY <1>2 DEF SendMsg
    <3>3. mSendDataqueue' # <<>>
      BY <1>0, <3>2 DEF TypeOK
    <3> QED
      BY <1>2, <3>1, <3>3 DEF SendMsg, Sends
  <2>4. ReceivesLeft' = ReceivesLeft
    BY <2>1, <2>2 DEF ReceivesLeft, Reader
  <2> QED
    BY <1>N, <1>same, <2>1, <2>3, <2>4
<1>3. ASSUME NEW w \in Workers, SendCompleted(w)
      PROVE  CloseInv'
  <2>1. UNCHANGED <<pc, mIsConnect, pushed>> /\ Sends # {}
    BY <1>3 DEF SendCompleted, Sends, slotVars, gameVars
  <2>2. Recvs' = Recvs
    BY <1>3 DEF SendCompleted, SendIO, Recvs
  <2>3. SendsLeft = 1 /\ ReceivesLeft' = ReceivesLeft
    BY <2>1, <2>2 DEF SendsLeft, ReceivesLeft, Reader
  <2> QED
    BY <1>N, <1>same, <2>1, <2>3
<1>4. ASSUME NEW w \in Workers, TakeAccept(w)
      PROVE  CloseInv'
  <2>1. Quiet /\ pushed' = <<>> /\ pc' = [pc EXCEPT ![w] = "bind"]
    BY <1>4, AcceptAlone DEF TakeAccept, Goto
  <2>2. Closers' = {} /\ \A x \in Workers : pc'[x] # "announce"
    BY <1>0, <2>1 DEF Closers, Quiet, TypeOK
  <2>3. Ends' = {}
    BY <2>1 DEF Ends
  <2> QED
    BY <1>N, <2>2, <2>3, FS_EmptySet DEF CloseInv
<1>5. ASSUME NEW w \in Workers, FirstBindRecv(w) \/ NextBindRecv(w)
      PROVE  CloseInv'
  <2>1. PICK to \in {"connect", "check", "idle"} :
          /\ pc' = [pc EXCEPT ![w] = to]
          /\ to = "check" => operations' = operations
    BY <1>5 DEF FirstBindRecv, NextBindRecv, Goto
  <2>2. UNCHANGED <<mIsConnect, pushed, mSendDataqueue>> /\ Reader(w)
    BY <1>5 DEF FirstBindRecv, NextBindRecv, Goto, Reader, slotVars, sendVars, gameVars
  <2>3. ReceivesLeft = 1
    BY <2>2 DEF ReceivesLeft
  <2>4. Sends' = Sends
    BY <1>5 DEF FirstBindRecv, NextBindRecv, BindRecv, Sends
  <2>5. SendsLeft' = SendsLeft
    BY <2>2, <2>4 DEF SendsLeft
  <2>6. to = "check" => ReceivesLeft' = 0
    <3>1. SUFFICES ASSUME to = "check"
                   PROVE  Recvs' = {} /\ \A x \in Workers : ~Reader(x)'
      BY DEF ReceivesLeft
    <3> QED
      BY <1>0, <2>1, <2>2, <3>1 DEF SlotInv, ReaderInv, Reader, Recvs, TypeOK
  <2>7. /\ IsFiniteSet(Closers') /\ Cardinality(Closers') \in Nat
        /\ Cardinality(Closers') <= Cardinality(Closers) + 1
        /\ to # "check" => Cardinality(Closers') <= Cardinality(Closers)
    BY <1>0, <1>N, <2>1, ClosersMove
  <2>8. Ends' = Ends /\ \A x \in Workers : pc'[x] = "announce" => ~mIsConnect'
    BY <1>0, <2>1, <2>2 DEF Ends, TypeOK, CloseInv
  <2> QED
    BY <1>N, <2>3, <2>5, <2>6, <2>7, <2>8 DEF CloseInv
<1>6. ASSUME NEW w \in Workers, TakeRecv(w)
      PROVE  CloseInv'
  <2>1. /\ Recvs # {} /\ Sends' = Sends
        /\ UNCHANGED <<mIsConnect, pushed, mSendDataqueue>>
        /\ pc' = [pc EXCEPT ![w] = "receive"]
    BY <1>6 DEF TakeRecv, Recvs, Sends, Goto, slotVars, sendVars
  <2>2. ReceivesLeft = 1 /\ SendsLeft' = SendsLeft
    BY <2>1 DEF ReceivesLeft, SendsLeft
  <2>3. /\ IsFiniteSet(Closers') /\ Cardinality(Closers') \in Nat
        /\ Cardinality(Closers') <= Cardinality(Closers)
    <3>1. PICK to \in {"receive"} : pc' = [pc EXCEPT ![w] = to]
      BY <2>1
    <3> QED
      BY <1>0, <1>N, <3>1, ClosersMove
  <2>4. Ends' = Ends /\ \A x \in Workers : pc'[x] = "announce" => ~mIsConnect'
    BY <1>0, <2>1 DEF Ends, TypeOK, CloseInv
  <2> QED
    BY <1>N, <2>2, <2>3, <2>4 DEF CloseInv
<1>7. ASSUME NEW w \in Workers, TakeFailure(w)
      PROVE  CloseInv'
  <2>1. PICK o \in operations : o.op \in {"RECV", "SEND"} /\ operations' = operations \ {o}
    BY <1>7 DEF TakeFailure
  <2>2. /\ UNCHANGED <<mIsConnect, pushed, mSendDataqueue>>
        /\ pc' = [pc EXCEPT ![w] = "check"] /\ pc[w] = "idle"
    BY <1>7 DEF TakeFailure, Goto, slotVars, sendVars, gameVars
  <2>3. \A x \in Workers : Reader(x)' <=> Reader(x)
    BY <1>0, <2>2 DEF Reader, TypeOK
  <2>4. ReceivesLeft' + SendsLeft' <= ReceivesLeft + SendsLeft - 1
    <3>1. CASE o.op = "RECV"
      <4>1. o \in Recvs /\ Recvs' = {} /\ \A x \in Workers : ~Reader(x)
        BY <2>1, <3>1 DEF SlotInv, ReaderInv, Recvs
      <4>2. ReceivesLeft = 1 /\ ReceivesLeft' = 0
        BY <2>3, <4>1 DEF ReceivesLeft
      <4>3. Sends' = Sends
        BY <2>1, <3>1 DEF Sends
      <4>4. SendsLeft' = SendsLeft
        BY <2>2, <4>3 DEF SendsLeft
      <4> QED
        BY <1>N, <4>2, <4>4
    <3>2. CASE o.op = "SEND"
      <4>1. o \in Sends /\ Sends' = {} /\ mSendDataqueue # <<>>
        BY <2>1, <3>2 DEF SlotInv, SendInv, OnePending, Sends
      <4>2. SendsLeft = 1 /\ SendsLeft' = 0
        BY <2>2, <4>1 DEF SendsLeft
      <4>3. Recvs' = Recvs
        BY <2>1, <3>2 DEF Recvs
      <4>4. ReceivesLeft' = ReceivesLeft
        BY <2>3, <4>3 DEF ReceivesLeft
      <4> QED
        BY <1>N, <4>2, <4>4
    <3> QED
      BY <2>1, <3>1, <3>2
  <2>5. /\ IsFiniteSet(Closers') /\ Cardinality(Closers') \in Nat
        /\ Cardinality(Closers') <= Cardinality(Closers) + 1
    BY <1>0, <1>N, <2>2, ClosersMove
  <2>6. Ends' = Ends /\ \A x \in Workers : pc'[x] = "announce" => ~mIsConnect'
    BY <1>0, <2>2 DEF Ends, TypeOK, CloseInv
  <2>7. Cardinality(Closers') + Cardinality(Ends') + ReceivesLeft' + SendsLeft' <= 2
    <3>1. Cardinality(Ends') = Cardinality(Ends) /\ IsFiniteSet(Ends')
      BY <1>N, <2>6
    <3>2. \A c, d, e, r, s, q, t \in Nat :
            c + e + r + s <= 2 /\ d <= c + 1 /\ q + t <= r + s - 1 => d + e + q + t <= 2
      OBVIOUS
    <3>3. /\ ReceivesLeft \in Nat /\ SendsLeft \in Nat
          /\ ReceivesLeft' \in Nat /\ SendsLeft' \in Nat
      BY <1>N
    <3>4. /\ Cardinality(Closers) \in Nat /\ Cardinality(Closers') \in Nat
          /\ Cardinality(Ends) \in Nat
          /\ Cardinality(Closers) + Cardinality(Ends) + ReceivesLeft + SendsLeft <= 2
          /\ Cardinality(Closers') <= Cardinality(Closers) + 1
      BY <1>N, <2>5
    <3>5. Cardinality(Closers') + Cardinality(Ends) + ReceivesLeft' + SendsLeft' <= 2
      BY <2>4, <3>2, <3>3, <3>4
    <3> QED
      BY <3>1, <3>5
  <2> QED
    BY <1>N, <2>5, <2>6, <2>7 DEF CloseInv
<1>8. ASSUME NEW w \in Workers, CloseSocket(w) \/ Close(w)
      PROVE  CloseInv'
  <2>1. PICK to \in {"close", "announce", "idle"} :
          pc' = [pc EXCEPT ![w] = to] /\ (to = "announce" => ~mIsConnect')
    BY <1>8 DEF CloseSocket, Close, Goto
  <2>2. /\ w \in Closers /\ UNCHANGED <<operations, pushed, mSendDataqueue>>
        /\ mIsConnect' => mIsConnect
    BY <1>8 DEF CloseSocket, Close, Goto, Closers, slotVars, sendVars, gameVars
  <2>3. \A x \in Workers : Reader(x)' <=> Reader(x)
    BY <1>0, <2>1, <2>2 DEF Reader, TypeOK, Closers
  <2>4. ReceivesLeft' = ReceivesLeft /\ SendsLeft' = SendsLeft
    BY <2>2, <2>3 DEF ReceivesLeft, SendsLeft, Recvs, Sends
  <2>5. /\ IsFiniteSet(Closers') /\ Cardinality(Closers') \in Nat
        /\ Cardinality(Closers') <= Cardinality(Closers)
    BY <1>0, <1>N, <2>1, <2>2, ClosersMove
  <2>6. Ends' = Ends /\ \A x \in Workers : pc'[x] = "announce" => ~mIsConnect'
    BY <1>0, <2>1, <2>2 DEF Ends, TypeOK, CloseInv
  <2> QED
    BY <1>N, <2>4, <2>5, <2>6 DEF CloseInv
<1>9. ASSUME NEW w \in Workers, OnConnect(w) \/ OnClose(w)
      PROVE  CloseInv'
  <2>1. PICK e \in {"CONNECT", "DISCONNECT"} :
          /\ pushed' = Append(pushed, e)
          /\ e = "DISCONNECT" => w \in Closers
    BY <1>9 DEF OnConnect, OnClose, Goto, Closers
  <2>2. /\ pc' = [pc EXCEPT ![w] = "idle"] /\ pc[w] \in {"connect", "announce"}
        /\ UNCHANGED <<mIsConnect, operations, mSendDataqueue>>
    BY <1>9 DEF OnConnect, OnClose, Goto, slotVars, sendVars
  <2>3. \A x \in Workers : Reader(x)' <=> Reader(x)
    BY <1>0, <2>2 DEF Reader, TypeOK
  <2>4. ReceivesLeft' = ReceivesLeft /\ SendsLeft' = SendsLeft
    BY <2>2, <2>3 DEF ReceivesLeft, SendsLeft, Recvs, Sends
  <2>5. /\ IsFiniteSet(Closers') /\ Cardinality(Closers') \in Nat
        /\ Cardinality(Closers') <= Cardinality(Closers)
        /\ w \in Closers => Cardinality(Closers') = Cardinality(Closers) - 1
    <3>1. PICK to \in {"idle"} : pc' = [pc EXCEPT ![w] = to]
      BY <2>2
    <3> QED
      BY <1>0, <1>N, <3>1, ClosersMove
  <2>6. /\ IsFiniteSet(Ends')
        /\ Cardinality(Ends') = IF e = "DISCONNECT" THEN Cardinality(Ends) + 1 ELSE Cardinality(Ends)
    BY <1>0, <1>N, <2>1, EndsGrow
  <2>7. \A x \in Workers : pc'[x] = "announce" => ~mIsConnect'
    BY <1>0, <2>2 DEF TypeOK, CloseInv
  <2> QED
    BY <1>N, <2>1, <2>4, <2>5, <2>6, <2>7 DEF CloseInv
<1>10. CASE UNCHANGED vars
  BY <1>N, <1>10, <1>same DEF vars, slotVars, sendVars, gameVars, ReceivesLeft, SendsLeft, Recvs, Sends,
                        Reader
<1> QED
  BY <1>1, <1>2, <1>3, <1>4, <1>5, <1>6, <1>7, <1>8, <1>9, <1>10
     DEF Next, WokerThread, Handle, Complete

-----------------------------------------------------------------------------
(* Each step of the slot is one of SlotEvents, or changes nothing there.     *)
LEMMA StepIsEvent == SlotInv /\ CloseInv /\ [Next]_vars => [Events!Next]_(Events!slotEvents)
<1> SUFFICES ASSUME SlotInv, CloseInv, [Next]_vars
             PROVE  [Events!Next]_(Events!slotEvents)
  OBVIOUS
<1>0. TypeOK
  BY DEF SlotInv
<1>same. ASSUME UNCHANGED <<mIsConnect, pushed>>
         PROVE  UNCHANGED Events!slotEvents
  BY <1>same DEF Events!slotEvents
<1>1. ASSUME NEW w \in Workers, TakeAccept(w)
      PROVE  Events!Begin("slot")
  <2>1. ~mIsConnect /\ Quiet /\ mIsConnect' /\ pushed' = <<>>
    BY <1>1, AcceptAlone DEF TakeAccept
  <2>2. "DISCONNECT" \in Range(pushed)
    BY <2>1 DEF SlotInv, EndInv, Quiet
  <2>3. Events!Has("slot", "DISCONNECT")
    BY <2>2 DEF Events!Has, Events!Range, Range
  <2>4. mIsConnect' = TRUE
    BY <1>1 DEF TakeAccept
  <2> QED
    BY <2>1, <2>3, <2>4 DEF Events!Begin
<1>2. ASSUME NEW w \in Workers, OnConnect(w)
      PROVE  Events!PushConnect("slot")
  <2>1. "CONNECT" \notin Range(pushed)
    BY <1>2 DEF SlotInv, AnnounceInv, Announcer, OnConnect, Goto
  <2>2. ~Events!Has("slot", "CONNECT")
    BY <2>1 DEF Events!Has, Events!Range, Range
  <2> QED
    BY <1>2, <2>2 DEF Events!PushConnect, Events!Push, OnConnect, slotVars
<1>3. ASSUME NEW w \in Workers, Close(w)
      PROVE  [Events!Next]_(Events!slotEvents)
  <2>1. mIsConnect' = FALSE /\ UNCHANGED pushed
    BY <1>3 DEF Close, gameVars
  <2>2. CASE mIsConnect
    BY <2>1, <2>2 DEF Events!Next, Events!End
  <2>3. CASE ~mIsConnect
    BY <1>0, <1>same, <2>1, <2>3 DEF TypeOK
  <2> QED
    BY <2>2, <2>3
<1>4. ASSUME NEW w \in Workers, OnClose(w)
      PROVE  Events!PushDisconnect("slot")
  <2>1. ~mIsConnect
    BY <1>4 DEF CloseInv, OnClose, Goto
  <2>2. \A j, k \in Ends : j = k
    <3>1. w \in Closers
      BY <1>4 DEF OnClose, Goto, Closers
    <3>2. Cardinality(Closers) \in Nat /\ Cardinality(Closers) # 0 /\ Cardinality(Ends) \in Nat
      BY <3>1, FS_CardinalityType, FS_EmptySet DEF CloseInv
    <3>3. ReceivesLeft \in {0, 1} /\ SendsLeft \in {0, 1}
      BY DEF ReceivesLeft, SendsLeft
    <3>4. Cardinality(Closers) + Cardinality(Ends) + ReceivesLeft + SendsLeft <= 2
      BY DEF CloseInv
    <3>5. Cardinality(Ends) \in {0, 1}
      BY <3>2, <3>3, <3>4
    <3> QED
      BY <3>5, FS_EmptySet, FS_Singleton DEF CloseInv
  <2>3. Events!Disconnects("slot") = Ends
    BY DEF Events!Disconnects, Ends
  <2> QED
    BY <1>4, <2>1, <2>2, <2>3 DEF Events!PushDisconnect, Events!Push, OnClose, slotVars
<1>5. CASE AccepterThread \/ SendMsg \/ UNCHANGED vars
  BY <1>5, <1>same DEF AccepterThread, PostAccept, PostAcceptFails, WaitElapses, SendMsg, vars,
                       slotVars, gameVars
<1>6. ASSUME NEW w \in Workers, TakeRecv(w) \/ TakeFailure(w) \/ SendCompleted(w)
      PROVE  UNCHANGED Events!slotEvents
  BY <1>6, <1>same DEF TakeRecv, TakeFailure, SendCompleted, slotVars, gameVars
<1>7. ASSUME NEW w \in Workers, FirstBindRecv(w) \/ NextBindRecv(w) \/ CloseSocket(w)
      PROVE  UNCHANGED Events!slotEvents
  BY <1>7, <1>same DEF FirstBindRecv, NextBindRecv, CloseSocket, slotVars, gameVars
<1> QED
  BY <1>1, <1>2, <1>3, <1>4, <1>5, <1>6, <1>7
     DEF Next, WokerThread, Handle, Complete, Events!Next

(* For any number of workers, the game sees of a slot what SlotEvents says:  *)
(* a session is announced at most once, its end once or twice, and nothing   *)
(* of it after the next one has begun.                                       *)
THEOREM SlotImplementsSlotEvents == Spec => ImplementsSlotEvents
<1>1. Init => Events!Init
  BY DEF Init, Events!Init
<1>2. Spec => []CloseInv
  BY InitClose, CloseNext, SlotInvariant, PTL DEF Spec
<1> QED
  BY <1>1, <1>2, StepIsEvent, SlotInvariant, PTL DEF Spec, ImplementsSlotEvents, Events!Spec
-----------------------------------------------------------------------------
(* Sending leaves a slot as watched as it was.                               *)
LEMMA SendingWatchesNothing ==
  ASSUME SendMsg \/ \E w \in Workers : SendCompleted(w)
  PROVE  UNCHANGED Watched
<1>1. UNCHANGED <<mIsConnect, pc>>
  BY DEF SendMsg, SendCompleted, slotVars
<1>2. \A o : o.op = "RECV" => (o \in operations' <=> o \in operations)
  BY DEF SendMsg, SendCompleted, SendIO
<1> QED
  BY <1>1, <1>2 DEF Watched

(* Which steps leave a session unwatched, and which end that.                *)
LEMMA WatchedStep ==
  ASSUME SlotInv, [Next]_vars
  PROVE  /\ Watched /\ ~Watched' => \E w \in Workers : NextBindRecv(w)
         /\ ~Watched /\ Watched' => \E w \in Workers : TakeFailure(w)
<1>0. TypeOK
  BY DEF SlotInv
<1>1. CASE AccepterThread \/ UNCHANGED vars
  <2>1. UNCHANGED <<mIsConnect, pc>>
    BY <1>1 DEF AccepterThread, PostAccept, PostAcceptFails, WaitElapses, vars, slotVars
  <2>2. \A o : o.op = "RECV" => (o \in operations' <=> o \in operations)
    BY <1>1 DEF AccepterThread, PostAccept, PostAcceptFails, WaitElapses, vars
  <2> QED
    BY <2>1, <2>2 DEF Watched
<1>2. CASE SendMsg \/ \E w \in Workers : SendCompleted(w)
  BY <1>2, SendingWatchesNothing
<1>3. ASSUME NEW w \in Workers, TakeAccept(w)
      PROVE  Watched /\ Watched'
  <2>1. ~mIsConnect
    BY <1>3, AcceptAlone DEF TakeAccept
  <2>2. pc'[w] = "bind"
    BY <1>0, <1>3 DEF TakeAccept, Goto, TypeOK
  <2> QED
    BY <2>1, <2>2 DEF Watched
<1>4. ASSUME NEW w \in Workers, FirstBindRecv(w)
      PROVE  Watched /\ Watched'
  <2>1. pc[w] = "bind"
    BY <1>4 DEF FirstBindRecv, Goto
  <2>2. CASE operations' = operations
    BY <1>0, <1>4, <2>1, <2>2 DEF FirstBindRecv, Goto, TypeOK, Watched
  <2>3. CASE operations' # operations
    <3>1. [op |-> "RECV", socket |-> mSocket] \in operations'
      BY <1>4, <2>3 DEF FirstBindRecv, BindRecv
    <3> QED
      BY <2>1, <3>1 DEF Watched
  <2> QED
    BY <2>1, <2>2, <2>3 DEF Watched
<1>5. ASSUME NEW w \in Workers, NextBindRecv(w)
      PROVE  Watched
  BY <1>5 DEF NextBindRecv, Goto, Watched
<1>6. ASSUME NEW w \in Workers, TakeRecv(w) \/ TakeFailure(w)
      PROVE  Watched'
  BY <1>0, <1>6 DEF TakeRecv, TakeFailure, Goto, TypeOK, Watched
<1>7. ASSUME NEW w \in Workers, TakeRecv(w)
      PROVE  Watched
  BY <1>7 DEF TakeRecv, Watched
<1>8. ASSUME NEW w \in Workers, CloseSocket(w) \/ Close(w)
      PROVE  Watched /\ Watched'
  BY <1>0, <1>8 DEF CloseSocket, Close, Goto, TypeOK, slotVars, Watched
<1>9. ASSUME NEW w \in Workers, OnConnect(w) \/ OnClose(w)
      PROVE  UNCHANGED Watched
  <2>1. UNCHANGED <<mIsConnect, operations>>
    BY <1>9 DEF OnConnect, OnClose, slotVars
  <2>2. /\ pc[w] \in {"connect", "announce"}
        /\ pc' = [pc EXCEPT ![w] = "idle"]
    BY <1>9 DEF OnConnect, OnClose, Goto
  <2>3. \A x \in Workers :
          pc'[x] \in {"bind", "receive", "check", "close"}
            <=> pc[x] \in {"bind", "receive", "check", "close"}
    BY <1>0, <2>2 DEF TypeOK
  <2> QED
    BY <2>1, <2>3 DEF Watched
<1> QED
  BY <1>1, <1>2, <1>3, <1>4, <1>5, <1>6, <1>7, <1>8, <1>9
     DEF Next, WokerThread, Handle, Complete

(* For any number of workers, a client's leaving goes unnoticed only after a *)
(* receive that WSARecv refused while the session was on.                    *)
THEOREM AlwaysWatchedUntilRefused == Spec => WatchedUntilRefused
<1>1. SlotInv /\ [Next]_vars =>
        [/\ Watched /\ ~Watched' => \E w \in Workers : NextBindRecv(w)
         /\ ~Watched /\ Watched' => \E w \in Workers : TakeFailure(w)]_vars
  BY WatchedStep
<1> QED
  BY <1>1, SlotInvariant, PTL DEF Spec, WatchedUntilRefused
-----------------------------------------------------------------------------
(* A queue that nobody is sending from any more: see Session's SendIO.       *)
Stalled == mSendDataqueue # <<>> /\ Sends = {}

(* What the run session_stalled shows, in general: once WSASend has refused  *)
(* the front of the queue, or its send has failed, the slot sends nothing    *)
(* ever again, whoever calls SendMsg and whatever sessions come and go.      *)
THEOREM StalledForEver == Spec => [][Stalled => Stalled' /\ UNCHANGED wire]_vars
<1>1. SlotInv /\ [Next]_vars => [Stalled => Stalled' /\ UNCHANGED wire]_vars
  <2> SUFFICES ASSUME SlotInv, [Next]_vars, Stalled
               PROVE  Stalled' /\ UNCHANGED wire
    OBVIOUS
  <2>0. TypeOK
    BY DEF SlotInv
  <2>1. CASE SendMsg
    <3>1. mSendDataqueue' = Append(mSendDataqueue, messages') /\ UNCHANGED <<operations, wire>>
      BY <2>1 DEF SendMsg, Stalled
    <3>2. mSendDataqueue' # <<>>
      BY <2>0, <3>1 DEF TypeOK
    <3> QED
      BY <3>1, <3>2 DEF Stalled, Sends
  <2>2. ASSUME NEW w \in Workers, SendCompleted(w)
        PROVE  FALSE
    BY <2>2 DEF SendCompleted, Stalled, Sends
  <2>3. ASSUME UNCHANGED <<mSendDataqueue, wire>>, Sends' \subseteq Sends
        PROVE  Stalled' /\ UNCHANGED wire
    BY <2>3 DEF Stalled
  <2>4. CASE AccepterThread \/ UNCHANGED vars
    BY <2>3, <2>4 DEF AccepterThread, PostAccept, PostAcceptFails, WaitElapses, vars, sendVars, Sends
  <2>5. ASSUME NEW w \in Workers, Handle(w)
        PROVE  Stalled' /\ UNCHANGED wire
    BY <2>3, <2>5 DEF Handle, FirstBindRecv, OnConnect, NextBindRecv, CloseSocket, Close, OnClose,
                      BindRecv, sendVars, Sends
  <2>6. ASSUME NEW w \in Workers, TakeAccept(w) \/ TakeRecv(w) \/ TakeFailure(w)
        PROVE  Stalled' /\ UNCHANGED wire
    BY <2>3, <2>6 DEF TakeAccept, TakeRecv, TakeFailure, sendVars, Sends
  <2> QED
    BY <2>1, <2>2, <2>4, <2>5, <2>6 DEF Next, WokerThread, Complete
<1> QED
  BY <1>1, SlotInvariant, PTL DEF Spec

-----------------------------------------------------------------------------
(* A slot with no client that the accepter will not offer is being offered.  *)
Offered == mLatestClosedTimeSec = "never" /\ ~mIsConnect => AcceptPosted \/ failed

LEMMA OfferedNext == SlotInv /\ Offered /\ [Next]_vars => Offered'
<1> SUFFICES ASSUME SlotInv, Offered, [Next]_vars
             PROVE  Offered'
  OBVIOUS
<1>0. TypeOK
  BY DEF SlotInv
<1>same. ASSUME UNCHANGED <<slotVars, failed>>, Accepts \subseteq operations'
         PROVE  Offered'
  BY <1>same DEF Offered, AcceptPosted, Accepts, slotVars
<1>1. CASE AccepterThread
  <2>1. CASE WaitElapses
    BY <2>1 DEF WaitElapses, Offered
  <2>2. CASE PostAcceptFails
    BY <2>2 DEF PostAcceptFails, Offered
  <2>3. ASSUME NEW s \in Sockets, PostAccept(s)
        PROVE  Offered'
    <3>1. [op |-> "ACCEPT", socket |-> s] \in operations'
      BY <2>3 DEF PostAccept
    <3> QED
      BY <3>1 DEF Offered, AcceptPosted
  <2> QED
    BY <1>1, <2>1, <2>2, <2>3 DEF AccepterThread
<1>2. CASE UNCHANGED vars
  BY <1>2, <1>same DEF vars, Accepts
<1>3. CASE SendMsg \/ \E w \in Workers : SendCompleted(w)
  BY <1>3, <1>same DEF SendMsg, SendCompleted, SendIO, Accepts
<1>4. ASSUME NEW w \in Workers, TakeAccept(w)
      PROVE  Offered'
  BY <1>4 DEF TakeAccept, Offered
<1>5. ASSUME NEW w \in Workers, TakeRecv(w) \/ TakeFailure(w)
      PROVE  Offered'
  BY <1>5, <1>same DEF TakeRecv, TakeFailure, Accepts
<1>6. ASSUME NEW w \in Workers, Close(w)
      PROVE  Offered'
  BY <1>6 DEF Close, Offered
<1>7. ASSUME NEW w \in Workers,
             FirstBindRecv(w) \/ NextBindRecv(w) \/ OnConnect(w) \/ CloseSocket(w) \/ OnClose(w)
      PROVE  Offered'
  BY <1>7, <1>same DEF FirstBindRecv, NextBindRecv, OnConnect, CloseSocket, OnClose, BindRecv, Accepts
<1> QED
  BY <1>1, <1>2, <1>3, <1>4, <1>5, <1>6, <1>7 DEF Next, WokerThread, Handle, Complete

(* The safety behind OfferedAgain: a slot whose time stamp keeps the         *)
(* accepter from it has an accept pending or a client, or the accepter has   *)
(* failed to offer it; no race of Close and PostAccept loses the stamp.      *)
THEOREM SlotNeverLost == Spec => []Offered
<1>1. Init => Offered
  BY DEF Init, Offered
<1> QED
  BY <1>1, OfferedNext, SlotInvariant, PTL DEF Spec
=============================================================================
