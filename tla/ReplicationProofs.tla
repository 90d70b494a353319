-------------------------- MODULE ReplicationProofs --------------------------
(* The safety of Replication, for every number of slots, sessions, events   *)
(* and positions.                                                            *)
EXTENDS Replication, FiniteSetTheorems, TLAPS

CONNECT(u) == [type |-> "CONNECT", index |-> u]

(* While a client is connected only its own CONNECT has been pushed.         *)
SlotInv == \A u \in Users : connected[u] => pushed[u] \in {<<>>, <<"CONNECT">>}

(* The event of a slot that was pushed last is the last one in the queue, or *)
(* all have been handled and the registry says what it said.                 *)
LastEvent(u) ==
  \/ \E k \in DOMAIN events :
       /\ events[k] = [type |-> Last(pushed[u]), index |-> u]
       /\ \A j \in DOMAIN events : j > k => events[j].index # u
  \/ /\ ~Pending(u)
     /\ u \in mUserIDDictionary <=> Last(pushed[u]) = "CONNECT"

QueueInv == running => \A u \in Users : pushed[u] # <<>> => LastEvent(u)

(* A slot without a client has been sent nothing.                            *)
SentInv == \A u \in Users : sent[u] # <<>> => connected[u]

TypeInv == TypeOK /\ SlotInv /\ SentInv

-----------------------------------------------------------------------------
(* Every action keeps the types. *)

LEMMA InitType == Init => TypeInv
  BY DEF Init, TypeInv, TypeOK, RegistryTypeOK, RegistryInit, Network!Init, SlotInv, SentInv

(* What is sent but not kept: it may stall slots, and no more.               *)
LEMMA OffersEffect ==
  ASSUME TypeOK, Synchronize \/ Answer \/ \E u \in Users : BroadcastPacket(u)
  PROVE  /\ running
         /\ UNCHANGED <<networkVars, events, joining, moves, listed, sent, running, registryVars,
                        clean>>
         /\ stalled \subseteq stalled' /\ stalled' \subseteq Users
         /\ \/ UNCHANGED requests
            \/ joining = {} /\ requests # <<>> /\ requests' = Tail(requests)
<1>0. mUserIDDictionary \subseteq Users /\ stalled \subseteq Users
  BY DEF TypeOK, RegistryTypeOK
<1>1. ASSUME Synchronize \/ Answer
      PROVE  /\ HandlesRequest
             /\ Head(requests).index \in Users
             /\ Offer(Others(Head(requests).index)) \/ Offer({Head(requests).index})
  <2>1. requests \in Seq(Player) /\ requests # <<>>
    BY <1>1 DEF TypeOK, Synchronize, Answer, HandlesRequest
  <2>2. Head(requests) \in Player
    BY <2>1
  <2> QED
    BY <1>1, <2>2 DEF Synchronize, Answer, Player
<1>2. ASSUME NEW u \in Users, BroadcastPacket(u)
      PROVE  Offer({u}) /\ running /\ UNCHANGED requests
  BY <1>2 DEF BroadcastPacket, lineVars
<1>3. stalled \subseteq stalled' /\ stalled' \subseteq Users
  BY <1>0, <1>1, <1>2 DEF Offer, Others
<1> QED
  BY <1>1, <1>2, <1>3 DEF HandlesRequest, BroadcastPacket, lineVars

(* What Connect does to the registry,                                        *)
LEMMA ConnectEffect ==
  ASSUME NEW u \in Users, Connect(u)
  PROVE  /\ Handles(u, "CONNECT") /\ running
         /\ mUserIDDictionary' = mUserIDDictionary \union {u}
         /\ mCurrentUserCnt' = mCurrentUserCnt + 1
         /\ joining = {} /\ joining' = {u} /\ listed' = listed \union {u}
         /\ UNCHANGED <<networkVars, requests, moves, sendVars, clean>>
  BY DEF Connect, Handles, AddUser

(* and what it sends: everybody gets at most what Join has for him, and only *)
(* those who are reached get it.                                             *)
Messages(u, order, garbage) ==
  [v \in Users |-> CASE v = u -> ToNewcomer(order)
                     [] v \in garbage -> <<Garbage>>
                     [] v \in Others(u) \ garbage -> <<resReplicatedPlayerGen(PlayerOf(u))>>
                     [] OTHER -> <<>>]

LEMMA ToNewcomerType ==
  ASSUME TypeOK, NEW u \in Users, NEW order \in Orders(Others(u))
  PROVE  /\ ToNewcomer(order) \in Seq(Message)
         /\ Len(ToNewcomer(order)) = Cardinality(Others(u)) + 1
         /\ ToNewcomer(order)[1] = resPlayerJoin
         /\ \A k \in 1..Cardinality(Others(u)) :
              ToNewcomer(order)[k + 1] = resReplicatedPlayerGen(PlayerOf(order[k]))
<1> DEFINE n == Cardinality(Others(u))
           gens == [k \in DOMAIN order |-> resReplicatedPlayerGen(PlayerOf(order[k]))]
<1>1. Others(u) \subseteq Users /\ IsFiniteSet(Others(u)) /\ n \in Nat
  BY UsersAssumption, FS_Subset, FS_CardinalityType DEF Others, TypeOK, RegistryTypeOK
<1>2. order \in [1..n -> Others(u)] /\ DOMAIN order = 1..n
  BY DEF Orders
<1>3. \A k \in 1..n : resReplicatedPlayerGen(PlayerOf(order[k])) \in Message
  BY <1>1, <1>2 DEF resReplicatedPlayerGen, PlayerOf, Message, Player, TypeOK
<1>4. gens \in Seq(Message) /\ Len(gens) = n
  BY <1>1, <1>2, <1>3
<1>5. <<resPlayerJoin>> \in Seq(Message)
  BY DEF Message
<1>6. /\ <<resPlayerJoin>> \o gens \in Seq(Message)
      /\ Len(<<resPlayerJoin>> \o gens) = 1 + n
      /\ (<<resPlayerJoin>> \o gens)[1] = resPlayerJoin
      /\ \A k \in 1..n : (<<resPlayerJoin>> \o gens)[k + 1] = gens[k]
  <2> HIDE DEF gens, n
  <2> QED
    BY <1>1, <1>4, <1>5
<1> QED
  BY <1>1, <1>2, <1>6 DEF ToNewcomer

LEMMA MessagesType ==
  ASSUME TypeOK, NEW u \in Users, NEW order \in Orders(Others(u)), NEW garbage \in SUBSET Others(u)
  PROVE  Messages(u, order, garbage) \in [Users -> Seq(Message)]
<1>1. \A v \in Users : Messages(u, order, garbage)[v] \in {ToNewcomer(order), <<Garbage>>,
                         <<resReplicatedPlayerGen(PlayerOf(u))>>, <<>>}
  BY DEF Messages
<1>2. <<Garbage>> \in Seq(Message) /\ <<>> \in Seq(Message)
  BY DEF Message
<1>3. <<resReplicatedPlayerGen(PlayerOf(u))>> \in Seq(Message)
  BY DEF Message, resReplicatedPlayerGen, PlayerOf, Player, TypeOK
<1> QED
  BY <1>1, <1>2, <1>3, ToNewcomerType DEF Messages

LEMMA SendEffect ==
  ASSUME TypeOK, NEW u \in Users, SendJoin(u)
  PROVE  /\ running /\ joining = {u} /\ joining' = {} /\ u \in mUserIDDictionary
         /\ UNCHANGED <<networkVars, events, requests, moves, listed, running, registryVars, clean>>
         /\ stalled' = stalled \union {v \in Others(u) \union {u} : ~connected[v]}
         /\ \E order \in Orders(Others(u)), garbage \in SUBSET Others(u) :
              sent' = [v \in Users |-> IF Reached(v)
                                       THEN sent[v] \o Messages(u, order, garbage)[v] ELSE sent[v]]
<1>0. running /\ joining = {u} /\ joining' = {} /\ u \in mUserIDDictionary
  BY DEF SendJoin, Continues, TypeOK
<1>1. PICK order \in Orders(Others(u)) :
        \E garbage \in SUBSET {order[k] : k \in 2..Len(order)} : Join(u, order, garbage)
  BY DEF SendJoin
<1>2. PICK garbage \in SUBSET {order[k] : k \in 2..Len(order)} : Join(u, order, garbage)
  BY <1>1
<1>3. {order[k] : k \in 2..Len(order)} \subseteq Others(u)
  <2>1. Cardinality(Others(u)) \in Nat
    BY UsersAssumption, FS_Subset, FS_CardinalityType DEF Others, TypeOK, RegistryTypeOK
  <2>2. order \in [1..Cardinality(Others(u)) -> Others(u)]
    BY DEF Orders
  <2>3. Len(order) = Cardinality(Others(u))
    BY <2>1, <2>2
  <2> QED
    BY <2>1, <2>2, <2>3
<1>4. sent' = [v \in Users |-> IF Reached(v)
                               THEN sent[v] \o Messages(u, order, garbage)[v] ELSE sent[v]]
  BY <1>2 DEF Join, Messages
<1> QED
  BY <1>0, <1>2, <1>3, <1>4 DEF SendJoin, Continues, Join, Offer

LEMMA JoinType ==
  ASSUME TypeInv, NEW u \in Users, SendJoin(u)
  PROVE  sent' \in [Users -> Seq(Message)] /\ SentInv'
<1>1. PICK order \in Orders(Others(u)), garbage \in SUBSET Others(u) :
        sent' = [v \in Users |-> IF Reached(v)
                                 THEN sent[v] \o Messages(u, order, garbage)[v] ELSE sent[v]]
  BY SendEffect DEF TypeInv
<1>2. Messages(u, order, garbage) \in [Users -> Seq(Message)]
  BY MessagesType DEF TypeInv
<1>3. sent \in [Users -> Seq(Message)]
  BY DEF TypeInv, TypeOK
<1>4. sent' \in [Users -> Seq(Message)]
  <2> HIDE DEF Messages
  <2> QED
    BY <1>1, <1>2, <1>3
<1>5. SentInv'
  BY <1>1, SendEffect DEF SentInv, Reached, TypeInv, networkVars
<1> QED
  BY <1>4, <1>5

LEMMA TypeStep == TypeInv /\ [Next]_vars => TypeInv'
<1> SUFFICES ASSUME TypeInv, [Next]_vars
             PROVE  TypeInv'
  OBVIOUS
<1> USE DEF TypeInv, RegistryTypeOK
<1>1. ASSUME NEW u \in Users, Begin(u)
      PROVE  TypeInv'
  BY <1>1 DEF TypeOK, SlotInv, SentInv, Begin, Network!Begin, lineVars, sendVars, registryVars
<1>2. ASSUME NEW u \in Users, OnConnect(u)
      PROVE  TypeInv'
  <2>1. TypeOK'
    BY <1>2 DEF TypeOK, OnConnect, PushSystemPacket, Network!PushConnect, Network!Push, Event,
                sendVars, registryVars
  <2>2. connected[u] => pushed[u] = <<>>
    BY <1>2 DEF OnConnect, Network!PushConnect, Network!Has, Network!Range, SlotInv
  <2>3. connected[u] => pushed'[u] = <<"CONNECT">>
    BY <1>2, <2>2 DEF OnConnect, Network!PushConnect, Network!Push, TypeOK
  <2>4. UNCHANGED <<connected, sent>> /\ \A v \in Users : v # u => pushed'[v] = pushed[v]
    BY <1>2 DEF OnConnect, PushSystemPacket, Network!PushConnect, Network!Push, sendVars, TypeOK
  <2> QED
    BY <2>1, <2>3, <2>4 DEF SlotInv, SentInv
<1>3. ASSUME NEW u \in Users, End(u)
      PROVE  TypeInv'
  BY <1>3 DEF TypeOK, SlotInv, SentInv, End, Network!End, lineVars, registryVars
<1>4. ASSUME NEW u \in Users, OnClose(u)
      PROVE  TypeInv'
  <2>1. TypeOK'
    BY <1>4 DEF TypeOK, OnClose, PushSystemPacket, Network!PushDisconnect, Network!Push, Event,
                sendVars, registryVars
  <2> QED
    BY <1>4, <2>1 DEF TypeOK, SlotInv, SentInv, OnClose, PushSystemPacket,
                      Network!PushDisconnect, Network!Push, sendVars
<1>5. ASSUME NEW u \in Users, Move(u)
      PROVE  TypeInv'
  BY <1>5 DEF TypeOK, SlotInv, SentInv, Move, PlayerOf, Player, networkVars, sendVars, registryVars
<1>6. ASSUME NEW u \in Users, Connect(u)
      PROVE  TypeInv'
  <2>1. events' \in Seq(Event)
    BY <1>6 DEF TypeOK, Connect, Handles
  <2>2. /\ mUserIDDictionary' \subseteq Users /\ mCurrentUserCnt' \in Nat
        /\ \E w \in mUserIDDictionary' : joining' = {w}
        /\ mUserIDDictionary' \subseteq listed' /\ listed' \subseteq Users
    <3>1. /\ mUserIDDictionary \subseteq listed /\ listed \subseteq Users
          /\ mCurrentUserCnt \in Nat
      BY DEF TypeOK
    <3>2. /\ mUserIDDictionary' = mUserIDDictionary \union {u}
          /\ mCurrentUserCnt' = mCurrentUserCnt + 1
          /\ joining' = {u} /\ listed' = listed \union {u}
      BY <1>6, ConnectEffect
    <3> QED
      BY <3>1, <3>2
  <2>3. UNCHANGED <<networkVars, requests, moves, sendVars, clean>>
    BY <1>6, ConnectEffect
  <2> QED
    BY <2>1, <2>2, <2>3 DEF TypeOK, SlotInv, SentInv, networkVars, sendVars
<1>7. ASSUME NEW u \in Users, SendJoin(u)
      PROVE  TypeInv'
  <2>1. stalled' \subseteq Users
    BY <1>7, SendEffect DEF TypeOK, Others
  <2>2. sent' \in [Users -> Seq(Message)] /\ SentInv'
    BY <1>7, JoinType
  <2>3. /\ joining' = {}
        /\ UNCHANGED <<networkVars, events, requests, moves, listed, running, registryVars, clean>>
    BY <1>7, SendEffect
  <2> QED
    BY <2>1, <2>2, <2>3 DEF TypeOK, SlotInv, networkVars, registryVars
<1>dies. ASSUME NEW u \in Users, JoinDies(u)
         PROVE  TypeInv'
  BY <1>dies DEF TypeOK, SlotInv, SentInv, JoinDies, Continues, networkVars, registryVars
<1>8. ASSUME NEW u \in Users, Disconnect(u)
      PROVE  TypeInv'
  <2>1. events' \in Seq(Event)
    BY <1>8 DEF TypeOK, Disconnect, Handles
  <2>2. mUserIDDictionary' \subseteq Users /\ mCurrentUserCnt' \in Nat
    BY <1>8 DEF TypeOK, Disconnect, DeleteUser
  <2>3. joining' = {} /\ mUserIDDictionary' \subseteq listed'
    BY <1>8 DEF TypeOK, Disconnect, Handles, DeleteUser
  <2> QED
    BY <1>8, <2>1, <2>2, <2>3 DEF TypeOK, SlotInv, SentInv, Disconnect, Handles, networkVars, sendVars
<1>9. ASSUME Synchronize \/ Answer \/ \E u \in Users : BroadcastPacket(u)
      PROVE  TypeInv'
  <2>1. requests' \in Seq(Player)
    <3>1. requests \in Seq(Player)
      BY DEF TypeOK
    <3>2. UNCHANGED requests \/ (requests # <<>> /\ requests' = Tail(requests))
      BY <1>9, OffersEffect
    <3> QED
      BY <3>1, <3>2
  <2> QED
    BY <1>9, <2>1, OffersEffect DEF TypeOK, SlotInv, SentInv, networkVars, registryVars
<1>10. CASE UNCHANGED vars
  BY <1>10 DEF TypeOK, SlotInv, SentInv, vars, networkVars, lineVars, sendVars, registryVars
<1> QED
  BY <1>1, <1>2, <1>3, <1>4, <1>5, <1>6, <1>7, <1>dies, <1>8, <1>9, <1>10 DEF Next, SystemPacket

(* The registry, the queues and the messages keep their types, whatever the  *)
(* order of the events of a slot and even when the counter of the registry   *)
(* is decremented more often than it was incremented.                        *)
THEOREM TypeCorrect == Spec => []TypeOK
<1>1. TypeInv => TypeOK
  BY DEF TypeInv
<1> QED
  BY <1>1, InitType, TypeStep, PTL DEF Spec

-----------------------------------------------------------------------------
(* The registry follows the sessions. *)

LEMMA PendingSame ==
  ASSUME NEW w \in Users, UNCHANGED events
  PROVE  Pending(w)' = Pending(w)
  BY DEF Pending

(* An event is appended that is, or is not, of this slot. *)
LEMMA EventPushed ==
  ASSUME TypeOK, NEW u \in Users, NEW type, PushSystemPacket(u, type),
         pushed' = [pushed EXCEPT ![u] = Append(@, type)],
         NEW w \in Users, w # u /\ pushed[w] # <<>> => LastEvent(w)
  PROVE  /\ Pending(u)'
         /\ w # u => (Pending(w)' <=> Pending(w))
         /\ pushed'[w] # <<>> => LastEvent(w)'
<1> DEFINE n == Len(events)
           e == [type |-> type, index |-> u]
<1>1. /\ n \in Nat /\ DOMAIN events = 1..n
      /\ events' = Append(events, e) /\ DOMAIN events' = 1..(n + 1)
      /\ \A k \in 1..n : events'[k] = events[k]
      /\ events'[n + 1] = e
  BY DEF TypeOK, PushSystemPacket
<1>2. UNCHANGED mUserIDDictionary
  BY DEF PushSystemPacket, registryVars
<1> HIDE DEF n
<1>3. Pending(u)'
  BY <1>1 DEF Pending
<1>4. w # u => (Pending(w)' <=> Pending(w))
  BY <1>1 DEF Pending
<1>5. w # u => pushed'[w] = pushed[w]
  BY DEF TypeOK
<1>6. Last(pushed'[u]) = type
  BY DEF TypeOK, Last
<1>7. ASSUME w = u
      PROVE  LastEvent(w)'
  <2>1. events'[n + 1] = [type |-> Last(pushed'[w]), index |-> w]
    BY <1>1, <1>6, <1>7
  <2>2. \A j \in DOMAIN events' : ~(j > n + 1)
    BY <1>1
  <2>3. n + 1 \in DOMAIN events'
    BY <1>1
  <2> QED
    BY <2>1, <2>2, <2>3 DEF LastEvent
<1>8. ASSUME w # u, pushed'[w] # <<>>
      PROVE  LastEvent(w)'
  <2>1. LastEvent(w)
    BY <1>5, <1>8
  <2>2. CASE ~Pending(w)
    BY <1>2, <1>4, <1>5, <1>8, <2>1, <2>2 DEF LastEvent, Pending
  <2>3. CASE Pending(w)
    <3>1. PICK k \in 1..n : /\ events[k] = [type |-> Last(pushed[w]), index |-> w]
                            /\ \A j \in 1..n : j > k => events[j].index # w
      BY <1>1, <2>1, <2>3 DEF LastEvent
    <3>2. k \in DOMAIN events' /\ events'[k] = [type |-> Last(pushed'[w]), index |-> w]
      BY <1>1, <1>5, <1>8, <3>1
    <3>3. \A j \in DOMAIN events' : j > k => events'[j].index # w
      BY <1>1, <1>8, <3>1
    <3> QED
      BY <3>2, <3>3 DEF LastEvent
  <2> QED
    BY <2>2, <2>3
<1> QED
  BY <1>3, <1>4, <1>7, <1>8

(* The first event is taken out and the registry does what it says. *)
LEMMA EventHandled ==
  ASSUME TypeOK, NEW u \in Users, NEW type, Handles(u, type),
         NEW w \in Users, pushed[w] # <<>>, LastEvent(w),
         w # u => (w \in mUserIDDictionary' <=> w \in mUserIDDictionary),
         u \in mUserIDDictionary' <=> type = "CONNECT"
  PROVE  LastEvent(w)'
<1> DEFINE n == Len(events)
<1>1. /\ n \in Nat \ {0} /\ DOMAIN events = 1..n
      /\ events[1] = [type |-> type, index |-> u]
      /\ DOMAIN events' = 1..(n - 1)
      /\ \A k \in 1..(n - 1) : events'[k] = events[k + 1]
  <2>1. events \in Seq(Event) /\ events # <<>> /\ events' = Tail(events)
    BY DEF TypeOK, Handles
  <2>2. events[1] = [type |-> type, index |-> u]
    BY <2>1 DEF Handles
  <2> QED
    BY <2>1, <2>2
<1>2. UNCHANGED pushed
  BY DEF Handles, networkVars
<1> HIDE DEF n
<1>3. CASE ~Pending(w)
  <2>1. w # u
    BY <1>1, <1>3 DEF Pending
  <2>2. ~Pending(w)'
    BY <1>1, <1>3 DEF Pending
  <2> QED
    BY <1>2, <1>3, <2>1, <2>2 DEF LastEvent, Pending
<1>4. CASE Pending(w)
  <2>1. PICK k \in 1..n : /\ events[k] = [type |-> Last(pushed[w]), index |-> w]
                          /\ \A j \in 1..n : j > k => events[j].index # w
    BY <1>1, <1>4 DEF LastEvent
  <2>2. CASE k = 1
    <3>1. w = u /\ Last(pushed[w]) = type
      BY <1>1, <2>1, <2>2
    <3>2. ~Pending(w)'
      BY <1>1, <2>1, <2>2 DEF Pending
    <3> QED
      BY <1>2, <3>1, <3>2 DEF LastEvent
  <2>3. CASE k # 1
    <3>1. k - 1 \in 1..(n - 1) /\ events'[k - 1] = events[k]
      BY <1>1, <2>1, <2>3
    <3>2. \A j \in 1..(n - 1) : j > k - 1 => events'[j].index # w
      BY <1>1, <2>1
    <3> QED
      BY <1>1, <1>2, <2>1, <3>1, <3>2 DEF LastEvent
  <2> QED
    BY <2>2, <2>3
<1> QED
  BY <1>3, <1>4

LEMMA QueueStep == TypeInv /\ QueueInv /\ [Next]_vars => QueueInv'
<1> SUFFICES ASSUME TypeInv, QueueInv, [Next]_vars, running',
                    NEW w \in Users, pushed'[w] # <<>>
             PROVE  LastEvent(w)'
  BY DEF QueueInv
<1>0. TypeOK
  BY DEF TypeInv
<1>same. ASSUME running, UNCHANGED <<events, mUserIDDictionary>>, pushed'[w] = pushed[w]
      PROVE  LastEvent(w)'
  BY <1>same DEF QueueInv, LastEvent, Pending
<1>1. ASSUME NEW u \in Users, Begin(u)
      PROVE  LastEvent(w)'
  BY <1>0, <1>1, <1>same DEF TypeOK, Begin, Network!Begin, lineVars, sendVars, registryVars
<1>2. ASSUME NEW u \in Users, OnConnect(u)
      PROVE  LastEvent(w)'
  BY <1>0, <1>2, EventPushed DEF OnConnect, Network!PushConnect, Network!Push, QueueInv,
                                 PushSystemPacket
<1>3. ASSUME NEW u \in Users, End(u)
      PROVE  LastEvent(w)'
  BY <1>3, <1>same DEF End, Network!End, lineVars, registryVars
<1>4. ASSUME NEW u \in Users, OnClose(u)
      PROVE  LastEvent(w)'
  BY <1>0, <1>4, EventPushed DEF OnClose, Network!PushDisconnect, Network!Push, QueueInv,
                                 PushSystemPacket
<1>5. ASSUME NEW u \in Users, Move(u)
      PROVE  LastEvent(w)'
  BY <1>5, <1>same DEF Move, networkVars, registryVars
<1>6. ASSUME NEW u \in Users, Connect(u)
      PROVE  LastEvent(w)'
  <2>1. Handles(u, "CONNECT") /\ running /\ pushed'[w] = pushed[w]
    BY <1>6 DEF Connect, Handles, networkVars
  <2>2. mUserIDDictionary' = mUserIDDictionary \union {u}
    BY <1>6, ConnectEffect
  <2> QED
    BY <1>0, <2>1, <2>2, EventHandled DEF QueueInv
<1>7. ASSUME NEW u \in Users, SendJoin(u) \/ JoinDies(u)
      PROVE  LastEvent(w)'
  BY <1>7, <1>same DEF SendJoin, JoinDies, Continues, networkVars, registryVars
<1>8. ASSUME NEW u \in Users, Disconnect(u)
      PROVE  LastEvent(w)'
  <2>1. Handles(u, "DISCONNECT") /\ running /\ pushed'[w] = pushed[w]
    BY <1>8 DEF Disconnect, Handles, networkVars
  <2>2. mUserIDDictionary' = mUserIDDictionary \ {u}
    BY <1>8 DEF Disconnect, DeleteUser
  <2> QED
    BY <1>0, <2>1, <2>2, EventHandled DEF QueueInv
<1>9. ASSUME Synchronize \/ Answer \/ \E u \in Users : BroadcastPacket(u)
      PROVE  LastEvent(w)'
  BY <1>0, <1>9, <1>same, OffersEffect DEF networkVars, registryVars
<1>10. CASE UNCHANGED vars
  BY <1>10, <1>same DEF vars, networkVars, lineVars, sendVars, registryVars
<1> QED
  BY <1>1, <1>2, <1>3, <1>4, <1>5, <1>6, <1>7, <1>8, <1>9, <1>10 DEF Next, SystemPacket

LEMMA InitQueue == Init => QueueInv
<1> SUFFICES ASSUME Init, NEW u \in Users
             PROVE  LastEvent(u)
  BY DEF QueueInv
<1>1. pushed[u] = <<"CONNECT", "DISCONNECT">> /\ events = <<>> /\ mUserIDDictionary = {}
  BY DEF Init, Network!Init, RegistryInit
<1>2. Last(pushed[u]) = "DISCONNECT"
  BY <1>1 DEF Last
<1> QED
  BY <1>1, <1>2 DEF LastEvent, Pending

(* A client that has been announced, in the terms of the network layer.      *)
LEMMA AnnouncedPushed ==
  ASSUME TypeInv, NEW u \in Users, Announced(u)
  PROVE  connected[u] /\ pushed[u] # <<>> /\ Last(pushed[u]) = "CONNECT"
<1>1. pushed[u] = <<"CONNECT">>
  BY DEF Announced, Network!Has, Network!Range, TypeInv, SlotInv
<1> QED
  BY <1>1 DEF Announced, Last

LEMMA QueueRegistry == TypeInv /\ QueueInv => RegistryFollows
<1> SUFFICES ASSUME TypeInv, QueueInv, running, NEW u \in Users, ~Pending(u), pushed[u] # <<>>
             PROVE  u \in mUserIDDictionary <=> Last(pushed[u]) = "CONNECT"
  BY AnnouncedPushed DEF RegistryFollows
<1> QED
  BY DEF QueueInv, LastEvent, Pending

(* A connected client is registered as soon as the events of its slot have   *)
(* been handled, and a slot without one is not unless its CONNECT was pushed *)
(* after its DISCONNECT: the queue keeps the order of the workers, and the   *)
(* process thread that of the queue.                                         *)
THEOREM RegistryAlwaysFollows == Spec => []RegistryFollows
<1>1. Init => TypeInv /\ QueueInv
  BY InitType, InitQueue
<1>2. TypeInv /\ QueueInv /\ [Next]_vars => (TypeInv /\ QueueInv)'
  BY TypeStep, QueueStep
<1> QED
  BY <1>1, <1>2, QueueRegistry, PTL DEF Spec

-----------------------------------------------------------------------------
(* The players meet. *)

Settled(u) == Announced(u) /\ ~Pending(u) /\ u \notin joining

(* What has been sent only grows, as long as the client stays.               *)
Grows(u) == \A m : m \in Range(sent[u]) => m \in Range(sent'[u])

LEMMA AttentiveBefore ==
  ASSUME NEW u \in Users, Grows(u), stalled \subseteq stalled', UNCHANGED connected,
         Attentive(u)'
  PROVE  Attentive(u)
  BY DEF Attentive, Reached, Grows

LEMMA SendGrows ==
  ASSUME TypeInv, NEW u \in Users, SendJoin(u)
  PROVE  \E order \in Orders(Others(u)), garbage \in SUBSET Others(u) :
           /\ \A v \in Users : Grows(v)
           /\ \A v \in Users : Reached(v)
                => Range(sent'[v]) = Range(sent[v]) \union Range(Messages(u, order, garbage)[v])
           /\ \A v \in Users : ~Reached(v) => sent'[v] = sent[v]
<1>0. TypeOK
  BY DEF TypeInv
<1>1. PICK order \in Orders(Others(u)), garbage \in SUBSET Others(u) :
        sent' = [v \in Users |-> IF Reached(v)
                                 THEN sent[v] \o Messages(u, order, garbage)[v] ELSE sent[v]]
  BY <1>0, SendEffect
<1>2. Messages(u, order, garbage) \in [Users -> Seq(Message)] /\ sent \in [Users -> Seq(Message)]
  BY <1>0, MessagesType DEF TypeOK
<1>3. \A v \in Users :
        Range(sent[v] \o Messages(u, order, garbage)[v])
          = Range(sent[v]) \union Range(Messages(u, order, garbage)[v])
  <2> SUFFICES ASSUME NEW v \in Users
               PROVE  Range(sent[v] \o Messages(u, order, garbage)[v])
                        = Range(sent[v]) \union Range(Messages(u, order, garbage)[v])
    OBVIOUS
  <2> DEFINE s == sent[v]
             t == Messages(u, order, garbage)[v]
             m == Len(s)
             n == Len(t)
  <2>1. s \in Seq(Message) /\ t \in Seq(Message)
    BY <1>2
  <2> HIDE DEF s, t
  <2>2. /\ m \in Nat /\ n \in Nat /\ DOMAIN s = 1..m /\ DOMAIN t = 1..n
        /\ DOMAIN (s \o t) = 1..(m + n)
        /\ \A k \in 1..m : (s \o t)[k] = s[k]
        /\ \A k \in 1..n : (s \o t)[m + k] = t[k]
    BY <2>1
  <2> HIDE DEF m, n
  <2>3. \A k \in 1..(m + n) : k \in 1..m \/ (k - m \in 1..n /\ k = m + (k - m))
    BY <2>2
  <2>4. Range(s \o t) \subseteq Range(s) \union Range(t)
    BY <2>2, <2>3 DEF Range
  <2>5. \A k \in 1..n : m + k \in 1..(m + n)
    BY <2>2
  <2>6. \A k \in 1..m : k \in 1..(m + n)
    BY <2>2
  <2>7. Range(s) \union Range(t) \subseteq Range(s \o t)
    BY <2>2, <2>5, <2>6 DEF Range
  <2> QED
    BY <2>4, <2>7 DEF s, t
<1>4. \A v \in Users : ~Reached(v) => sent'[v] = sent[v]
  BY <1>1
<1>5. \A v \in Users : Reached(v)
        => Range(sent'[v]) = Range(sent[v]) \union Range(Messages(u, order, garbage)[v])
  <2> HIDE DEF Messages
  <2> QED
    BY <1>1, <1>3
<1>6. \A v \in Users : Grows(v)
  BY <1>4, <1>5 DEF Grows
<1> QED
  BY <1>4, <1>5, <1>6

(* The newcomer is told of all others, the others of the newcomer.           *)
LEMMA SendTells ==
  ASSUME TypeInv, NEW u \in Users, SendJoin(u)
  PROVE  /\ \A v \in Others(u) : Reached(u) => Told(u, PlayerOf(v))'
         /\ \A v \in Others(u) : Attentive(v)' => Told(v, PlayerOf(u))'
<1>0. TypeOK
  BY DEF TypeInv
<1>1. PICK order \in Orders(Others(u)), garbage \in SUBSET Others(u) :
        \A v \in Users : Reached(v)
          => Range(sent'[v]) = Range(sent[v]) \union Range(Messages(u, order, garbage)[v])
  BY SendGrows
<1>2. UNCHANGED <<connected, session>> /\ stalled \subseteq stalled' /\ Others(u) \subseteq Users
  BY <1>0, SendEffect DEF networkVars, Others, TypeOK, RegistryTypeOK
<1>3. ASSUME NEW v \in Others(u), Reached(u)
      PROVE  Told(u, PlayerOf(v))'
  <2> DEFINE n == Cardinality(Others(u))
  <2>1. n \in Nat /\ order \in [1..n -> Others(u)] /\ v \in Range(order)
    BY <1>0, UsersAssumption, FS_Subset, FS_CardinalityType
       DEF Orders, Others, TypeOK, RegistryTypeOK
  <2> HIDE DEF n
  <2>2. PICK k \in 1..n : order[k] = v
    BY <2>1 DEF Range
  <2>3. /\ ToNewcomer(order) \in Seq(Message)
        /\ Len(ToNewcomer(order)) = n + 1
        /\ ToNewcomer(order)[k + 1] = resReplicatedPlayerGen(PlayerOf(v))
    BY <1>0, <2>2, ToNewcomerType DEF n
  <2>4. resReplicatedPlayerGen(PlayerOf(v)) \in Range(ToNewcomer(order))
    <3>1. k + 1 \in DOMAIN ToNewcomer(order)
      BY <2>1, <2>3
    <3> QED
      BY <2>3, <3>1 DEF Range
  <2>5. Messages(u, order, garbage)[u] = ToNewcomer(order)
    <3>1. u \notin garbage /\ u \notin Others(u) \ garbage
      BY DEF Others
    <3> QED
      BY <3>1 DEF Messages
  <2> QED
    BY <1>1, <1>2, <1>3, <2>4, <2>5 DEF Told, PlayerOf
<1>4. ASSUME NEW v \in Others(u), Attentive(v)'
      PROVE  Told(v, PlayerOf(u))'
  <2>1. Reached(v)
    BY <1>2, <1>4 DEF Attentive, Reached
  <2>2. v \in Users /\ v # u
    BY <1>2 DEF Others
  <2>3. v \notin garbage
    <3>1. SUFFICES ASSUME v \in garbage
                   PROVE  FALSE
      OBVIOUS
    <3>2. Messages(u, order, garbage)[v] = <<Garbage>>
      BY <2>2, <3>1 DEF Messages
    <3> QED
      BY <1>1, <1>4, <2>1, <2>2, <3>2 DEF Attentive, Range
  <2>4. Messages(u, order, garbage)[v] = <<resReplicatedPlayerGen(PlayerOf(u))>>
    BY <2>2, <2>3 DEF Messages
  <2> QED
    BY <1>1, <1>2, <2>1, <2>2, <2>4 DEF Told, PlayerOf, Range
<1> QED
  BY <1>3, <1>4

(* What the process thread does with the events of a slot leaves the others. *)
LEMMA OthersPending ==
  ASSUME TypeOK, NEW u \in Users, NEW type, Handles(u, type), NEW w \in Users, w # u
  PROVE  Pending(w)' <=> Pending(w)
<1> DEFINE n == Len(events)
<1>1. events \in Seq(Event) /\ events # <<>> /\ events' = Tail(events)
  BY DEF TypeOK, Handles
<1>2. events[1] = [type |-> type, index |-> u]
  BY <1>1 DEF Handles
<1>3. /\ n \in Nat \ {0} /\ DOMAIN events = 1..n
      /\ DOMAIN events' = 1..(n - 1)
      /\ \A k \in 1..(n - 1) : events'[k] = events[k + 1]
  BY <1>1
<1> HIDE DEF n
<1>4. \A k \in 1..n : k = 1 \/ (k - 1 \in 1..(n - 1) /\ k = (k - 1) + 1)
  BY <1>3
<1>5. \A k \in 1..(n - 1) : k + 1 \in 1..n
  BY <1>3
<1>6. ASSUME Pending(w)'
      PROVE  Pending(w)
  BY <1>3, <1>5, <1>6 DEF Pending
<1>7. ASSUME Pending(w)
      PROVE  Pending(w)'
  <2>1. PICK k \in 1..n : events[k].index = w
    BY <1>3, <1>7 DEF Pending
  <2>2. k - 1 \in 1..(n - 1) /\ events'[k - 1] = events[k]
    BY <1>2, <1>3, <1>4, <2>1
  <2> QED
    BY <1>3, <2>1, <2>2 DEF Pending
<1> QED
  BY <1>6, <1>7

LEMMA MeetStep == TypeInv /\ QueueInv /\ PlayersMeet /\ [Next]_vars => PlayersMeet'
<1> SUFFICES ASSUME TypeInv, QueueInv, PlayersMeet, [Next]_vars,
                    NEW u \in Users, NEW v \in Users, u # v, running',
                    Settled(u)', Settled(v)', Attentive(u)'
             PROVE  Told(u, PlayerOf(v))'
  BY DEF PlayersMeet, Settled
<1>0. TypeOK
  BY DEF TypeInv
<1>same. ASSUME running, Settled(u), Settled(v), UNCHANGED <<connected, session>>,
                Grows(u), stalled \subseteq stalled'
         PROVE  Told(u, PlayerOf(v))'
  <2>1. Told(u, PlayerOf(v))
    BY <1>same, AttentiveBefore DEF PlayersMeet, Settled
  <2> QED
    BY <1>same, <2>1 DEF Told, Grows, PlayerOf
<1>1. ASSUME NEW w \in Users, Begin(w)
      PROVE  Told(u, PlayerOf(v))'
  <2>1. w # u /\ w # v
    BY <1>0, <1>1 DEF Begin, Network!Begin, Settled, Announced, Network!Has, Network!Range, TypeOK
  <2>2. /\ connected'[u] = connected[u] /\ connected'[v] = connected[v]
        /\ pushed'[u] = pushed[u] /\ pushed'[v] = pushed[v]
        /\ session'[v] = session[v]
        /\ UNCHANGED <<running, sent, stalled, events, joining>>
    BY <1>0, <1>1, <2>1 DEF Begin, Network!Begin, TypeOK, sendVars, lineVars
  <2>3. Settled(u) /\ Settled(v) /\ Attentive(u)
    BY <2>2 DEF Settled, Announced, Pending, Network!Has, Attentive, Reached
  <2>4. Told(u, PlayerOf(v))
    BY <2>2, <2>3 DEF PlayersMeet, Settled
  <2> QED
    BY <2>2, <2>4 DEF Told, PlayerOf
<1>2. ASSUME NEW w \in Users, OnConnect(w) \/ OnClose(w)
      PROVE  Told(u, PlayerOf(v))'
  <2>1. PICK type \in {"CONNECT", "DISCONNECT"} :
          /\ PushSystemPacket(w, type)
          /\ pushed' = [pushed EXCEPT ![w] = Append(@, type)]
          /\ UNCHANGED connected
    BY <1>2 DEF OnConnect, OnClose, Network!PushConnect, Network!PushDisconnect, Network!Push
  <2>2. running /\ UNCHANGED <<session, sent, stalled, joining>>
    BY <2>1 DEF PushSystemPacket, sendVars
  <2>3. Pending(w)' /\ \A x \in Users : x # w => (Pending(x)' <=> Pending(x))
    BY <1>0, <2>1, <2>2, EventPushed DEF QueueInv
  <2>4. w # u /\ w # v
    BY <2>3 DEF Settled
  <2>5. pushed'[u] = pushed[u] /\ pushed'[v] = pushed[v]
    BY <1>0, <2>1, <2>4 DEF TypeOK
  <2>6. Settled(u) /\ Settled(v)
    BY <2>1, <2>2, <2>3, <2>4, <2>5 DEF Settled, Announced, Network!Has
  <2> QED
    BY <1>same, <2>1, <2>2, <2>6 DEF Grows
<1>3. ASSUME NEW w \in Users, End(w)
      PROVE  Told(u, PlayerOf(v))'
  <2>1. w # u /\ w # v
    BY <1>0, <1>3 DEF End, Network!End, Settled, Announced, TypeOK
  <2>2. /\ connected'[u] = connected[u] /\ connected'[v] = connected[v]
        /\ sent'[u] = sent[u]
        /\ UNCHANGED <<running, pushed, session, events, joining>>
        /\ stalled \subseteq stalled'
    BY <1>0, <1>3, <2>1 DEF End, Network!End, TypeOK, lineVars
  <2>3. Settled(u) /\ Settled(v) /\ Attentive(u)
    BY <2>2 DEF Settled, Announced, Pending, Network!Has, Attentive, Reached
  <2>4. Told(u, PlayerOf(v))
    BY <2>2, <2>3 DEF PlayersMeet, Settled
  <2> QED
    BY <2>2, <2>4 DEF Told, PlayerOf
<1>4. ASSUME NEW w \in Users, Move(w)
      PROVE  Told(u, PlayerOf(v))'
  BY <1>4, <1>same DEF Move, networkVars, sendVars, Settled, Announced, Pending, Grows, Network!Has
<1>5. ASSUME NEW w \in Users, Connect(w)
      PROVE  Told(u, PlayerOf(v))'
  <2>1. /\ Handles(w, "CONNECT") /\ running /\ joining = {} /\ joining' = {w}
        /\ UNCHANGED <<connected, session, pushed, sent, stalled>>
    BY <1>5, ConnectEffect DEF networkVars, sendVars
  <2>2. w # u /\ w # v
    BY <2>1 DEF Settled
  <2>3. \A x \in Users : x # w => (Pending(x)' <=> Pending(x))
    BY <1>0, <2>1, OthersPending
  <2> QED
    BY <1>same, <2>1, <2>2, <2>3 DEF Settled, Announced, Network!Has, Grows
<1>join. ASSUME NEW w \in Users, SendJoin(w)
         PROVE  Told(u, PlayerOf(v))'
  <2>1. /\ UNCHANGED <<connected, session, pushed, events>>
        /\ running /\ joining = {w} /\ stalled \subseteq stalled'
    BY <1>0, <1>join, SendEffect DEF networkVars
  <2>2. Grows(u) /\ Attentive(u)
    BY <1>join, <2>1, SendGrows, AttentiveBefore
  <2>3. Announced(u) /\ Announced(v) /\ ~Pending(u) /\ ~Pending(v)
    BY <2>1 DEF Settled, Announced, Pending, Network!Has
  <2>4. \A x \in {u, v} : x # w => x \in Others(w)
    BY <2>1, <2>3, AnnouncedPushed DEF QueueInv, LastEvent, Pending, Others
  <2>5. CASE w = u
    BY <1>join, <2>1, <2>2, <2>4, <2>5, SendTells DEF Attentive
  <2>6. CASE w = v
    BY <1>join, <2>4, <2>6, SendTells
  <2>7. CASE w # u /\ w # v
    BY <1>same, <2>1, <2>2, <2>3, <2>7 DEF Settled
  <2> QED
    BY <2>5, <2>6, <2>7
<1>6. ASSUME NEW w \in Users, Disconnect(w)
      PROVE  Told(u, PlayerOf(v))'
  <2>1. /\ Handles(w, "DISCONNECT") /\ running /\ joining = {}
        /\ UNCHANGED <<connected, session, pushed, sent, stalled>>
        /\ mUserIDDictionary' = mUserIDDictionary \ {w}
    BY <1>6 DEF Disconnect, Handles, DeleteUser, networkVars, sendVars
  <2>2. Announced(u) /\ Announced(v)
    BY <2>1 DEF Settled, Announced, Network!Has
  <2>3. w # u /\ w # v
    <3>1. \A x \in {u, v} : LastEvent(x)'
      BY <2>1, <2>2, AnnouncedPushed, QueueStep DEF QueueInv
    <3> QED
      BY <2>1, <2>2, <3>1, AnnouncedPushed, TypeStep DEF LastEvent, Pending, Settled
  <2>4. \A x \in Users : x # w => (Pending(x)' <=> Pending(x))
    BY <1>0, <2>1, OthersPending
  <2> QED
    BY <1>same, <2>1, <2>2, <2>3, <2>4 DEF Settled, Grows
<1>7. ASSUME NEW w \in Users, JoinDies(w)
      PROVE  FALSE
  BY <1>7 DEF JoinDies
<1>8. ASSUME Synchronize \/ Answer \/ \E w \in Users : BroadcastPacket(w)
      PROVE  Told(u, PlayerOf(v))'
  BY <1>0, <1>8, <1>same, OffersEffect DEF networkVars, Settled, Announced, Pending, Grows,
                                           Network!Has
<1>9. CASE UNCHANGED vars
  BY <1>9, <1>same DEF vars, networkVars, lineVars, sendVars, Settled, Announced, Pending, Grows,
                       Network!Has
<1> QED
  BY <1>1, <1>2, <1>3, <1>4, <1>5, <1>join, <1>6, <1>7, <1>8, <1>9 DEF Next, SystemPacket

(* Whatever the interleaving of the workers with the process thread, two     *)
(* clients whose events have been handled each have a replica of the other.  *)
THEOREM PlayersAlwaysMeet == Spec => []PlayersMeet
<1>1. Init => TypeInv /\ QueueInv /\ PlayersMeet
  <2>1. Init => PlayersMeet
    BY DEF Init, Network!Init, PlayersMeet, Announced
  <2> QED
    BY <2>1, InitType, InitQueue
<1>2. TypeInv /\ QueueInv /\ PlayersMeet /\ [Next]_vars => (TypeInv /\ QueueInv /\ PlayersMeet)'
  BY TypeStep, QueueStep, MeetStep
<1> QED
  BY <1>1, <1>2, PTL DEF Spec

-----------------------------------------------------------------------------
(* No client gets what was meant for the last client of its slot: a client   *)
(* that is registered has heard its own index.                               *)

FirstInv ==
  clean => \A u \in Users :
    /\ sent[u] # <<>> => sent[u][1] = resPlayerJoin
    /\ Reached(u) /\ u \in mUserIDDictionary \ joining => sent[u] # <<>>

LEMMA SendFirst ==
  ASSUME TypeInv, NEW u \in Users, SendJoin(u), NEW v \in Users
  PROVE  /\ sent[v] # <<>> => sent'[v] # <<>> /\ sent'[v][1] = sent[v][1]
         /\ v = u /\ Reached(u) /\ sent[u] = <<>>
              => sent'[u] # <<>> /\ sent'[u][1] = resPlayerJoin
         /\ v \notin Others(u) \union {u} => sent'[v] = sent[v]
<1>0. TypeOK
  BY DEF TypeInv
<1>1. PICK order \in Orders(Others(u)), garbage \in SUBSET Others(u) :
        sent' = [x \in Users |-> IF Reached(x)
                                 THEN sent[x] \o Messages(u, order, garbage)[x] ELSE sent[x]]
  BY <1>0, SendEffect
<1> DEFINE t == Messages(u, order, garbage)[v]
           s == sent[v]
<1>2. s \in Seq(Message) /\ t \in Seq(Message)
  <2>1. sent \in [Users -> Seq(Message)]
    BY <1>0 DEF TypeOK
  <2>2. Messages(u, order, garbage) \in [Users -> Seq(Message)]
    BY <1>0, MessagesType
  <2> QED
    BY <2>1, <2>2
<1>3. sent'[v] = IF Reached(v) THEN s \o t ELSE s
  BY <1>1
<1>4. v = u => Len(t) >= 1 /\ t[1] = resPlayerJoin
  <2>1. SUFFICES ASSUME v = u
                 PROVE  Len(t) >= 1 /\ t[1] = resPlayerJoin
    OBVIOUS
  <2>2. u \notin garbage /\ u \notin Others(u) \ garbage
    BY DEF Others
  <2>3. t = ToNewcomer(order)
    BY <2>1, <2>2 DEF Messages
  <2>4. Cardinality(Others(u)) \in Nat
    BY <1>0, UsersAssumption, FS_Subset, FS_CardinalityType DEF Others, TypeOK, RegistryTypeOK
  <2> HIDE DEF t
  <2> QED
    BY <1>0, <2>3, <2>4, ToNewcomerType
<1>5. v \notin Others(u) \union {u} => t = <<>>
  BY DEF Messages
<1> HIDE DEF s, t
<1>6. s # <<>> => s \o t # <<>> /\ (s \o t)[1] = s[1]
  BY <1>2
<1>7. s = <<>> /\ Len(t) >= 1 => s \o t # <<>> /\ (s \o t)[1] = t[1]
  BY <1>2
<1>8. t = <<>> => s \o t = s
  BY <1>2
<1> QED
  BY <1>3, <1>4, <1>5, <1>6, <1>7, <1>8 DEF s

LEMMA FirstStep == TypeInv /\ FirstInv /\ [Next]_vars => FirstInv'
<1> SUFFICES ASSUME TypeInv, FirstInv, [Next]_vars, clean', NEW v \in Users
             PROVE  /\ sent'[v] # <<>> => sent'[v][1] = resPlayerJoin
                    /\ Reached(v)' /\ v \in mUserIDDictionary' \ joining' => sent'[v] # <<>>
  BY DEF FirstInv
<1> DEFINE Goal == /\ sent'[v] # <<>> => sent'[v][1] = resPlayerJoin
                   /\ Reached(v)' /\ v \in mUserIDDictionary' \ joining' => sent'[v] # <<>>
<1>0. TypeOK
  BY DEF TypeInv
<1>same. ASSUME clean, sent'[v] = sent[v], connected'[v] => connected[v], stalled \subseteq stalled',
                v \in mUserIDDictionary' \ joining' => v \in mUserIDDictionary \ joining
         PROVE  Goal
  BY <1>same DEF FirstInv, Reached
<1>1. ASSUME NEW u \in Users, Begin(u)
      PROVE  Goal
  <2>1. clean /\ Forgotten(u) /\ UNCHANGED <<sent, stalled, mUserIDDictionary, joining>>
    BY <1>1 DEF Begin, lineVars, sendVars, registryVars
  <2>2. CASE v = u
    BY <2>1, <2>2 DEF FirstInv, Forgotten
  <2>3. CASE v # u
    BY <1>0, <1>1, <1>same, <2>1, <2>3 DEF Begin, Network!Begin, TypeOK
  <2> QED
    BY <2>2, <2>3
<1>2. ASSUME NEW u \in Users, OnConnect(u) \/ OnClose(u)
      PROVE  Goal
  BY <1>2, <1>same DEF OnConnect, OnClose, PushSystemPacket, Network!PushConnect,
                       Network!PushDisconnect, Network!Push, sendVars, registryVars
<1>3. ASSUME NEW u \in Users, End(u)
      PROVE  Goal
  <2>1. clean /\ stalled \subseteq stalled' /\ UNCHANGED <<mUserIDDictionary, joining>>
    BY <1>3 DEF End, lineVars, registryVars
  <2>2. CASE v = u
    BY <1>0, <1>3, <2>2 DEF End, Network!End, Reached, TypeOK
  <2>3. CASE v # u
    BY <1>0, <1>3, <1>same, <2>1, <2>3 DEF End, Network!End, TypeOK
  <2> QED
    BY <2>2, <2>3
<1>4. ASSUME NEW u \in Users, Move(u)
      PROVE  Goal
  BY <1>4, <1>same DEF Move, networkVars, sendVars, registryVars
<1>conn. ASSUME NEW u \in Users, Connect(u)
         PROVE  Goal
  <2>1. /\ clean /\ UNCHANGED <<connected, sent, stalled>>
        /\ mUserIDDictionary' \ joining' \subseteq mUserIDDictionary \ joining
    BY <1>conn, ConnectEffect DEF networkVars, sendVars
  <2> QED
    BY <1>same, <2>1
<1>5. ASSUME NEW u \in Users, SendJoin(u)
      PROVE  Goal
  <2>1. /\ UNCHANGED <<connected, clean, mUserIDDictionary>> /\ stalled \subseteq stalled'
        /\ joining = {u} /\ joining' = {}
    BY <1>0, <1>5, SendEffect DEF networkVars, registryVars
  <2>2. CASE sent[v] # <<>>
    BY <1>5, <2>1, <2>2, SendFirst DEF FirstInv
  <2>3. CASE sent[v] = <<>> /\ v = u
    <3>1. CASE Reached(u)
      BY <1>5, <2>3, <3>1, SendFirst
    <3>2. CASE ~Reached(u)
      BY <1>5, <2>1, <2>3, <3>2, SendGrows DEF Reached
    <3> QED
      BY <3>1, <3>2
  <2>4. CASE sent[v] = <<>> /\ v \in Others(u)
    <3>1. ~Reached(v)
      BY <2>1, <2>4 DEF FirstInv, Others
    <3> QED
      BY <1>5, <2>1, <2>4, <3>1, SendGrows DEF Reached
  <2>5. CASE v \notin Others(u) \union {u}
    BY <1>5, <1>same, <2>1, <2>5, SendFirst
  <2> QED
    BY <2>2, <2>3, <2>4, <2>5
<1>6. ASSUME NEW u \in Users, JoinDies(u)
      PROVE  Goal
  BY <1>6, <1>same DEF JoinDies, Continues, networkVars, registryVars
<1>7. ASSUME NEW u \in Users, Disconnect(u)
      PROVE  Goal
  BY <1>7, <1>same DEF Disconnect, Handles, DeleteUser, networkVars, sendVars
<1>8. ASSUME Synchronize \/ Answer \/ \E w \in Users : BroadcastPacket(w)
      PROVE  Goal
  BY <1>0, <1>8, <1>same, OffersEffect DEF networkVars, registryVars
<1>9. CASE UNCHANGED vars
  BY <1>9, <1>same DEF vars, networkVars, lineVars, sendVars, registryVars
<1> QED
  BY <1>1, <1>2, <1>3, <1>4, <1>conn, <1>5, <1>6, <1>7, <1>8, <1>9 DEF Next, SystemPacket

(* If the game was always done with the last client of a slot before the     *)
(* slot got the next one, every client is told its own index before it is    *)
(* told of another player.                                                   *)
THEOREM AlwaysJoinFirst == Spec => []JoinFirst
<1>1. Init => TypeInv /\ FirstInv
  <2>1. Init => FirstInv
    BY DEF Init, FirstInv, RegistryInit
  <2> QED
    BY <2>1, InitType
<1>2. TypeInv /\ FirstInv /\ [Next]_vars => (TypeInv /\ FirstInv)'
  BY TypeStep, FirstStep
<1>3. FirstInv => JoinFirst
  BY DEF FirstInv, JoinFirst
<1> QED
  BY <1>1, <1>2, <1>3, PTL DEF Spec

-----------------------------------------------------------------------------
(* Positions follow: the registered players have been told of each other,    *)
(* and what waits to be handled is of the present clients.                   *)

Current == \A k \in DOMAIN requests : requests[k].session = session[requests[k].index]

FollowInv ==
  clean => /\ \A u, v \in mUserIDDictionary \ joining :
                u # v /\ Attentive(u) => Told(u, PlayerOf(v))
           /\ Current

LEMMA RequestsCurrent ==
  ASSUME TypeInv, FollowInv, [Next]_vars, clean'
  PROVE  Current'
<1>0. TypeOK
  BY DEF TypeInv
<1>same. ASSUME clean, UNCHANGED <<requests, session>>
         PROVE  Current'
  BY <1>same DEF FollowInv, Current
<1>1. ASSUME NEW u \in Users, Begin(u)
      PROVE  Current'
  <2>1. /\ clean /\ UNCHANGED requests
        /\ \A k \in DOMAIN requests : requests[k].index # u
        /\ session' = [session EXCEPT ![u] = @ + 1]
    BY <1>1 DEF Begin, Forgotten, lineVars
  <2>2. \A k \in DOMAIN requests : requests[k].index \in Users
    <3>1. requests \in Seq(Player)
      BY <1>0 DEF TypeOK
    <3>2. \A k \in DOMAIN requests : requests[k] \in Player
      BY <3>1
    <3> QED
      BY <3>2 DEF Player
  <2>3. \A v \in Users : v # u => session'[v] = session[v]
    BY <1>0, <2>1 DEF TypeOK
  <2> QED
    BY <2>1, <2>2, <2>3 DEF FollowInv, Current
<1>2. ASSUME NEW u \in Users, OnConnect(u) \/ OnClose(u)
      PROVE  Current'
  BY <1>2, <1>same DEF OnConnect, OnClose, PushSystemPacket
<1>3. ASSUME NEW u \in Users, End(u)
      PROVE  Current'
  BY <1>3, <1>same DEF End, lineVars
<1>4. ASSUME NEW u \in Users, Move(u)
      PROVE  Current'
  <2> DEFINE n == Len(requests)
  <2>1. /\ n \in Nat /\ DOMAIN requests = 1..n /\ DOMAIN requests' = 1..(n + 1)
        /\ \A k \in 1..n : requests'[k] = requests[k]
        /\ requests'[n + 1] = PlayerOf(u)
    <3>1. requests \in Seq(Player) /\ requests' = Append(requests, PlayerOf(u))
      BY <1>0, <1>4 DEF TypeOK, Move
    <3> QED
      BY <3>1
  <2>2. clean /\ UNCHANGED session
    BY <1>4 DEF Move, networkVars
  <2> HIDE DEF n
  <2>3. \A k \in 1..(n + 1) : k \in 1..n \/ k = n + 1
    BY <2>1
  <2> QED
    BY <2>1, <2>2, <2>3 DEF FollowInv, Current, PlayerOf
<1>5. ASSUME SystemPacket
      PROVE  Current'
  BY <1>5, <1>same DEF SystemPacket, Connect, SendJoin, JoinDies, Disconnect, Handles,
                       Continues, networkVars
<1>6. ASSUME Synchronize \/ Answer \/ \E w \in Users : BroadcastPacket(w)
      PROVE  Current'
  <2>1. /\ clean /\ UNCHANGED session /\ requests \in Seq(Player)
        /\ UNCHANGED requests \/ (requests # <<>> /\ requests' = Tail(requests))
    BY <1>0, <1>6, OffersEffect DEF TypeOK, networkVars
  <2>2. CASE UNCHANGED requests
    BY <1>same, <2>1, <2>2
  <2>3. CASE requests # <<>> /\ requests' = Tail(requests)
    <3>1. \A k \in DOMAIN requests' : k + 1 \in DOMAIN requests /\ requests'[k] = requests[k + 1]
      BY <2>1, <2>3
    <3> QED
      BY <2>1, <3>1 DEF FollowInv, Current
  <2> QED
    BY <2>1, <2>2, <2>3
<1>7. CASE UNCHANGED vars
  BY <1>7, <1>same DEF vars, networkVars, lineVars
<1> QED
  BY <1>1, <1>2, <1>3, <1>4, <1>5, <1>6, <1>7 DEF Next

LEMMA FollowStep == TypeInv /\ FollowInv /\ [Next]_vars => FollowInv'
<1> SUFFICES ASSUME TypeInv, FollowInv, [Next]_vars, clean',
                    NEW u \in mUserIDDictionary' \ joining',
                    NEW v \in mUserIDDictionary' \ joining', u # v,
                    Attentive(u)'
             PROVE  Told(u, PlayerOf(v))'
  BY RequestsCurrent DEF FollowInv
<1>0. TypeOK /\ TypeOK' /\ u \in Users /\ v \in Users
  BY TypeStep DEF TypeInv, TypeOK, RegistryTypeOK
<1>same. ASSUME clean, u \in mUserIDDictionary \ joining, v \in mUserIDDictionary \ joining,
                stalled \subseteq stalled', Grows(u),
                UNCHANGED connected, session'[v] = session[v]
         PROVE  Told(u, PlayerOf(v))'
  <2>1. Told(u, PlayerOf(v))
    BY <1>0, <1>same, AttentiveBefore DEF FollowInv
  <2> QED
    BY <1>same, <2>1 DEF Told, Grows, PlayerOf
<1>1. ASSUME NEW w \in Users, Begin(w)
      PROVE  Told(u, PlayerOf(v))'
  <2>1. /\ clean /\ w \notin mUserIDDictionary
        /\ UNCHANGED <<sent, stalled, mUserIDDictionary, joining>>
    BY <1>1 DEF Begin, Forgotten, lineVars, sendVars, registryVars
  <2>2. connected'[u] = connected[u] /\ session'[v] = session[v]
    BY <1>0, <1>1, <2>1 DEF Begin, Network!Begin, TypeOK
  <2> QED
    BY <2>1, <2>2 DEF FollowInv, Attentive, Reached, Told, PlayerOf
<1>2. ASSUME NEW w \in Users, OnConnect(w) \/ OnClose(w)
      PROVE  Told(u, PlayerOf(v))'
  BY <1>2, <1>same DEF OnConnect, OnClose, PushSystemPacket, Network!PushConnect,
                       Network!PushDisconnect, Network!Push, sendVars, registryVars, Grows
<1>3. ASSUME NEW w \in Users, End(w)
      PROVE  Told(u, PlayerOf(v))'
  <2>1. w # u
    BY <1>0, <1>3 DEF End, Network!End, TypeOK, Attentive, Reached
  <2>2. /\ clean /\ stalled \subseteq stalled' /\ UNCHANGED <<mUserIDDictionary, joining, session>>
        /\ sent'[u] = sent[u] /\ connected'[u] = connected[u]
    BY <1>0, <1>3, <2>1 DEF End, Network!End, TypeOK, lineVars, registryVars
  <2> QED
    BY <2>2 DEF FollowInv, Attentive, Reached, Told, PlayerOf
<1>4. ASSUME NEW w \in Users, Move(w)
      PROVE  Told(u, PlayerOf(v))'
  BY <1>4, <1>same DEF Move, networkVars, sendVars, registryVars, Grows
<1>conn. ASSUME NEW w \in Users, Connect(w)
         PROVE  Told(u, PlayerOf(v))'
  <2>1. /\ clean /\ UNCHANGED <<connected, session, sent, stalled>>
        /\ mUserIDDictionary' \ joining' \subseteq mUserIDDictionary \ joining
    BY <1>conn, ConnectEffect DEF networkVars, sendVars
  <2> QED
    BY <1>same, <2>1 DEF Grows
<1>5. ASSUME NEW w \in Users, SendJoin(w)
      PROVE  Told(u, PlayerOf(v))'
  <2>1. /\ UNCHANGED <<connected, session, clean, mUserIDDictionary>>
        /\ stalled \subseteq stalled' /\ joining = {w}
    BY <1>0, <1>5, SendEffect DEF networkVars, registryVars
  <2>2. Grows(u)
    BY <1>0, <1>5, SendGrows
  <2>3. CASE w = u
    <3>1. v \in Others(u) /\ Reached(u)
      BY <2>1, <2>3 DEF Others, Attentive, Reached
    <3> QED
      BY <1>5, <2>3, <3>1, SendTells
  <2>4. CASE w = v
    <3>1. u \in Others(v)
      BY <2>1, <2>4 DEF Others
    <3> QED
      BY <1>5, <2>4, <3>1, SendTells
  <2>5. CASE w # u /\ w # v
    BY <1>same, <2>1, <2>2, <2>5
  <2> QED
    BY <2>3, <2>4, <2>5
<1>6. ASSUME NEW w \in Users, JoinDies(w) \/ Disconnect(w)
      PROVE  Told(u, PlayerOf(v))'
  BY <1>6, <1>same DEF JoinDies, Disconnect, DeleteUser, Handles, Continues, networkVars, sendVars,
                       registryVars, Grows
<1>7. ASSUME Synchronize \/ Answer \/ \E w \in Users : BroadcastPacket(w)
      PROVE  Told(u, PlayerOf(v))'
  BY <1>0, <1>7, <1>same, OffersEffect DEF networkVars, registryVars, Grows
<1>8. CASE UNCHANGED vars
  BY <1>8, <1>same DEF vars, networkVars, lineVars, sendVars, registryVars, Grows
<1> QED
  BY <1>1, <1>2, <1>3, <1>4, <1>conn, <1>5, <1>6, <1>7, <1>8 DEF Next, SystemPacket

(* If the game was always done with the last client of a slot before the     *)
(* slot got the next one, what a registered player asks is handled only when *)
(* those who may get a position have a replica to move.                      *)
THEOREM PositionsAlwaysFollow == Spec => PositionsFollow
<1>1. Init => TypeInv /\ FollowInv
  <2>1. Init => FollowInv
    BY DEF Init, FollowInv, Current, RegistryInit
  <2> QED
    BY <2>1, InitType
<1>2. TypeInv /\ FollowInv /\ [Next]_vars => (TypeInv /\ FollowInv)'
  BY TypeStep, FollowStep
<1>3. ASSUME TypeInv, FollowInv, Next, clean, Len(requests') < Len(requests)
      PROVE  LET p == Head(requests)
             IN  p.index \in mUserIDDictionary
                 => \A u \in Others(p.index) : Attentive(u) => Told(u, p)
  <2>1. requests \in Seq(Player)
    BY <1>3 DEF TypeInv, TypeOK
  <2>2. ~UNCHANGED requests /\ \A p \in Player : requests' # Append(requests, p)
    BY <1>3, <2>1
  <2>3. HandlesRequest
    <3>1. \A u \in Users : PlayerOf(u) \in Player
      BY <1>3 DEF PlayerOf, Player, TypeInv, TypeOK
    <3>2. \A u \in Users : ~Move(u)
      BY <2>2, <3>1 DEF Move
    <3>3. \A u \in Users : ~Begin(u) /\ ~OnConnect(u) /\ ~End(u) /\ ~OnClose(u)
      BY <2>2 DEF Begin, OnConnect, End, OnClose, PushSystemPacket, lineVars
    <3>4. ~SystemPacket
      BY <2>2 DEF SystemPacket, Connect, SendJoin, JoinDies, Disconnect, Handles, Continues
    <3>5. \A u \in Users : ~BroadcastPacket(u)
      BY <2>2 DEF BroadcastPacket, lineVars
    <3> QED
      BY <1>3, <3>2, <3>3, <3>4, <3>5 DEF Next, Synchronize, Answer
  <2>4. /\ requests # <<>> /\ Head(requests) = requests[1] /\ 1 \in DOMAIN requests
        /\ joining = {}
    BY <2>1, <2>3 DEF HandlesRequest
  <2>5. Head(requests) = PlayerOf(Head(requests).index)
    <3>1. Head(requests) \in Player
      BY <2>1, <2>4
    <3> QED
      BY <1>3, <2>4, <3>1 DEF FollowInv, Current, PlayerOf, Player
  <2> QED
    BY <1>3, <2>4, <2>5 DEF FollowInv, Others
<1>4. TypeInv /\ FollowInv /\ [Next]_vars
      => [clean /\ Len(requests') < Len(requests)
            => LET p == Head(requests)
               IN  p.index \in mUserIDDictionary
                   => \A u \in Others(p.index) : Attentive(u) => Told(u, p)]_vars
  BY <1>3
<1> QED
  BY <1>1, <1>2, <1>4, PTL DEF Spec, PositionsFollow

-----------------------------------------------------------------------------
(* Nobody is told twice. *)

Waiting(u) == \E k \in DOMAIN events : events[k] = CONNECT(u)
Handled(u) == Network!Has(u, "CONNECT") /\ ~Waiting(u) /\ u \notin joining

(* One CONNECT of each slot, and none before it has been pushed.             *)
OneConnect ==
  clean => \A u \in Users :
    /\ Waiting(u) => Network!Has(u, "CONNECT")
    /\ \A j, k \in DOMAIN events : events[j] = CONNECT(u) /\ events[k] = CONNECT(u) => j = k
    /\ u \in joining => Network!Has(u, "CONNECT") /\ ~Waiting(u)

(* A client whose CONNECT has not been handled is not known to any other.    *)
UnknownInv ==
  clean => \A u \in Users : ~Handled(u)
    => /\ u \in mUserIDDictionary => u \in joining
       /\ sent[u] = <<>>
       /\ \A v \in Users : ~Told(v, PlayerOf(u))

(* Nobody is told of clients that have not come yet.                         *)
PastInv == \A v \in Users, p \in Player : Told(v, p) => p.session <= session[p.index]

OnceInv == OneConnect /\ UnknownInv /\ PastInv /\ ToldOnce

(* What the actions do to these.                                             *)
LEMMA EventTaken ==
  ASSUME TypeOK, NEW u \in Users, NEW type, Handles(u, type), OneConnect
  PROVE  /\ (\A w \in Users : w \in joining' => w = u /\ type = "CONNECT") => OneConnect'
         /\ \A w \in Users : w # u \/ type # "CONNECT" => (Waiting(w)' <=> Waiting(w))
         /\ clean /\ type = "CONNECT" => Waiting(u) /\ ~Waiting(u)'
<1> DEFINE n == Len(events)
<1>1. /\ n \in Nat \ {0} /\ DOMAIN events = 1..n
      /\ events[1] = [type |-> type, index |-> u]
      /\ DOMAIN events' = 1..(n - 1)
      /\ \A k \in 1..(n - 1) : events'[k] = events[k + 1]
  <2>1. events \in Seq(Event) /\ events # <<>> /\ events' = Tail(events)
    BY DEF TypeOK, Handles
  <2>2. events[1] = [type |-> type, index |-> u]
    BY <2>1 DEF Handles
  <2> QED
    BY <2>1, <2>2
<1>2. UNCHANGED <<pushed, clean>>
  BY DEF Handles, networkVars
<1> HIDE DEF n
<1>3. \A k \in 1..n : k = 1 \/ (k - 1 \in 1..(n - 1) /\ k = (k - 1) + 1)
  BY <1>1
<1>4. \A k \in 1..(n - 1) : k + 1 \in 1..n /\ k + 1 # 1
  BY <1>1
<1>5. \A w \in Users : Waiting(w)' => Waiting(w)
  BY <1>1, <1>4 DEF Waiting, CONNECT
<1>6. ASSUME NEW w \in Users, w # u \/ type # "CONNECT", Waiting(w)
      PROVE  Waiting(w)'
  <2>1. PICK k \in 1..n : events[k] = CONNECT(w)
    BY <1>1, <1>6 DEF Waiting
  <2>2. k # 1
    BY <1>1, <1>6, <2>1 DEF CONNECT
  <2>3. k - 1 \in 1..(n - 1) /\ events'[k - 1] = CONNECT(w)
    BY <1>1, <1>3, <2>1, <2>2
  <2> QED
    BY <1>1, <2>3 DEF Waiting, CONNECT
<1>7. ASSUME clean, type = "CONNECT"
      PROVE  Waiting(u) /\ ~Waiting(u)'
  <2>1. events[1] = CONNECT(u) /\ 1 \in DOMAIN events
    BY <1>1, <1>7 DEF CONNECT
  <2>2. ~Waiting(u)'
    <3>1. SUFFICES ASSUME NEW k \in 1..(n - 1), events'[k] = CONNECT(u)
                   PROVE  FALSE
      BY <1>1 DEF Waiting, CONNECT
    <3>2. events[k + 1] = CONNECT(u) /\ k + 1 \in DOMAIN events /\ k + 1 # 1
      BY <1>1, <1>4, <3>1
    <3> QED
      BY <1>7, <2>1, <3>2 DEF OneConnect
  <2> QED
    BY <2>1, <2>2 DEF Waiting
<1>8. ASSUME \A w \in Users : w \in joining' => w = u /\ type = "CONNECT"
      PROVE  OneConnect'
  <2>3. clean => \A w \in Users : w \in joining' => Network!Has(w, "CONNECT") /\ ~Waiting(w)'
    BY <1>7, <1>8 DEF OneConnect
  <2> SUFFICES ASSUME clean, NEW w \in Users
               PROVE  /\ Waiting(w)' => Network!Has(w, "CONNECT")
                      /\ \A j, k \in 1..(n - 1) :
                           events'[j] = CONNECT(w) /\ events'[k] = CONNECT(w) => j = k
    BY <1>1, <1>2, <2>3 DEF OneConnect, Network!Has, CONNECT
  <2>1. Waiting(w)' => Network!Has(w, "CONNECT")
    BY <1>5 DEF OneConnect
  <2>2. ASSUME NEW j \in 1..(n - 1), NEW k \in 1..(n - 1),
               events'[j] = CONNECT(w), events'[k] = CONNECT(w)
        PROVE  j = k
    <3>1. events[j + 1] = CONNECT(w) /\ events[k + 1] = CONNECT(w)
      BY <1>1, <2>2
    <3>2. j + 1 = k + 1
      BY <1>1, <1>4, <3>1 DEF OneConnect
    <3> QED
      BY <1>1, <3>2
  <2> QED
    BY <2>1, <2>2
<1> QED
  BY <1>5, <1>6, <1>7, <1>8

LEMMA EventAdded ==
  ASSUME TypeOK, NEW u \in Users, NEW type, PushSystemPacket(u, type),
         pushed' = [pushed EXCEPT ![u] = Append(@, type)],
         type = "CONNECT" => ~Network!Has(u, "CONNECT"),
         OneConnect, clean
  PROVE  /\ OneConnect'
         /\ \A w \in Users : Handled(w)' <=> Handled(w)
<1> DEFINE n == Len(events)
           e == [type |-> type, index |-> u]
<1>1. /\ n \in Nat /\ DOMAIN events = 1..n
      /\ DOMAIN events' = 1..(n + 1)
      /\ \A k \in 1..n : events'[k] = events[k]
      /\ events'[n + 1] = e
  BY DEF TypeOK, PushSystemPacket
<1>2. UNCHANGED <<clean, joining>>
  BY DEF PushSystemPacket
<1> HIDE DEF n
<1>3. \A k \in 1..(n + 1) : k \in 1..n \/ k = n + 1
  BY <1>1
<1>4. /\ \A w \in Users : w # u => (Network!Has(w, "CONNECT")' <=> Network!Has(w, "CONNECT"))
      /\ Network!Has(u, "CONNECT")' <=> Network!Has(u, "CONNECT") \/ type = "CONNECT"
  <2>1. \A w \in Users : w # u => pushed'[w] = pushed[w]
    BY DEF TypeOK
  <2> DEFINE s == pushed[u]
             m == Len(s)
  <2>2. /\ m \in Nat /\ DOMAIN s = 1..m /\ DOMAIN pushed'[u] = 1..(m + 1)
        /\ \A k \in 1..m : pushed'[u][k] = s[k]
        /\ pushed'[u][m + 1] = type
    <3>1. s \in Seq({"CONNECT", "DISCONNECT"}) /\ pushed'[u] = Append(s, type)
      BY DEF TypeOK
    <3> QED
      BY <3>1
  <2> HIDE DEF m
  <2>3. \A k \in 1..(m + 1) : k \in 1..m \/ k = m + 1
    BY <2>2
  <2> QED
    BY <2>1, <2>2, <2>3 DEF Network!Has, Network!Range
<1>5. \A w \in Users : Waiting(w)' <=> Waiting(w) \/ (w = u /\ type = "CONNECT")
  <2>1. \A w \in Users : e = CONNECT(w) <=> (w = u /\ type = "CONNECT")
    BY DEF CONNECT
  <2> HIDE DEF e
  <2> QED
    BY <1>1, <1>3, <2>1 DEF Waiting, CONNECT
<1>6. \A w \in Users : Handled(w)' <=> Handled(w)
  BY <1>2, <1>4, <1>5 DEF Handled, OneConnect
<1>7. OneConnect'
  <2> SUFFICES ASSUME NEW w \in Users
               PROVE  /\ Waiting(w)' => Network!Has(w, "CONNECT")'
                      /\ \A j, k \in 1..(n + 1) :
                           events'[j] = CONNECT(w) /\ events'[k] = CONNECT(w) => j = k
                      /\ w \in joining' => Network!Has(w, "CONNECT")' /\ ~Waiting(w)'
    BY <1>1 DEF OneConnect, CONNECT
  <2>1. Waiting(w)' => Network!Has(w, "CONNECT")'
    BY <1>4, <1>5 DEF OneConnect
  <2>2. e = CONNECT(w) => \A k \in 1..n : events'[k] # CONNECT(w)
    BY <1>1 DEF OneConnect, Waiting, CONNECT
  <2>3. \A j, k \in 1..n : events'[j] = CONNECT(w) /\ events'[k] = CONNECT(w) => j = k
    BY <1>1 DEF OneConnect
  <2>4. w \in joining' => Network!Has(w, "CONNECT")' /\ ~Waiting(w)'
    BY <1>2, <1>4, <1>5 DEF OneConnect
  <2> HIDE DEF e
  <2> QED
    BY <1>1, <1>3, <2>1, <2>2, <2>3, <2>4
<1> QED
  BY <1>6, <1>7

(* Who may hear of whom when u joins.                                        *)
LEMMA SendNews ==
  ASSUME TypeInv, NEW u \in Users, SendJoin(u), NEW v \in Users, NEW p, Told(v, p)'
  PROVE  \/ Told(v, p)
         \/ p = PlayerOf(u)
         \/ \E x \in Others(u) : p = PlayerOf(x)
<1>0. TypeOK
  BY DEF TypeInv
<1>1. PICK order \in Orders(Others(u)), garbage \in SUBSET Others(u) :
        /\ Reached(v) => Range(sent'[v])
                           = Range(sent[v]) \union Range(Messages(u, order, garbage)[v])
        /\ ~Reached(v) => sent'[v] = sent[v]
  BY SendGrows
<1> DEFINE m == resReplicatedPlayerGen(p)
<1>2. CASE m \in Range(sent[v])
  BY <1>2 DEF Told
<1>3. CASE m \in Range(Messages(u, order, garbage)[v])
  <2>1. \/ v = u /\ Messages(u, order, garbage)[v] = ToNewcomer(order)
        \/ Messages(u, order, garbage)[v] = <<Garbage>>
        \/ Messages(u, order, garbage)[v] = <<resReplicatedPlayerGen(PlayerOf(u))>>
        \/ Messages(u, order, garbage)[v] = <<>>
    <3>1. u \notin garbage /\ u \notin Others(u) \ garbage
      BY DEF Others
    <3> QED
      BY <3>1 DEF Messages
  <2>2. CASE m \in Range(ToNewcomer(order))
    <3> DEFINE n == Cardinality(Others(u))
    <3>1. n \in Nat
      BY <1>0, UsersAssumption, FS_Subset, FS_CardinalityType DEF Others, TypeOK, RegistryTypeOK
    <3>2. /\ ToNewcomer(order) \in Seq(Message)
          /\ Len(ToNewcomer(order)) = n + 1
          /\ ToNewcomer(order)[1] = resPlayerJoin
          /\ \A k \in 1..n : ToNewcomer(order)[k + 1] = resReplicatedPlayerGen(PlayerOf(order[k]))
      BY <1>0, ToNewcomerType
    <3>3. order \in [1..n -> Others(u)]
      BY DEF Orders
    <3> HIDE DEF n
    <3>4. PICK j \in 1..(n + 1) : ToNewcomer(order)[j] = m
      BY <2>2, <3>1, <3>2 DEF Range
    <3>5. j # 1
      BY <3>2, <3>4 DEF resPlayerJoin, resReplicatedPlayerGen
    <3>6. j - 1 \in 1..n /\ j = (j - 1) + 1
      BY <3>1, <3>4, <3>5
    <3>7. m = resReplicatedPlayerGen(PlayerOf(order[j - 1])) /\ order[j - 1] \in Others(u)
      BY <3>2, <3>3, <3>4, <3>6
    <3> QED
      BY <3>7 DEF resReplicatedPlayerGen
  <2>3. Range(<<Garbage>>) = {Garbage} /\ m # Garbage
    BY DEF Range, Garbage, resReplicatedPlayerGen
  <2>4. Range(<<resReplicatedPlayerGen(PlayerOf(u))>>) = {resReplicatedPlayerGen(PlayerOf(u))}
    BY DEF Range
  <2>5. m = resReplicatedPlayerGen(PlayerOf(u)) => p = PlayerOf(u)
    BY DEF resReplicatedPlayerGen
  <2>6. Range(<<>>) = {}
    BY DEF Range
  <2> HIDE DEF m
  <2> QED
    BY <1>3, <2>1, <2>2, <2>3, <2>4, <2>5, <2>6
<1> QED
  BY <1>1, <1>2, <1>3 DEF Told

(* What u and the others get has no message twice.                           *)
LEMMA SendOnce ==
  ASSUME TypeInv, NEW u \in Users, SendJoin(u), clean, UnknownInv, ToldOnce, ~Handled(u)
  PROVE  ToldOnce'
<1> DEFINE Distinct(s) == \A j, k \in DOMAIN s : s[j] = s[k] /\ s[j] # Garbage => j = k
<1>0. TypeOK
  BY DEF TypeInv
<1>1. PICK order \in Orders(Others(u)), garbage \in SUBSET Others(u) :
        sent' = [x \in Users |-> IF Reached(x)
                                 THEN sent[x] \o Messages(u, order, garbage)[x] ELSE sent[x]]
  BY <1>0, SendEffect
<1>2. \A v \in Users : Distinct(sent[v])
  BY DEF ToldOnce
<1> SUFFICES ASSUME NEW v \in Users
             PROVE  Distinct(sent'[v])
  BY DEF ToldOnce
<1> HIDE DEF Distinct
<1>3. CASE ~Reached(v)
  BY <1>1, <1>2, <1>3
<1>4. CASE v = u /\ Reached(v)
  <2> DEFINE n == Cardinality(Others(u))
             t == ToNewcomer(order)
  <2>1. n \in Nat
    BY <1>0, UsersAssumption, FS_Subset, FS_CardinalityType DEF Others, TypeOK, RegistryTypeOK
  <2>2. /\ t \in Seq(Message) /\ Len(t) = n + 1
        /\ t[1] = resPlayerJoin
        /\ \A k \in 1..n : t[k + 1] = resReplicatedPlayerGen(PlayerOf(order[k]))
    BY <1>0, ToNewcomerType
  <2>3. order \in [1..n -> Others(u)] /\ \A j, k \in 1..n : order[j] = order[k] => j = k
    BY DEF Orders, IsInjective
  <2>4. sent'[v] = t
    <3>1. u \notin garbage /\ u \notin Others(u) \ garbage
      BY DEF Others
    <3>2. Messages(u, order, garbage)[u] = t
      BY <3>1 DEF Messages
    <3>3. sent[u] = <<>>
      BY DEF UnknownInv
    <3> HIDE DEF t
    <3>4. <<>> \o t = t
      BY <2>2
    <3> QED
      BY <1>1, <1>4, <3>2, <3>3, <3>4
  <2> HIDE DEF n, t
  <2>5. \A k \in 2..(n + 1) : /\ k - 1 \in 1..n
                              /\ t[k] = resReplicatedPlayerGen(PlayerOf(order[k - 1]))
    <3> SUFFICES ASSUME NEW k \in 2..(n + 1)
                 PROVE  /\ k - 1 \in 1..n
                        /\ t[k] = resReplicatedPlayerGen(PlayerOf(order[k - 1]))
      OBVIOUS
    <3>1. k - 1 \in 1..n /\ k = (k - 1) + 1
      BY <2>1
    <3> QED
      BY <2>2, <3>1
  <2>6. ASSUME NEW j \in 1..(n + 1), NEW k \in 1..(n + 1), t[j] = t[k]
        PROVE  j = k
    <3>1. j = 1 <=> k = 1
      <4>1. \A i \in 2..(n + 1) : t[i] # resPlayerJoin
        <5>1. \A p : resReplicatedPlayerGen(p) # resPlayerJoin
          <6> SUFFICES ASSUME NEW p
                       PROVE  resReplicatedPlayerGen(p).type # resPlayerJoin.type
            OBVIOUS
          <6> QED
            BY DEF resPlayerJoin, resReplicatedPlayerGen
        <5> QED
          BY <2>5, <5>1
      <4>2. \A i \in 1..(n + 1) : i = 1 \/ i \in 2..(n + 1)
        BY <2>1
      <4> QED
        BY <2>2, <2>6, <4>1, <4>2
    <3>2. CASE j # 1
      <4>1. j \in 2..(n + 1) /\ k \in 2..(n + 1)
        BY <2>1, <3>1, <3>2
      <4>2. resReplicatedPlayerGen(PlayerOf(order[j - 1])) = resReplicatedPlayerGen(PlayerOf(order[k - 1]))
        BY <2>5, <2>6, <4>1
      <4>3. order[j - 1] = order[k - 1]
        BY <4>2 DEF resReplicatedPlayerGen, PlayerOf
      <4>4. j - 1 = k - 1
        BY <2>3, <2>5, <4>1, <4>3
      <4> QED
        BY <2>1, <4>4
    <3> QED
      BY <3>1, <3>2
  <2>7. DOMAIN t = 1..(n + 1)
    BY <2>1, <2>2
  <2> QED
    BY <2>4, <2>6, <2>7 DEF Distinct
<1>5. CASE v # u /\ Reached(v)
  <2> DEFINE s == sent[v]
             t == Messages(u, order, garbage)[v]
             n == Len(s)
  <2>1. /\ s \in Seq(Message)
        /\ t \in {<<Garbage>>, <<resReplicatedPlayerGen(PlayerOf(u))>>, <<>>}
    BY <1>0, <1>5 DEF Messages, TypeOK
  <2>2. \A k \in DOMAIN s : s[k] # resReplicatedPlayerGen(PlayerOf(u))
    BY DEF UnknownInv, Told, Range
  <2>3. sent'[v] = s \o t /\ Distinct(s)
    BY <1>1, <1>2, <1>5
  <2> HIDE DEF s, t
  <2>4. CASE t = <<>>
    BY <2>1, <2>3, <2>4
  <2>5. ASSUME NEW m, t = <<m>>, \A k \in DOMAIN s : s[k] = m => m = Garbage
        PROVE  Distinct(s \o t)
    <3>1. /\ n \in Nat /\ DOMAIN s = 1..n /\ DOMAIN (s \o t) = 1..(n + 1)
          /\ \A k \in 1..n : (s \o t)[k] = s[k]
          /\ (s \o t)[n + 1] = m
      BY <2>1, <2>5
    <3> HIDE DEF n
    <3>2. \A k \in 1..(n + 1) : k \in 1..n \/ k = n + 1
      BY <3>1
    <3> QED
      BY <2>3, <2>5, <3>1, <3>2 DEF Distinct
  <2>6. CASE t = <<Garbage>>
    BY <2>3, <2>5, <2>6
  <2>7. CASE t = <<resReplicatedPlayerGen(PlayerOf(u))>>
    BY <2>2, <2>3, <2>5, <2>7
  <2> QED
    BY <2>1, <2>4, <2>6, <2>7
<1> QED
  BY <1>3, <1>4, <1>5

LEMMA PlayersAreOf ==
  ASSUME TypeOK, NEW u \in Users
  PROVE  /\ PlayerOf(u) \in Player
         /\ PlayerOf(u).index = u /\ PlayerOf(u).session = session[u]
  BY DEF PlayerOf, Player, TypeOK

LEMMA PastStep == TypeInv /\ PastInv /\ [Next]_vars => PastInv'
<1> SUFFICES ASSUME TypeInv, PastInv, [Next]_vars, NEW v \in Users, NEW p \in Player, Told(v, p)'
             PROVE  p.session <= session'[p.index]
  BY DEF PastInv
<1>0. TypeOK
  BY DEF TypeInv
<1>1. p.index \in Users /\ p.session \in Nat
  BY DEF Player
<1>same. ASSUME sent'[v] = sent[v] \/ sent'[v] = <<>>, UNCHANGED session
         PROVE  p.session <= session'[p.index]
  BY <1>same DEF PastInv, Told, Range
<1>2. ASSUME NEW u \in Users, Begin(u)
      PROVE  p.session <= session'[p.index]
  <2>1. session'[p.index] \in {session[p.index], session[p.index] + 1} /\ session[p.index] \in Nat
    BY <1>0, <1>1, <1>2 DEF Begin, TypeOK
  <2>2. p.session <= session[p.index]
    BY <1>2 DEF PastInv, Told, Begin, sendVars
  <2> QED
    BY <1>1, <2>1, <2>2
<1>3. ASSUME NEW u \in Users, OnConnect(u) \/ OnClose(u)
      PROVE  p.session <= session'[p.index]
  BY <1>3, <1>same DEF OnConnect, OnClose, PushSystemPacket, sendVars
<1>4. ASSUME NEW u \in Users, End(u)
      PROVE  p.session <= session'[p.index]
  BY <1>0, <1>4, <1>same DEF End, TypeOK
<1>5. ASSUME NEW u \in Users, Move(u)
      PROVE  p.session <= session'[p.index]
  BY <1>5, <1>same DEF Move, networkVars, sendVars
<1>6. ASSUME NEW u \in Users, SendJoin(u)
      PROVE  p.session <= session'[p.index]
  <2>1. UNCHANGED session /\ Others(u) \subseteq Users /\ session \in [Users -> Nat]
    BY <1>0, <1>6, SendEffect DEF networkVars, Others, TypeOK, RegistryTypeOK
  <2>2. CASE Told(v, p)
    BY <2>1, <2>2 DEF PastInv
  <2>3. CASE \E x \in Users : p = PlayerOf(x)
    BY <1>0, <2>1, <2>3, PlayersAreOf
  <2> QED
    BY <1>6, <2>1, <2>2, <2>3, SendNews
<1>7. ASSUME NEW u \in Users, Connect(u) \/ JoinDies(u) \/ Disconnect(u)
      PROVE  p.session <= session'[p.index]
  BY <1>7, <1>same DEF Connect, JoinDies, Disconnect, Handles, Continues, networkVars,
                       sendVars
<1>8. ASSUME Synchronize \/ Answer \/ \E w \in Users : BroadcastPacket(w)
      PROVE  p.session <= session'[p.index]
  BY <1>0, <1>8, <1>same, OffersEffect DEF networkVars
<1>9. CASE UNCHANGED vars
  BY <1>9, <1>same DEF vars, networkVars, sendVars
<1> QED
  BY <1>2, <1>3, <1>4, <1>5, <1>6, <1>7, <1>8, <1>9 DEF Next, SystemPacket

LEMMA OnceStep == TypeInv /\ OnceInv /\ [Next]_vars => OnceInv'
<1> SUFFICES ASSUME TypeInv, OnceInv, [Next]_vars, clean'
             PROVE  OneConnect' /\ UnknownInv' /\ ToldOnce'
  BY PastStep DEF OnceInv, OneConnect, UnknownInv, ToldOnce
<1> DEFINE Goal == OneConnect' /\ UnknownInv' /\ ToldOnce'
<1>0. TypeOK /\ OneConnect /\ UnknownInv /\ ToldOnce /\ PastInv
  BY DEF TypeInv, OnceInv
<1>same. ASSUME clean, OneConnect', UNCHANGED session,
                \A v \in Users : sent'[v] \in {sent[v], <<>>},
                \A v \in Users : ~Handled(v)'
                    => /\ ~Handled(v)
                       /\ v \in mUserIDDictionary' \ joining' => v \in mUserIDDictionary \ joining
         PROVE  Goal
  <2>1. ToldOnce'
    BY <1>0, <1>same DEF ToldOnce
  <2>2. UnknownInv'
    <3> SUFFICES ASSUME NEW u \in Users, ~Handled(u)'
                 PROVE  /\ u \in mUserIDDictionary' => u \in joining'
                        /\ sent'[u] = <<>>
                        /\ \A v \in Users : ~Told(v, PlayerOf(u))'
      BY DEF UnknownInv
    <3>1. /\ u \in mUserIDDictionary => u \in joining
          /\ sent[u] = <<>> /\ \A v \in Users : ~Told(v, PlayerOf(u))
      BY <1>0, <1>same DEF UnknownInv
    <3>2. \A v \in Users : ~Told(v, PlayerOf(u))'
      BY <1>same, <3>1 DEF Told, PlayerOf, Range
    <3> QED
      BY <1>same, <3>1, <3>2
  <2> QED
    BY <1>same, <2>1, <2>2
<1>quiet. ASSUME clean, UNCHANGED <<session, sent, events, joining, pushed, mUserIDDictionary>>
          PROVE  Goal
  <2>1. OneConnect' /\ \A v \in Users : Handled(v)' <=> Handled(v)
    BY <1>0, <1>quiet DEF OneConnect, Handled, Waiting, CONNECT, Network!Has
  <2> QED
    BY <1>same, <1>quiet, <2>1
<1>1. ASSUME NEW u \in Users, Begin(u)
      PROVE  Goal
  <2>1. /\ clean /\ Forgotten(u) /\ ~connected[u]
        /\ UNCHANGED <<events, joining, sent, mUserIDDictionary>>
        /\ session' = [session EXCEPT ![u] = @ + 1]
        /\ pushed' = [pushed EXCEPT ![u] = <<>>]
    BY <1>1 DEF Begin, Network!Begin, sendVars, lineVars, registryVars
  <2>2. \A v \in Users : v # u => /\ session'[v] = session[v]
                                  /\ Network!Has(v, "CONNECT")' = Network!Has(v, "CONNECT")
    BY <1>0, <2>1 DEF TypeOK, Network!Has
  <2>3. ~Waiting(u) /\ u \notin joining
    BY <1>0, <2>1 DEF Waiting, Forgotten, CONNECT, TypeOK
  <2>4. OneConnect'
    BY <1>0, <2>1, <2>2, <2>3 DEF OneConnect, Waiting, CONNECT
  <2>5. ToldOnce'
    BY <1>0, <2>1 DEF ToldOnce
  <2>6. ASSUME NEW v \in Users, ~Handled(v)'
        PROVE  /\ v \in mUserIDDictionary' => v \in joining'
               /\ sent'[v] = <<>>
               /\ \A w \in Users : ~Told(w, PlayerOf(v))'
    <3>1. CASE v = u
      <4>1. sent[u] = <<>> /\ u \notin mUserIDDictionary
        BY <2>1 DEF TypeInv, SentInv, Forgotten
      <4>2. session[u] \in Nat /\ session'[u] = session[u] + 1
        BY <1>0, <2>1 DEF TypeOK
      <4> DEFINE q == [index |-> u, session |-> session[u] + 1]
      <4>3. q \in Player /\ q.index = u /\ q.session = session[u] + 1
        BY <4>2 DEF Player
      <4> HIDE DEF q
      <4>4. \A w \in Users : ~Told(w, q)
        BY <1>0, <4>2, <4>3 DEF PastInv
      <4>5. PlayerOf(u)' = q
        BY <4>2 DEF PlayerOf, q
      <4> QED
        BY <2>1, <3>1, <4>1, <4>4, <4>5 DEF Told
    <3>2. CASE v # u
      <4>1. ~Handled(v)
        BY <2>1, <2>2, <2>6, <3>2 DEF Handled, Waiting, CONNECT
      <4> QED
        BY <1>0, <2>1, <2>2, <3>2, <4>1 DEF UnknownInv, Told, PlayerOf
    <3> QED
      BY <3>1, <3>2
  <2> QED
    BY <2>4, <2>5, <2>6 DEF UnknownInv
<1>2. ASSUME NEW u \in Users, OnConnect(u) \/ OnClose(u)
      PROVE  Goal
  <2>1. PICK type \in {"CONNECT", "DISCONNECT"} :
          /\ PushSystemPacket(u, type)
          /\ pushed' = [pushed EXCEPT ![u] = Append(@, type)]
          /\ type = "CONNECT" => ~Network!Has(u, "CONNECT")
    BY <1>2 DEF OnConnect, OnClose, Network!PushConnect, Network!PushDisconnect, Network!Push
  <2>2. clean /\ UNCHANGED <<session, sent, joining, mUserIDDictionary>>
    BY <2>1 DEF PushSystemPacket, sendVars, registryVars
  <2>3. OneConnect' /\ \A w \in Users : Handled(w)' <=> Handled(w)
    BY <1>0, <2>1, <2>2, EventAdded
  <2> QED
    BY <1>same, <2>2, <2>3
<1>3. ASSUME NEW u \in Users, End(u)
      PROVE  Goal
  <2>1. /\ clean /\ UNCHANGED <<session, events, joining, pushed, mUserIDDictionary>>
        /\ \A v \in Users : sent'[v] \in {sent[v], <<>>}
    BY <1>0, <1>3 DEF End, Network!End, lineVars, registryVars, TypeOK
  <2>2. OneConnect' /\ \A v \in Users : Handled(v)' <=> Handled(v)
    BY <1>0, <2>1 DEF OneConnect, Handled, Waiting, CONNECT, Network!Has
  <2> QED
    BY <1>same, <2>1, <2>2
<1>4. ASSUME NEW u \in Users, Move(u)
      PROVE  Goal
  BY <1>4, <1>quiet DEF Move, networkVars, sendVars, registryVars
<1>conn. ASSUME NEW u \in Users, Connect(u)
         PROVE  Goal
  <2>1. /\ clean /\ UNCHANGED <<session, pushed, sent>>
        /\ mUserIDDictionary' = mUserIDDictionary \union {u}
        /\ Handles(u, "CONNECT") /\ joining = {} /\ joining' = {u}
    BY <1>conn, ConnectEffect DEF networkVars, sendVars
  <2>2. /\ OneConnect' /\ Waiting(u) /\ ~Waiting(u)'
        /\ \A w \in Users : w # u => (Waiting(w)' <=> Waiting(w))
    BY <1>0, <2>1, EventTaken
  <2>3. \A w \in Users : Handled(w)' <=> Handled(w)
    BY <2>1, <2>2 DEF Handled, Network!Has
  <2> QED
    BY <1>same, <2>1, <2>2, <2>3
<1>5. ASSUME NEW u \in Users, SendJoin(u)
      PROVE  Goal
  <2>1. /\ UNCHANGED <<session, pushed, events, mUserIDDictionary, clean>>
        /\ joining = {u} /\ joining' = {}
    BY <1>0, <1>5, SendEffect DEF networkVars, registryVars
  <2>2. OneConnect'
    BY <1>0, <2>1 DEF OneConnect, Waiting, CONNECT, Network!Has
  <2>3. /\ ~Handled(u) /\ Handled(u)'
        /\ \A w \in Users : w # u => (Handled(w)' <=> Handled(w))
    BY <1>0, <2>1 DEF Handled, OneConnect, Waiting, CONNECT, Network!Has
  <2>4. ToldOnce'
    BY <1>0, <1>5, <2>1, <2>3, SendOnce
  <2>5. ASSUME NEW w \in Users, ~Handled(w)'
        PROVE  /\ w \in mUserIDDictionary' => w \in joining'
               /\ sent'[w] = <<>>
               /\ \A v \in Users : ~Told(v, PlayerOf(w))'
    <3>1. w # u /\ ~Handled(w)
      BY <2>3, <2>5
    <3>2. w \notin mUserIDDictionary /\ sent[w] = <<>> /\ \A v \in Users : ~Told(v, PlayerOf(w))
      BY <1>0, <2>1, <3>1 DEF UnknownInv
    <3>3. w \notin Others(u) \union {u}
      BY <3>1, <3>2 DEF Others
    <3>4. sent'[w] = <<>>
      BY <1>5, <3>2, <3>3, SendFirst
    <3>5. \A x \in Others(u) \union {u} : PlayerOf(x) # PlayerOf(w)
      BY <3>3 DEF PlayerOf
    <3>6. \A v \in Users : ~Told(v, PlayerOf(w))'
      <4>1. SUFFICES ASSUME NEW v \in Users, Told(v, PlayerOf(w))'
                     PROVE  FALSE
        OBVIOUS
      <4> DEFINE p == PlayerOf(w)
      <4>2. Told(v, p)'
        BY <2>1, <4>1 DEF PlayerOf
      <4>3. \/ Told(v, p) \/ p = PlayerOf(u) \/ \E x \in Others(u) : p = PlayerOf(x)
        <5>1. PlayerOf(w)' = PlayerOf(w)
          BY <2>1 DEF PlayerOf
        <5>2. resReplicatedPlayerGen(PlayerOf(w)) \in Range(sent'[v])
          BY <4>1, <5>1 DEF Told
        <5>3. \A q : resReplicatedPlayerGen(q) \in Range(sent'[v])
                => \/ Told(v, q) \/ q = PlayerOf(u) \/ \E x \in Others(u) : q = PlayerOf(x)
          BY <1>5, SendNews DEF Told
        <5> QED
          BY <5>2, <5>3
      <4> QED
        BY <3>2, <3>5, <4>3
    <3> QED
      BY <2>1, <3>1, <3>2, <3>4, <3>6
  <2> QED
    BY <2>2, <2>4, <2>5 DEF UnknownInv
<1>6. ASSUME NEW u \in Users, JoinDies(u)
      PROVE  Goal
  BY <1>6, <1>quiet DEF JoinDies, Continues, networkVars, registryVars
<1>7. ASSUME NEW u \in Users, Disconnect(u)
      PROVE  Goal
  <2>1. /\ Handles(u, "DISCONNECT") /\ clean /\ joining = {} /\ joining' = {}
        /\ UNCHANGED <<session, pushed, sent>>
        /\ mUserIDDictionary' = mUserIDDictionary \ {u}
    BY <1>7 DEF Disconnect, DeleteUser, Handles, networkVars, sendVars
  <2>2. OneConnect' /\ \A w \in Users : Waiting(w)' <=> Waiting(w)
    BY <1>0, <2>1, EventTaken
  <2>3. \A w \in Users : Handled(w)' <=> Handled(w)
    BY <2>1, <2>2 DEF Handled, Network!Has
  <2> QED
    BY <1>same, <2>1, <2>2, <2>3
<1>8. ASSUME Synchronize \/ Answer \/ \E w \in Users : BroadcastPacket(w)
      PROVE  Goal
  BY <1>0, <1>8, <1>quiet, OffersEffect DEF networkVars, registryVars
<1>9. CASE UNCHANGED vars
  BY <1>9, <1>quiet DEF vars, networkVars, lineVars, sendVars, registryVars
<1> QED
  BY <1>1, <1>2, <1>3, <1>4, <1>conn, <1>5, <1>6, <1>7, <1>8, <1>9 DEF Next, SystemPacket

(* If the game was always done with the last client of a slot before the     *)
(* slot got the next one, no client gets two replicas of a player.           *)
THEOREM AlwaysToldOnce == Spec => []ToldOnce
<1>1. Init => TypeInv /\ OnceInv
  <2>1. Init => OneConnect /\ ToldOnce /\ PastInv
    BY DEF Init, OneConnect, Waiting, ToldOnce, PastInv, Told, Range
  <2>2. Init => UnknownInv
    BY DEF Init, Network!Init, RegistryInit, UnknownInv, Handled, Waiting, Network!Has,
           Network!Range, Told, Range
  <2> QED
    BY <2>1, <2>2, InitType DEF OnceInv
<1>2. TypeInv /\ OnceInv /\ [Next]_vars => (TypeInv /\ OnceInv)'
  BY TypeStep, OnceStep
<1>3. OnceInv => ToldOnce
  BY DEF OnceInv
<1> QED
  BY <1>1, <1>2, <1>3, PTL DEF Spec
=============================================================================
