------------------------- MODULE PacketManagerProofs -------------------------
(***************************************************************************)
(* Proofs about PacketManager, for any set of slots, any bound on the      *)
(* number of packets and any order in which the network calls it.          *)
(***************************************************************************)
EXTENDS PacketManager, CountingProofs

USE UsersAssumption, MaxPacketsAssumption, NoPacketAssumption

RegistryCallbacks == {"RConnection.Connect", "RConnection.Disconnect"}

ConnectTodo == { <<"RConnection.Connect", "RReplicationPlayer.Join">>,
                 <<"RReplicationPlayer.Join">>, <<>> }

DisconnectTodo == { <<"RConnection.Disconnect", "RIenventory.Disconnect">>,
                    <<"RIenventory.Disconnect">>, <<>> }

RequestTodo(t) == t = <<>> \/ \E c \in Callback :
                    /\ c \notin RegistryCallbacks \union {"RReplicationPlayer.Join"}
                    /\ t = <<c>>

-----------------------------------------------------------------------------
LEMMA ShortSequences ==
  ASSUME NEW S, NEW c \in S, NEW d \in S
  PROVE  <<>> \in Seq(S) /\ <<c>> \in Seq(S) /\ <<c, d>> \in Seq(S)
OBVIOUS

(* The callbacks of the two connection events, and of any other type. *)
LEMMA RoutesType ==
  /\ CallbacksOf("SYSTEM_USER_CONNECT")
       = <<"RConnection.Connect", "RReplicationPlayer.Join">>
  /\ CallbacksOf("SYSTEM_USER_DISCONNECT")
       = <<"RConnection.Disconnect", "RIenventory.Disconnect">>
  /\ \A type \in RequestTypes \ SystemTypes : RequestTodo(CallbacksOf(type))
  /\ \A type \in RequestTypes \union SystemTypes : CallbacksOf(type) \in Seq(Callback)
<1>1. /\ CallbacksOf("SYSTEM_USER_CONNECT")
           = <<"RConnection.Connect", "RReplicationPlayer.Join">>
      /\ CallbacksOf("SYSTEM_USER_DISCONNECT")
           = <<"RConnection.Disconnect", "RIenventory.Disconnect">>
  BY DEF CallbacksOf, Routes
<1>2. \A type \in DOMAIN Routes : \A i \in DOMAIN Routes[type] : Routes[type][i] \in Callback
  BY DEF Callback
<1>3. /\ "RConnection.Connect" \in Callback
      /\ "RReplicationPlayer.Join" \in Callback
      /\ "RConnection.Disconnect" \in Callback
      /\ "RIenventory.Disconnect" \in Callback
  BY <1>2 DEF Routes
<1>4. ASSUME NEW type \in RequestTypes \ SystemTypes
      PROVE  RequestTodo(CallbacksOf(type))
  <2>1. CASE type \notin DOMAIN Routes
    BY <2>1 DEF CallbacksOf, RequestTodo
  <2>2. CASE type \in DOMAIN Routes
    <3>1. type \notin SystemTypes
      OBVIOUS
    <3>2. type \in {"reqPing", "reqPlayerPosition", "reqReplicatedPlayerDes",
                    "reqNotifyPlayerName", "reqShopBuy", "reqAddToItem",
                    "reqShopItemList"}
      BY <2>2, <3>1 DEF Routes, SystemTypes
    <3>3. \E c : /\ Routes[type] = <<c>>
                 /\ c \notin RegistryCallbacks \union {"RReplicationPlayer.Join"}
      <4>1. CASE type = "reqPing"
        BY <4>1 DEF Routes, RegistryCallbacks
      <4>2. CASE type = "reqPlayerPosition"
        BY <4>2 DEF Routes, RegistryCallbacks
      <4>3. CASE type = "reqReplicatedPlayerDes"
        BY <4>3 DEF Routes, RegistryCallbacks
      <4>4. CASE type = "reqNotifyPlayerName"
        BY <4>4 DEF Routes, RegistryCallbacks
      <4>5. CASE type = "reqShopBuy"
        BY <4>5 DEF Routes, RegistryCallbacks
      <4>6. CASE type = "reqAddToItem"
        BY <4>6 DEF Routes, RegistryCallbacks
      <4>7. CASE type = "reqShopItemList"
        BY <4>7 DEF Routes, RegistryCallbacks
      <4> QED
        BY ONLY <3>2, <4>1, <4>2, <4>3, <4>4, <4>5, <4>6, <4>7
    <3>4. PICK c : /\ Routes[type] = <<c>>
                   /\ c \notin RegistryCallbacks \union {"RReplicationPlayer.Join"}
      BY <3>3
    <3>5. c \in Callback
      <4>1. 1 \in DOMAIN Routes[type] /\ Routes[type][1] = c
        BY <3>4
      <4> QED
        BY <1>2, <2>2, <4>1
    <3> QED
      BY <2>2, <3>4, <3>5 DEF CallbacksOf, RequestTodo
  <2> QED
    BY <2>1, <2>2
<1>5. ASSUME NEW type \in RequestTypes \union SystemTypes
      PROVE  CallbacksOf(type) \in Seq(Callback)
  <2>1. CASE type \in RequestTypes \ SystemTypes
    <3>1. RequestTodo(CallbacksOf(type))
      BY <1>4, <2>1
    <3>2. CASE CallbacksOf(type) = <<>>
      BY <3>2
    <3>3. CASE \E c \in Callback : CallbacksOf(type) = <<c>>
      BY <3>3, ShortSequences
    <3> QED
      BY <3>1, <3>2, <3>3 DEF RequestTodo
  <2>2. CASE type \in SystemTypes
    <3>1. CASE type = "SYSTEM_USER_CONNECT"
      BY <1>1, <1>3, <3>1, ShortSequences
    <3>2. CASE type = "SYSTEM_USER_DISCONNECT"
      BY <1>1, <1>3, <3>2, ShortSequences
    <3> QED
      BY <2>2, <3>1, <3>2 DEF SystemTypes
  <2> QED
    BY <2>1, <2>2
<1> QED
  BY <1>1, <1>4, <1>5

-----------------------------------------------------------------------------
(* Type correctness.  It is not inductive by itself: a callback is run for *)
(* the user of the packet being handled, so there must be such a packet.   *)

QueueTypes ==
  /\ \A u \in Users : \A i \in 1..Len(mPacketQueue[u]) :
       /\ mPacketQueue[u][i].user = u
       /\ mPacketQueue[u][i].type \in RequestTypes
       /\ mPacketQueue[u][i].type \in SystemTypes => u \in imposed
  /\ \A i \in 1..Len(mSystemPacketQueue) : mSystemPacketQueue[i].type \in SystemTypes

(* What the process thread holds at each point of its loop. *)
ThreadState ==
  /\ pc \in {"handleUser", "handleSystem"} <=> packet # NoPacket
  /\ packet = NoPacket => todo = <<>>
  /\ pc = "handleUser" /\ packet.type \in SystemTypes => packet.user \in imposed
  /\ packet # NoPacket =>
       \/ packet.type \in RequestTypes \ SystemTypes /\ RequestTodo(todo)
       \/ packet.type = "SYSTEM_USER_CONNECT" /\ todo \in ConnectTodo
       \/ packet.type = "SYSTEM_USER_DISCONNECT" /\ todo \in DisconnectTodo

Inv == TypeOK /\ QueueTypes /\ ThreadState

LEMMA NewPacketType ==
  ASSUME TypeOK, created < MaxPackets, NEW u \in Users,
         NEW type \in RequestTypes \union SystemTypes
  PROVE  /\ NewPacket(u, type) \in Packet
         /\ NewPacket(u, type).user = u
         /\ NewPacket(u, type).type = type
  BY DEF TypeOK, NewPacket, Packet

LEMMA InitInv == Init => Inv
<1> SUFFICES ASSUME Init PROVE Inv
  OBVIOUS
<1>1. TypeOK
  BY DEF Init, RegistryInit, TypeOK, RegistryTypeOK, SystemTypes
<1>2. QueueTypes
  BY DEF Init, QueueTypes
<1>3. ThreadState
  BY DEF Init, ThreadState
<1> QED
  BY <1>1, <1>2, <1>3 DEF Inv

LEMMA ReceiveInv ==
  ASSUME Inv, NEW u \in Users, NEW type \in RequestTypes, ReceivePacketData(u, type)
  PROVE  Inv'
<1> DEFINE p == NewPacket(u, type)
<1>1. p \in Packet /\ p.user = u /\ p.type = type
  BY NewPacketType DEF Inv, ReceivePacketData
<1> HIDE DEF p
<1> USE DEF ReceivePacketData
<1>2. /\ mPacketQueue' = [mPacketQueue EXCEPT ![u] = Append(@, p)]
      /\ imposed \subseteq imposed'
      /\ type \in SystemTypes => u \in imposed'
  BY DEF p, Imposes
<1>3. TypeOK'
  <2>1. imposed' \subseteq Users
    BY DEF Inv, TypeOK, Imposes
  <2> QED
    BY <1>1, <1>2, <2>1 DEF Inv, TypeOK, RegistryTypeOK, registryVars, threadVars
<1>4. QueueTypes'
  <2>1. ASSUME NEW v \in Users, NEW i \in 1..Len(mPacketQueue'[v])
        PROVE  /\ mPacketQueue'[v][i].user = v
               /\ mPacketQueue'[v][i].type \in RequestTypes
               /\ mPacketQueue'[v][i].type \in SystemTypes => v \in imposed'
    <3>1. CASE v # u
      BY <1>2, <3>1 DEF Inv, QueueTypes, TypeOK
    <3>2. CASE v = u
      <4>1. mPacketQueue'[u] = Append(mPacketQueue[u], p) /\ mPacketQueue[u] \in Seq(Packet)
        BY <1>2 DEF Inv, TypeOK
      <4>2. \/ i \in 1..Len(mPacketQueue[u]) /\ mPacketQueue'[u][i] = mPacketQueue[u][i]
            \/ mPacketQueue'[u][i] = p
        BY <1>1, <3>2, <4>1
      <4>3. CASE i \in 1..Len(mPacketQueue[u]) /\ mPacketQueue'[u][i] = mPacketQueue[u][i]
        BY <1>2, <3>2, <4>3 DEF Inv, QueueTypes
      <4>4. CASE mPacketQueue'[u][i] = p
        BY <1>1, <1>2, <3>2, <4>4
      <4> QED
        BY <4>2, <4>3, <4>4
    <3> QED
      BY <3>1, <3>2
  <2> QED
    BY <2>1 DEF Inv, QueueTypes
<1>5. ThreadState'
  BY DEF Inv, ThreadState, threadVars
<1> QED
  BY <1>3, <1>4, <1>5 DEF Inv

LEMMA PushSystemInv ==
  ASSUME Inv, NEW u \in Users, NEW type \in SystemTypes, PushSystemPacket(u, type)
  PROVE  Inv'
<1> DEFINE p == NewPacket(u, type)
<1>1. p \in Packet /\ p.user = u /\ p.type = type
  BY NewPacketType DEF Inv, PushSystemPacket
<1> HIDE DEF p
<1> USE DEF PushSystemPacket
<1>2. mSystemPacketQueue' = Append(mSystemPacketQueue, p)
  BY DEF p
<1>3. TypeOK'
  BY <1>1, <1>2 DEF Inv, TypeOK, RegistryTypeOK, registryVars, threadVars
<1>4. QueueTypes'
  BY <1>1, <1>2 DEF Inv, TypeOK, QueueTypes
<1>5. ThreadState'
  BY DEF Inv, ThreadState, threadVars
<1> QED
  BY <1>3, <1>4, <1>5 DEF Inv

(* NextRequest, when there is one, is the head of its user's queue. *)
LEMMA NextRequestFacts ==
  ASSUME Inv, NextRequest # NoPacket
  PROVE  LET u == Head(mInComingPacketUserIndex)
         IN  /\ mInComingPacketUserIndex # <<>>
             /\ u \in Users
             /\ mPacketQueue[u] # <<>>
             /\ NextRequest = Head(mPacketQueue[u])
             /\ NextRequest \in Packet
             /\ NextRequest.user = u
             /\ NextRequest.type \in RequestTypes
             /\ NextRequest.type \in SystemTypes => u \in imposed
<1> DEFINE u == Head(mInComingPacketUserIndex)
<1>1. mInComingPacketUserIndex # <<>> /\ mPacketQueue[u] # <<>>
      /\ NextRequest = Head(mPacketQueue[u])
  BY DEF NextRequest
<1>2. u \in Users
  BY <1>1 DEF Inv, TypeOK
<1>3. mPacketQueue[u] \in Seq(Packet)
  BY <1>2 DEF Inv, TypeOK
<1>4. Head(mPacketQueue[u]) = mPacketQueue[u][1] /\ 1 \in 1..Len(mPacketQueue[u])
  BY <1>1, <1>3
<1> QED
  BY <1>1, <1>2, <1>3, <1>4 DEF Inv, QueueTypes

LEMMA DequeInv == ASSUME Inv, DequePacketData PROVE Inv'
<1> DEFINE u == Head(mInComingPacketUserIndex)
<1>0. UNCHANGED <<mUserIDDictionary, mCurrentUserCnt, mSystemPacketQueue,
                  mIsRunProcessThread, created, lastEvent, imposed>>
  BY DEF DequePacketData, registryVars, historyVars
<1> USE DEF DequePacketData
<1>1. mInComingPacketUserIndex' \in Seq(Users)
  BY DEF Inv, TypeOK
<1>2. CASE NextRequest = NoPacket
  <2>1. mPacketQueue' = mPacketQueue /\ packet' = NoPacket /\ todo' = <<>> /\ pc' = "system"
    BY <1>2 DEF IsHandled
  <2>2. TypeOK'
    <3> HIDE DEF DequePacketData
    <3> QED
      BY <1>0, <1>1, <2>1 DEF Inv, TypeOK, RegistryTypeOK
  <2>3. QueueTypes'
    BY <1>0, <2>1 DEF Inv, QueueTypes
  <2>4. ThreadState'
    BY <2>1 DEF ThreadState
  <2> QED
    BY <2>2, <2>3, <2>4 DEF Inv
<1>3. CASE NextRequest # NoPacket
  <2>1. /\ u \in Users
        /\ mPacketQueue[u] # <<>>
        /\ NextRequest \in Packet
        /\ NextRequest.user = u
        /\ NextRequest.type \in RequestTypes
        /\ NextRequest.type \in SystemTypes => u \in imposed
    BY <1>3, NextRequestFacts
  <2>2. mPacketQueue' = [mPacketQueue EXCEPT ![u] = Tail(@)]
    BY <1>3
  <2>3. /\ CallbacksOf(NextRequest.type) \in Seq(Callback)
        /\ NextRequest.type \notin SystemTypes => RequestTodo(CallbacksOf(NextRequest.type))
        /\ NextRequest.type = "SYSTEM_USER_CONNECT"
             => CallbacksOf(NextRequest.type) \in ConnectTodo
        /\ NextRequest.type = "SYSTEM_USER_DISCONNECT"
             => CallbacksOf(NextRequest.type) \in DisconnectTodo
    BY <2>1, RoutesType DEF ConnectTodo, DisconnectTodo
  <2>4. /\ packet' \in Packet \union {NoPacket}
        /\ todo' \in Seq(Callback)
        /\ pc' \in {"handleUser", "system"}
    BY <2>1, <2>3
  <2>5. mPacketQueue' \in [Users -> Seq(Packet)]
    BY <2>1, <2>2 DEF Inv, TypeOK
  <2>6. TypeOK'
    BY <1>1, <2>4, <2>5 DEF Inv, TypeOK, RegistryTypeOK, registryVars, historyVars
  <2>7. ThreadState'
    <3>1. CASE IsHandled(NextRequest)
      <4>1. /\ packet' = NextRequest /\ packet' # NoPacket
            /\ todo' = CallbacksOf(packet'.type)
            /\ pc' = "handleUser"
            /\ imposed' = imposed
        BY <1>0, <1>3, <3>1
      <4> QED
        BY <2>1, <2>3, <4>1 DEF ThreadState, SystemTypes
    <3>2. CASE ~IsHandled(NextRequest)
      BY <1>3, <3>2 DEF ThreadState
    <3> QED
      BY <3>1, <3>2
  <2>8. QueueTypes'
    <3>1. ASSUME NEW v \in Users, NEW i \in 1..Len(mPacketQueue'[v])
          PROVE  \E j \in 1..Len(mPacketQueue[v]) : mPacketQueue'[v][i] = mPacketQueue[v][j]
      <4>1. CASE v # u
        BY <2>2, <4>1 DEF Inv, TypeOK
      <4>2. CASE v = u
        <5>1. mPacketQueue'[u] = Tail(mPacketQueue[u]) /\ mPacketQueue[u] \in Seq(Packet)
          BY <2>1, <2>2 DEF Inv, TypeOK
        <5>2. i + 1 \in 1..Len(mPacketQueue[u]) /\ mPacketQueue'[u][i] = mPacketQueue[u][i + 1]
          <6> DEFINE q == mPacketQueue[u]
          <6>1. q \in Seq(Packet) /\ q # <<>> /\ i \in 1..Len(Tail(q))
            BY <2>1, <4>2, <5>1
          <6> HIDE DEF q
          <6>2. i + 1 \in 1..Len(q) /\ Tail(q)[i] = q[i + 1]
            BY ONLY <6>1
          <6> QED
            BY <5>1, <6>2 DEF q
        <5> QED
          BY <4>2, <5>2
      <4> QED
        BY <4>1, <4>2
    <3> QED
      BY <1>0, <3>1 DEF Inv, QueueTypes
  <2> QED
    BY <2>6, <2>7, <2>8 DEF Inv
<1> QED
  BY <1>2, <1>3

LEMMA DequeSystemInv == ASSUME Inv, DequeSystemPacketData PROVE Inv'
<1> USE DEF DequeSystemPacketData
<1>1. CASE mSystemPacketQueue = <<>>
  BY <1>1 DEF Inv, TypeOK, RegistryTypeOK, registryVars, historyVars, QueueTypes, ThreadState
<1>2. CASE mSystemPacketQueue # <<>>
  <2> DEFINE p == Head(mSystemPacketQueue)
  <2>1. p \in Packet /\ p.type \in SystemTypes
    BY <1>2 DEF Inv, TypeOK, QueueTypes
  <2>2. CallbacksOf(p.type) \in Seq(Callback)
    BY <2>1, RoutesType
  <2>3. /\ mSystemPacketQueue' = Tail(mSystemPacketQueue)
        /\ packet' = p
        /\ todo' = CallbacksOf(p.type)
        /\ pc' = "handleSystem"
    BY <1>2
  <2>4. mSystemPacketQueue' \in Seq(Packet)
    BY <1>2, <2>3 DEF Inv, TypeOK
  <2>5. TypeOK'
    BY <2>1, <2>2, <2>3, <2>4 DEF Inv, TypeOK, RegistryTypeOK, registryVars, historyVars
  <2>6. QueueTypes'
    BY <1>2, <2>3 DEF Inv, TypeOK, QueueTypes, historyVars
  <2>7. ThreadState'
    <3>1. CASE p.type = "SYSTEM_USER_CONNECT"
      BY <2>1, <2>3, <3>1, RoutesType DEF ThreadState, ConnectTodo
    <3>2. CASE p.type = "SYSTEM_USER_DISCONNECT"
      BY <2>1, <2>3, <3>2, RoutesType DEF ThreadState, DisconnectTodo
    <3> QED
      BY <2>1, <3>1, <3>2 DEF SystemTypes
  <2> QED
    BY <2>5, <2>6, <2>7 DEF Inv
<1> QED
  BY <1>1, <1>2

(* The tail of what is still to be run is again what is still to be run. *)
LEMMA TodoTail ==
  ASSUME NEW t, t # <<>>
  PROVE  /\ RequestTodo(t) => RequestTodo(Tail(t))
         /\ t \in ConnectTodo => Tail(t) \in ConnectTodo
         /\ t \in DisconnectTodo => Tail(t) \in DisconnectTodo
<1>1. \A c : Tail(<<c>>) = <<>>
  OBVIOUS
<1>2. /\ Tail(<<"RConnection.Connect", "RReplicationPlayer.Join">>)
           = <<"RReplicationPlayer.Join">>
      /\ Tail(<<"RConnection.Disconnect", "RIenventory.Disconnect">>)
           = <<"RIenventory.Disconnect">>
  OBVIOUS
<1>3. RequestTodo(t) => RequestTodo(Tail(t))
  BY <1>1 DEF RequestTodo
<1>4. t \in ConnectTodo => Tail(t) \in ConnectTodo
  BY <1>1, <1>2 DEF ConnectTodo
<1>5. t \in DisconnectTodo => Tail(t) \in DisconnectTodo
  BY <1>1, <1>2 DEF DisconnectTodo
<1> QED
  BY <1>3, <1>4, <1>5

LEMMA RegistryEffectType ==
  ASSUME RegistryTypeOK, NEW u \in Users, NEW c, RegistryEffect(c, u)
  PROVE  RegistryTypeOK'
  BY DEF RegistryTypeOK, RegistryEffect, AddUser, DeleteUser, registryVars

LEMMA RunCallbackInv == ASSUME Inv, RunCallback PROVE Inv'
<1> USE DEF RunCallback
<1>1. packet \in Packet /\ packet.user \in Users
  BY DEF Inv, ThreadState, TypeOK, Packet
<1>2. RegistryTypeOK'
  BY <1>1, RegistryEffectType DEF Inv, TypeOK
<1>3. TypeOK'
  BY <1>2 DEF Inv, TypeOK, queueVars, historyVars
<1>4. ThreadState'
  <2>1. UNCHANGED <<pc, packet, imposed>> /\ todo' = Tail(todo) /\ todo # <<>>
    BY DEF historyVars
  <2> HIDE DEF RunCallback
  <2> QED
    BY <1>1, <2>1, TodoTail DEF Inv, ThreadState
<1> QED
  BY <1>3, <1>4 DEF Inv, QueueTypes, queueVars, historyVars

LEMMA NextInv == Inv /\ [Next]_vars => Inv'
<1> SUFFICES ASSUME Inv, [Next]_vars PROVE Inv'
  OBVIOUS
<1>1. CASE Network
  BY <1>1, ReceiveInv, PushSystemInv DEF Network
<1>2. CASE End
  BY <1>2 DEF End, Inv, TypeOK, RegistryTypeOK, QueueTypes, ThreadState,
              registryVars, queueVars, threadVars, historyVars
<1>3. CASE CheckRunning
  BY <1>3 DEF CheckRunning, Inv, TypeOK, RegistryTypeOK, QueueTypes, ThreadState,
              registryVars, queueVars, historyVars
<1>4. CASE DequePacketData
  BY <1>4, DequeInv
<1>5. CASE DequeSystemPacketData
  BY <1>5, DequeSystemInv
<1>6. CASE RunCallback
  BY <1>6, RunCallbackInv
<1>7. CASE FinishPacket
  BY <1>7 DEF FinishPacket, Inv, TypeOK, RegistryTypeOK, QueueTypes, ThreadState,
              registryVars, queueVars, historyVars
<1>8. CASE UNCHANGED vars
  BY <1>8 DEF vars, Inv, TypeOK, RegistryTypeOK, QueueTypes, ThreadState,
              queueVars, threadVars, historyVars
<1> QED
  BY <1>1, <1>2, <1>3, <1>4, <1>5, <1>6, <1>7, <1>8 DEF Next, ProcessPacket

LEMMA SpecInv == Spec => []Inv
  BY InitInv, NextInv, PTL DEF Spec

(* Every variable keeps its type: in particular a callback is only ever    *)
(* run for a packet of a known slot.                                       *)
THEOREM TypeCorrect == Spec => []TypeOK
<1>1. Inv => TypeOK
  BY DEF Inv
<1> QED
  BY SpecInv, <1>1, PTL

-----------------------------------------------------------------------------
(* The two-level queue.  DequePacketData meets an empty user queue only if *)
(* there is no arrival at all.                                             *)
LEMMA DequeFindsPacket ==
  ASSUME Inv, QueuesAgree
  PROVE  NextRequest = NoPacket <=> mInComingPacketUserIndex = <<>>
<1>1. CASE mInComingPacketUserIndex = <<>>
  BY <1>1 DEF NextRequest
<1>2. CASE mInComingPacketUserIndex # <<>>
  <2> DEFINE s == mInComingPacketUserIndex
             u == Head(s)
  <2>1. s \in Seq(Users) /\ u \in Users
    BY <1>2 DEF Inv, TypeOK
  <2>2. Occurrences(s, u) # 0
    BY <1>2, <2>1, RankHead
  <2>3. mPacketQueue[u] # <<>> /\ mPacketQueue[u] \in Seq(Packet)
    BY <2>1, <2>2 DEF QueuesAgree, Inv, TypeOK
  <2>4. NextRequest = Head(mPacketQueue[u])
    BY <1>2, <2>3 DEF NextRequest
  <2>5. Head(mPacketQueue[u]) \in Packet
    BY <2>3
  <2> QED
    BY <1>2, <2>4, <2>5
<1> QED
  BY <1>1, <1>2

LEMMA ReceiveQueues ==
  ASSUME Inv, QueuesAgree, NEW u \in Users, NEW type \in RequestTypes,
         ReceivePacketData(u, type)
  PROVE  QueuesAgree'
<1> DEFINE s == mInComingPacketUserIndex
           p == NewPacket(u, type)
<1>1. /\ s \in Seq(Users)
      /\ s' = Append(s, u)
      /\ mPacketQueue \in [Users -> Seq(Packet)]
      /\ mPacketQueue' = [mPacketQueue EXCEPT ![u] = Append(@, p)]
  BY DEF ReceivePacketData, Inv, TypeOK
<1> HIDE DEF p
<1>2. ASSUME NEW v \in Users
      PROVE  Len(mPacketQueue'[v]) = Occurrences(s', v)
  <2>1. Occurrences(s', v) = Occurrences(s, v) + IF u = v THEN 1 ELSE 0
    BY <1>1, OccurrencesAppend
  <2>2. Len(mPacketQueue'[v]) = Len(mPacketQueue[v]) + IF u = v THEN 1 ELSE 0
    BY <1>1
  <2> QED
    BY <2>1, <2>2 DEF QueuesAgree
<1> QED
  BY <1>2 DEF QueuesAgree

LEMMA DequeQueues ==
  ASSUME Inv, QueuesAgree, DequePacketData
  PROVE  QueuesAgree'
<1>1. CASE mInComingPacketUserIndex = <<>>
  BY <1>1, DequeFindsPacket DEF DequePacketData, QueuesAgree
<1>2. CASE mInComingPacketUserIndex # <<>>
  <2> DEFINE s == mInComingPacketUserIndex
             u == Head(s)
  <2>1. /\ s \in Seq(Users)
        /\ s' = Tail(s)
        /\ mPacketQueue \in [Users -> Seq(Packet)]
        /\ mPacketQueue' = [mPacketQueue EXCEPT ![u] = Tail(@)]
    BY <1>2, DequeFindsPacket DEF DequePacketData, Inv, TypeOK
  <2>2. u \in Users /\ mPacketQueue[u] # <<>>
    BY <1>2, DequeFindsPacket, NextRequestFacts
  <2>3. ASSUME NEW v \in Users
        PROVE  Len(mPacketQueue'[v]) = Occurrences(s', v)
    <3>1. Occurrences(s, v) = Occurrences(s', v) + IF u = v THEN 1 ELSE 0
      BY <1>2, <2>1, OccurrencesTail
    <3>2. Len(mPacketQueue[v]) = Len(mPacketQueue'[v]) + IF u = v THEN 1 ELSE 0
      <4>1. CASE u = v
        <5> DEFINE q == mPacketQueue[v]
        <5>1. q \in Seq(Packet) /\ q # <<>> /\ mPacketQueue'[v] = Tail(q)
          BY <2>1, <2>2, <4>1
        <5> HIDE DEF q
        <5>2. Len(q) = Len(Tail(q)) + 1
          BY <5>1
        <5> QED
          BY <4>1, <5>1, <5>2 DEF q
      <4>2. CASE u # v
        <5>1. mPacketQueue'[v] = mPacketQueue[v] /\ mPacketQueue[v] \in Seq(Packet)
          BY <2>1, <4>2
        <5>2. Len(mPacketQueue[v]) \in Nat
          BY <5>1
        <5> QED
          BY <4>2, <5>1, <5>2
      <4> QED
        BY <4>1, <4>2
    <3>3. Len(mPacketQueue'[v]) \in Nat /\ Occurrences(s', v) \in Nat
      <4>1. mPacketQueue'[v] \in Seq(Packet) /\ s' \in Seq(Users)
        BY DequeInv DEF Inv, TypeOK
      <4>2. Len(mPacketQueue'[v]) \in Nat /\ Len(s') \in Nat
        BY <4>1, LenProperties
      <4>3. Count(s', v, Len(s')) \in Nat
        BY <4>2, CountType
      <4> QED
        BY <4>2, <4>3 DEF Occurrences
    <3>4. Len(mPacketQueue[v]) = Occurrences(s, v)
      BY DEF QueuesAgree
    <3> DEFINE a == Len(mPacketQueue'[v])
               b == Occurrences(s', v)
               k == IF u = v THEN 1 ELSE 0
    <3>5. a \in Nat /\ b \in Nat /\ k \in Nat /\ a + k = b + k
      BY <3>1, <3>2, <3>3, <3>4
    <3> HIDE DEF a, b, k
    <3>6. a = b
      BY <3>5
    <3> QED
      BY <3>6 DEF a, b
  <2> QED
    BY <2>3 DEF QueuesAgree
<1> QED
  BY <1>1, <1>2

LEMMA InitQueues == Init => QueuesAgree
<1>1. \A v : Occurrences(<<>>, v) = 0
  BY CountStep DEF Occurrences
<1> QED
  BY <1>1 DEF Init, QueuesAgree

LEMMA NextQueues == Inv /\ QueuesAgree /\ [Next]_vars => QueuesAgree'
<1> SUFFICES ASSUME Inv, QueuesAgree, [Next]_vars PROVE QueuesAgree'
  OBVIOUS
<1>1. ASSUME NEW u \in Users, NEW type \in RequestTypes, ReceivePacketData(u, type)
      PROVE  QueuesAgree'
  BY <1>1, ReceiveQueues
<1>2. CASE DequePacketData
  BY <1>2, DequeQueues
<1>3. CASE UNCHANGED <<mInComingPacketUserIndex, mPacketQueue>>
  BY <1>3 DEF QueuesAgree
<1>4. \/ \E u \in Users : \E type \in RequestTypes : ReceivePacketData(u, type)
      \/ DequePacketData
      \/ UNCHANGED <<mInComingPacketUserIndex, mPacketQueue>>
  BY DEF Next, Network, PushSystemPacket, End, ProcessPacket, CheckRunning,
         DequeSystemPacketData, RunCallback, FinishPacket, vars, queueVars
<1> QED
  BY <1>1, <1>2, <1>3, <1>4

(* Every arrival index stands for one packet in its user's queue, so no    *)
(* packet is ever stranded in a queue without an index, and no index finds *)
(* its queue empty.                                                        *)
THEOREM QueuesAlwaysAgree == Spec => []QueuesAgree
<1>1. Inv /\ QueuesAgree /\ [Next]_vars => QueuesAgree'
  BY NextQueues
<1> QED
  BY InitQueues, SpecInv, <1>1, PTL DEF Spec

-----------------------------------------------------------------------------
(* PacketManager implements PacketFifo.  The line of the abstraction is    *)
(* Waiting: the i-th arrival and the packet it stands for.                 *)

WaitingDefined ==
  /\ Waiting \in Seq(Packet)
  /\ Len(Waiting) = Len(mInComingPacketUserIndex)
  /\ \A i \in 1..Len(mInComingPacketUserIndex) :
        Rank(mInComingPacketUserIndex, i)
          \in 1..Len(mPacketQueue[mInComingPacketUserIndex[i]])

LEMMA WaitingType == Inv /\ QueuesAgree => WaitingDefined
<1> SUFFICES ASSUME Inv, QueuesAgree PROVE WaitingDefined
  OBVIOUS
<1> DEFINE s == mInComingPacketUserIndex
<1>1. s \in Seq(Users) /\ mPacketQueue \in [Users -> Seq(Packet)] /\ Len(s) \in Nat
  BY DEF Inv, TypeOK
<1>2. ASSUME NEW i \in 1..Len(s)
      PROVE  /\ Rank(s, i) \in 1..Len(mPacketQueue[s[i]])
             /\ mPacketQueue[s[i]][Rank(s, i)] \in Packet
  <2>1. s[i] \in Users
    BY <1>1
  <2>2. Rank(s, i) \in 1..Len(mPacketQueue[s[i]])
    BY <1>1, <2>1, RankRange DEF QueuesAgree
  <2>3. mPacketQueue[s[i]] \in Seq(Packet)
    BY <1>1, <2>1
  <2> QED
    BY <2>2, <2>3, ElementOfSeq
<1>3. Waiting = [i \in 1..Len(s) |-> mPacketQueue[s[i]][Rank(s, i)]]
  BY DEF Waiting
<1> HIDE DEF s
<1>4. Waiting \in [1..Len(s) -> Packet]
  BY <1>2, <1>3
<1>5. Waiting \in Seq(Packet) /\ Len(Waiting) = Len(s)
  <2> DEFINE n == Len(s)
             w == Waiting
  <2>1. n \in Nat /\ w \in [1..n -> Packet]
    BY <1>1, <1>4
  <2> HIDE DEF n, w
  <2>2. w \in Seq(Packet) /\ Len(w) = n
    BY <2>1
  <2> QED
    BY <2>2 DEF n, w
<1> QED
  BY <1>2, <1>5 DEF s, WaitingDefined

(* A packet accepted for one user is the last of the line of all users. *)
LEMMA ReceiveAppends ==
  ASSUME Inv, QueuesAgree, NEW u \in Users, NEW type \in RequestTypes,
         ReceivePacketData(u, type)
  PROVE  NewPacket(u, type) \in Packet /\ Waiting' = Append(Waiting, NewPacket(u, type))
<1> DEFINE s == mInComingPacketUserIndex
           t == Append(s, u)
           p == NewPacket(u, type)
           w == Waiting
<1>1. p \in Packet
  BY NewPacketType DEF Inv, ReceivePacketData
<1>2. /\ s \in Seq(Users)
      /\ s' = t
      /\ mPacketQueue \in [Users -> Seq(Packet)]
      /\ mPacketQueue' = [mPacketQueue EXCEPT ![u] = Append(@, p)]
  BY DEF ReceivePacketData, Inv, TypeOK
<1>3. /\ t \in Seq(Users)
      /\ Len(s) \in Nat
      /\ Len(t) = Len(s) + 1
      /\ \A i \in 1..Len(s) : t[i] = s[i]
      /\ t[Len(s) + 1] = u
  BY <1>2
<1>4. Inv' /\ QueuesAgree'
  BY ReceiveInv, ReceiveQueues
<1>5. Waiting' \in Seq(Packet) /\ Len(Waiting') = Len(t)
  <2>1. WaitingDefined'
    BY <1>4, WaitingType, PTL
  <2> QED
    BY <1>2, <2>1 DEF WaitingDefined
<1>6. /\ w \in Seq(Packet)
      /\ Len(w) = Len(s)
      /\ \A i \in 1..Len(s) : Rank(s, i) \in 1..Len(mPacketQueue[s[i]])
  BY WaitingType DEF WaitingDefined
<1>7. Waiting' = [i \in 1..Len(t) |-> mPacketQueue'[t[i]][Rank(t, i)]]
  BY <1>2 DEF Waiting
<1>8. w = [i \in 1..Len(s) |-> mPacketQueue[s[i]][Rank(s, i)]]
  BY DEF Waiting
<1>9. /\ \A i \in 1..Len(s) : Rank(t, i) = Rank(s, i)
      /\ Rank(t, Len(s) + 1) = Len(mPacketQueue[u]) + 1
  BY <1>2, RankAppend DEF QueuesAgree
<1> HIDE DEF s, t, p, w
<1>10. ASSUME NEW i \in 1..Len(s)
       PROVE  Waiting'[i] = w[i]
  <2>1. Waiting'[i] = mPacketQueue'[s[i]][Rank(s, i)] /\ w[i] = mPacketQueue[s[i]][Rank(s, i)]
    BY <1>3, <1>7, <1>8, <1>9
  <2>2. s[i] \in Users /\ Rank(s, i) \in 1..Len(mPacketQueue[s[i]])
    BY <1>2, <1>6
  <2>3. CASE s[i] # u
    BY <1>2, <2>1, <2>2, <2>3
  <2>4. CASE s[i] = u
    <3> DEFINE q == mPacketQueue[u]
               k == Rank(s, i)
    <3>1. q \in Seq(Packet) /\ k \in 1..Len(q) /\ mPacketQueue'[u] = Append(q, p)
      BY <1>2, <2>2, <2>4
    <3> HIDE DEF q, k
    <3>2. Append(q, p)[k] = q[k]
      BY <3>1
    <3> QED
      BY <2>1, <2>4, <3>1, <3>2 DEF q, k
  <2> QED
    BY <2>3, <2>4
<1>11. Waiting'[Len(s) + 1] = p
  <2>1. Waiting'[Len(s) + 1] = mPacketQueue'[u][Len(mPacketQueue[u]) + 1]
    BY <1>3, <1>7, <1>9
  <2> DEFINE q == mPacketQueue[u]
  <2>2. q \in Seq(Packet) /\ mPacketQueue'[u] = Append(q, p)
    BY <1>2
  <2> HIDE DEF q
  <2>3. Append(q, p)[Len(q) + 1] = p
    BY <1>1, <2>2
  <2> QED
    BY <2>1, <2>2, <2>3 DEF q
<1>12. /\ Append(w, p) \in Seq(Packet)
       /\ Len(Append(w, p)) = Len(s) + 1
       /\ \A i \in 1..Len(s) : Append(w, p)[i] = w[i]
       /\ Append(w, p)[Len(s) + 1] = p
  BY <1>1, <1>3, <1>6
<1>13. \A i \in 1..(Len(s) + 1) : Waiting'[i] = Append(w, p)[i]
  BY <1>3, <1>10, <1>11, <1>12
<1>14. Waiting' = Append(w, p)
  BY <1>3, <1>5, <1>12, <1>13, SeqEqual
<1> QED
  BY <1>1, <1>14 DEF w, p

(* The request handed out is the head of the line of all users. *)
LEMMA DequeTakesHead ==
  ASSUME Inv, QueuesAgree, DequePacketData, mInComingPacketUserIndex # <<>>
  PROVE  /\ Waiting # <<>>
         /\ NextRequest = Head(Waiting)
         /\ Waiting' = Tail(Waiting)
<1> DEFINE s == mInComingPacketUserIndex
           t == Tail(s)
           u == Head(s)
           w == Waiting
<1>1. /\ s \in Seq(Users)
      /\ s # <<>>
      /\ s' = t
      /\ mPacketQueue \in [Users -> Seq(Packet)]
      /\ mPacketQueue' = [mPacketQueue EXCEPT ![u] = Tail(@)]
  BY DequeFindsPacket DEF DequePacketData, Inv, TypeOK
<1>2. u \in Users /\ mPacketQueue[u] # <<>> /\ NextRequest = Head(mPacketQueue[u])
  BY DequeFindsPacket, NextRequestFacts
<1>3. /\ t \in Seq(Users)
      /\ Len(s) \in Nat \ {0}
      /\ Len(t) = Len(s) - 1
      /\ \A i \in 1..Len(t) : t[i] = s[i + 1]
      /\ u = s[1]
  BY <1>1
<1>4. Inv' /\ QueuesAgree'
  BY DequeInv, DequeQueues
<1>5. /\ Waiting' \in Seq(Packet)
      /\ Len(Waiting') = Len(t)
      /\ \A i \in 1..Len(t) : Rank(t, i) \in 1..Len(mPacketQueue'[t[i]])
  <2>1. WaitingDefined'
    BY <1>4, WaitingType, PTL
  <2> QED
    BY <1>1, <2>1 DEF WaitingDefined
<1>6. w \in Seq(Packet) /\ Len(w) = Len(s)
  BY WaitingType DEF WaitingDefined
<1>7. Waiting' = [i \in 1..Len(t) |-> mPacketQueue'[t[i]][Rank(t, i)]]
  BY <1>1 DEF Waiting
<1>8. w = [i \in 1..Len(s) |-> mPacketQueue[s[i]][Rank(s, i)]]
  BY DEF Waiting
<1>9. ASSUME NEW i \in 1..Len(t)
      PROVE  Rank(s, i + 1) = Rank(t, i) + IF s[i + 1] = u THEN 1 ELSE 0
  BY <1>1, <1>3, RankTail
<1>10. Rank(s, 1) = 1
  BY <1>1, RankHead
<1> HIDE DEF s, t, u, w
<1>11. w # <<>> /\ Head(w) = w[1] /\ w[1] = mPacketQueue[u][1]
  BY <1>3, <1>6, <1>8, <1>10
<1>12. NextRequest = Head(w)
  <2> DEFINE q == mPacketQueue[u]
  <2>1. q \in Seq(Packet) /\ q # <<>>
    BY <1>1, <1>2
  <2> HIDE DEF q
  <2>2. Head(q) = q[1]
    BY <2>1
  <2> QED
    BY <1>2, <1>11, <2>2 DEF q
<1>13. ASSUME NEW i \in 1..Len(t)
       PROVE  Waiting'[i] = w[i + 1]
  <2>1. i + 1 \in 1..Len(s)
    BY <1>3
  <2>2. /\ Waiting'[i] = mPacketQueue'[s[i + 1]][Rank(t, i)]
        /\ w[i + 1] = mPacketQueue[s[i + 1]][Rank(s, i + 1)]
    BY <1>3, <1>7, <1>8, <2>1
  <2>3. s[i + 1] \in Users
    BY <1>1, <2>1
  <2>4. CASE s[i + 1] # u
    <3>1. Rank(t, i) = Rank(s, i + 1)
      BY <1>5, <1>9, <2>4
    <3>2. mPacketQueue'[s[i + 1]] = mPacketQueue[s[i + 1]]
      BY <1>1, <2>3, <2>4
    <3> QED
      BY <2>2, <3>1, <3>2
  <2>5. CASE s[i + 1] = u
    <3> DEFINE q == mPacketQueue[u]
               k == Rank(t, i)
    <3>1. q \in Seq(Packet) /\ q # <<>> /\ mPacketQueue'[u] = Tail(q)
      BY <1>1, <1>2
    <3>2. Rank(s, i + 1) = k + 1
      BY <1>9, <2>5
    <3>3. k \in 1..Len(Tail(q))
      BY <1>3, <1>5, <2>5, <3>1
    <3> HIDE DEF q, k
    <3>4. Tail(q)[k] = q[k + 1]
      BY <3>1, <3>3
    <3> QED
      BY <2>2, <2>5, <3>1, <3>2, <3>4 DEF q, k
  <2> QED
    BY <2>4, <2>5
<1>14. /\ Tail(w) \in Seq(Packet)
       /\ Len(Tail(w)) = Len(t)
       /\ \A i \in 1..Len(t) : Tail(w)[i] = w[i + 1]
  BY <1>3, <1>6, <1>11
<1>15. Waiting' = Tail(w)
  BY <1>3, <1>5, <1>13, <1>14, SeqEqual
<1> QED
  BY <1>11, <1>12, <1>15 DEF w

LEMMA InitFifo == Init => Fifo!Init
<1> SUFFICES ASSUME Init PROVE Fifo!Init
  OBVIOUS
<1>1. Waiting = <<>>
  BY DEF Init, Waiting
<1> QED
  BY <1>1 DEF Init, Fifo!Init

LEMMA NextFifo == Inv /\ QueuesAgree /\ [Next]_vars => [Fifo!Next]_Fifo!vars
<1> SUFFICES ASSUME Inv, QueuesAgree, [Next]_vars
             PROVE  Fifo!Next \/ UNCHANGED Fifo!vars
  OBVIOUS
<1>1. ASSUME UNCHANGED <<mInComingPacketUserIndex, mPacketQueue>>
      PROVE  Waiting' = Waiting
  BY <1>1 DEF Waiting
<1>2. ASSUME NEW u \in Users, NEW type \in RequestTypes, ReceivePacketData(u, type)
      PROVE  Fifo!Next
  <2> DEFINE p == NewPacket(u, type)
  <2>1. p \in Packet /\ Waiting' = Append(Waiting, p)
    BY <1>2, ReceiveAppends
  <2>2. Fifo!Accept(p)
    BY <1>2, <2>1 DEF Fifo!Accept, ReceivePacketData, threadVars
  <2> QED
    BY <2>1, <2>2 DEF Fifo!Next
<1>3. ASSUME NEW u \in Users, NEW type \in SystemTypes, PushSystemPacket(u, type)
      PROVE  Fifo!Next
  <2> DEFINE p == NewPacket(u, type)
  <2>1. p \in Packet
    BY <1>3, NewPacketType DEF Inv, PushSystemPacket
  <2>2. Waiting' = Waiting
    BY <1>1, <1>3 DEF PushSystemPacket
  <2>3. Fifo!Announce(p)
    BY <1>3, <2>2 DEF Fifo!Announce, PushSystemPacket, threadVars
  <2> QED
    BY <2>1, <2>3 DEF Fifo!Next
<1>4. CASE End
  BY <1>1, <1>4 DEF End, Fifo!vars, queueVars, threadVars
<1>5. CASE CheckRunning
  <2>1. UNCHANGED <<mSystemPacketQueue, packet>> /\ Waiting' = Waiting
    BY <1>1, <1>5 DEF CheckRunning, queueVars
  <2>2. pc = "check" /\ packet = NoPacket /\ pc' \in {"user", "stopped"}
    BY <1>5 DEF CheckRunning, Inv, ThreadState
  <2>3. CASE pc' = "user"
    BY <2>1, <2>2, <2>3 DEF Fifo!vars
  <2>4. CASE pc' = "stopped"
    <3>1. Fifo!Close
      BY <2>1, <2>2, <2>4 DEF Fifo!Close, Fifo!Ready
    <3> QED
      BY <3>1 DEF Fifo!Next
  <2> QED
    BY <2>2, <2>3, <2>4
<1>6. CASE DequePacketData
  <2>1. /\ pc = "user" /\ packet = NoPacket
        /\ mSystemPacketQueue' = mSystemPacketQueue
        /\ pc' \in {"handleUser", "system"}
    BY <1>6 DEF DequePacketData, Inv, ThreadState
  <2>2. CASE mInComingPacketUserIndex = <<>>
    <3>1. UNCHANGED <<mInComingPacketUserIndex, mPacketQueue>> /\ packet' = NoPacket
      BY <1>6, <2>2, DequeFindsPacket DEF DequePacketData, IsHandled
    <3> QED
      BY <1>1, <2>1, <3>1 DEF Fifo!vars
  <2>3. CASE mInComingPacketUserIndex # <<>>
    <3>1. Waiting # <<>> /\ NextRequest = Head(Waiting) /\ Waiting' = Tail(Waiting)
      BY <1>6, <2>3, DequeTakesHead
    <3>2. NextRequest # NoPacket
      BY <2>3, DequeFindsPacket
    <3>3. packet' = IF NextRequest.type = "SystemEnd" THEN NoPacket ELSE NextRequest
      BY <1>6, <3>2 DEF DequePacketData, IsHandled
    <3>4. Fifo!Take
      BY <2>1, <3>1, <3>3 DEF Fifo!Take, Fifo!Ready, Fifo!IsEndMarker
    <3> QED
      BY <3>4 DEF Fifo!Next
  <2> QED
    BY <2>2, <2>3
<1>7. CASE DequeSystemPacketData
  <2>1. /\ pc = "system" /\ packet = NoPacket
        /\ Waiting' = Waiting
    BY <1>1, <1>7 DEF DequeSystemPacketData, Inv, ThreadState
  <2>2. CASE mSystemPacketQueue = <<>>
    BY <1>7, <2>1, <2>2 DEF DequeSystemPacketData, Fifo!vars
  <2>3. CASE mSystemPacketQueue # <<>>
    <3>1. Fifo!TakeSystem
      BY <1>7, <2>1, <2>3 DEF DequeSystemPacketData, Fifo!TakeSystem, Fifo!Ready
    <3> QED
      BY <3>1 DEF Fifo!Next
  <2> QED
    BY <2>2, <2>3
<1>8. CASE RunCallback
  BY <1>1, <1>8 DEF RunCallback, Fifo!vars, queueVars
<1>9. CASE FinishPacket
  <2>1. /\ pc \in {"handleUser", "handleSystem"} /\ pc' \in {"system", "check"}
        /\ packet # NoPacket /\ packet' = NoPacket
        /\ mSystemPacketQueue' = mSystemPacketQueue
        /\ Waiting' = Waiting
    BY <1>1, <1>9 DEF FinishPacket, Inv, ThreadState, queueVars
  <2>2. Fifo!Finish
    BY <2>1 DEF Fifo!Finish
  <2> QED
    BY <2>2 DEF Fifo!Next
<1>10. CASE UNCHANGED vars
  BY <1>1, <1>10 DEF vars, queueVars, threadVars, Fifo!vars
<1> QED
  BY <1>2, <1>3, <1>4, <1>5, <1>6, <1>7, <1>8, <1>9, <1>10
     DEF Next, Network, ProcessPacket

(* The per-user queues and the queue of arrivals together are one line     *)
(* served in order of arrival; connection events are served in the order   *)
(* they were pushed; one packet is handled at a time.  (The fairness part  *)
(* of ServesInOrder is model-checked.)                                     *)
THEOREM ImplementsFifo == Spec => Fifo!Safety
<1>1. Inv /\ QueuesAgree /\ [Next]_vars => [Fifo!Next]_Fifo!vars
  BY NextFifo
<1> QED
  BY InitFifo, SpecInv, QueuesAlwaysAgree, <1>1, PTL DEF Spec, Fifo!Safety

-----------------------------------------------------------------------------
(* The order of the routes: Join runs after RConnection.Connect.           *)

LEMMA OnlyConnectJoins ==
  ASSUME Inv, todo # <<>>, Head(todo) = "RReplicationPlayer.Join"
  PROVE  packet # NoPacket /\ todo = <<"RReplicationPlayer.Join">>
<1>1. packet # NoPacket
  BY DEF Inv, ThreadState
<1>2. CASE RequestTodo(todo)
  BY <1>2 DEF RequestTodo
<1>3. CASE todo \in ConnectTodo
  <2>1. Head(<<"RConnection.Connect", "RReplicationPlayer.Join">>) = "RConnection.Connect"
    OBVIOUS
  <2>2. "RConnection.Connect" # "RReplicationPlayer.Join"
    OBVIOUS
  <2>3. todo # <<"RConnection.Connect", "RReplicationPlayer.Join">>
    BY <2>1, <2>2
  <2> QED
    BY <1>1, <1>3, <2>3 DEF ConnectTodo
<1>4. CASE todo \in DisconnectTodo
  BY <1>4 DEF DisconnectTodo
<1> QED
  BY <1>1, <1>2, <1>3, <1>4 DEF Inv, ThreadState

LEMMA JoinStep == ASSUME Inv, JoinSeesItsUser, [Next]_vars PROVE JoinSeesItsUser'
<1>1. CASE UNCHANGED <<todo, packet, mUserIDDictionary>>
  BY <1>1 DEF JoinSeesItsUser
<1>2. CASE DequePacketData
  <2>1. CASE IsHandled(NextRequest) /\ NextRequest.type \in SystemTypes
    <3>1. \/ todo' = <<"RConnection.Connect", "RReplicationPlayer.Join">>
          \/ todo' = <<"RConnection.Disconnect", "RIenventory.Disconnect">>
      BY <1>2, <2>1, RoutesType DEF DequePacketData, SystemTypes
    <3>2. /\ Head(<<"RConnection.Connect", "RReplicationPlayer.Join">>) = "RConnection.Connect"
          /\ Head(<<"RConnection.Disconnect", "RIenventory.Disconnect">>)
               = "RConnection.Disconnect"
      OBVIOUS
    <3> QED
      BY <3>1, <3>2 DEF JoinSeesItsUser
  <2>2. CASE ~(IsHandled(NextRequest) /\ NextRequest.type \in SystemTypes)
    <3>1. RequestTodo(todo')
      <4>1. CASE IsHandled(NextRequest)
        <5>1. NextRequest.type \in RequestTypes \ SystemTypes
          BY <2>2, <4>1, NextRequestFacts DEF IsHandled
        <5> QED
          BY <1>2, <4>1, <5>1, RoutesType DEF DequePacketData
      <4>2. CASE ~IsHandled(NextRequest)
        BY <1>2, <4>2 DEF DequePacketData, RequestTodo
      <4> QED
        BY <4>1, <4>2
    <3> QED
      BY <3>1 DEF JoinSeesItsUser, RequestTodo
  <2> QED
    BY <2>1, <2>2
<1>3. CASE DequeSystemPacketData /\ mSystemPacketQueue # <<>>
  <2>1. Head(mSystemPacketQueue).type \in SystemTypes
    BY <1>3 DEF Inv, TypeOK, QueueTypes
  <2>2. \/ todo' = <<"RConnection.Connect", "RReplicationPlayer.Join">>
        \/ todo' = <<"RConnection.Disconnect", "RIenventory.Disconnect">>
    BY <1>3, <2>1, RoutesType DEF DequeSystemPacketData, SystemTypes
  <2>3. /\ Head(<<"RConnection.Connect", "RReplicationPlayer.Join">>) = "RConnection.Connect"
        /\ Head(<<"RConnection.Disconnect", "RIenventory.Disconnect">>)
             = "RConnection.Disconnect"
    OBVIOUS
  <2> QED
    BY <2>2, <2>3 DEF JoinSeesItsUser
<1>4. CASE RunCallback
  <2>1. SUFFICES ASSUME todo' # <<>>, Head(todo') = "RReplicationPlayer.Join"
                 PROVE  packet'.user \in mUserIDDictionary'
    BY DEF JoinSeesItsUser
  <2>2. todo # <<>> /\ todo' = Tail(todo) /\ packet' = packet
    BY <1>4 DEF RunCallback
  <2>3. ~RequestTodo(todo)
    <3>1. \A c : Tail(<<c>>) = <<>>
      OBVIOUS
    <3> QED
      BY <2>1, <2>2, <3>1 DEF RequestTodo
  <2>4. todo \notin DisconnectTodo
    <3>1. /\ Tail(<<"RIenventory.Disconnect">>) = <<>>
          /\ Head(Tail(<<"RConnection.Disconnect", "RIenventory.Disconnect">>))
               = "RIenventory.Disconnect"
      OBVIOUS
    <3> QED
      BY <2>1, <2>2, <3>1 DEF DisconnectTodo
  <2>5. todo = <<"RConnection.Connect", "RReplicationPlayer.Join">>
    <3>1. todo \in ConnectTodo
      BY <2>2, <2>3, <2>4 DEF Inv, ThreadState
    <3>2. Tail(<<"RReplicationPlayer.Join">>) = <<>>
      OBVIOUS
    <3> QED
      BY <2>1, <2>2, <3>1, <3>2 DEF ConnectTodo
  <2>6. AddUser(packet.user)
    <3>1. Head(todo) = "RConnection.Connect"
      BY <2>5
    <3> QED
      BY <1>4, <3>1 DEF RunCallback, RegistryEffect
  <2> QED
    BY <2>2, <2>6 DEF AddUser
<1>5. \/ UNCHANGED <<todo, packet, mUserIDDictionary>>
      \/ DequePacketData
      \/ DequeSystemPacketData /\ mSystemPacketQueue # <<>>
      \/ RunCallback
      \/ FinishPacket
  BY DEF Next, Network, ReceivePacketData, PushSystemPacket, End, ProcessPacket,
         CheckRunning, DequeSystemPacketData, vars, threadVars, registryVars
<1>6. CASE FinishPacket
  BY <1>6 DEF FinishPacket, JoinSeesItsUser
<1> QED
  BY <1>1, <1>2, <1>3, <1>4, <1>5, <1>6

(* When RReplicationPlayer::Join runs, its user is already registered and  *)
(* so receives the broadcast of its own arrival.                           *)
THEOREM JoinAlwaysSeesItsUser == Spec => []JoinSeesItsUser
<1>1. Init => JoinSeesItsUser
  BY DEF Init, JoinSeesItsUser
<1>2. Inv /\ JoinSeesItsUser /\ [Next]_vars => JoinSeesItsUser'
  BY JoinStep
<1> QED
  BY <1>1, <1>2, SpecInv, PTL DEF Spec

-----------------------------------------------------------------------------
(* The registry follows the connection events, whatever the clients of     *)
(* other slots request.  As long as events of a slot wait, the last of     *)
(* them is the last event pushed; when none waits but the registry         *)
(* callback of one is still to run, that one is.                           *)

RegistryInv ==
  \A u \in Users \ imposed :
    /\ \A i \in EventsOf(u) : (\A j \in EventsOf(u) : j <= i)
         => lastEvent[u] = mSystemPacketQueue[i].type
    /\ EventsOf(u) = {} /\ Registering(u) => lastEvent[u] = packet.type
    /\ EventsOf(u) = {} /\ ~Registering(u)
         => (u \in mUserIDDictionary <=> lastEvent[u] = "SYSTEM_USER_CONNECT")

(* Whether the registry callback of a packet is still to be run. *)
LEMMA RegistryCallbackPending ==
  ASSUME Inv, NEW u
  PROVE  Registering(u) <=>
           /\ packet # NoPacket
           /\ packet.user = u
           /\ \/ /\ packet.type = "SYSTEM_USER_CONNECT"
                 /\ todo = <<"RConnection.Connect", "RReplicationPlayer.Join">>
              \/ /\ packet.type = "SYSTEM_USER_DISCONNECT"
                 /\ todo = <<"RConnection.Disconnect", "RIenventory.Disconnect">>
<1> DEFINE Has(t) == \E i \in 1..Len(t) : t[i] \in RegistryCallbacks
<1>1. ASSUME NEW t, RequestTodo(t)
      PROVE  ~Has(t)
  <2>1. CASE t = <<>>
    BY <2>1
  <2>2. CASE t # <<>>
    <3>1. PICK c \in Callback : c \notin RegistryCallbacks /\ t = <<c>>
      BY <1>1, <2>2 DEF RequestTodo
    <3>2. Len(<<c>>) = 1 /\ <<c>>[1] = c
      OBVIOUS
    <3> QED
      BY <3>1, <3>2
  <2> QED
    BY <2>1, <2>2
<1>2. /\ Has(<<"RConnection.Connect", "RReplicationPlayer.Join">>)
      /\ Has(<<"RConnection.Disconnect", "RIenventory.Disconnect">>)
      /\ ~Has(<<"RReplicationPlayer.Join">>)
      /\ ~Has(<<"RIenventory.Disconnect">>)
      /\ ~Has(<<>>)
  BY DEF RegistryCallbacks
<1>3. Registering(u) <=> packet # NoPacket /\ packet.user = u /\ Has(todo)
  BY DEF Registering, RegistryCallbacks
<1> HIDE DEF Has
<1>4. CASE packet = NoPacket
  BY <1>3, <1>4
<1>5. CASE packet # NoPacket /\ packet.type \in RequestTypes \ SystemTypes
           /\ RequestTodo(todo)
  BY <1>1, <1>3, <1>5 DEF SystemTypes
<1>6. CASE packet # NoPacket /\ packet.type = "SYSTEM_USER_CONNECT" /\ todo \in ConnectTodo
  BY <1>2, <1>3, <1>6 DEF ConnectTodo
<1>7. CASE packet # NoPacket /\ packet.type = "SYSTEM_USER_DISCONNECT"
           /\ todo \in DisconnectTodo
  BY <1>2, <1>3, <1>7 DEF DisconnectTodo
<1> QED
  BY <1>4, <1>5, <1>6, <1>7 DEF Inv, ThreadState

TodoWhileRegistering ==
  \A u : Registering(u) =>
    \/ todo = <<"RConnection.Connect", "RReplicationPlayer.Join">>
    \/ todo = <<"RConnection.Disconnect", "RIenventory.Disconnect">>

SystemWhileRegistering ==
  \A u : Registering(u) => /\ packet # NoPacket
                           /\ packet.user = u
                           /\ packet.type \in SystemTypes

LEMMA RegisteringTodo == Inv => TodoWhileRegistering /\ SystemWhileRegistering
  BY RegistryCallbackPending DEF TodoWhileRegistering, SystemWhileRegistering, SystemTypes

(* The callback that follows a registry callback is not one itself. *)
LEMMA TailRegistersNobody ==
  ASSUME NEW t, t # <<>>, RequestTodo(t) \/ t \in ConnectTodo \/ t \in DisconnectTodo
  PROVE  /\ Tail(t) # <<"RConnection.Connect", "RReplicationPlayer.Join">>
         /\ Tail(t) # <<"RConnection.Disconnect", "RIenventory.Disconnect">>
<1>1. /\ \A c : Tail(<<c>>) = <<>>
      /\ Tail(<<"RConnection.Connect", "RReplicationPlayer.Join">>)
           = <<"RReplicationPlayer.Join">>
      /\ Tail(<<"RConnection.Disconnect", "RIenventory.Disconnect">>)
           = <<"RIenventory.Disconnect">>
  OBVIOUS
<1>2. \/ Tail(t) = <<>>
      \/ Tail(t) = <<"RReplicationPlayer.Join">>
      \/ Tail(t) = <<"RIenventory.Disconnect">>
  <2>1. CASE RequestTodo(t)
    BY <1>1, <2>1 DEF RequestTodo
  <2>2. CASE t \in ConnectTodo
    BY <1>1, <2>2 DEF ConnectTodo
  <2>3. CASE t \in DisconnectTodo
    BY <1>1, <2>3 DEF DisconnectTodo
  <2> QED
    BY <2>1, <2>2, <2>3
<1>3. \A a, b, c : <<a, b>> # <<c>> /\ <<a, b>> # <<>>
  OBVIOUS
<1> QED
  BY <1>2, <1>3

(* Steps that touch no event queue, no registry and no pending callback. *)
LEMMA RegistryUnchanged ==
  ASSUME Inv, RegistryInv, imposed \subseteq imposed',
         \A u \in Users \ imposed' : Registering(u)' <=> Registering(u),
         packet' = packet \/ \A u \in Users \ imposed' : ~Registering(u),
         UNCHANGED <<mSystemPacketQueue, lastEvent, mUserIDDictionary>>
  PROVE  RegistryInv'
<1>1. \A u \in Users : EventsOf(u)' = EventsOf(u)
  BY DEF EventsOf
<1> QED
  BY <1>1 DEF RegistryInv

(* A push adds one event, at the end and for its own slot. *)
LEMMA PushEvents ==
  ASSUME Inv, NEW u \in Users, NEW type \in SystemTypes, PushSystemPacket(u, type),
         NEW n, n = Len(mSystemPacketQueue)
  PROVE  /\ n \in Nat
         /\ n + 1 \in EventsOf(u)'
         /\ mSystemPacketQueue'[n + 1].type = type
         /\ EventsOf(u)' = EventsOf(u) \union {n + 1}
         /\ \A v \in Users : v # u => EventsOf(v)' = EventsOf(v)
         /\ \A v \in Users : \A i \in EventsOf(v) :
              i \in 1..n /\ mSystemPacketQueue'[i] = mSystemPacketQueue[i]
<1> DEFINE p == NewPacket(u, type)
           s == mSystemPacketQueue
<1>1. p.user = u /\ p.type = type
  BY NewPacketType DEF Inv, PushSystemPacket
<1>2. s \in Seq(Packet) /\ s' = Append(s, p)
  BY DEF PushSystemPacket, Inv, TypeOK
<1> HIDE DEF p
<1>3. /\ n \in Nat
      /\ Len(s') = n + 1
      /\ \A i \in 1..n : s'[i] = s[i]
      /\ s'[n + 1] = p
  BY <1>2
<1>4. \A v : EventsOf(v) = {i \in 1..n : s[i].user = v}
  BY DEF EventsOf
<1>5. \A v : EventsOf(v)' = {i \in 1..(n + 1) : s'[i].user = v}
  BY <1>3 DEF EventsOf
<1> HIDE DEF s
<1>6. EventsOf(u)' = EventsOf(u) \union {n + 1}
  BY <1>1, <1>3, <1>4, <1>5
<1>7. ASSUME NEW v \in Users, v # u
      PROVE  EventsOf(v)' = EventsOf(v)
  <2>1. EventsOf(v) = {i \in 1..n : s[i].user = v}
    BY <1>4
  <2>2. EventsOf(v)' = {i \in 1..(n + 1) : s'[i].user = v}
    BY <1>5
  <2> QED
    BY <1>1, <1>3, <1>7, <2>1, <2>2
<1> QED
  BY <1>1, <1>3, <1>4, <1>6, <1>7 DEF s

(* Taking an event moves the others forward by one. *)
LEMMA DequeEvents ==
  ASSUME Inv, DequeSystemPacketData, mSystemPacketQueue # <<>>, NEW u \in Users,
         NEW n, n = Len(mSystemPacketQueue)
  PROVE  /\ n \in Nat \ {0}
         /\ mSystemPacketQueue[1] = Head(mSystemPacketQueue)
         /\ \A i \in EventsOf(u)' : /\ i + 1 \in EventsOf(u)
                                   /\ mSystemPacketQueue'[i] = mSystemPacketQueue[i + 1]
         /\ \A j \in EventsOf(u) : j # 1 => j - 1 \in EventsOf(u)'
         /\ 1 \in EventsOf(u) <=> Head(mSystemPacketQueue).user = u
         /\ \A j \in EventsOf(u) : j \in 1..n
         /\ \A j \in EventsOf(u)' : j \in 1..(n - 1)
<1> DEFINE s == mSystemPacketQueue
           h == Head(s)
<1>1. s \in Seq(Packet) /\ s' = Tail(s)
  BY DEF DequeSystemPacketData, Inv, TypeOK
<1>2. /\ n \in Nat \ {0}
      /\ Len(s') = n - 1
      /\ \A i \in 1..(n - 1) : s'[i] = s[i + 1]
      /\ h = s[1]
  BY <1>1
<1>3. EventsOf(u) = {i \in 1..n : s[i].user = u}
  BY DEF EventsOf
<1>4. EventsOf(u)' = {i \in 1..(n - 1) : s'[i].user = u}
  BY <1>2 DEF EventsOf
<1> HIDE DEF s, h
<1>5. ASSUME NEW j \in EventsOf(u), j # 1
      PROVE  j - 1 \in EventsOf(u)'
  <2>1. j - 1 \in 1..(n - 1) /\ (j - 1) + 1 = j
    BY <1>2, <1>3, <1>5
  <2>2. s'[j - 1] = s[j]
    BY <1>2, <2>1
  <2> QED
    BY <1>3, <1>4, <2>1, <2>2
<1>6. ASSUME NEW i \in EventsOf(u)'
      PROVE  i + 1 \in EventsOf(u) /\ s'[i] = s[i + 1]
  BY <1>2, <1>3, <1>4
<1> QED
  BY <1>2, <1>3, <1>4, <1>5, <1>6 DEF s, h

LEMMA PushRegistry ==
  ASSUME Inv, RegistryInv, NEW u \in Users, NEW type \in SystemTypes,
         PushSystemPacket(u, type)
  PROVE  RegistryInv'
<1> DEFINE n == Len(mSystemPacketQueue)
<1>2. /\ lastEvent' = [lastEvent EXCEPT ![u] = type]
      /\ lastEvent \in [Users -> SystemTypes]
      /\ UNCHANGED <<mUserIDDictionary, packet, todo, imposed>>
  BY DEF PushSystemPacket, Inv, TypeOK, registryVars, threadVars
<1>3. n \in Nat
  BY PushEvents
<1> HIDE DEF n
<1>4. ASSUME NEW v \in Users, v # u
      PROVE  EventsOf(v)' = EventsOf(v) /\ lastEvent'[v] = lastEvent[v]
  BY <1>2, <1>4, PushEvents
<1>5. /\ n + 1 \in EventsOf(u)'
      /\ \A i \in EventsOf(u)' : i \in 1..(n + 1)
      /\ lastEvent'[u] = type /\ mSystemPacketQueue'[n + 1].type = type
  BY <1>2, <1>3, PushEvents DEF n
<1>6. \A v \in Users : \A i \in EventsOf(v) :
        mSystemPacketQueue'[i] = mSystemPacketQueue[i]
  BY PushEvents
<1>7. \A v : Registering(v)' <=> Registering(v)
  BY <1>2 DEF Registering
<1>8. ASSUME NEW v \in Users \ imposed
      PROVE  /\ \A i \in EventsOf(v)' : (\A j \in EventsOf(v)' : j <= i)
                  => lastEvent'[v] = mSystemPacketQueue'[i].type
             /\ EventsOf(v)' = {} /\ Registering(v)' => lastEvent'[v] = packet'.type
             /\ EventsOf(v)' = {} /\ ~Registering(v)'
                  => (v \in mUserIDDictionary' <=> lastEvent'[v] = "SYSTEM_USER_CONNECT")
  <2>1. CASE v = u
    <3>1. ASSUME NEW i \in EventsOf(u)', \A j \in EventsOf(u)' : j <= i
          PROVE  i = n + 1
      <4>1. n + 1 <= i /\ i \in 1..(n + 1)
        BY <1>5, <3>1
      <4> QED
        BY <1>3, <4>1
    <3> QED
      BY <1>5, <2>1, <3>1
  <2>2. CASE v # u
    BY <1>2, <1>4, <1>6, <1>7, <2>2 DEF RegistryInv
  <2> QED
    BY <2>1, <2>2
<1> QED
  BY <1>2, <1>8 DEF RegistryInv

(* A connection event, when taken, has its registry callback still to run. *)
LEMMA DequeRegisters ==
  ASSUME Inv, DequeSystemPacketData, mSystemPacketQueue # <<>>
  PROVE  \A u : Registering(u)' <=> Head(mSystemPacketQueue).user = u
<1> DEFINE h == Head(mSystemPacketQueue)
<1>1. h \in Packet /\ h.type \in SystemTypes
  <2>1. /\ mSystemPacketQueue \in Seq(Packet)
        /\ \A i \in 1..Len(mSystemPacketQueue) : mSystemPacketQueue[i].type \in SystemTypes
    BY DEF Inv, TypeOK, QueueTypes
  <2> QED
    BY <2>1
<1>2. packet' = h /\ todo' = CallbacksOf(h.type) /\ packet' # NoPacket
  BY <1>1 DEF DequeSystemPacketData
<1>3. \E i \in 1..Len(todo') : todo'[i] \in RegistryCallbacks
  <2>1. \/ todo' = <<"RConnection.Connect", "RReplicationPlayer.Join">>
        \/ todo' = <<"RConnection.Disconnect", "RIenventory.Disconnect">>
    BY <1>1, <1>2, RoutesType DEF SystemTypes
  <2> QED
    BY <2>1 DEF RegistryCallbacks
<1> QED
  BY <1>2, <1>3 DEF Registering, RegistryCallbacks

LEMMA DequeSystemRegistry ==
  ASSUME Inv, RegistryInv, DequeSystemPacketData, mSystemPacketQueue # <<>>
  PROVE  RegistryInv'
<1> DEFINE s == mSystemPacketQueue
           n == Len(s)
           h == Head(s)
<1>1. /\ s \in Seq(Packet)
      /\ s' = Tail(s)
      /\ packet = NoPacket
      /\ packet' = h
      /\ UNCHANGED <<lastEvent, mUserIDDictionary, imposed>>
  BY DEF DequeSystemPacketData, Inv, TypeOK, ThreadState, registryVars, historyVars
<1>2. /\ n \in Nat \ {0}
      /\ Len(s') = n - 1
      /\ \A i \in 1..(n - 1) : s'[i] = s[i + 1]
      /\ h = s[1] /\ h \in Packet
  BY <1>1
<1>3. h.type \in SystemTypes /\ h.user \in Users
  BY <1>2 DEF Inv, QueueTypes, Packet
<1>4. \A u : Registering(u)' <=> h.user = u
  BY DequeRegisters
<1>5. \A u : ~Registering(u)
  BY <1>1 DEF Registering
<1> HIDE DEF s, n, h
<1>6. ASSUME NEW u \in Users
      PROVE  /\ \A i \in EventsOf(u)' : i + 1 \in EventsOf(u)
                  /\ mSystemPacketQueue'[i] = mSystemPacketQueue[i + 1]
             /\ \A j \in EventsOf(u) : j # 1 => j - 1 \in EventsOf(u)'
             /\ 1 \in EventsOf(u) <=> h.user = u
             /\ \A j \in EventsOf(u) : j \in 1..n
             /\ \A j \in EventsOf(u)' : j \in 1..(n - 1)
  BY DequeEvents DEF s, n, h
<1>7. ASSUME NEW u \in Users \ imposed
      PROVE  /\ \A i \in EventsOf(u)' : (\A j \in EventsOf(u)' : j <= i)
                  => lastEvent'[u] = mSystemPacketQueue'[i].type
             /\ EventsOf(u)' = {} /\ Registering(u)' => lastEvent'[u] = packet'.type
             /\ EventsOf(u)' = {} /\ ~Registering(u)'
                  => (u \in mUserIDDictionary' <=> lastEvent'[u] = "SYSTEM_USER_CONNECT")
  <2>1. ASSUME NEW i \in EventsOf(u)', \A j \in EventsOf(u)' : j <= i
        PROVE  lastEvent'[u] = mSystemPacketQueue'[i].type
    <3>1. \A j \in EventsOf(u) : j <= i + 1
      <4> TAKE j \in EventsOf(u)
      <4>1. CASE j = 1
        BY <1>2, <1>6, <2>1, <4>1
      <4>2. CASE j # 1
        <5>1. j - 1 <= i
          BY <1>6, <2>1, <4>2
        <5> QED
          BY <1>2, <1>6, <2>1, <5>1
      <4> QED
        BY <4>1, <4>2
    <3>2. i + 1 \in EventsOf(u) /\ mSystemPacketQueue'[i] = mSystemPacketQueue[i + 1]
      BY <1>6
    <3> QED
      BY <1>1, <3>1, <3>2 DEF RegistryInv
  <2>2. ASSUME EventsOf(u)' = {}, Registering(u)'
        PROVE  lastEvent'[u] = packet'.type
    <3>1. 1 \in EventsOf(u) /\ \A j \in EventsOf(u) : j <= 1
      BY <1>2, <1>4, <1>6, <2>2
    <3>2. lastEvent[u] = mSystemPacketQueue[1].type
      BY <3>1 DEF RegistryInv
    <3> QED
      BY <1>1, <1>2, <3>2 DEF s
  <2>3. ASSUME EventsOf(u)' = {}, ~Registering(u)'
        PROVE  EventsOf(u) = {} /\ ~Registering(u)
    BY <1>4, <1>5, <1>6, <2>3
  <2> QED
    BY <1>1, <2>1, <2>2, <2>3 DEF RegistryInv
<1> QED
  BY <1>1, <1>7 DEF RegistryInv

(* After any callback no registry callback is left to run. *)
LEMMA CallbackRegisters ==
  ASSUME Inv, RunCallback
  PROVE  \A v : ~Registering(v)'
<1>1. todo # <<>> /\ todo' = Tail(todo)
  BY DEF RunCallback
<1>2. /\ Tail(todo) # <<"RConnection.Connect", "RReplicationPlayer.Join">>
      /\ Tail(todo) # <<"RConnection.Disconnect", "RIenventory.Disconnect">>
  BY <1>1, TailRegistersNobody DEF Inv, ThreadState
<1>3. TodoWhileRegistering'
  BY RunCallbackInv, RegisteringTodo, PTL
<1> QED
  BY <1>1, <1>2, <1>3 DEF TodoWhileRegistering

(* What a callback does to the registry. *)
LEMMA CallbackEffect ==
  ASSUME Inv, RunCallback
  PROVE  /\ ~Registering(packet.user) => UNCHANGED registryVars
         /\ Registering(packet.user) =>
              \/ packet.type = "SYSTEM_USER_CONNECT" /\ AddUser(packet.user)
              \/ packet.type = "SYSTEM_USER_DISCONNECT" /\ DeleteUser(packet.user)
<1> DEFINE u == packet.user
<1>1. /\ packet # NoPacket /\ todo # <<>> /\ todo \in Seq(Callback)
      /\ RegistryEffect(Head(todo), u)
  BY DEF RunCallback, Inv, ThreadState, TypeOK
<1>2. CASE ~Registering(u)
  <2>1. Head(todo) \notin RegistryCallbacks
    <3>1. 1 \in 1..Len(todo) /\ Head(todo) = todo[1]
      BY <1>1
    <3> QED
      BY <1>1, <1>2, <3>1 DEF Registering, RegistryCallbacks
  <2> QED
    BY <1>1, <1>2, <2>1 DEF RegistryEffect, RegistryCallbacks
<1>3. CASE Registering(u)
  <2>1. \/ /\ packet.type = "SYSTEM_USER_CONNECT"
           /\ todo = <<"RConnection.Connect", "RReplicationPlayer.Join">>
        \/ /\ packet.type = "SYSTEM_USER_DISCONNECT"
           /\ todo = <<"RConnection.Disconnect", "RIenventory.Disconnect">>
    BY <1>3, RegistryCallbackPending
  <2>2. /\ Head(<<"RConnection.Connect", "RReplicationPlayer.Join">>) = "RConnection.Connect"
        /\ Head(<<"RConnection.Disconnect", "RIenventory.Disconnect">>)
             = "RConnection.Disconnect"
    OBVIOUS
  <2> QED
    BY <1>1, <1>3, <2>1, <2>2 DEF RegistryEffect
<1> QED
  BY <1>2, <1>3

LEMMA CallbackRegistry ==
  ASSUME Inv, RegistryInv, RunCallback
  PROVE  RegistryInv'
<1> DEFINE u == packet.user
<1>1. /\ packet \in Packet /\ packet # NoPacket /\ u \in Users
      /\ todo # <<>> /\ todo' = Tail(todo)
      /\ UNCHANGED <<packet, mSystemPacketQueue, lastEvent, imposed>>
      /\ RegistryEffect(Head(todo), u)
  BY DEF RunCallback, Inv, ThreadState, TypeOK, Packet, queueVars, historyVars
<1>3. \A v : ~Registering(v)'
  BY CallbackRegisters
<1>4. \A v \in Users : EventsOf(v)' = EventsOf(v)
  BY <1>1 DEF EventsOf
<1>5. \A v \in Users : v # u => ~Registering(v)
  BY DEF Registering
<1>6. CASE ~Registering(u)
  <2>2. UNCHANGED mUserIDDictionary
    BY <1>6, CallbackEffect DEF registryVars
  <2> QED
    BY <1>1, <1>3, <1>4, <1>5, <1>6, <2>2 DEF RegistryInv
<1>7. CASE Registering(u)
  <2>2. \/ packet.type = "SYSTEM_USER_CONNECT" /\ AddUser(u)
        \/ packet.type = "SYSTEM_USER_DISCONNECT" /\ DeleteUser(u)
    BY <1>7, CallbackEffect
  <2>3. u \in mUserIDDictionary' <=> packet.type = "SYSTEM_USER_CONNECT"
    BY <2>2 DEF AddUser, DeleteUser
  <2>4. \A v \in Users : v # u => (v \in mUserIDDictionary' <=> v \in mUserIDDictionary)
    BY <2>2 DEF AddUser, DeleteUser
  <2> HIDE DEF u
  <2>5. ASSUME NEW v \in Users \ imposed
        PROVE  /\ \A i \in EventsOf(v)' : (\A j \in EventsOf(v)' : j <= i)
                    => lastEvent'[v] = mSystemPacketQueue'[i].type
               /\ EventsOf(v)' = {}
                    => (v \in mUserIDDictionary' <=> lastEvent'[v] = "SYSTEM_USER_CONNECT")
    <3>1. CASE v = u
      BY <1>1, <1>4, <1>7, <2>3, <3>1 DEF RegistryInv
    <3>2. CASE v # u
      BY <1>1, <1>4, <1>5, <2>4, <3>2 DEF RegistryInv
    <3> QED
      BY <3>1, <3>2
  <2> QED
    BY <1>1, <1>3, <2>5 DEF RegistryInv
<1> QED
  BY <1>6, <1>7

LEMMA InitRegistry == Init => RegistryInv
  BY DEF Init, RegistryInit, RegistryInv, EventsOf, Registering

(* A request writes the registry only for a slot whose client sent a       *)
(* request of a system type.                                               *)
LEMMA DequeRegistersImposed ==
  ASSUME Inv, DequePacketData
  PROVE  \A u \in Users \ imposed' : ~Registering(u)'
<1>1. ThreadState'
  BY DequeInv DEF Inv
<1>2. SystemWhileRegistering'
  BY DequeInv, RegisteringTodo, PTL
<1>3. pc' = "handleUser" \/ packet' = NoPacket
  BY DEF DequePacketData
<1> QED
  BY <1>1, <1>2, <1>3 DEF ThreadState, SystemWhileRegistering

LEMMA NextRegistry == ASSUME Inv, RegistryInv, [Next]_vars PROVE RegistryInv'
<1>1. ASSUME pc \notin {"handleUser", "handleSystem"}
      PROVE  \A u : ~Registering(u)
  BY <1>1 DEF Registering, Inv, ThreadState
<1>2. CASE Network
  <2>1. ASSUME NEW u \in Users, NEW type \in RequestTypes, ReceivePacketData(u, type)
        PROVE  RegistryInv'
    <3>1. /\ UNCHANGED <<mSystemPacketQueue, lastEvent, mUserIDDictionary, packet, todo>>
          /\ imposed \subseteq imposed'
      BY <2>1 DEF ReceivePacketData, registryVars, threadVars
    <3> QED
      BY <3>1, RegistryUnchanged DEF Registering
  <2> QED
    BY <1>2, <2>1, PushRegistry DEF Network
<1>3. CASE DequePacketData
  <2>1. /\ pc = "user"
        /\ UNCHANGED <<mSystemPacketQueue, lastEvent, mUserIDDictionary, imposed>>
    BY <1>3 DEF DequePacketData, registryVars, historyVars
  <2> QED
    BY <1>1, <1>3, <2>1, DequeRegistersImposed, RegistryUnchanged
<1>4. CASE DequeSystemPacketData
  <2>1. CASE mSystemPacketQueue = <<>>
    <3>1. UNCHANGED <<mSystemPacketQueue, lastEvent, mUserIDDictionary, packet, todo,
                      imposed>>
      BY <1>4, <2>1 DEF DequeSystemPacketData, registryVars, historyVars
    <3> QED
      BY <3>1, RegistryUnchanged DEF Registering
  <2> QED
    BY <1>4, <2>1, DequeSystemRegistry
<1>5. CASE RunCallback
  BY <1>5, CallbackRegistry
<1>6. CASE FinishPacket
  <2>1. /\ todo = <<>> /\ todo' = <<>>
        /\ UNCHANGED <<mSystemPacketQueue, lastEvent, mUserIDDictionary, imposed>>
    BY <1>6 DEF FinishPacket, queueVars, registryVars, historyVars
  <2>2. \A u : ~Registering(u) /\ ~Registering(u)'
    BY <2>1 DEF Registering
  <2> QED
    BY <2>1, <2>2, RegistryUnchanged
<1>7. CASE UNCHANGED <<mSystemPacketQueue, lastEvent, mUserIDDictionary, packet, todo,
                       imposed>>
  BY <1>7, RegistryUnchanged DEF Registering
<1>8. \/ Network \/ DequePacketData \/ DequeSystemPacketData \/ RunCallback \/ FinishPacket
      \/ UNCHANGED <<mSystemPacketQueue, lastEvent, mUserIDDictionary, packet, todo,
                     imposed>>
  BY DEF Next, End, ProcessPacket, CheckRunning, vars, threadVars, queueVars,
         registryVars, historyVars
<1> QED
  BY <1>2, <1>3, <1>4, <1>5, <1>6, <1>7, <1>8

(* Once the events of a slot have been handled, its registration is what   *)
(* the last of them announced, for any order in which they were pushed and *)
(* whatever types the clients of the other slots give their requests, the  *)
(* system types included.                                                  *)
THEOREM RegistryAlwaysFollowsEvents == Spec => []RegistryFollowsEvents
<1>1. RegistryInv => RegistryFollowsEvents
  BY DEF RegistryInv, RegistryFollowsEvents
<1>2. Inv /\ RegistryInv /\ [Next]_vars => RegistryInv'
  BY NextRegistry
<1> QED
  BY InitRegistry, SpecInv, <1>1, <1>2, PTL DEF Spec

=============================================================================
