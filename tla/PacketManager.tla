---------------------------- MODULE PacketManager ----------------------------
(***************************************************************************)
(* PacketManager (PacketManager.h, PacketManager.cpp) with the registry of *)
(* connected users that its connection callbacks keep.                     *)
(*                                                                         *)
(* IOCP worker threads call ReceivePacketData and PushSystemPacket at any  *)
(* time, for any slot and in any order: nothing is assumed here of the     *)
(* order in which the network announces connections.  One process thread   *)
(* alternates between the two queues and runs the callbacks of each packet *)
(* one by one.  The main thread calls End once.                            *)
(***************************************************************************)
EXTENDS UserManager, Counting

CONSTANTS MaxPackets,     \* bound: packets of both kinds ever created
          RequestTypes,   \* types that clients give their packets
          NoPacket        \* the null messageHeader*

ASSUME MaxPacketsAssumption == MaxPackets \in Nat

(* The type of a request is a string of the client and is not looked at    *)
(* before it selects the callbacks: it may be one of these, too.           *)
SystemTypes == {"SYSTEM_USER_CONNECT", "SYSTEM_USER_DISCONNECT"}

Packet == [id : 1..MaxPackets, user : Users, type : RequestTypes \union SystemTypes]

ASSUME NoPacketAssumption == NoPacket \notin Packet

VARIABLES mInComingPacketUserIndex,  \* one slot index per waiting request
          mPacketQueue,              \* the waiting requests of each User
          mSystemPacketQueue,        \* the waiting connection events
          mIsRunProcessThread,       \* cleared by End
          pc,                        \* where the process thread is
          packet,                    \* packetData: the packet being handled
          todo,                      \* callbacks of packet not run yet
          created,                   \* packets created so far: their ids
          lastEvent,                 \* history: last event pushed per slot
          imposed                    \* history: slots whose client requested
                                     \* a system type

queueVars == <<mInComingPacketUserIndex, mPacketQueue, mSystemPacketQueue>>
threadVars == <<pc, packet, todo>>
historyVars == <<created, lastEvent, imposed>>
vars == <<mUserIDDictionary, mCurrentUserCnt, queueVars, mIsRunProcessThread,
          threadVars, historyVars>>

-----------------------------------------------------------------------------
(* Mutant: RReplicationPlayer registered before RConnection. *)
RoutesJoinFirst ==
  [ SYSTEM_USER_CONNECT    |-> <<"RReplicationPlayer.Join", "RConnection.Connect">>,
    SYSTEM_USER_DISCONNECT |-> <<"RConnection.Disconnect">>,
    reqShopBuy             |-> <<"RShop.Buy">> ]

(* The callbacks of each packet type in the order RouteInit registers      *)
(* them: RConnection, RPing, RReplicationPlayer, RIenventory, RShop.       *)
Routes ==
  [ SYSTEM_USER_CONNECT    |-> <<"RConnection.Connect", "RReplicationPlayer.Join">>,
    SYSTEM_USER_DISCONNECT |-> <<"RConnection.Disconnect", "RIenventory.Disconnect">>,
    reqPing                |-> <<"RPing.Ping">>,
    reqPlayerPosition      |-> <<"RReplicationPlayer.Synchronize">>,
    reqReplicatedPlayerDes |-> <<"RReplicationPlayer.Des">>,
    reqNotifyPlayerName    |-> <<"RIenventory.Connect">>,
    reqShopBuy             |-> <<"RShop.Buy">>,
    reqAddToItem           |-> <<"RShop.Sell">>,
    reqShopItemList        |-> <<"RShop.RequireItemList">> ]

Callback == UNION { {Routes[t][i] : i \in DOMAIN Routes[t]} : t \in DOMAIN Routes }

(* A type that nobody registered has no callbacks. *)
CallbacksOf(type) == IF type \in DOMAIN Routes THEN Routes[type] ELSE <<>>

TypeOK ==
  /\ RegistryTypeOK
  /\ mInComingPacketUserIndex \in Seq(Users)
  /\ mPacketQueue \in [Users -> Seq(Packet)]
  /\ mSystemPacketQueue \in Seq(Packet)
  /\ mIsRunProcessThread \in BOOLEAN
  /\ pc \in {"check", "user", "handleUser", "system", "handleSystem", "stopped"}
  /\ packet \in Packet \union {NoPacket}
  /\ todo \in Seq(Callback)
  /\ created \in 0..MaxPackets
  /\ lastEvent \in [Users -> SystemTypes]
  /\ imposed \subseteq Users

(* The state after GameServer::Run has called Init and Run of the packet   *)
(* manager: empty queues, no user, the process thread at its loop test.    *)
Init == /\ RegistryInit
        /\ mInComingPacketUserIndex = <<>>
        /\ mPacketQueue = [u \in Users |-> <<>>]
        /\ mSystemPacketQueue = <<>>
        /\ mIsRunProcessThread = TRUE
        /\ pc = "check"
        /\ packet = NoPacket
        /\ todo = <<>>
        /\ created = 0
        /\ lastEvent = [u \in Users |-> "SYSTEM_USER_DISCONNECT"]
        /\ imposed = {}

-----------------------------------------------------------------------------
(* Calls of the IOCP worker threads and of the main thread. *)

NewPacket(u, type) == [id |-> created + 1, user |-> u, type |-> type]

Imposes(u, type) == IF type \in SystemTypes THEN {u} ELSE {}

(* Mutants: the index is pushed only for the first waiting packet of a     *)
(* user; the index is pushed at the wrong end.                             *)
ReceiveIndexOnce(u, type) ==
  /\ created < MaxPackets
  /\ mPacketQueue' = [mPacketQueue EXCEPT ![u] = Append(@, NewPacket(u, type))]
  /\ mInComingPacketUserIndex' = IF mPacketQueue[u] = <<>>
                                 THEN Append(mInComingPacketUserIndex, u)
                                 ELSE mInComingPacketUserIndex
  /\ created' = created + 1
  /\ imposed' = imposed \union Imposes(u, type)
  /\ UNCHANGED <<registryVars, mSystemPacketQueue, mIsRunProcessThread, threadVars,
                 lastEvent>>

ReceiveInFront(u, type) ==
  /\ created < MaxPackets
  /\ mPacketQueue' = [mPacketQueue EXCEPT ![u] = Append(@, NewPacket(u, type))]
  /\ mInComingPacketUserIndex' = <<u>> \o mInComingPacketUserIndex
  /\ created' = created + 1
  /\ imposed' = imposed \union Imposes(u, type)
  /\ UNCHANGED <<registryVars, mSystemPacketQueue, mIsRunProcessThread, threadVars,
                 lastEvent>>

(* Under mLock: the packet, stamped with the slot, goes to its user's      *)
(* queue, the slot's index to the queue of arrivals.                       *)
ReceivePacketData(u, type) ==
  /\ created < MaxPackets
  /\ mPacketQueue' = [mPacketQueue EXCEPT ![u] = Append(@, NewPacket(u, type))]
  /\ mInComingPacketUserIndex' = Append(mInComingPacketUserIndex, u)
  /\ created' = created + 1
  /\ imposed' = imposed \union Imposes(u, type)
  /\ UNCHANGED <<registryVars, mSystemPacketQueue, mIsRunProcessThread, threadVars,
                 lastEvent>>

PushSystemPacket(u, type) ==
  /\ created < MaxPackets
  /\ mSystemPacketQueue' = Append(mSystemPacketQueue, NewPacket(u, type))
  /\ created' = created + 1
  /\ lastEvent' = [lastEvent EXCEPT ![u] = type]
  /\ UNCHANGED <<registryVars, mInComingPacketUserIndex, mPacketQueue,
                 mIsRunProcessThread, threadVars, imposed>>

(* End clears the flag; its join() returns when the thread has stopped. *)
End == /\ mIsRunProcessThread
       /\ mIsRunProcessThread' = FALSE
       /\ UNCHANGED <<registryVars, queueVars, threadVars, historyVars>>

-----------------------------------------------------------------------------
(* Steps of the process thread.  One turn of the loop handles at most one  *)
(* request and then at most one connection event.  The poll of the Redis   *)
(* responses finds INVALID, since Run never starts Redis, and the sleep of *)
(* an idle turn changes nothing: both are left out.                        *)

(* Mutant: the loop forgets to test the flag. *)
CheckNothing ==
  /\ pc = "check"
  /\ pc' = "user"
  /\ UNCHANGED <<registryVars, queueVars, mIsRunProcessThread, packet, todo, historyVars>>

CheckRunning ==
  /\ pc = "check"
  /\ pc' = IF mIsRunProcessThread THEN "user" ELSE "stopped"
  /\ UNCHANGED <<registryVars, queueVars, mIsRunProcessThread, packet, todo, historyVars>>

(* What DequePacketData hands out: the oldest packet of the user whose     *)
(* index is oldest; null if that user's queue is empty.                    *)
NextRequest ==
  LET u == Head(mInComingPacketUserIndex)
  IN  IF mInComingPacketUserIndex = <<>> \/ mPacketQueue[u] = <<>>
      THEN NoPacket ELSE Head(mPacketQueue[u])

IsHandled(p) == p # NoPacket /\ p.type # "SystemEnd"

DequePacketData ==
  /\ pc = "user"
  /\ mInComingPacketUserIndex' = IF mInComingPacketUserIndex = <<>> THEN <<>>
                                 ELSE Tail(mInComingPacketUserIndex)
  /\ mPacketQueue' = IF NextRequest = NoPacket THEN mPacketQueue
                     ELSE [mPacketQueue EXCEPT ![Head(mInComingPacketUserIndex)] = Tail(@)]
  /\ packet' = IF IsHandled(NextRequest) THEN NextRequest ELSE NoPacket
  /\ todo' = IF IsHandled(NextRequest) THEN CallbacksOf(NextRequest.type) ELSE <<>>
  /\ pc' = IF IsHandled(NextRequest) THEN "handleUser" ELSE "system"
  /\ UNCHANGED <<registryVars, mSystemPacketQueue, mIsRunProcessThread, historyVars>>

(* Mutant: the newest event is taken first. *)
DequeNewestEvent ==
  LET n == Len(mSystemPacketQueue) IN
  /\ pc = "system"
  /\ IF n = 0
     THEN /\ pc' = "check"
          /\ UNCHANGED <<mSystemPacketQueue, packet, todo>>
     ELSE /\ mSystemPacketQueue' = SubSeq(mSystemPacketQueue, 1, n - 1)
          /\ packet' = mSystemPacketQueue[n]
          /\ todo' = CallbacksOf(mSystemPacketQueue[n].type)
          /\ pc' = "handleSystem"
  /\ UNCHANGED <<registryVars, mInComingPacketUserIndex, mPacketQueue,
                 mIsRunProcessThread, historyVars>>

DequeSystemPacketData ==
  /\ pc = "system"
  /\ IF mSystemPacketQueue = <<>>
     THEN /\ pc' = "check"
          /\ UNCHANGED <<mSystemPacketQueue, packet, todo>>
     ELSE /\ mSystemPacketQueue' = Tail(mSystemPacketQueue)
          /\ packet' = Head(mSystemPacketQueue)
          /\ todo' = CallbacksOf(Head(mSystemPacketQueue).type)
          /\ pc' = "handleSystem"
  /\ UNCHANGED <<registryVars, mInComingPacketUserIndex, mPacketQueue,
                 mIsRunProcessThread, historyVars>>

(* What a callback does to the registry.  All other effects of callbacks   *)
(* are on the state of the modules Shop and Inventory.                     *)
RegistryEffect(callback, u) ==
  CASE callback = "RConnection.Connect"    -> AddUser(u)
    [] callback = "RConnection.Disconnect" -> DeleteUser(u)
    [] OTHER                               -> UNCHANGED registryVars

RunCallback ==
  /\ pc \in {"handleUser", "handleSystem"}
  /\ todo # <<>>
  /\ RegistryEffect(Head(todo), packet.user)
  /\ todo' = Tail(todo)
  /\ UNCHANGED <<queueVars, mIsRunProcessThread, pc, packet, historyVars>>

(* ProcessRecvPacket returns. *)
FinishPacket ==
  /\ pc \in {"handleUser", "handleSystem"}
  /\ todo = <<>>
  /\ packet' = NoPacket
  /\ pc' = IF pc = "handleUser" THEN "system" ELSE "check"
  /\ UNCHANGED <<registryVars, queueVars, mIsRunProcessThread, todo, historyVars>>

ProcessPacket == \/ CheckRunning
                 \/ DequePacketData
                 \/ DequeSystemPacketData
                 \/ RunCallback
                 \/ FinishPacket

Network == \E u \in Users :
              \/ \E type \in RequestTypes : ReceivePacketData(u, type)
              \/ \E type \in SystemTypes : PushSystemPacket(u, type)

Next == Network \/ End \/ ProcessPacket

(* The process thread is an operating system thread that never blocks for *)
(* ever: its locks are held only for the operations above.                 *)
Spec == Init /\ [][Next]_vars /\ WF_vars(ProcessPacket)

-----------------------------------------------------------------------------
(* Properties *)

(* Each waiting index stands for one packet: a user's queue holds as many  *)
(* packets as the arrival queue holds indices of that user.  The null that *)
(* DequePacketData returns for an empty user queue is therefore never met, *)
(* although the two queues are filled and emptied by different calls.      *)
QueuesAgree ==
  \A u \in Users : Len(mPacketQueue[u]) = Occurrences(mInComingPacketUserIndex, u)

(* The two-level queue is one line: the waiting packets in arrival order.  *)
Waiting == [i \in 1..Len(mInComingPacketUserIndex) |->
              mPacketQueue[mInComingPacketUserIndex[i]][Rank(mInComingPacketUserIndex, i)]]

Fifo == INSTANCE PacketFifo WITH waiting  <- Waiting,
                                 system   <- mSystemPacketQueue,
                                 handling <- packet,
                                 open     <- (pc # "stopped")

(* Requests are handled one at a time in the order in which the network    *)
(* accepted them over all clients, connection events in the order they     *)
(* were pushed, each exactly once, and neither queue starves the other.    *)
ServesInOrder == Fifo!Spec

EventsOf(u) == {i \in 1..Len(mSystemPacketQueue) : mSystemPacketQueue[i].user = u}

(* The callback that writes the registry for u is still to run. *)
Registering(u) == /\ packet # NoPacket
                  /\ packet.user = u
                  /\ \E i \in 1..Len(todo) :
                        todo[i] \in {"RConnection.Connect", "RConnection.Disconnect"}

(* Whatever order the workers push the events in, once the events of a     *)
(* slot have been handled the registry says what the last of them said,    *)
(* and nothing that the clients of other slots send changes that.  Only    *)
(* the client of the slot itself can undo it: with a request of a system   *)
(* type, which runs the callbacks of the event without the event.          *)
RegistryFollowsEvents ==
  \A u \in Users \ imposed : EventsOf(u) = {} /\ ~Registering(u)
     => (u \in mUserIDDictionary <=> lastEvent[u] = "SYSTEM_USER_CONNECT")

(* RReplicationPlayer::Join broadcasts to the registered users and tells   *)
(* the newcomer of the others: the newcomer itself is registered by then,  *)
(* which only the order of the routes ensures.                             *)
JoinSeesItsUser ==
  (todo # <<>> /\ Head(todo) = "RReplicationPlayer.Join")
     => packet.user \in mUserIDDictionary

(* PacketManager::End, which joins the process thread, returns: the thread *)
(* stops whatever is still queued.                                         *)
EndReturns == ~mIsRunProcessThread ~> pc = "stopped"
=============================================================================
