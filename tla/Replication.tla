----------------------------- MODULE Replication -----------------------------
(***************************************************************************)
(* The players that the clients see (RReplicationPlayer.cpp, with          *)
(* RConnection.cpp, UserManager.h and the replicas of the Unity client):   *)
(* network layer, process thread and clients together.  A player who joins *)
(* is announced to all others and they to him; positions are broadcast;    *)
(* nobody is ever told that a player has left.                             *)
(*                                                                         *)
(* The network layer is SlotEvents.  A message that is sent to a slot      *)
(* without a client stays in its queue for ever, and so do all after it    *)
(* (MCSessionStalled): such a slot is "stalled".  What one call sends to   *)
(* different slots is independent and one step.                            *)
(*                                                                         *)
(* The messages about players that a client has been sent are one          *)
(* sequence, in the order in which it handles them.  Shop lists and        *)
(* inventories are sent here, too, by two threads, because what is sent to *)
(* an empty slot stalls it, but they are not kept: they may come at any    *)
(* time, also before the first message about a player.  (ReadTcpDataThread *)
(* takes what one Receive brings for one message: what it loses when they  *)
(* come together is not modelled.)                                         *)
(*                                                                         *)
(* The clients ask for nothing of a system type: what such a request does  *)
(* to the registry is in PacketManager.                                    *)
(***************************************************************************)
EXTENDS UserManager, SequencesExt

CONSTANTS MaxSessions,   \* bound: clients that ever connect to each slot
          MaxEvents,     \* bound: connection events that wait to be handled
          MaxMoves       \* bound: requests that the clients of each slot send

ASSUME BoundsAssumption == /\ MaxSessions \in [Users -> Nat]
                           /\ MaxEvents \in Nat
                           /\ MaxMoves \in [Users -> Nat]

VARIABLES connected, pushed,  \* SlotEvents
          events,             \* mSystemPacketQueue
          joining,            \* the slot whose Connect the process thread runs, if any
          requests,           \* who sent each request that waits to be handled
          moves,              \* how many the clients of each slot have sent
          listed,             \* slots that a list of the users may hold: see BroadcastPacket
          sent,               \* what each connected client has been sent
          stalled,            \* slots to which no message gets through any more
          running,            \* FALSE once the server has died
          session,            \* history: number of the last client of each slot
          clean               \* history: see Begin

networkVars == <<connected, pushed, session>>
lineVars == <<events, joining, requests, moves>>
sendVars == <<sent, stalled, running>>
vars == <<networkVars, lineVars, listed, sendVars, registryVars, clean>>

Network == INSTANCE SlotEvents WITH Slots <- Users

(* A player, as the messages name it (the index of its slot) and as it is. *)
Player == [index : Users, session : Nat]

Event == [type : {"CONNECT", "DISCONNECT"}, index : Users]

(* What the server tells of players, apart from resPlayerPosition: that    *)
(* moves a replica, or nothing, and is not kept.                           *)
resPlayerJoin == [type |-> "resPlayerJoin"]
resReplicatedPlayerGen(p) == [type |-> "resReplicatedPlayerGen", player |-> p]
Garbage == [type |-> "Garbage"]

Message == {resPlayerJoin, Garbage} \union [type : {"resReplicatedPlayerGen"}, player : Player]

TypeOK ==
  /\ RegistryTypeOK
  /\ connected \in [Users -> BOOLEAN]
  /\ pushed \in [Users -> Seq({"CONNECT", "DISCONNECT"})]
  /\ events \in Seq(Event)
  /\ joining = {} \/ \E u \in mUserIDDictionary : joining = {u}
  /\ requests \in Seq(Player)
  /\ moves \in [Users -> Nat]
  /\ mUserIDDictionary \subseteq listed /\ listed \subseteq Users
  /\ sent \in [Users -> Seq(Message)]
  /\ stalled \subseteq Users
  /\ running \in BOOLEAN
  /\ session \in [Users -> Nat]
  /\ clean \in BOOLEAN

Init == /\ Network!Init
        /\ RegistryInit
        /\ events = <<>>
        /\ joining = {}
        /\ requests = <<>>
        /\ listed = {}
        /\ moves = [u \in Users |-> 0]
        /\ sent = [u \in Users |-> <<>>]
        /\ stalled = {}
        /\ running = TRUE
        /\ session = [u \in Users |-> 0]
        /\ clean = TRUE

PlayerOf(u) == [index |-> u, session |-> session[u]]

-----------------------------------------------------------------------------
(* The network layer *)

(* Nothing that a client of the slot has caused is left to be handled. *)
Forgotten(u) == /\ u \notin mUserIDDictionary
                /\ \A k \in DOMAIN events : events[k].index # u
                /\ \A k \in DOMAIN requests : requests[k].index # u

(* A client gets the slot.  That the game is done with the last one by     *)
(* then is left to the wait before a slot is offered again                 *)
(* (RE_USE_SESSION_WAIT_TIMESEC); "clean" tells whether it always was.     *)
Begin(u) ==
  /\ running
  /\ session[u] < MaxSessions[u]
  /\ Network!Begin(u)
  /\ session' = [session EXCEPT ![u] = @ + 1]
  /\ clean' = (clean /\ Forgotten(u))
  /\ UNCHANGED <<lineVars, listed, sendVars, registryVars>>

(* Mutant: the events are kept in a stack. *)
PushSystemPacketInFront(u, type) ==
  /\ running
  /\ Len(events) < MaxEvents
  /\ events' = <<[type |-> type, index |-> u]>> \o events
  /\ UNCHANGED <<session, joining, requests, moves, listed, sendVars, registryVars, clean>>

PushSystemPacket(u, type) ==
  /\ running
  /\ Len(events) < MaxEvents
  /\ events' = Append(events, [type |-> type, index |-> u])
  /\ UNCHANGED <<session, joining, requests, moves, listed, sendVars, registryVars, clean>>

(* GameServer::OnConnect and OnClose. *)
OnConnect(u) == Network!PushConnect(u) /\ PushSystemPacket(u, "CONNECT")

OnClose(u) == Network!PushDisconnect(u) /\ PushSystemPacket(u, "DISCONNECT")

(* The client closes, or Close does.  A send that is pending completes or  *)
(* is aborted; then it, and what is queued behind it, stays in the queue.  *)
End(u) ==
  /\ running
  /\ Network!End(u)
  /\ sent' = [sent EXCEPT ![u] = <<>>]
  /\ \/ UNCHANGED stalled
     \/ /\ sent[u] # <<>>
        /\ stalled' = stalled \union {u}
  /\ UNCHANGED <<session, running, lineVars, listed, registryVars, clean>>

-----------------------------------------------------------------------------
(* The process thread, and the reset thread of the shop *)

Reached(u) == connected[u] /\ u \notin stalled

(* SendPacketFunc to these slots. *)
Offer(us) == stalled' = stalled \union {u \in us : ~connected[u]}

(* Mutant: every slot is sent to. *)
AllOthers(u) == Users \ {u}

(* The registered users, without the user himself. *)
Others(u) == mUserIDDictionary \ {u}

Handles(u, type) == /\ running
                    /\ joining = {}
                    /\ events # <<>>
                    /\ Head(events) = [type |-> type, index |-> u]
                    /\ events' = Tail(events)
                    /\ UNCHANGED <<networkVars, requests, moves, sendVars, clean>>

(* RConnection::Connect up to AddUser: from now on the other thread's      *)
(* lists go to the newcomer, too.                                          *)
Connect(u) ==
  /\ Handles(u, "CONNECT")
  /\ AddUser(u)
  /\ joining' = {u}
  /\ listed' = listed \union {u}

(* Mutants: the newcomer is not told of the others, or before the others   *)
(* of itself.                                                              *)
ToNewcomerNothing(order) == <<resPlayerJoin>>

ToNewcomerLast(order) ==
  [k \in DOMAIN order |-> resReplicatedPlayerGen(PlayerOf(order[k]))] \o <<resPlayerJoin>>

ToNewcomer(order) ==
  <<resPlayerJoin>> \o [k \in DOMAIN order |-> resReplicatedPlayerGen(PlayerOf(order[k]))]

(* What the rest of RConnection::Connect and RReplicationPlayer::Join      *)
(* send.  The others are told of the newcomer with one buffer, which is    *)
(* freed after the first: what the rest of them get is anything.           *)
Join(u, order, garbage) ==
  LET message(v) == CASE v = u -> ToNewcomer(order)
                      [] v \in garbage -> <<Garbage>>
                      [] v \in Others(u) \ garbage -> <<resReplicatedPlayerGen(PlayerOf(u))>>
                      [] OTHER -> <<>>
  IN  /\ sent' = [v \in Users |-> IF Reached(v) THEN sent[v] \o message(v) ELSE sent[v]]
      /\ Offer(Others(u) \union {u})

(* An unordered_set is visited in any order. *)
Orders(S) == {q \in [1..Cardinality(S) -> S] : IsInjective(q) /\ Range(q) = S}

Continues(u) == /\ running
                /\ joining = {u}
                /\ UNCHANGED <<networkVars, events, requests, moves, listed, registryVars, clean>>

SendJoin(u) ==
  /\ Continues(u)
  /\ \E order \in Orders(Others(u)) :
       \E garbage \in SUBSET {order[k] : k \in 2..Len(order)} : Join(u, order, garbage)
  /\ joining' = {}
  /\ UNCHANGED running

(* The buffer is freed once for each of the others: with two of them the   *)
(* heap may notice.                                                        *)
JoinDies(u) ==
  /\ Continues(u)
  /\ Cardinality(Others(u)) >= 2
  /\ running' = FALSE
  /\ UNCHANGED <<joining, sent, stalled>>

Disconnect(u) ==
  /\ Handles(u, "DISCONNECT")
  /\ DeleteUser(u)
  /\ UNCHANGED <<joining, listed>>

HandlesRequest == /\ running
                  /\ joining = {}
                  /\ requests # <<>>
                  /\ requests' = Tail(requests)
                  /\ UNCHANGED <<networkVars, events, joining, moves, listed, sent, running,
                                 registryVars, clean>>

(* Whoever sends a position is believed to be a player. *)
Synchronize == HandlesRequest /\ Offer(Others(Head(requests).index))

(* Who asks for the shop list, or announces its name, is sent the list or  *)
(* its inventory.                                                          *)
Answer == HandlesRequest /\ Offer({Head(requests).index})

(* SendCurrentShopItemList: after a reset, by the thread of the shop, or   *)
(* after a purchase, by the process thread.  GetAllUser lists the users    *)
(* under the lock of the registry, and they are sent to after it: by then  *)
(* any of them may have gone.                                              *)
BroadcastPacket(u) ==
  /\ running
  /\ u \in listed
  /\ Offer({u})
  /\ UNCHANGED <<networkVars, lineVars, listed, sent, running, registryVars, clean>>

-----------------------------------------------------------------------------
(* The clients *)

(* reqPlayerPosition, or a request for the shop list or one with the       *)
(* player's name: all may be sent before the player is registered.         *)
Move(u) ==
  /\ running
  /\ connected[u]
  /\ moves[u] < MaxMoves[u]
  /\ moves' = [moves EXCEPT ![u] = @ + 1]
  /\ requests' = Append(requests, PlayerOf(u))
  /\ UNCHANGED <<networkVars, events, joining, listed, sendVars, registryVars, clean>>

-----------------------------------------------------------------------------
SystemPacket == \E u \in Users : Connect(u) \/ SendJoin(u) \/ JoinDies(u) \/ Disconnect(u)

Next == \/ \E u \in Users : Begin(u) \/ OnConnect(u) \/ End(u) \/ OnClose(u)
                              \/ Move(u) \/ BroadcastPacket(u)
        \/ SystemPacket
        \/ Synchronize \/ Answer

Spec == Init /\ [][Next]_vars

-----------------------------------------------------------------------------
(* Properties *)

Announced(u) == connected[u] /\ Network!Has(u, "CONNECT")
Pending(u) == \E k \in DOMAIN events : events[k].index = u

(* The client has got, or is about to get, everything it was sent. *)
Attentive(u) == Reached(u) /\ Garbage \notin Range(sent[u])

(* CreateReplicatedObject makes a replica for every such message, without  *)
(* looking whether there is one.                                           *)
Told(u, p) == resReplicatedPlayerGen(p) \in Range(sent[u])

(* Two clients that are connected, and whose events have been handled,     *)
(* each have a replica of the other: whoever came first, and whatever      *)
(* became of earlier clients of their slots.                               *)
PlayersMeet ==
  \A u, v \in Users :
    /\ u # v /\ running
    /\ \A w \in {u, v} : Announced(w) /\ ~Pending(w) /\ w \notin joining
    /\ Attentive(u)
    => Told(u, PlayerOf(v))

(* The registry follows the sessions: when the events of a slot have been  *)
(* handled it is registered if a client is connected, and if none is it is *)
(* registered only if its CONNECT was pushed last.                         *)
RegistryFollows ==
  \A u \in Users :
    running /\ ~Pending(u)
    => /\ Announced(u) => u \in mUserIDDictionary
       /\ ~connected[u] /\ pushed[u] # <<>> /\ u \in mUserIDDictionary
            => Last(pushed[u]) = "CONNECT"

(* If every slot was forgotten before it got its next client, no client    *)
(* gets two replicas of a player (or its own index twice),                 *)
ToldOnce ==
  clean => \A u \in Users : \A j, k \in DOMAIN sent[u] :
    sent[u][j] = sent[u][k] /\ sent[u][j] # Garbage => j = k

(* of all that a client is told of players the first is its own index, in  *)
(* resPlayerJoin: nothing was meant for an earlier client of the slot, and *)
(* nobody else's Join comes between AddUser and the newcomer's own,        *)
JoinFirst == clean => \A u \in Users : sent[u] # <<>> => sent[u][1] = resPlayerJoin

(* and what a registered player asks, a position to be broadcast, say, is  *)
(* handled only when all who get it have been told of him.                 *)
PositionsFollow ==
  [][clean /\ Len(requests') < Len(requests)
       => LET p == Head(requests)
          IN  p.index \in mUserIDDictionary
              => \A u \in Others(p.index) : Attentive(u) => Told(u, p)]_vars
=============================================================================
