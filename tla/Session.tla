------------------------------- MODULE Session -------------------------------
(***************************************************************************)
(* One connection slot of the network layer: a stClientInfo (ClientInfo.h) *)
(* with the threads of IOCPServer (IOCPServer.h) that work on it.  The     *)
(* accepter offers the slot to the next client; any worker may be given    *)
(* the completion of any operation of the slot; the threads of the game    *)
(* (see Shop) send to it at any time.  The slots share nothing but the     *)
(* threads, so one is enough.                                              *)
(*                                                                         *)
(* Windows is outside: an operation on a socket completes at any time,     *)
(* well or not; those of a closed socket all complete.                     *)
(***************************************************************************)
EXTENDS Naturals, SequencesExt

CONSTANTS Workers,      \* the worker threads
          Sockets,      \* handles that Windows gives to the slot's sockets
          NoSocket,     \* INVALID_SOCKET
          MaxMessages   \* bound: messages ever sent to the slot

ASSUME NoSocketAssumption == NoSocket \notin Sockets
ASSUME MaxMessagesAssumption == MaxMessages \in Nat

VARIABLES mIsConnect,            \* is a client connected?
          mSocket,
          mLatestClosedTimeSec,  \* "never" (UINT32_MAX), or "long" or "just" ago
          mSendDataqueue,        \* messages to be sent, numbered
          operations,            \* overlapped operations not yet handled
          pc,                    \* where each worker is
          known,                 \* has the game heard of a client here?
          messages,              \* messages given to SendMsg so far
          wire,                  \* history: messages given to WSASend
          pushed,                \* history: events pushed since a client connected
          failed                 \* history: has the accepter failed to offer the slot?

slotVars == <<mIsConnect, mSocket, mLatestClosedTimeSec>>
sendVars == <<mSendDataqueue, messages, wire>>
gameVars == <<known, pushed>>
vars == <<slotVars, sendVars, operations, pc, gameVars, failed>>

Message == 1..MaxMessages
Operation == [op : {"ACCEPT", "RECV"}, socket : Sockets]
               \union [op : {"SEND"}, socket : Sockets, message : Message]

(* A connected slot has a socket. *)
TypeOK ==
  /\ mIsConnect \in BOOLEAN
  /\ mSocket \in IF mIsConnect THEN Sockets ELSE Sockets \union {NoSocket}
  /\ mLatestClosedTimeSec \in {"never", "long", "just"}
  /\ mSendDataqueue \in Seq(Message)
  /\ operations \subseteq Operation
  /\ pc \in [Workers -> {"idle", "bind", "connect", "receive", "check", "close", "announce"}]
  /\ messages \in 0..MaxMessages
  /\ wire \in Seq(Message)
  /\ known \in BOOLEAN
  /\ pushed \in Seq({"CONNECT", "DISCONNECT"})
  /\ failed \in BOOLEAN

(* mLatestClosedTimeSec is zero: a new slot is offered at once. *)
Init == /\ mIsConnect = FALSE
        /\ mSocket = NoSocket
        /\ mLatestClosedTimeSec = "long"
        /\ mSendDataqueue = <<>>
        /\ operations = {}
        /\ pc = [w \in Workers |-> "idle"]
        /\ messages = 0
        /\ wire = <<>>
        /\ known = FALSE
        /\ pushed = <<"CONNECT", "DISCONNECT">>
        /\ failed = FALSE

Goto(w, from, to) == pc[w] = from /\ pc' = [pc EXCEPT ![w] = to]

-----------------------------------------------------------------------------
(* AccepterThread *)

(* RE_USE_SESSION_WAIT_TIMESEC after Close.  The wait is taken to be long  *)
(* enough for Windows to abort what was pending on the closed socket, and  *)
(* for the workers to handle that: nothing in the code ensures it.         *)
WaitElapses == /\ mLatestClosedTimeSec = "just"
               /\ operations = {}
               /\ \A w \in Workers : pc[w] = "idle"
               /\ mLatestClosedTimeSec' = "long"
               /\ UNCHANGED <<mIsConnect, mSocket, sendVars, operations, pc, gameVars, failed>>

(* Mutant: the slot is offered without the wait. *)
PostAcceptAtOnce(s) == /\ ~mIsConnect
                       /\ mLatestClosedTimeSec # "never"
                       /\ mLatestClosedTimeSec' = "never"
                       /\ mSocket' = s
                       /\ operations' = operations \union {[op |-> "ACCEPT", socket |-> s]}
                       /\ UNCHANGED <<mIsConnect, sendVars, pc, gameVars, failed>>

PostAccept(s) == /\ ~mIsConnect
                 /\ mLatestClosedTimeSec = "long"
                 /\ mLatestClosedTimeSec' = "never"
                 /\ mSocket' = s
                 /\ operations' = operations \union {[op |-> "ACCEPT", socket |-> s]}
                 /\ UNCHANGED <<mIsConnect, sendVars, pc, gameVars, failed>>

(* No socket, or AcceptEx fails: the slot is not offered again.  (In the   *)
(* second case mSocket is a socket that nobody uses.)                      *)
PostAcceptFails == /\ ~mIsConnect
                   /\ mLatestClosedTimeSec = "long"
                   /\ mLatestClosedTimeSec' = "never"
                   /\ mSocket' = NoSocket
                   /\ failed' = TRUE
                   /\ UNCHANGED <<mIsConnect, sendVars, operations, pc, gameVars>>

-----------------------------------------------------------------------------
(* Sending.  Both operations hold mSendLock. *)

(* SendIO: the front of the queue q goes to WSASend.  What WSASend refuses *)
(* (always, if nobody is connected) stays in the queue, and neither caller *)
(* looks at the result.                                                    *)
SendIO(q, others) ==
  \/ /\ mIsConnect
     /\ operations' = others \union {[op |-> "SEND", socket |-> mSocket, message |-> Head(q)]}
     /\ wire' = Append(wire, Head(q))
  \/ /\ operations' = others
     /\ UNCHANGED wire

(* Mutant: every call sends the front of the queue. *)
SendMsgAtOnce ==
  /\ known
  /\ messages < MaxMessages
  /\ messages' = messages + 1
  /\ mSendDataqueue' = Append(mSendDataqueue, messages')
  /\ SendIO(mSendDataqueue', operations)
  /\ UNCHANGED <<slotVars, pc, gameVars, failed>>

(* The game sends to a slot that it has heard of: also to one whose client *)
(* has gone, until it has handled that and the requests that were left.    *)
SendMsg ==
  /\ known
  /\ messages < MaxMessages
  /\ messages' = messages + 1
  /\ mSendDataqueue' = Append(mSendDataqueue, messages')
  /\ IF mSendDataqueue = <<>> THEN SendIO(mSendDataqueue', operations)
                              ELSE UNCHANGED <<operations, wire>>
  /\ UNCHANGED <<slotVars, pc, gameVars, failed>>

(* A worker gets the completion of a send: whichever it is, the front of   *)
(* the queue is freed and popped.                                          *)
SendCompleted(w) ==
  \E o \in operations :
    /\ o.op = "SEND"
    /\ pc[w] = "idle"
    /\ mSendDataqueue' = Tail(mSendDataqueue)
    /\ IF mSendDataqueue' # <<>> THEN SendIO(mSendDataqueue', operations \ {o})
                                 ELSE operations' = operations \ {o} /\ UNCHANGED wire
    /\ UNCHANGED <<slotVars, messages, pc, gameVars, failed>>

-----------------------------------------------------------------------------
(* The other completions, in WokerThread. *)

(* WSARecv on the slot's socket; one that is not open refuses. *)
BindRecv == \/ /\ mIsConnect
               /\ operations' = operations \union {[op |-> "RECV", socket |-> mSocket]}
            \/ UNCHANGED operations

(* AcceptCompletion begins: the slot is connected. *)
TakeAccept(w) ==
  \E o \in operations :
    /\ o.op = "ACCEPT"
    /\ Goto(w, "idle", "bind")
    /\ operations' = operations \ {o}
    /\ mIsConnect' = TRUE
    /\ pushed' = <<>>
    /\ UNCHANGED <<mSocket, mLatestClosedTimeSec, sendVars, known, failed>>

(* Mutant: AcceptCompletion does not return what BindRecv returns.         *)
FirstBindUnchecked(w) ==
  /\ BindRecv
  /\ Goto(w, "bind", "connect")
  /\ UNCHANGED <<slotVars, sendVars, gameVars, failed>>

(* stClientInfo::OnConnect goes on.  If WSARecv fails the slot is closed.  *)
FirstBindRecv(w) ==
  /\ BindRecv
  /\ Goto(w, "bind", IF operations' # operations THEN "connect" ELSE "check")
  /\ UNCHANGED <<slotVars, sendVars, gameVars, failed>>

(* GameServer::OnConnect pushes SYSTEM_USER_CONNECT.                       *)
OnConnect(w) ==
  /\ Goto(w, "connect", "idle")
  /\ known' = TRUE
  /\ pushed' = Append(pushed, "CONNECT")
  /\ UNCHANGED <<slotVars, sendVars, operations, failed>>

(* Mutant: the next receive is posted before the data are read. *)
BindBeforeReceive(w) ==
  \E o \in operations :
    /\ o.op = "RECV"
    /\ Goto(w, "idle", "receive")
    /\ mIsConnect
    /\ known' = TRUE
    /\ UNCHANGED <<slotVars, sendVars, operations, pushed, failed>>

(* Data have come: GameServer::OnReceive reads mRecvBuf and hands over the *)
(* packets in it, maybe before another worker has called OnConnect.        *)
TakeRecv(w) ==
  \E o \in operations :
    /\ o.op = "RECV"
    /\ Goto(w, "idle", "receive")
    /\ operations' = operations \ {o}
    /\ known' = TRUE
    /\ UNCHANGED <<slotVars, sendVars, pushed, failed>>

(* OnReceive returns and the next receive is posted.  The result of        *)
(* BindRecv is not looked at.                                              *)
NextBindRecv(w) ==
  /\ BindRecv
  /\ Goto(w, "receive", "idle")
  /\ UNCHANGED <<slotVars, sendVars, gameVars, failed>>

(* A receive or a send has failed, or the client has closed. *)
TakeFailure(w) ==
  \E o \in operations :
    /\ o.op \in {"RECV", "SEND"}
    /\ Goto(w, "idle", "check")
    /\ operations' = operations \ {o}
    /\ UNCHANGED <<slotVars, sendVars, gameVars, failed>>

(* CloseSocket tests IsConnectd and then closes: two workers may both find *)
(* the slot connected.                                                     *)
CloseSocket(w) ==
  /\ Goto(w, "check", IF mIsConnect THEN "close" ELSE "idle")
  /\ UNCHANGED <<slotVars, sendVars, operations, gameVars, failed>>

(* Mutants: the flag is not reset; the time is not noted; the queue is     *)
(* flushed.                                                                *)
CloseKeepsFlag(w) ==
  /\ Goto(w, "close", "announce")
  /\ mSocket' = NoSocket
  /\ mLatestClosedTimeSec' = "just"
  /\ UNCHANGED <<mIsConnect, sendVars, operations, gameVars, failed>>

CloseUntimed(w) ==
  /\ Goto(w, "close", "announce")
  /\ mIsConnect' = FALSE
  /\ mSocket' = NoSocket
  /\ UNCHANGED <<mLatestClosedTimeSec, sendVars, operations, gameVars, failed>>

CloseFlushes(w) ==
  /\ Goto(w, "close", "announce")
  /\ mIsConnect' = FALSE
  /\ mSocket' = NoSocket
  /\ mLatestClosedTimeSec' = "just"
  /\ mSendDataqueue' = <<>>
  /\ UNCHANGED <<messages, wire, operations, gameVars, failed>>

Close(w) ==
  /\ Goto(w, "close", "announce")
  /\ mIsConnect' = FALSE
  /\ mSocket' = NoSocket
  /\ mLatestClosedTimeSec' = "just"
  /\ UNCHANGED <<sendVars, operations, gameVars, failed>>

(* Mutant: a slot that is no longer connected is not announced. *)
OnCloseIfConnected(w) ==
  /\ Goto(w, "announce", "idle")
  /\ pushed' = IF mIsConnect THEN Append(pushed, "DISCONNECT") ELSE pushed
  /\ UNCHANGED <<slotVars, sendVars, operations, known, failed>>

(* GameServer::OnClose pushes SYSTEM_USER_DISCONNECT.                      *)
OnClose(w) ==
  /\ Goto(w, "announce", "idle")
  /\ pushed' = Append(pushed, "DISCONNECT")
  /\ UNCHANGED <<slotVars, sendVars, operations, known, failed>>

-----------------------------------------------------------------------------
AccepterThread == WaitElapses \/ PostAcceptFails \/ \E s \in Sockets : PostAccept(s)

(* The steps of a worker that waits for no completion. *)
Handle(w) == \/ FirstBindRecv(w)
             \/ OnConnect(w)
             \/ NextBindRecv(w)
             \/ CloseSocket(w)
             \/ Close(w)
             \/ OnClose(w)

Complete(w) == TakeAccept(w) \/ TakeRecv(w) \/ SendCompleted(w) \/ TakeFailure(w)

WokerThread(w) == Handle(w) \/ Complete(w)

Next == AccepterThread \/ SendMsg \/ \E w \in Workers : WokerThread(w)

(* The threads keep running, and what was pending on a socket when it was  *)
(* closed completes.  Nothing is assumed of the clients.                   *)
Aborted == \E w \in Workers : ~mIsConnect /\ (TakeRecv(w) \/ SendCompleted(w) \/ TakeFailure(w))

Spec == /\ Init /\ [][Next]_vars
        /\ WF_vars(AccepterThread)
        /\ WF_vars(Aborted)
        /\ \A w \in Workers : WF_vars(Handle(w))

-----------------------------------------------------------------------------
(* Properties *)

(* The slot has one receive buffer: while a worker reads it no other does, *)
(* and no receive is pending that would overwrite it.                      *)
OneReader ==
  LET readers == {w \in Workers : pc[w] = "receive"}
      pending == {o \in operations : o.op = "RECV"}
  IN  Cardinality(readers) + Cardinality(pending) <= 1

(* SendMsg is called by two threads of the game and SendCompleted by every *)
(* worker, yet the messages go out once each and in the order of the calls.*)
SendsInOrder == \A j, k \in 1..Len(wire) : j < k => wire[j] < wire[k]

(* SendCompleted frees the front of the queue and not the operation that   *)
(* completed: they are the same, also for a send that was pending when the *)
(* slot was closed.                                                        *)
FreesWhatWasSent ==
  \A o \in operations :
    o.op = "SEND" => mSendDataqueue # <<>> /\ o.message = Head(mSendDataqueue)

(* When the workers are done with a session that has ended, the game has   *)
(* been told SYSTEM_USER_DISCONNECT since it began.                        *)
EveryEndAnnounced ==
  ~mIsConnect /\ (\A w \in Workers : pc[w] = "idle")
    => "DISCONNECT" \in Range(pushed)

(* Seen from the game, the slot does what SlotEvents says: no event of a    *)
(* session comes twice or in the next session, apart from a second         *)
(* DISCONNECT, whichever workers push them.                                *)
Events == INSTANCE SlotEvents WITH Slots <- {"slot"},
                                   connected <- [s \in {"slot"} |-> mIsConnect],
                                   pushed <- [s \in {"slot"} |-> pushed]

ImplementsSlotEvents == Events!Spec

(* A connected slot is watched by a receive that will complete when the    *)
(* client leaves, or by a worker that posts one or closes the slot.        *)
Watched == \/ ~mIsConnect
           \/ \E o \in operations : o.op = "RECV"
           \/ \E w \in Workers : pc[w] \in {"bind", "receive", "check", "close"}

(* A session is left unwatched only by a BindRecv that WokerThread does    *)
(* not look at the result of; whatever completes and whoever closes in     *)
(* between, only the failure of a send ends it then (no receive is left).  *)
WatchedUntilRefused ==
  [][/\ Watched /\ ~Watched' => \E w \in Workers : NextBindRecv(w)
     /\ ~Watched /\ Watched' => \E w \in Workers : TakeFailure(w)]_vars

AcceptPosted == \E o \in operations : o.op = "ACCEPT"

(* However a session ends, the slot is offered to a client again after it, *)
(* unless the accepter fails to: it does not try a slot twice.             *)
OfferedAgain == <>failed \/ []<>(mIsConnect \/ AcceptPosted)
=============================================================================
