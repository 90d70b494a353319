-------------------------- MODULE MCSessionStalled --------------------------
(* Session for TLC with clients whose sockets take every send: only a send *)
(* to a slot without a client is refused.                                  *)
EXTENDS Session

(* A send that comes to the front while a client is connected is taken. *)
Healthy ==
  LET front == /\ mSendDataqueue' # <<>>
               /\ mSendDataqueue = <<>> \/ Head(mSendDataqueue') # Head(mSendDataqueue)
  IN  mIsConnect /\ front => wire' # wire

HealthySpec == Init /\ [][Next /\ Healthy]_vars

Quiet == \A w \in Workers : pc[w] = "idle"

(* ClientInfo.h 236: a send that WSASend refuses is handled as the end of   *)
(* its connection.  It would then not hold up the next one: with no worker  *)
(* under way, a message that waits in the queue of a connected slot would   *)
(* have a send pending.  TLC refutes it: nobody handles the refusal, the    *)
(* message stays in front, and since SendMsg sends only when the queue was  *)
(* empty the next client gets nothing at all.                               *)
QueueMoves ==
  Quiet /\ mIsConnect /\ mSendDataqueue # <<>> => \E o \in operations : o.op = "SEND"
=============================================================================
