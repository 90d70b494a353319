----------------------------- MODULE PacketFifo -----------------------------
(***************************************************************************)
(* What the packet manager promises to the network layer, with none of its *)
(* bookkeeping: the packets of all clients form ONE line, served in the    *)
(* order they were accepted; connection events form a second line of their *)
(* own; one packet is handled at a time; and, as long as the service is    *)
(* open, neither line can be starved by the other.                         *)
(* PacketManager implements this module (its property ServesInOrder).      *)
(***************************************************************************)
EXTENDS Sequences

CONSTANTS Packet,     \* the packets that can be accepted
          NoPacket    \* what is being handled when nothing is

VARIABLES waiting,    \* accepted requests of all clients, oldest first
          system,     \* announced connection events, oldest first
          handling,   \* the packet being handled, or NoPacket
          open        \* FALSE once the service has stopped

vars == <<waiting, system, handling, open>>

(* The end marker is taken from the line and not handled. *)
IsEndMarker(p) == p.type = "SystemEnd"

Init == /\ waiting = <<>>
        /\ system = <<>>
        /\ handling = NoPacket
        /\ open = TRUE

Accept(p) == /\ waiting' = Append(waiting, p)
             /\ UNCHANGED <<system, handling, open>>

Announce(p) == /\ system' = Append(system, p)
               /\ UNCHANGED <<waiting, handling, open>>

Ready == open /\ handling = NoPacket

Take == /\ Ready
        /\ waiting # <<>>
        /\ waiting' = Tail(waiting)
        /\ handling' = IF IsEndMarker(Head(waiting)) THEN NoPacket ELSE Head(waiting)
        /\ UNCHANGED <<system, open>>

TakeSystem == /\ Ready
              /\ system # <<>>
              /\ system' = Tail(system)
              /\ handling' = Head(system)
              /\ UNCHANGED <<waiting, open>>

Finish == /\ handling # NoPacket
          /\ handling' = NoPacket
          /\ UNCHANGED <<waiting, system, open>>

Close == /\ Ready
         /\ open' = FALSE
         /\ UNCHANGED <<waiting, system, handling>>

Next == \/ \E p \in Packet : Accept(p) \/ Announce(p)
        \/ Take
        \/ TakeSystem
        \/ Finish
        \/ Close

Safety == Init /\ [][Next]_vars

(* Strong fairness: a line that is non-empty again and again while the     *)
(* server is ready is served again and again, however busy the other is.   *)
Spec == Safety /\ SF_vars(Take) /\ SF_vars(TakeSystem) /\ WF_vars(Finish)
=============================================================================
