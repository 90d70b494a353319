----------------------------- MODULE SlotEvents -----------------------------
(***************************************************************************)
(* What the network layer promises to the game about its slots, with none  *)
(* of its threads, sockets and operations: which connection events it      *)
(* pushes in which order.  A session is announced at most once and its end *)
(* at most twice; the two may come in either order; and when a slot is     *)
(* given to the next client, everything about the last one has been pushed.*)
(* Session implements this module (its property ImplementsSlotEvents);     *)
(* Replication builds on it.                                               *)
(***************************************************************************)
EXTENDS SequencesExt

CONSTANT Slots

VARIABLES connected,   \* is a client connected to the slot?
          pushed       \* the events of its last session, in order

slotEvents == <<connected, pushed>>

Has(s, event) == event \in Range(pushed[s])
Disconnects(s) == {k \in DOMAIN pushed[s] : pushed[s][k] = "DISCONNECT"}

(* A slot never used is as good as one whose session has ended. *)
Init == /\ connected = [s \in Slots |-> FALSE]
        /\ pushed = [s \in Slots |-> <<"CONNECT", "DISCONNECT">>]

Push(s, event) == /\ pushed' = [pushed EXCEPT ![s] = Append(@, event)]
                  /\ UNCHANGED connected

Begin(s) == /\ ~connected[s]
            /\ Has(s, "DISCONNECT")
            /\ connected' = [connected EXCEPT ![s] = TRUE]
            /\ pushed' = [pushed EXCEPT ![s] = <<>>]

(* It may come after the client has gone, but not in the next session. *)
PushConnect(s) == /\ ~Has(s, "CONNECT")
                  /\ Push(s, "CONNECT")

End(s) == /\ connected[s]
          /\ connected' = [connected EXCEPT ![s] = FALSE]
          /\ UNCHANGED pushed

(* Two workers may find that the client has gone. *)
PushDisconnect(s) == /\ ~connected[s]
                     /\ \A j, k \in Disconnects(s) : j = k
                     /\ Push(s, "DISCONNECT")

Next == \E s \in Slots : Begin(s) \/ PushConnect(s) \/ End(s) \/ PushDisconnect(s)

Spec == Init /\ [][Next]_slotEvents
=============================================================================
