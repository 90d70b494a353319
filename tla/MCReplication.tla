--------------------------- MODULE MCReplication ---------------------------
(* Replication for TLC: the bounds are in MCReplication.cfg. *)
EXTENDS Replication

(* One slot is used twice, and its clients move, while those of the others *)
(* stay or go.                                                             *)
MCMaxSessions == [u \in Users |-> IF u = 0 THEN 2 ELSE 1]
MCMaxMoves == [u \in Users |-> IF u = 0 THEN 1 ELSE 0]
=============================================================================
