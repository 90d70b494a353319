----------------------------- MODULE MCSession -----------------------------
(* Session for TLC: the bounds are in MCSession.cfg. *)
EXTENDS Session
=============================================================================
