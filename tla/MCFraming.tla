----------------------------- MODULE MCFraming -----------------------------
(* Framing for TLC.  A stream is where its packets end; a packet has four *)
(* bytes of header.                                                       *)
EXTENDS Framing

(* Small packets, of which two fit in the buffer; one that fills it; and  *)
(* one with a header only.                                                *)
MCStreams == {<<5, 11, 16>>, <<6, 18, 23>>, <<4, 12>>}
=============================================================================
