----------------------------- MODULE MCRingQueue -----------------------------
(* A queue of three usable places, filled and wrapped twice. *)
EXTENDS RingQueue
=============================================================================
