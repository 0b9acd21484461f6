---------------------------- MODULE MCToFReceiver ----------------------------
(* Five frames of a header and a checksum each. *)
EXTENDS ToFReceiver
Bytes == [frame : 1 .. 5, pos : 0 .. 1, header : BOOLEAN]
=============================================================================
