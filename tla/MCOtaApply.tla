------------------------------ MODULE MCOtaApply ------------------------------
(* Two updates; the second asks for confirmation. *)
EXTENDS OtaApply

CONSTANTS u1, u2

MCUpdates == {u1, u2}
MCConfirmed == {u2}
MCVersion(u) == IF u = u1 THEN 1 ELSE 2

=============================================================================
