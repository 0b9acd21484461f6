--------------------------- MODULE MCEcuActuators ---------------------------
(* Two blink intervals, a legal and an illegal buzzer frequency, and stick *)
(* positions on both sides of the deadzone, at the limits and out of range. *)
EXTENDS EcuActuators

MCSticks == {<<0, 0>>, <<50, 50>>, <<58, 50>>, <<57, 99>>, <<99, 20>>, <<0, 51>>, <<100, 50>>}

=============================================================================
