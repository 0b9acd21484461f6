---------------------------- MODULE MCUltrasonic -----------------------------
(* A queue of three places, a filter over two measurements, edges at three *)
(* times about 100 mm apart.                                               *)
EXTENDS Ultrasonic
Edges == [pin_state : BOOLEAN, time : {600, 1300, 2100}]
=============================================================================
