---------------------------- MODULE MCControlPath ----------------------------
(* Full speed ahead; an obstacle braked for at speed only, and free road.  *)
(* The stick of a motor request undoes map_joy_to_throttle and _steer.     *)
EXTENDS ControlPath

MCJoys == {<<50, 99>>}
MCSamples == {[front |-> 150, lux |-> 5], [front |-> 1000, lux |-> 200]}
MCStick(throttle, steer) == <<steer \div 2 + 50, throttle \div 2 + 50>>

=============================================================================
