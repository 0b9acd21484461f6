----------------------------- MODULE ControlPath -----------------------------
(***************************************************************************)
(* From the driver to the wheels: the realtime service of the vehicle      *)
(* computer (Realtime), the network and the ECU's actuators (EcuActuators). *)
(* Requests travel in UDP datagrams over one Ethernet link: in order, but  *)
(* one may be lost, and no one sends it again.  Either end may restart,    *)
(* and the other one does not notice.                                      *)
(***************************************************************************)
EXTENDS Realtime, EcuActuators, FiniteSets

(* Intervals, Frequencies, Sticks and Horizon describe the other clients   *)
(* an ECU may have; in this module the comm thread is the only one.        *)
CONSTANTS
  MaxChanges,  \* bound: things the driver, the key and the sensors do
  MaxLost,     \* bound: kinds of request of which one is ever lost
  Restarts     \* bound: whether either end ever restarts

VARIABLES
  changes,     \* history: how often the outside has acted
  lost,        \* history: the kinds of request that have been lost;
               \* all, once one end has restarted
  stale        \* history: those of which none has arrived since

historyVars == <<changes, lost, stale>>
vars == <<rtVars, ecuVars, historyVars>>

Kinds == {"buzzer", "back", "front_down", "front_up", "alert", "motor"}

Init == RtInit /\ EcuInit /\ changes = 0 /\ lost = {} /\ stale = {}

(* The driver, the key or a sensor changes something in g_shared. *)
Act == /\ Outside
       /\ changes < MaxChanges
       /\ changes' = changes + 1
       /\ UNCHANGED <<ecuVars, lost, stale>>

Control == control_thread /\ UNCHANGED <<ecuVars, historyVars>>

Send == comm_thread /\ UNCHANGED <<ecuVars, historyVars>>

Kind(request) == IF request.to = "led" THEN request.side ELSE request.to

LoseRequest ==
  /\ net # <<>>
  /\ lost' = lost \cup {Kind(Head(net))}
  /\ stale' = stale \cup {Kind(Head(net))}
  /\ Cardinality(lost') <= MaxLost
  /\ net' = Tail(net)
  /\ UNCHANGED <<sharedVars, controlVars, preOut, ecuVars, changes>>

(* The ECU's main loop receives the oldest request, or none. *)
Handle(request) ==
  \/ /\ request.to = "buzzer"
     /\ BuzzerControl(IF request.on THEN 1 ELSE 0, request.freq)
  \/ /\ request.to = "led"
     /\ LedControl(request.side, IF request.on THEN 1 ELSE 0)
  \/ request.to = "alert" /\ AlertControl(request.interval)
  \/ request.to = "motor" /\ MotorControl(request.stick[1], request.stick[2])

EcuReceive ==
  /\ \/ /\ net # <<>>
        /\ Handle(Head(net))
        /\ net' = Tail(net)
        /\ stale' = stale \ {Kind(Head(net))}
     \/ net = <<>> /\ NoRequest /\ UNCHANGED <<net, stale>>
  /\ UNCHANGED <<sharedVars, controlVars, preOut, changes, lost>>

EcuUpdate == EmerAlert_Update_Periodic /\ UNCHANGED <<rtVars, historyVars>>

(* The ECU is reset; what is on its way is lost while it starts.           *)
EcuRestart ==
  /\ Restarts
  /\ Reset
  /\ net' = <<>>
  /\ lost' = Kinds /\ stale' = Kinds
  /\ UNCHANGED <<sharedVars, controlVars, preOut, changes>>

RealtimeRestart ==
  /\ Restarts
  /\ RtRestart
  /\ lost' = Kinds /\ stale' = Kinds
  /\ UNCHANGED <<ecuVars, changes>>

Next == \/ Act \/ Control \/ Send \/ LoseRequest \/ EcuReceive \/ EcuUpdate
        \/ EcuRestart \/ RealtimeRestart

Spec == Init /\ [][Next]_vars

(* The control and comm threads run every 20 ms and the ECU's main loop    *)
(* never stops; nothing is assumed of the driver, the key and the sensors. *)
LiveSpec ==
  /\ Spec
  /\ WF_vars(Control) /\ WF_vars(Send)
  /\ WF_vars(EcuReceive) /\ WF_vars(EcuUpdate)

-----------------------------------------------------------------------------

TypeOK == RtTypeOK /\ EcuTypeOK /\ stale \subseteq lost /\ lost \subseteq Kinds

WheelsFollow(throttle, steer) ==
  LET stick == Stick(throttle, steer)
  IN /\ motor.left = LeftSpeed(stick[1], stick[2])
     /\ motor.right = RightSpeed(stick[1], stick[2])

(* When everything sent has arrived, what the comm thread remembers having *)
(* sent is what the ECU does: preOut is the only record of the ECU's state, *)
(* and nobody ever reads it back.  A lost request, or a restart of either  *)
(* end, leaves an actuator wrong, but only until the next request of its   *)
(* kind arrives.  The alert overrides rear LED and buzzer, whose own       *)
(* requests the ECU then ignores; they agree again once it is over, unless *)
(* an alert request was ever lost.                                         *)
SentIsDone ==
  net = <<>> /\ phase = "rx" =>
    /\ "alert" \notin stale => interval = preOut.alert
    /\ "front_down" \notin stale => led["front_down"] = preOut.led_front_down
    /\ "front_up" \notin stale => led["front_up"] = preOut.led_front_up
    /\ "alert" \notin lost /\ preOut.alert = -1 => ~led["back"] /\ ~buzzer.on
    /\ "motor" \notin stale => WheelsFollow(preOut.throttle, preOut.steer)

(* The buzzer sounds only while the alert does.  The comm thread sends the *)
(* old on/off state with every new frequency (comm_thread.cpp:30): a       *)
(* "buzzer on" goes out just when the alarm ends, and stays without effect *)
(* only because the alert's own end is sent after it.                      *)
BuzzerOnlyInAlert == "alert" \notin lost => (buzzer.on => isAlertOn)

(* An obstacle that stays too close for the speed asked for ends in full   *)
(* reverse, a lit rear LED and a sounding buzzer, whatever the driver, the *)
(* door and the interleaving of the threads do, if the link loses nothing. *)
Obstacle == engine_on /\ Danger([joy |-> joy, sensor |-> sensor])

AebReachesEcu ==
  <>[]Obstacle /\ [](lost = {}) =>
    <>[](motor.y = 0 /\ led["back"] /\ buzzer.on)

(* After the obstacle is gone and the door rests, the alarm ends and the   *)
(* wheels follow the stick again.                                          *)
Clear == engine_on /\ ~Emergency(sensor.front, 100)

AlarmEnds ==
  (/\ <>[]Clear
   /\ <>[]door_locked \/ <>[]~door_locked
   /\ [](lost = {})) => <>[](~isAlertOn /\ ~buzzer.on /\ ~led["back"])

DriverRegainsControl ==
  \A j \in Joys :
    <>[](Clear /\ joy = j) /\ [](lost = {}) =>
      <>[]WheelsFollow(map_joy(j[2]), Limit(map_joy(j[1]), 80))

(* Turning the engine off stops the wheels: the comm thread is described   *)
(* as sending control commands and synchronising engine_on                 *)
(* (vc_software/README.md).                                                *)
EngineOffStopsWheels ==
  <>[]~engine_on /\ [](lost = {}) => <>[](motor.left = 0 /\ motor.right = 0)

=============================================================================
