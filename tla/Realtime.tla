------------------------------- MODULE Realtime -------------------------------
(***************************************************************************)
(* The realtime service of the vehicle computer: the joystick, IPC, sensor *)
(* and control threads around g_shared, and the comm thread, which sends   *)
(* the ECU what changed since it last sent.                                *)
(*                                                                         *)
(* Every access to g_shared is under its mutex and is one step.  The       *)
(* control thread holds it twice in a cycle, to read its inputs and to     *)
(* publish its output.  No thread writes g_shared.mode, so it is Assist.   *)
(***************************************************************************)
EXTENDS Integers, Sequences

CONSTANTS
  Joys,         \* stick positions <<x, y>> the joystick sends
  Samples,      \* sensor samples [front, lux]: mm ahead (-1: none) and lux
  ChirpCycles,  \* control cycles a door chirp tone lasts at most
  Stick(_, _),  \* what VSomeIPManager puts into a motor request
  MaxNet,       \* bound: requests on their way to the ECU
  None          \* no value yet

ASSUME JoysAssumption == Joys \subseteq (0 .. 99) \X (0 .. 99)
ASSUME SamplesAssumption == Samples \subseteq [front : Int, lux : Int]
ASSUME ChirpAssumption == ChirpCycles \in Nat \ {0}
ASSUME MaxNetAssumption == MaxNet \in Nat
(* The ECU takes every stick position the service asks for, the centre     *)
(* means standstill, and (0, 0), which a fresh ECU refuses, is none of them. *)
ASSUME StickAssumption ==
  /\ \A throttle \in -100 .. 98, steer \in -80 .. 80 :
       Stick(throttle, steer) \in ((0 .. 99) \X (0 .. 99)) \ {<<0, 0>>}
  /\ Stick(0, 0) = <<50, 50>>

VARIABLES
  engine_on, door_locked, joy, sensor, out,  \* g_shared
  inputs,     \* control thread: the inputs of the cycle it is in, or None
  last_door,  \* last_door_locked_, None until door_state_initialized_
  chirp,      \* door_buzzer_state_ and the cycles it has lasted
  preOut,     \* comm thread: the output last sent
  net         \* requests sent and not yet received, oldest first

sharedVars == <<engine_on, door_locked, joy, sensor>>
controlVars == <<out, inputs, last_door, chirp>>
commVars == <<preOut, net>>
rtVars == <<sharedVars, controlVars, commVars>>

-----------------------------------------------------------------------------
(* What one control cycle computes from its inputs.                        *)

(* Mutant: only the upper bound holds. *)
LimitAbove(v, bound) == IF v > bound THEN bound ELSE v

Limit(v, bound) == IF v > bound THEN bound ELSE IF v < -bound THEN -bound ELSE v

map_joy(v) == Limit((v - 50) * 2, 100)

(* AebController::update; the quotient truncates, but is only taken of a   *)
(* numerator that is not negative.                                         *)
BrakingDistance(speed) ==
  LET numerator == -27 * speed * speed + 6496 * speed - 112642
  IN IF numerator < 0 THEN 0 ELSE numerator \div 1000

Emergency(distance, speed) ==
  /\ distance >= 0
  /\ \/ distance <= 105
     \/ speed > 0 /\ distance <= BrakingDistance(speed) + 100

Danger(in) == LET thr == map_joy(in.joy[2])
              IN Emergency(in.sensor.front, IF thr > 0 THEN thr ELSE 0)

Silent == [buzzerOn |-> FALSE, frequency |-> 0, led_back |-> FALSE,
           led_front_down |-> FALSE, led_front_up |-> FALSE, alert |-> -1,
           throttle |-> 0, steer |-> 0]

(* Driving with the engine on, before the door feedback is added. *)
Drive(in) ==
  LET aeb == Danger(in)
  IN [buzzerOn |-> aeb, frequency |-> IF aeb THEN 500 ELSE 0, led_back |-> aeb,
      led_front_down |-> TRUE, led_front_up |-> in.sensor.lux \in 0 .. 49,
      alert |-> IF aeb THEN 0 ELSE -1,
      throttle |-> IF aeb THEN -100 ELSE map_joy(in.joy[2]),
      steer |-> Limit(map_joy(in.joy[1]), 80)]

(* applyDoorLockFeedback: a tone, unless the emergency brake sounds.       *)
WithChirp(o, tone) ==
  IF tone = "idle" \/ o.buzzerOn THEN o
  ELSE [o EXCEPT !.buzzerOn = TRUE, !.alert = 0,
                 !.frequency = IF tone = "low" THEN 350 ELSE 900]

(* handleDoorLockTransition: the first cycle only notes the door's state.  *)
DoorChirp(locked) ==
  IF last_door \in {None, locked} THEN chirp ELSE [tone |-> "low", age |-> 0]

(* A tone ends when 180 ms have passed, at some cycle after the one that   *)
(* started it; cycles are 20 ms apart or more.                             *)
MayExpire(c) == IF c.age = 0 THEN {FALSE}
                ELSE IF c.age >= ChirpCycles THEN {TRUE} ELSE BOOLEAN

(* Mutant: the high tone does not clear the pending flag. *)
PlayedAgain(c, expired) ==
  IF c.tone = "idle" THEN c
  ELSE IF ~expired THEN [c EXCEPT !.age = @ + 1]
  ELSE [tone |-> IF c.tone = "low" THEN "high" ELSE "low", age |-> 1]

Played(c, expired) ==
  IF c.tone = "idle" THEN c
  ELSE IF ~expired THEN [c EXCEPT !.age = @ + 1]
  ELSE IF c.tone = "low" THEN [tone |-> "high", age |-> 1]
  ELSE [tone |-> "idle", age |-> 0]

computeOutput(in, tone) == WithChirp(IF in.engine THEN Drive(in) ELSE Silent, tone)

-----------------------------------------------------------------------------

FirstOutput == [Silent EXCEPT !.frequency = 500]   \* ControlOutput's defaults

RtInit ==
  /\ engine_on = FALSE
  /\ door_locked = FALSE
  /\ joy = <<0, 0>>
  /\ sensor = [front |-> 0, lux |-> 0]
  /\ out = FirstOutput
  /\ inputs = None
  /\ last_door = None
  /\ chirp = [tone |-> "idle", age |-> 0]
  /\ preOut = FirstOutput
  /\ net = <<>>

(* Joystick packet "M": a stick position.  Packet "P" is Button. *)
JoystickMotor ==
  /\ joy' \in Joys
  /\ UNCHANGED <<engine_on, door_locked, sensor, controlVars, commVars>>

JoystickButton(btn) ==
  /\ engine_on' = (btn = 1)
  /\ UNCHANGED <<door_locked, joy, sensor, controlVars, commVars>>

(* A datagram from the digital key or OTA service.  GET_ALL, unparsable    *)
(* and unknown commands change nothing.                                    *)
IpcCommand(cmd) ==
  /\ door_locked' = (cmd = "LOCK" \/ (cmd # "UNLOCK" /\ door_locked))
  /\ engine_on' = (cmd = "START" \/ (cmd # "STOP" /\ engine_on))
  /\ UNCHANGED <<joy, sensor, controlVars, commVars>>

SensorSample ==
  /\ sensor' \in Samples
  /\ UNCHANGED <<engine_on, door_locked, joy, controlVars, commVars>>

(* The control cycle: read the inputs, then compute and publish. *)
snapshotInputs ==
  /\ inputs = None
  /\ inputs' = [engine |-> engine_on, door |-> door_locked, joy |-> joy,
                sensor |-> sensor]
  /\ UNCHANGED <<sharedVars, out, last_door, chirp, commVars>>

publishOutput ==
  /\ inputs # None
  /\ LET started == DoorChirp(inputs.door)
     IN \E expired \in MayExpire(started) :
          /\ chirp' = Played(started, expired)
          /\ out' = computeOutput(inputs, chirp'.tone)
  /\ last_door' = inputs.door
  /\ inputs' = None
  /\ UNCHANGED <<sharedVars, commVars>>

(* The comm cycle: one request for each part that differs, in this order.  *)
(* The buzzer request carries the new frequency with the OLD on/off state. *)
When(changed, request) == IF changed THEN <<request>> ELSE <<>>

Led(side, on) == [to |-> "led", side |-> side, on |-> on]

BuzzerRequest(old, new) ==
  When(<<old.buzzerOn, old.frequency>> # <<new.buzzerOn, new.frequency>>,
       [to |-> "buzzer", on |-> old.buzzerOn, freq |-> new.frequency])

LedRequests(old, new) ==
  When(old.led_back # new.led_back, Led("back", new.led_back))
  \o When(old.led_front_down # new.led_front_down, Led("front_down", new.led_front_down))
  \o When(old.led_front_up # new.led_front_up, Led("front_up", new.led_front_up))

AlertRequest(old, new) ==
  When(old.alert # new.alert, [to |-> "alert", interval |-> new.alert])

(* Mutant: only the steering is compared. *)
MotorRequestOnSteer(old, new) ==
  When(old.steer # new.steer,
       [to |-> "motor", stick |-> Stick(new.throttle, new.steer)])

MotorRequest(old, new) ==
  When(<<old.throttle, old.steer>> # <<new.throttle, new.steer>>,
       [to |-> "motor", stick |-> Stick(new.throttle, new.steer)])

(* Mutant: the alert is sent first. *)
BurstAlertFirst(old, new) ==
  AlertRequest(old, new) \o BuzzerRequest(old, new)
    \o LedRequests(old, new) \o MotorRequest(old, new)

(* Mutant: an alert request takes the place of the motor request. *)
BurstAlertOrMotor(old, new) ==
  BuzzerRequest(old, new) \o LedRequests(old, new)
    \o IF old.alert # new.alert THEN AlertRequest(old, new) ELSE MotorRequest(old, new)

Burst(old, new) ==
  BuzzerRequest(old, new) \o LedRequests(old, new)
    \o AlertRequest(old, new) \o MotorRequest(old, new)

(* Mutant: with the engine off nothing is sent, but taken as sent. *)
comm_thread_forgets ==
  /\ out # preOut
  /\ net' = IF engine_on THEN net \o Burst(preOut, out) ELSE net
  /\ Len(net') <= MaxNet
  /\ preOut' = out
  /\ UNCHANGED <<sharedVars, controlVars>>

comm_thread ==
  /\ engine_on
  /\ out # preOut
  /\ net' = net \o Burst(preOut, out)
  /\ Len(net') <= MaxNet
  /\ preOut' = out
  /\ UNCHANGED <<sharedVars, controlVars>>

(* The service is started again, as in RtInit; until it is up, all it had  *)
(* sent has arrived.                                                       *)
RtRestart ==
  /\ net = <<>>
  /\ engine_on' = FALSE
  /\ door_locked' = FALSE
  /\ joy' = <<0, 0>>
  /\ sensor' = [front |-> 0, lux |-> 0]
  /\ out' = FirstOutput
  /\ inputs' = None
  /\ last_door' = None
  /\ chirp' = [tone |-> "idle", age |-> 0]
  /\ preOut' = FirstOutput
  /\ UNCHANGED net

Outside == \/ JoystickMotor
           \/ \E btn \in {0, 1} : JoystickButton(btn)
           \/ \E cmd \in {"LOCK", "UNLOCK", "START", "STOP"} : IpcCommand(cmd)
           \/ SensorSample

control_thread == snapshotInputs \/ publishOutput

RtNext == Outside \/ control_thread \/ comm_thread \/ RtRestart

-----------------------------------------------------------------------------

Tones == {"idle", "low", "high"}

Inputs == [engine : BOOLEAN, door : BOOLEAN, joy : Joys \cup {<<0, 0>>},
           sensor : Samples \cup {[front |-> 0, lux |-> 0]}]

Outputs == [buzzerOn : BOOLEAN, frequency : {0, 350, 500, 900},
            led_back : BOOLEAN, led_front_down : BOOLEAN, led_front_up : BOOLEAN,
            alert : {-1, 0}, throttle : -100 .. 98, steer : -80 .. 80]

RtTypeOK ==
  /\ engine_on \in BOOLEAN /\ door_locked \in BOOLEAN
  /\ joy \in Joys \cup {<<0, 0>>}
  /\ sensor \in Samples \cup {[front |-> 0, lux |-> 0]}
  /\ out \in Outputs /\ preOut \in Outputs
  /\ inputs \in Inputs \cup {None}
  /\ last_door \in BOOLEAN \cup {None}
  /\ chirp \in [tone : Tones, age : 0 .. ChirpCycles]
  /\ Len(net) <= MaxNet

=============================================================================
