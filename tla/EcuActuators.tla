---------------------------- MODULE EcuActuators ----------------------------
(***************************************************************************)
(* The actuator side of the TC375 ECU: the SOME/IP handlers of Service 2   *)
(* (buzzer, LEDs) and Service 3 (emergency alert, motors), the drivers     *)
(* they command and the emergency alert, which takes the buzzer and the    *)
(* rear LED over.                                                          *)
(*                                                                         *)
(* The main loop handles at most one received packet per round and then    *)
(* runs EmerAlert_Update_Periodic; nothing in an interrupt handler touches *)
(* this state except the millisecond clock.  Only differences of time      *)
(* matter, and only up to the longest interval, so the clock is kept as    *)
(* two saturating counters.                                                *)
(***************************************************************************)
EXTENDS Integers

CONSTANTS
  Intervals,    \* positive toggle intervals a client asks for
  Frequencies,  \* buzzer frequencies a client asks for
  Sticks,       \* motor requests: pairs <<x, y>>
  Horizon,      \* bound: where the saturating clocks stop
  NoReply       \* no request of this kind answered yet

ASSUME IntervalsAssumption == Intervals \subseteq Nat \ {0}
ASSUME FrequenciesAssumption == Frequencies \subseteq Int
ASSUME SticksAssumption == Sticks \subseteq Int \X Int
ASSUME HorizonAssumption == Horizon \in Nat /\ \A i \in Intervals : i <= Horizon

VARIABLES
  phase,      \* main loop: "rx" before Ifx_Lwip_pollReceiveFlags, "alert" after
  interval,   \* g_toggle_interval_ms
  isAlertOn,  \* emer_alert.c
  uptime,     \* STM0_getTimeMs(), saturating at Horizon
  elapsed,    \* STM0_getTimeMs() - last_toggle_time_ms, saturating at Horizon
  led,        \* isOn[] of LED.c
  buzzer,     \* isOn and frequency of Buzzer.c
  motor,      \* latest_data of motor_controller.c: the request and both speeds
  alertCache, \* emerAlert_latest_data of the Service 3 handler
  motorCache, \* motor_controller_latest_data of the Service 3 handler
  reply       \* the last response sent

ecuVars == <<phase, interval, isAlertOn, uptime, elapsed, led, buzzer, motor,
             alertCache, motorCache, reply>>

Sides == {"back", "front_down", "front_up"}
SideBytes == Sides \cup {"other"}  \* what a request names; "other" is no LED
Off == -1                       \* toggle_interval_ms < 0: no alert
AlertFrequency == 500
MAX_FREQ == 250000

-----------------------------------------------------------------------------
(* Motor mixing, in C's integer arithmetic.                                *)

Quot(a, b) == IF a >= 0 THEN a \div b ELSE -((-a) \div b)
Abs(a) == IF a >= 0 THEN a ELSE -a
(* Mutant: only the upper limit is enforced. *)
ClampAbove(a) == IF a > 100 THEN 100 ELSE a

Clamp(a) == IF a > 100 THEN 100 ELSE IF a < -100 THEN -100 ELSE a

(* Mutant: the deadzone is not taken off, so the wheels jump at its edge,  *)
(* and its width is compared to the position instead of the offset.        *)
MapWithoutOffset(value, deadzone) ==
  IF Abs(value) < deadzone THEN 0 ELSE Quot((value - 50) * 100, 50 - deadzone)

MapJoystickValue(value, deadzone) ==
  LET offset == value - 50
      beyond == IF offset > 0 THEN offset - deadzone ELSE offset + deadzone
  IN IF Abs(offset) < deadzone THEN 0 ELSE Quot(beyond * 100, 50 - deadzone)

LeftSpeed(x, y) == Clamp(MapJoystickValue(y, 0) + Quot(MapJoystickValue(x, 8) * 60, 100))
RightSpeed(x, y) == Clamp(MapJoystickValue(y, 0) - Quot(MapJoystickValue(x, 8) * 60, 100))

-----------------------------------------------------------------------------

EcuInit ==
  /\ phase = "rx"
  /\ interval = Off
  /\ isAlertOn = FALSE
  /\ uptime = 0
  /\ elapsed = 0
  /\ led = [s \in Sides |-> FALSE]
  /\ buzzer = [on |-> FALSE, freq |-> MAX_FREQ]
  /\ motor = [x |-> 0, y |-> 0, left |-> 0, right |-> 0]
  /\ alertCache = 0
  /\ motorCache = [x |-> 0, y |-> 0, left |-> 0, right |-> 0]
  /\ reply = NoReply

IsEmerAlertOn == interval >= 0

(* Buzzer_SetFrequency ignores a frequency out of range. *)
Tuned(freq) == IF freq \in 1 .. MAX_FREQ THEN freq ELSE buzzer.freq

(* Method 0x0201.  command: 0 off, 1 on, anything else leaves it. *)
BuzzerControl(command, freq) ==
  /\ phase = "rx"
  /\ buzzer' = IF IsEmerAlertOn THEN buzzer
               ELSE [on |-> \/ command = 1
                            \/ command # 0 /\ buzzer.on,
                     freq |-> Tuned(freq)]
  /\ reply' = [method |-> "buzzer", on |-> buzzer'.on, freq |-> buzzer'.freq]
  /\ phase' = "alert"
  /\ UNCHANGED <<interval, isAlertOn, uptime, elapsed, led, motor, alertCache, motorCache>>

(* Mutant: the rear LED can be switched during an alert. *)
LedBlockedNever(side) == FALSE

LedBlocked(side) == side = "back" /\ IsEmerAlertOn

(* Method 0x0202.  command: 0 off, 1 on, 2 toggle, anything else leaves it. *)
(* For a side byte that is no LED nothing is switched, and the answer is   *)
(* read beyond the end of isOn[]: it may be anything.                      *)
LedControl(side, command) ==
  /\ phase = "rx"
  /\ led' = IF LedBlocked(side) \/ side \notin Sides THEN led
            ELSE [led EXCEPT ![side] = \/ command = 1
                                       \/ command = 2 /\ ~@
                                       \/ command \notin 0 .. 2 /\ @]
  /\ \E on \in BOOLEAN :
       /\ side \in Sides => on = led'[side]
       /\ reply' = [method |-> "led", side |-> side, on |-> on]
  /\ phase' = "alert"
  /\ UNCHANGED <<interval, isAlertOn, uptime, elapsed, buzzer, motor, alertCache, motorCache>>

(* Method 0x0301.  EmerAlert_Set_Interval reports whether it changed; only *)
(* then is the cached response refreshed.                                  *)
AlertControl(ms) ==
  /\ phase = "rx"
  /\ interval' = ms
  /\ alertCache' = IF ms # interval THEN ms ELSE alertCache
  /\ reply' = [method |-> "alert", interval |-> alertCache']
  /\ phase' = "alert"
  /\ UNCHANGED <<isAlertOn, uptime, elapsed, led, buzzer, motor, motorCache>>

(* Method 0x0302.  Out-of-range requests and repeats of the last accepted  *)
(* one (initially 0, 0) are refused.                                       *)
MotorAccepts(x, y) == /\ x \in 0 .. 99 /\ y \in 0 .. 99
                      /\ ~(x = motor.x /\ y = motor.y)

(* Mutant: a request that is carried out leaves the cached answer alone. *)
RefreshedNot(x, y) == motorCache

Refreshed(x, y) == IF MotorAccepts(x, y) THEN motor' ELSE motorCache

MotorControl(x, y) ==
  /\ phase = "rx"
  /\ motor' = IF MotorAccepts(x, y)
              THEN [x |-> x, y |-> y,
                    left |-> LeftSpeed(x, y), right |-> RightSpeed(x, y)]
              ELSE motor
  /\ motorCache' = Refreshed(x, y)
  /\ reply' = [method |-> "motor", x |-> motorCache'.x, y |-> motorCache'.y,
               left |-> motorCache'.left, right |-> motorCache'.right]
  /\ phase' = "alert"
  /\ UNCHANGED <<interval, isAlertOn, uptime, elapsed, led, buzzer, alertCache>>

(* No packet, or one the handlers drop: too short or too long, another     *)
(* service, a message type that is no request, an unknown method.          *)
NoRequest ==
  /\ phase = "rx"
  /\ phase' = "alert"
  /\ UNCHANGED <<interval, isAlertOn, uptime, elapsed, led, buzzer, motor,
                 alertCache, motorCache, reply>>

-----------------------------------------------------------------------------
(* EmerAlert_Update_Periodic and the three things it can do.               *)

EmerAlert_Show(on) ==
  /\ isAlertOn' = on
  /\ led' = [led EXCEPT !["back"] = on]
  /\ buzzer' = [on |-> on, freq |-> IF on THEN AlertFrequency ELSE buzzer.freq]

Unshown == UNCHANGED <<isAlertOn, led, buzzer>>

(* Mutant: switching the alert off does not ask whether it is on. *)
EmerAlert_OffAlways == EmerAlert_Show(FALSE)

EmerAlert_On == IF isAlertOn THEN Unshown ELSE EmerAlert_Show(TRUE)
EmerAlert_Off == IF isAlertOn THEN EmerAlert_Show(FALSE) ELSE Unshown
(* Mutant: the toggle only ever switches on. *)
EmerAlert_ToggleOn == EmerAlert_Show(TRUE)

EmerAlert_Toggle == EmerAlert_Show(~isAlertOn)

EmerAlert_Update_Periodic ==
  /\ phase = "alert"
  /\ \/ /\ interval > 0
        /\ elapsed >= interval
        /\ EmerAlert_Toggle
        /\ elapsed' = 0
     \/ /\ interval > 0
        /\ elapsed < interval
        /\ Unshown
        /\ UNCHANGED elapsed
     \/ /\ interval < 0
        /\ EmerAlert_Off
        /\ elapsed' = uptime
     \/ /\ interval = 0
        /\ EmerAlert_On
        /\ elapsed' = uptime
  /\ phase' = "rx"
  /\ UNCHANGED <<interval, uptime, motor, alertCache, motorCache, reply>>

Later(t) == IF t < Horizon THEN t + 1 ELSE t

(* A millisecond passes. *)
Tick ==
  /\ uptime' = Later(uptime)
  /\ elapsed' = Later(elapsed)
  /\ UNCHANGED <<phase, interval, isAlertOn, led, buzzer, motor, alertCache,
                 motorCache, reply>>

-----------------------------------------------------------------------------

Receive ==
  \/ \E command \in {0, 1, 2}, freq \in Frequencies : BuzzerControl(command, freq)
  \/ \E side \in SideBytes, command \in {0, 1, 2, 3} : LedControl(side, command)
  \/ \E ms \in Intervals \cup {Off, 0} : AlertControl(ms)
  \/ \E stick \in Sticks : MotorControl(stick[1], stick[2])
  \/ NoRequest

(* The ECU is reset and starts over, as in EcuInit. *)
Reset ==
  /\ phase' = "rx"
  /\ interval' = Off
  /\ isAlertOn' = FALSE
  /\ uptime' = 0
  /\ elapsed' = 0
  /\ led' = [s \in Sides |-> FALSE]
  /\ buzzer' = [on |-> FALSE, freq |-> MAX_FREQ]
  /\ motor' = [x |-> 0, y |-> 0, left |-> 0, right |-> 0]
  /\ alertCache' = 0
  /\ motorCache' = [x |-> 0, y |-> 0, left |-> 0, right |-> 0]
  /\ reply' = NoReply

EcuNext == Receive \/ EmerAlert_Update_Periodic \/ Tick \/ Reset

EcuSpec == EcuInit /\ [][EcuNext]_ecuVars

(* The main loop never stops and time passes. *)
EcuLiveSpec == EcuSpec /\ WF_ecuVars(Receive) /\ WF_ecuVars(EmerAlert_Update_Periodic)
                 /\ WF_ecuVars(Tick)

-----------------------------------------------------------------------------

Reply ==
  [method : {"buzzer"}, on : BOOLEAN, freq : 1 .. MAX_FREQ]
    \cup [method : {"led"}, side : SideBytes, on : BOOLEAN]
    \cup [method : {"alert"}, interval : Intervals \cup {Off, 0}]
    \cup [method : {"motor"}, x : 0 .. 99, y : 0 .. 99,
          left : -100 .. 100, right : -100 .. 100]

EcuTypeOK ==
  /\ phase \in {"rx", "alert"}
  /\ interval \in Intervals \cup {Off, 0}
  /\ isAlertOn \in BOOLEAN
  /\ uptime \in 0 .. Horizon /\ elapsed \in 0 .. Horizon
  /\ led \in [Sides -> BOOLEAN]
  /\ buzzer \in [on : BOOLEAN, freq : 1 .. MAX_FREQ]
  /\ motor \in [x : 0 .. 99, y : 0 .. 99, left : -100 .. 100, right : -100 .. 100]
  /\ alertCache \in Intervals \cup {Off, 0}
  /\ motorCache \in [x : 0 .. 99, y : 0 .. 99, left : -100 .. 100, right : -100 .. 100]
  /\ reply \in Reply \cup {NoReply}

(* Whoever sent which buzzer and LED requests, while the alert's flag is   *)
(* set the rear LED is lit and the buzzer sounds the alert tone.  It rests *)
(* on the main loop clearing the flag before it handles another packet.    *)
AlertOwnsOutputs ==
  isAlertOn => /\ led["back"]
               /\ buzzer = [on |-> TRUE, freq |-> AlertFrequency]

(* Before each packet the flag agrees with the interval the clients asked  *)
(* for: 0 is a steady alert, a negative interval none (emer_alert.c).      *)
AlertFollowsInterval ==
  phase = "rx" => /\ interval = 0 => isAlertOn
                  /\ interval < 0 => ~isAlertOn

(* The inductive invariant: the flag is set without an alert only between  *)
(* the packet that ended it and the update that follows.                   *)
AlertInv == AlertOwnsOutputs /\ AlertFollowsInterval

(* A response to a buzzer or LED request that no alert overrides stays     *)
(* true until the next request: the periodic update does not undo it.  The *)
(* answer about a side that is no LED says nothing.                        *)
AnswerHolds ==
  phase = "rx" /\ reply # NoReply /\ interval < 0 =>
    /\ reply.method = "buzzer" => buzzer = [on |-> reply.on, freq |-> reply.freq]
    /\ reply.method = "led" /\ reply.side \in Sides => led[reply.side] = reply.on

(* The motor response always describes the speeds the motors run at, also  *)
(* when the request was refused and the cached data is sent.               *)
MotorAnswerTruthful == motorCache = motor

(* What a stick position does to the wheels: centred in y and inside the   *)
(* x deadzone both stop (and brake); the right wheel never outruns the     *)
(* left one in a right turn, nor the left one in a left turn; and without  *)
(* steering the wheels turn alike, forwards exactly above the centre.      *)
MotorMixing ==
  motor # [x |-> 0, y |-> 0, left |-> 0, right |-> 0] =>
    /\ motor.y = 50 /\ motor.x \in 43 .. 57 => motor.left = 0 /\ motor.right = 0
    /\ motor.x >= 50 => motor.left >= motor.right
    /\ motor.x <= 50 => motor.left <= motor.right
    /\ motor.x \in 43 .. 57 /\ motor.y # 50 =>
         motor.left = motor.right /\ (motor.left > 0 <=> motor.y > 50)

(* Under a lasting blinking alert the rear LED and buzzer keep blinking,   *)
(* even if clients keep changing the interval.                             *)
AlertBlinks == <>[](interval > 0) => []<>isAlertOn /\ []<>~isAlertOn

=============================================================================
