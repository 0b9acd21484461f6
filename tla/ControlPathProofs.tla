--------------------------- MODULE ControlPathProofs ---------------------------
(***************************************************************************)
(* The ECU's invariants hold for every set of intervals, buzzer            *)
(* frequencies and stick positions clients may send; and what the service  *)
(* has sent is what the ECU does, for every stick position, sensor sample, *)
(* chirp length, number of requests in flight, lost or not, and every      *)
(* restart of either end.                                                  *)
(***************************************************************************)
EXTENDS ControlPath, TLAPS

-----------------------------------------------------------------------------
(* Part 1: the ECU by itself (EcuActuators).                               *)

(* Motor speeds stay within what Motor_SetChA and Motor_SetChB take: the   *)
(* mixing of any two integers is clamped to -100 .. 100.                   *)
LEMMA QuotIsInt == ASSUME NEW a \in Int, NEW b \in Nat \ {0}
                   PROVE  Quot(a, b) \in Int
BY DEF Quot

LEMMA ClampInRange == ASSUME NEW a \in Int PROVE Clamp(a) \in -100 .. 100
BY DEF Clamp

LEMMA MapIsInt ==
  ASSUME NEW value \in Int, NEW deadzone \in {0, 8}
  PROVE  MapJoystickValue(value, deadzone) \in Int
<1> DEFINE offset == value - 50
           beyond == IF offset > 0 THEN offset - deadzone ELSE offset + deadzone
<1>1. beyond * 100 \in Int /\ 50 - deadzone \in Nat \ {0}
  OBVIOUS
<1>2. Quot(beyond * 100, 50 - deadzone) \in Int
  BY <1>1, QuotIsInt
<1> QED
  BY <1>2 DEF MapJoystickValue

LEMMA SpeedsInRange ==
  ASSUME NEW x \in Int, NEW y \in Int
  PROVE  LeftSpeed(x, y) \in -100 .. 100 /\ RightSpeed(x, y) \in -100 .. 100
<1> DEFINE turn == Quot(MapJoystickValue(x, 8) * 60, 100)
           drive == MapJoystickValue(y, 0)
<1>1. turn \in Int
  <2>1. MapJoystickValue(x, 8) * 60 \in Int
    BY MapIsInt
  <2> QED
    BY <2>1, QuotIsInt
<1>2. drive \in Int
  BY MapIsInt
<1> HIDE DEF turn, drive
<1>3. drive + turn \in Int /\ drive - turn \in Int
  BY <1>1, <1>2
<1>4. Clamp(drive + turn) \in -100 .. 100 /\ Clamp(drive - turn) \in -100 .. 100
  BY <1>3, ClampInRange
<1> QED
  BY <1>4 DEF LeftSpeed, RightSpeed, turn, drive

-----------------------------------------------------------------------------
(* One lemma per kind of step: what it does to the types.                  *)

LEMMA AlertToneLegal == AlertFrequency \in 1 .. MAX_FREQ /\ MAX_FREQ \in Nat
BY SMT DEF AlertFrequency, MAX_FREQ

LEMMA ShowKeepsTypes ==
  ASSUME led \in [Sides -> BOOLEAN],
         buzzer.freq \in 1 .. MAX_FREQ,
         NEW on \in BOOLEAN,
         EmerAlert_Show(on)
  PROVE  /\ isAlertOn' \in BOOLEAN
         /\ led' \in [Sides -> BOOLEAN]
         /\ buzzer' \in [on : BOOLEAN, freq : 1 .. MAX_FREQ]
<1>1. buzzer' \in [on : BOOLEAN, freq : 1 .. MAX_FREQ]
  <2>1. (IF on THEN AlertFrequency ELSE buzzer.freq) \in 1 .. MAX_FREQ
    BY AlertToneLegal
  <2> QED
    BY <2>1, SMT DEF EmerAlert_Show
<1>2. led' \in [Sides -> BOOLEAN]
  BY DEF EmerAlert_Show
<1> QED
  BY <1>1, <1>2 DEF EmerAlert_Show

LEMMA UpdateKeepsTypes ==
  ASSUME EcuTypeOK, EmerAlert_Update_Periodic
  PROVE  EcuTypeOK'
<1>1. /\ isAlertOn \in BOOLEAN
      /\ led \in [Sides -> BOOLEAN]
      /\ buzzer \in [on : BOOLEAN, freq : 1 .. MAX_FREQ]
      /\ buzzer.freq \in 1 .. MAX_FREQ
      /\ uptime \in 0 .. Horizon /\ elapsed \in 0 .. Horizon
  BY DEF EcuTypeOK
<1>2. Unshown \/ \E on \in BOOLEAN : EmerAlert_Show(on)
  BY <1>1 DEF EmerAlert_Update_Periodic, EmerAlert_On, EmerAlert_Off, EmerAlert_Toggle
<1>3. /\ isAlertOn' \in BOOLEAN
      /\ led' \in [Sides -> BOOLEAN]
      /\ buzzer' \in [on : BOOLEAN, freq : 1 .. MAX_FREQ]
  <2>1. CASE Unshown
    BY <1>1, <2>1 DEF Unshown
  <2>2. ASSUME NEW on \in BOOLEAN, EmerAlert_Show(on) PROVE <1>3!:
    BY <1>1, <2>2, ShowKeepsTypes
  <2> QED
    BY <1>2, <2>1, <2>2
<1>4. elapsed' \in 0 .. Horizon
  BY <1>1, HorizonAssumption DEF EmerAlert_Update_Periodic
<1>5. phase' = "rx" /\ UNCHANGED <<interval, uptime, motor, alertCache, motorCache, reply>>
  BY DEF EmerAlert_Update_Periodic
<1> QED
  BY <1>3, <1>4, <1>5 DEF EcuTypeOK

LEMMA BuzzerKeepsTypes ==
  ASSUME EcuTypeOK, NEW command, NEW freq, BuzzerControl(command, freq)
  PROVE  EcuTypeOK'
<1>1. buzzer' \in [on : BOOLEAN, freq : 1 .. MAX_FREQ]
  <2>1. buzzer.on \in BOOLEAN /\ buzzer.freq \in 1 .. MAX_FREQ
    BY DEF EcuTypeOK
  <2>2. Tuned(freq) \in 1 .. MAX_FREQ
    BY <2>1 DEF Tuned
  <2> QED
    BY <2>1, <2>2 DEF BuzzerControl, EcuTypeOK
<1>2. reply' \in Reply
  BY <1>1 DEF BuzzerControl, Reply
<1> QED
  BY <1>1, <1>2 DEF BuzzerControl, EcuTypeOK

LEMMA LedKeepsTypes ==
  ASSUME EcuTypeOK, NEW side \in SideBytes, NEW command, LedControl(side, command)
  PROVE  EcuTypeOK'
<1>1. led' \in [Sides -> BOOLEAN]
  BY DEF LedControl, EcuTypeOK
<1>2. reply' \in Reply
  <2>1. PICK on \in BOOLEAN : reply' = [method |-> "led", side |-> side, on |-> on]
    BY DEF LedControl
  <2> QED
    BY <2>1 DEF Reply
<1> QED
  BY <1>1, <1>2 DEF LedControl, EcuTypeOK

LEMMA AlertKeepsTypes ==
  ASSUME EcuTypeOK, NEW ms \in Intervals \cup {Off, 0}, AlertControl(ms)
  PROVE  EcuTypeOK'
<1>1. alertCache' \in Intervals \cup {Off, 0}
  BY DEF AlertControl, EcuTypeOK
<1>2. reply' \in Reply
  BY <1>1 DEF AlertControl, Reply
<1> QED
  BY <1>1, <1>2 DEF AlertControl, EcuTypeOK

LEMMA MotorKeepsTypes ==
  ASSUME EcuTypeOK, NEW x \in Int, NEW y \in Int, MotorControl(x, y)
  PROVE  EcuTypeOK'
<1> DEFINE M == [x : 0 .. 99, y : 0 .. 99, left : -100 .. 100, right : -100 .. 100]
<1>1. LeftSpeed(x, y) \in -100 .. 100 /\ RightSpeed(x, y) \in -100 .. 100
  BY SpeedsInRange
<1>2. motor \in M /\ motorCache \in M
  BY DEF EcuTypeOK
<1>3. motor' \in M
  BY <1>1, <1>2 DEF MotorControl, MotorAccepts
<1>4. motorCache' \in M
  BY <1>2, <1>3 DEF MotorControl, Refreshed
<1>5. reply' \in Reply
  BY <1>4 DEF MotorControl, Reply
<1> QED
  BY <1>3, <1>4, <1>5 DEF MotorControl, EcuTypeOK

LEMMA NoRequestKeepsTypes ==
  ASSUME EcuTypeOK, NoRequest
  PROVE  EcuTypeOK'
BY DEF NoRequest, EcuTypeOK

LEMMA ReceiveKeepsTypes ==
  ASSUME EcuTypeOK, Receive
  PROVE  EcuTypeOK'
<1>1. ASSUME NEW stick \in Sticks PROVE stick[1] \in Int /\ stick[2] \in Int
  BY SticksAssumption
<1> QED
  BY <1>1, BuzzerKeepsTypes, LedKeepsTypes, AlertKeepsTypes, MotorKeepsTypes,
     NoRequestKeepsTypes DEF Receive

LEMMA ResetKeepsTypes ==
  ASSUME Reset
  PROVE  EcuTypeOK'
<1>1. buzzer' \in [on : BOOLEAN, freq : 1 .. MAX_FREQ]
  <2>1. MAX_FREQ \in 1 .. MAX_FREQ
    BY SMT DEF MAX_FREQ
  <2> QED
    BY <2>1 DEF Reset
<1>2. led' \in [Sides -> BOOLEAN]
  BY DEF Reset
<1>3. /\ uptime' \in 0 .. Horizon /\ elapsed' \in 0 .. Horizon
      /\ interval' \in Intervals \cup {Off, 0}
      /\ alertCache' \in Intervals \cup {Off, 0}
  BY HorizonAssumption DEF Reset
<1>4. /\ motor' \in [x : 0 .. 99, y : 0 .. 99, left : -100 .. 100, right : -100 .. 100]
      /\ motorCache' \in [x : 0 .. 99, y : 0 .. 99, left : -100 .. 100, right : -100 .. 100]
  BY DEF Reset
<1> QED
  BY <1>1, <1>2, <1>3, <1>4 DEF Reset, EcuTypeOK

LEMMA EcuInitTypes ==
  ASSUME EcuInit
  PROVE  EcuTypeOK
<1>1. buzzer \in [on : BOOLEAN, freq : 1 .. MAX_FREQ]
  <2>1. MAX_FREQ \in 1 .. MAX_FREQ
    BY SMT DEF MAX_FREQ
  <2> QED
    BY <2>1 DEF EcuInit
<1>2. led \in [Sides -> BOOLEAN]
  BY DEF EcuInit
<1>3. /\ uptime \in 0 .. Horizon /\ elapsed \in 0 .. Horizon
      /\ interval \in Intervals \cup {Off, 0}
      /\ alertCache \in Intervals \cup {Off, 0}
  BY HorizonAssumption DEF EcuInit
<1>4. /\ motor \in [x : 0 .. 99, y : 0 .. 99, left : -100 .. 100, right : -100 .. 100]
      /\ motorCache \in [x : 0 .. 99, y : 0 .. 99, left : -100 .. 100, right : -100 .. 100]
  BY DEF EcuInit
<1> QED
  BY <1>1, <1>2, <1>3, <1>4 DEF EcuInit, EcuTypeOK

(* The types of EcuActuators: in particular every commanded motor speed is *)
(* within -100 .. 100 and the buzzer's frequency within 1 .. MAX_FREQ.     *)
THEOREM EcuTypeCorrect == EcuSpec => []EcuTypeOK
<1>1. EcuInit => EcuTypeOK
  BY EcuInitTypes
<1>2. EcuTypeOK /\ [EcuNext]_ecuVars => EcuTypeOK'
  <2> SUFFICES ASSUME EcuTypeOK, [EcuNext]_ecuVars PROVE EcuTypeOK'
    OBVIOUS
  <2>1. CASE Receive
    BY <2>1, ReceiveKeepsTypes
  <2>2. CASE EmerAlert_Update_Periodic
    BY <2>2, UpdateKeepsTypes
  <2>3. CASE Tick
    BY <2>3, HorizonAssumption DEF Tick, Later, EcuTypeOK
  <2>4. CASE Reset
    BY <2>4, ResetKeepsTypes
  <2>5. CASE UNCHANGED ecuVars
    BY <2>5 DEF ecuVars, EcuTypeOK
  <2> QED
    BY <2>1, <2>2, <2>3, <2>4, <2>5 DEF EcuNext
<1> QED
  BY <1>1, <1>2, PTL DEF EcuSpec

-----------------------------------------------------------------------------

(* Whatever clients send, the alert owns rear LED and buzzer while its     *)
(* flag is set, and the flag follows the interval before every packet.     *)
LEMMA AlertInvStep == EcuTypeOK /\ AlertInv /\ [EcuNext]_ecuVars => AlertInv'
<1> SUFFICES ASSUME EcuTypeOK, AlertInv, [EcuNext]_ecuVars PROVE AlertInv'
  OBVIOUS
<1> USE DEF AlertInv, AlertOwnsOutputs, AlertFollowsInterval
<1>0. interval \in Int /\ led \in [Sides -> BOOLEAN] /\ isAlertOn \in BOOLEAN
  <2>1. interval \in Int
    <3>1. interval \in Intervals \cup {-1, 0}
      BY DEF EcuTypeOK, Off
    <3> QED
      BY <3>1, IntervalsAssumption
  <2> QED
    BY <2>1 DEF EcuTypeOK
<1>1. ASSUME NEW command, NEW freq, BuzzerControl(command, freq)
      PROVE  AlertInv'
  <2>1. isAlertOn' = isAlertOn /\ interval' = interval /\ phase' = "alert" /\ led' = led
    BY <1>1 DEF BuzzerControl
  <2>2. isAlertOn => buzzer' = buzzer
    BY <1>0, <1>1 DEF BuzzerControl, IsEmerAlertOn
  <2> QED
    BY <2>1, <2>2
<1>2. ASSUME NEW side \in SideBytes, NEW command, LedControl(side, command)
      PROVE  AlertInv'
  BY <1>0, <1>2 DEF LedControl, LedBlocked, IsEmerAlertOn, Sides
<1>3. ASSUME NEW ms, AlertControl(ms) PROVE AlertInv'
  BY <1>3 DEF AlertControl
<1>4. ASSUME NEW x, NEW y, MotorControl(x, y) PROVE AlertInv'
  BY <1>4 DEF MotorControl
<1>5. CASE NoRequest
  BY <1>5 DEF NoRequest
<1>6. CASE EmerAlert_Update_Periodic
  <2>1. ASSUME NEW on \in BOOLEAN, EmerAlert_Show(on)
        PROVE  /\ isAlertOn' = on
               /\ AlertOwnsOutputs'
    BY <1>0, <2>1 DEF EmerAlert_Show, Sides, AlertFrequency
  <2>2. ASSUME Unshown PROVE isAlertOn' = isAlertOn /\ AlertOwnsOutputs'
    BY <2>2 DEF Unshown
  <2>3. CASE interval > 0
    <3>1. Unshown \/ EmerAlert_Show(~isAlertOn)
      BY <1>0, <1>6, <2>3 DEF EmerAlert_Update_Periodic, EmerAlert_Toggle
    <3>2. AlertOwnsOutputs'
      BY <1>0, <2>1, <2>2, <3>1
    <3>3. interval' = interval
      BY <1>6 DEF EmerAlert_Update_Periodic
    <3> QED
      BY <1>0, <2>3, <3>2, <3>3
  <2>4. CASE interval < 0
    <3>1. EmerAlert_Off
      BY <1>0, <1>6, <2>4 DEF EmerAlert_Update_Periodic
    <3>2. ~isAlertOn' /\ AlertOwnsOutputs'
      <4>1. CASE isAlertOn
        BY <2>1, <3>1, <4>1 DEF EmerAlert_Off
      <4>2. CASE ~isAlertOn
        BY <2>2, <3>1, <4>2 DEF EmerAlert_Off
      <4> QED
        BY <4>1, <4>2
    <3>3. interval' = interval
      BY <1>6 DEF EmerAlert_Update_Periodic
    <3> QED
      BY <1>0, <2>4, <3>2, <3>3
  <2>5. CASE interval = 0
    <3>1. EmerAlert_On
      BY <1>0, <1>6, <2>5 DEF EmerAlert_Update_Periodic
    <3>2. isAlertOn' /\ AlertOwnsOutputs'
      <4>1. CASE isAlertOn
        BY <2>2, <3>1, <4>1 DEF EmerAlert_On
      <4>2. CASE ~isAlertOn
        BY <2>1, <3>1, <4>2 DEF EmerAlert_On
      <4> QED
        BY <4>1, <4>2
    <3>3. interval' = interval
      BY <1>6 DEF EmerAlert_Update_Periodic
    <3> QED
      BY <1>0, <2>5, <3>2, <3>3
  <2> QED
    BY <1>0, <2>3, <2>4, <2>5
<1>7. CASE Tick
  BY <1>7 DEF Tick
<1>8. CASE Reset
  BY <1>8 DEF Reset, Off
<1>9. CASE UNCHANGED ecuVars
  BY <1>9 DEF ecuVars
<1> QED
  BY <1>1, <1>2, <1>3, <1>4, <1>5, <1>6, <1>7, <1>8, <1>9 DEF EcuNext, Receive

THEOREM AlertCorrect == EcuSpec => []AlertInv
<1>1. EcuInit => AlertInv
  BY DEF EcuInit, AlertInv, AlertOwnsOutputs, AlertFollowsInterval, Off
<1> QED
  BY <1>1, AlertInvStep, EcuTypeCorrect, PTL DEF EcuSpec

-----------------------------------------------------------------------------

(* The motor response is truthful, refused requests included.              *)
THEOREM MotorAnswerCorrect == EcuSpec => []MotorAnswerTruthful
<1>1. EcuInit => MotorAnswerTruthful
  BY DEF EcuInit, MotorAnswerTruthful
<1>2. MotorAnswerTruthful /\ [EcuNext]_ecuVars => MotorAnswerTruthful'
  BY DEF MotorAnswerTruthful, EcuNext, Receive, BuzzerControl, LedControl, AlertControl,
         MotorControl, Refreshed, NoRequest, EmerAlert_Update_Periodic, Tick, Reset, ecuVars
<1> QED
  BY <1>1, <1>2, PTL DEF EcuSpec

(* A buzzer or LED answer holds in every phase while there is no alert:    *)
(* such an answer is only replaced, never undone, because any change of    *)
(* the interval answers the request that made it.                          *)
AnswerPending ==
  reply # NoReply /\ interval < 0 /\ reply.method \in {"buzzer", "led"} =>
    /\ ~isAlertOn
    /\ reply.method = "buzzer" => buzzer = [on |-> reply.on, freq |-> reply.freq]
    /\ reply.method = "led" /\ reply.side \in Sides => led[reply.side] = reply.on

THEOREM AnswerCorrect == EcuSpec => []AnswerHolds
<1>1. EcuInit => AnswerPending
  BY DEF EcuInit, AnswerPending
<1>2. EcuTypeOK /\ AlertInv /\ AnswerPending /\ [EcuNext]_ecuVars => AnswerPending'
  <2> SUFFICES ASSUME EcuTypeOK, AlertInv, AnswerPending, [EcuNext]_ecuVars
               PROVE  AnswerPending'
    OBVIOUS
  <2>0. /\ interval \in Int
        /\ phase = "rx" /\ interval < 0 => ~isAlertOn
        /\ buzzer = [on |-> buzzer.on, freq |-> buzzer.freq]
    <3>1. interval \in Intervals \cup {-1, 0}
      BY DEF EcuTypeOK, Off
    <3>2. buzzer \in [on : BOOLEAN, freq : 1 .. MAX_FREQ]
      BY DEF EcuTypeOK
    <3> QED
      BY <3>1, <3>2, IntervalsAssumption DEF AlertInv, AlertFollowsInterval
  <2>1. ASSUME NEW command, NEW freq, BuzzerControl(command, freq)
        PROVE  AnswerPending'
    <3>1. buzzer' = [on |-> buzzer'.on, freq |-> buzzer'.freq]
      BY <2>0, <2>1 DEF BuzzerControl
    <3> QED
      BY <2>0, <2>1, <3>1 DEF BuzzerControl, AnswerPending
  <2>2. ASSUME NEW side, NEW command, LedControl(side, command)
        PROVE  AnswerPending'
    <3>1. PICK on \in BOOLEAN :
            /\ side \in Sides => on = led'[side]
            /\ reply' = [method |-> "led", side |-> side, on |-> on]
      BY <2>2 DEF LedControl
    <3>2. phase = "rx" /\ UNCHANGED <<interval, isAlertOn>>
      BY <2>2 DEF LedControl
    <3>3. reply'.method = "led" /\ reply'.side = side /\ reply'.on = on
      BY <3>1
    <3> QED
      BY <2>0, <3>1, <3>2, <3>3 DEF AnswerPending
  <2>3. ASSUME NEW ms, AlertControl(ms) PROVE AnswerPending'
    BY <2>3 DEF AlertControl, AnswerPending
  <2>4. ASSUME NEW x, NEW y, MotorControl(x, y) PROVE AnswerPending'
    BY <2>4 DEF MotorControl, AnswerPending
  <2>5. CASE NoRequest
    BY <2>5 DEF NoRequest, AnswerPending
  <2>6. CASE EmerAlert_Update_Periodic
    <3>1. interval' = interval /\ reply' = reply
      BY <2>6 DEF EmerAlert_Update_Periodic
    <3>2. CASE interval < 0 /\ ~isAlertOn
      <4>1. Unshown
        BY <2>0, <2>6, <3>2 DEF EmerAlert_Update_Periodic, EmerAlert_Off
      <4> QED
        BY <3>1, <4>1 DEF Unshown, AnswerPending
    <3> QED
      BY <3>1, <3>2 DEF AnswerPending
  <2>7. CASE Tick
    BY <2>7 DEF Tick, AnswerPending
  <2>8. CASE Reset
    BY <2>8 DEF Reset, AnswerPending
  <2>9. CASE UNCHANGED ecuVars
    BY <2>9 DEF ecuVars, AnswerPending
  <2> QED
    BY <2>1, <2>2, <2>3, <2>4, <2>5, <2>6, <2>7, <2>8, <2>9 DEF EcuNext, Receive
<1>3. AnswerPending => AnswerHolds
  BY DEF AnswerPending, AnswerHolds
<1> QED
  BY <1>1, <1>2, <1>3, EcuTypeCorrect, AlertCorrect, PTL DEF EcuSpec

-----------------------------------------------------------------------------
(* The mixing of two stick coordinates.                                    *)

LEMMA QuotSign ==
  ASSUME NEW a \in Int, NEW b \in {42, 50, 100}
  PROVE  /\ Quot(a, b) \in Int
         /\ a >= 0 => Quot(a, b) >= 0
         /\ a <= 0 => Quot(a, b) <= 0
         /\ a >= b => Quot(a, b) > 0
BY DEF Quot

(* Steering: nothing inside the deadzone, else to the stick's side.        *)
LEMMA SteerSign ==
  ASSUME NEW x \in 0 .. 99
  PROVE  LET turn == Quot(MapJoystickValue(x, 8) * 60, 100)
         IN /\ turn \in Int
            /\ x \in 43 .. 57 => turn = 0
            /\ x >= 50 => turn >= 0
            /\ x <= 50 => turn <= 0
<1> DEFINE m == MapJoystickValue(x, 8)
<1>1. /\ m \in Int
      /\ x \in 43 .. 57 => m = 0
      /\ x >= 50 => m >= 0
      /\ x <= 50 => m <= 0
  <2>1. CASE x \in 43 .. 57
    BY <2>1 DEF MapJoystickValue, Abs
  <2>2. CASE x > 57
    <3>1. m = Quot((x - 58) * 100, 42)
      BY <2>2 DEF MapJoystickValue, Abs
    <3>2. (x - 58) * 100 \in Int /\ (x - 58) * 100 >= 0
      BY <2>2
    <3> QED
      BY <2>2, <3>1, <3>2, QuotSign
  <2>3. CASE x < 43
    <3>1. m = Quot((x - 42) * 100, 42)
      BY <2>3 DEF MapJoystickValue, Abs
    <3>2. (x - 42) * 100 \in Int /\ (x - 42) * 100 <= 0
      BY <2>3
    <3> QED
      BY <2>3, <3>1, <3>2, QuotSign
  <2> QED
    BY <2>1, <2>2, <2>3
<1> HIDE DEF m
<1>2. m * 60 \in Int /\ (m >= 0 => m * 60 >= 0) /\ (m <= 0 => m * 60 <= 0)
  BY <1>1
<1>3. /\ Quot(m * 60, 100) \in Int
      /\ m * 60 >= 0 => Quot(m * 60, 100) >= 0
      /\ m * 60 <= 0 => Quot(m * 60, 100) <= 0
  BY <1>2, QuotSign
<1> QED
  BY <1>1, <1>2, <1>3 DEF m

(* Driving: twice the offset from the centre. *)
LEMMA DriveSign ==
  ASSUME NEW y \in 0 .. 99
  PROVE  /\ MapJoystickValue(y, 0) \in Int
         /\ y = 50 => MapJoystickValue(y, 0) = 0
         /\ y > 50 => MapJoystickValue(y, 0) > 0
         /\ y < 50 => MapJoystickValue(y, 0) <= 0
<1>1. MapJoystickValue(y, 0) = Quot((y - 50) * 100, 50)
  BY DEF MapJoystickValue, Abs
<1>2. /\ (y - 50) * 100 \in Int
      /\ y > 50 => (y - 50) * 100 >= 50
      /\ y <= 50 => (y - 50) * 100 <= 0
      /\ y = 50 => (y - 50) * 100 = 0
  OBVIOUS
<1>3. Quot(0, 50) = 0
  BY DEF Quot
<1> QED
  BY <1>1, <1>2, <1>3, QuotSign

Mixed(x, y, left, right) ==
  /\ y = 50 /\ x \in 43 .. 57 => left = 0 /\ right = 0
  /\ x >= 50 => left >= right
  /\ x <= 50 => left <= right
  /\ x \in 43 .. 57 /\ y # 50 => left = right /\ (left > 0 <=> y > 50)

LEMMA SpeedsMixed ==
  ASSUME NEW x \in 0 .. 99, NEW y \in 0 .. 99
  PROVE  Mixed(x, y, LeftSpeed(x, y), RightSpeed(x, y))
<1> DEFINE turn == Quot(MapJoystickValue(x, 8) * 60, 100)
           drive == MapJoystickValue(y, 0)
<1>1. /\ turn \in Int
      /\ x \in 43 .. 57 => turn = 0
      /\ x >= 50 => turn >= 0
      /\ x <= 50 => turn <= 0
  BY SteerSign
<1>2. /\ drive \in Int
      /\ y = 50 => drive = 0
      /\ y > 50 => drive > 0
      /\ y < 50 => drive <= 0
  BY DriveSign
<1> HIDE DEF turn, drive
<1>3. Mixed(x, y, Clamp(drive + turn), Clamp(drive - turn))
  BY <1>1, <1>2 DEF Mixed, Clamp
<1> QED
  BY <1>3 DEF LeftSpeed, RightSpeed, turn, drive

(* Steering right never makes the right wheel outrun the left one, nor the *)
(* other way round, and a centred stick stops both, for every position a   *)
(* client may send, in spite of the truncating divisions and the clamping. *)
THEOREM MixingCorrect == EcuSpec => []MotorMixing
<1> DEFINE Driven == motor # [x |-> 0, y |-> 0, left |-> 0, right |-> 0] =>
                       /\ motor.x \in 0 .. 99 /\ motor.y \in 0 .. 99
                       /\ motor.left = LeftSpeed(motor.x, motor.y)
                       /\ motor.right = RightSpeed(motor.x, motor.y)
<1>1. EcuInit => Driven
  BY DEF EcuInit
<1>2. Driven /\ [EcuNext]_ecuVars => Driven'
  <2> SUFFICES ASSUME Driven, [EcuNext]_ecuVars PROVE Driven'
    OBVIOUS
  <2>1. ASSUME NEW x, NEW y, MotorControl(x, y) PROVE Driven'
    <3>1. CASE MotorAccepts(x, y)
      <4>1. motor' = [x |-> x, y |-> y, left |-> LeftSpeed(x, y), right |-> RightSpeed(x, y)]
        BY <2>1, <3>1 DEF MotorControl
      <4>2. x \in 0 .. 99 /\ y \in 0 .. 99
        BY <3>1 DEF MotorAccepts
      <4>3. motor'.x = x /\ motor'.y = y /\ motor'.left = LeftSpeed(x, y)
            /\ motor'.right = RightSpeed(x, y)
        BY <4>1
      <4> QED
        BY <4>2, <4>3
    <3>2. CASE ~MotorAccepts(x, y)
      <4>1. motor' = motor
        BY <2>1, <3>2 DEF MotorControl
      <4> QED
        BY <4>1
    <3> QED
      BY <3>1, <3>2
  <2>2. CASE Reset
    BY <2>2 DEF Reset
  <2>3. CASE motor' = motor
    BY <2>3
  <2> QED
    BY <2>1, <2>2, <2>3 DEF EcuNext, Receive, BuzzerControl, LedControl, AlertControl,
                            NoRequest, EmerAlert_Update_Periodic, Tick, ecuVars
<1>3. Driven => MotorMixing
  <2> SUFFICES ASSUME Driven, motor # [x |-> 0, y |-> 0, left |-> 0, right |-> 0]
               PROVE  Mixed(motor.x, motor.y, motor.left, motor.right)
    BY DEF MotorMixing, Mixed
  <2> QED
    BY SpeedsMixed
<1> QED
  BY <1>1, <1>2, <1>3, PTL DEF EcuSpec

-----------------------------------------------------------------------------
(* Part 2: the service, the network and the ECU (ControlPath).             *)


(* What the control thread computes: an output that sounds the buzzer or   *)
(* lights the rear LED asks for the alert as well.                         *)

OutOK(o) ==
  /\ o \in Outputs
  /\ o.buzzerOn => o.alert = 0
  /\ o.led_back => o.alert = 0

LEMMA MappedInRange ==
  ASSUME NEW v \in 0 .. 99
  PROVE  map_joy(v) \in -100 .. 98 /\ Limit(map_joy(v), 80) \in -80 .. 80
BY DEF map_joy, Limit

LEMMA SilentOK == OutOK(Silent) /\ OutOK(FirstOutput)
<1>1. Silent \in Outputs /\ ~Silent.buzzerOn /\ ~Silent.led_back
  BY DEF Silent, Outputs
<1>2. FirstOutput \in Outputs
  BY <1>1 DEF FirstOutput, Outputs
<1>3. ~FirstOutput.buzzerOn /\ ~FirstOutput.led_back
  BY <1>1 DEF FirstOutput, Outputs
<1> QED
  BY <1>1, <1>2, <1>3 DEF OutOK

LEMMA DriveOK ==
  ASSUME NEW in \in Inputs
  PROVE  OutOK(Drive(in))
<1>1. in.joy[1] \in 0 .. 99 /\ in.joy[2] \in 0 .. 99
  BY JoysAssumption DEF Inputs
<1>2. /\ map_joy(in.joy[2]) \in -100 .. 98
      /\ Limit(map_joy(in.joy[1]), 80) \in -80 .. 80
  BY <1>1, MappedInRange
<1> DEFINE aeb == Danger(in)
           throttle == map_joy(in.joy[2])
           steer == Limit(map_joy(in.joy[1]), 80)
           bright == in.sensor.lux \in 0 .. 49
<1>3. aeb \in BOOLEAN /\ bright \in BOOLEAN
  BY DEF Danger, Emergency
<1>4. Drive(in) = [buzzerOn |-> aeb, frequency |-> IF aeb THEN 500 ELSE 0,
                   led_back |-> aeb, led_front_down |-> TRUE,
                   led_front_up |-> bright, alert |-> IF aeb THEN 0 ELSE -1,
                   throttle |-> IF aeb THEN -100 ELSE throttle, steer |-> steer]
  BY DEF Drive
<1> HIDE DEF aeb, throttle, steer, bright
<1>5. throttle \in -100 .. 98 /\ steer \in -80 .. 80
  BY <1>2 DEF throttle, steer
<1> QED
  BY <1>3, <1>4, <1>5 DEF OutOK, Outputs

LEMMA SoundOK ==
  ASSUME NEW o \in Outputs, NEW on \in BOOLEAN
  PROVE  [o EXCEPT !.buzzerOn = on] \in Outputs
BY DEF Outputs

LEMMA ChirpOK ==
  ASSUME NEW o, OutOK(o), NEW tone
  PROVE  OutOK(WithChirp(o, tone))
<1>1. CASE tone = "idle" \/ o.buzzerOn
  BY <1>1 DEF WithChirp
<1>2. CASE ~(tone = "idle" \/ o.buzzerOn)
  <2> DEFINE freq == IF tone = "low" THEN 350 ELSE 900
             u == [o EXCEPT !.buzzerOn = TRUE]
             v == [u EXCEPT !.alert = 0]
             w == [v EXCEPT !.frequency = freq]
  <2>0. o \in Outputs
    BY DEF OutOK
  <2>1. freq \in {0, 350, 500, 900}
    OBVIOUS
  <2>2. WithChirp(o, tone) = w
    BY <1>2 DEF WithChirp
  <2> HIDE DEF freq
  <2>3. u \in Outputs
    BY <2>0, SoundOK
  <2> HIDE DEF u
  <2>4. v \in Outputs /\ v.alert = 0
    BY <2>3 DEF Outputs
  <2> HIDE DEF v
  <2>5. w \in Outputs
    BY <2>1, <2>4 DEF Outputs
  <2>6. w.alert = 0
    BY <2>1, <2>4 DEF Outputs
  <2> HIDE DEF w
  <2> QED
    BY <2>2, <2>5, <2>6 DEF OutOK
<1> QED
  BY <1>1, <1>2

LEMMA ComputedOK ==
  ASSUME NEW in \in Inputs, NEW tone \in Tones
  PROVE  OutOK(computeOutput(in, tone))
<1> DEFINE o == IF in.engine THEN Drive(in) ELSE Silent
<1>1. OutOK(o)
  BY DriveOK, SilentOK
<1> HIDE DEF o
<1>2. OutOK(WithChirp(o, tone))
  BY <1>1, ChirpOK
<1> QED
  BY <1>2 DEF computeOutput, o

-----------------------------------------------------------------------------
(* The types of the service's side.                                        *)

GoodSticks == ((0 .. 99) \X (0 .. 99)) \ {<<0, 0>>}

Requests ==
  [to : {"buzzer"}, on : BOOLEAN, freq : {0, 350, 500, 900}]
    \cup [to : {"led"}, side : {"back", "front_down", "front_up"}, on : BOOLEAN]
    \cup [to : {"alert"}, interval : {-1, 0}]
    \cup [to : {"motor"}, stick : GoodSticks]

Service ==
  /\ RtTypeOK
  /\ OutOK(out)
  /\ OutOK(preOut)
  /\ net \in Seq(Requests)

LEMMA ConcatSeq ==
  ASSUME NEW S, NEW s \in Seq(S), NEW t \in Seq(S)
  PROVE  /\ s \o t \in Seq(S)
         /\ Len(s \o t) = Len(s) + Len(t)
         /\ \A i \in 1 .. Len(s) : (s \o t)[i] = s[i]
         /\ \A i \in 1 .. Len(t) : (s \o t)[Len(s) + i] = t[i]
OBVIOUS

Has(n, kind) == \E i \in 1 .. Len(n) : Kind(n[i]) = kind

LEMMA HasConcat ==
  ASSUME NEW S, NEW s \in Seq(S), NEW t \in Seq(S), NEW kind,
         Has(s, kind) \/ Has(t, kind)
  PROVE  Has(s \o t, kind)
<1>0. /\ Len(s) \in Nat /\ Len(t) \in Nat
      /\ Len(s \o t) = Len(s) + Len(t)
      /\ \A i \in 1 .. Len(s) : (s \o t)[i] = s[i]
      /\ \A i \in 1 .. Len(t) : (s \o t)[Len(s) + i] = t[i]
  BY ConcatSeq
<1> DEFINE b == s \o t
<1>1. ASSUME NEW i \in 1 .. Len(s), Kind(s[i]) = kind PROVE Has(b, kind)
  <2>1. i \in 1 .. Len(b) /\ b[i] = s[i]
    BY <1>0
  <2> QED
    BY <1>1, <2>1 DEF Has
<1>2. ASSUME NEW i \in 1 .. Len(t), Kind(t[i]) = kind PROVE Has(b, kind)
  <2>1. Len(s) + i \in 1 .. Len(b) /\ b[Len(s) + i] = t[i]
    BY <1>0
  <2> QED
    BY <1>2, <2>1 DEF Has
<1> QED
  BY <1>1, <1>2 DEF Has

LEMMA WhenSeq ==
  ASSUME NEW S, NEW c \in BOOLEAN, NEW r, c => r \in S
  PROVE  /\ When(c, r) \in Seq(S)
         /\ c => Has(When(c, r), Kind(r))
<1>1. When(c, r) \in Seq(S)
  BY DEF When
<1>2. c => Len(When(c, r)) = 1 /\ When(c, r)[1] = r
  BY DEF When
<1> QED
  BY <1>1, <1>2 DEF Has

(* What a burst carries: only requests that say what the new output wants, *)
(* one for each part that changed, and the alert after buzzer and LEDs.    *)
Says(r, o) ==
  /\ r.to = "alert" => r.interval = o.alert
  /\ r.to = "led" /\ r.side = "front_down" => r.on = o.led_front_down
  /\ r.to = "led" /\ r.side = "front_up" => r.on = o.led_front_up
  /\ r.to = "motor" => r.stick = Stick(o.throttle, o.steer)

Firsts(old, new) ==
  {r \in Requests : /\ r.to \in {"buzzer", "led"}
                    /\ Says(r, new)
                    /\ r.to = "buzzer" /\ r.on => old.buzzerOn
                    /\ Kind(r) = "back" /\ r.on => new.led_back}

Alerts(o) == {r \in Requests : r.to = "alert" /\ Says(r, o)}

Motors(o) == {r \in Requests : r.to = "motor" /\ Says(r, o)}

FirstRequests(old, new) == BuzzerRequest(old, new) \o LedRequests(old, new)

LEMMA FirstPart ==
  ASSUME NEW old, NEW new, OutOK(old), OutOK(new)
  PROVE  /\ FirstRequests(old, new) \in Seq(Firsts(old, new))
         /\ old.led_front_down # new.led_front_down =>
              Has(FirstRequests(old, new), "front_down")
         /\ old.led_front_up # new.led_front_up =>
              Has(FirstRequests(old, new), "front_up")
<1>1. old \in Outputs /\ new \in Outputs
  BY DEF OutOK
<1> DEFINE c1 == <<old.buzzerOn, old.frequency>> # <<new.buzzerOn, new.frequency>>
           c2 == old.led_back # new.led_back
           c3 == old.led_front_down # new.led_front_down
           c4 == old.led_front_up # new.led_front_up
           r1 == [to |-> "buzzer", on |-> old.buzzerOn, freq |-> new.frequency]
           r2 == Led("back", new.led_back)
           r3 == Led("front_down", new.led_front_down)
           r4 == Led("front_up", new.led_front_up)
           s1 == When(c1, r1)
           s2 == When(c2, r2)
           s3 == When(c3, r3)
           s4 == When(c4, r4)
           F == Firsts(old, new)
<1>2. FirstRequests(old, new) = s1 \o ((s2 \o s3) \o s4)
  BY DEF FirstRequests, BuzzerRequest, LedRequests
<1>3. /\ r1 \in Requests /\ r2 \in Requests /\ r3 \in Requests /\ r4 \in Requests
      /\ c1 \in BOOLEAN /\ c2 \in BOOLEAN /\ c3 \in BOOLEAN /\ c4 \in BOOLEAN
  BY <1>1 DEF Outputs, Requests, Led
<1>4. /\ Kind(r1) = "buzzer" /\ Kind(r2) = "back"
      /\ Kind(r3) = "front_down" /\ Kind(r4) = "front_up"
  BY DEF Kind, Led
<1>5. r1 \in F /\ r2 \in F /\ r3 \in F /\ r4 \in F
  BY <1>3, <1>4 DEF Led, Says, Firsts
<1> HIDE DEF c1, c2, r1, r2, r3, r4, F
<1>6. /\ s1 \in Seq(F) /\ s2 \in Seq(F) /\ s3 \in Seq(F) /\ s4 \in Seq(F)
      /\ c3 => Has(s3, "front_down")
      /\ c4 => Has(s4, "front_up")
  BY <1>3, <1>4, <1>5, WhenSeq
<1> HIDE DEF s1, s2, s3, s4
<1>7. s2 \o s3 \in Seq(F) /\ (c3 => Has(s2 \o s3, "front_down"))
  BY <1>6, ConcatSeq, HasConcat
<1>8. /\ (s2 \o s3) \o s4 \in Seq(F)
      /\ c3 => Has((s2 \o s3) \o s4, "front_down")
      /\ c4 => Has((s2 \o s3) \o s4, "front_up")
  BY <1>6, <1>7, ConcatSeq, HasConcat
<1> DEFINE q == (s2 \o s3) \o s4
<1> HIDE DEF q
<1>9. /\ s1 \o q \in Seq(F)
      /\ c3 => Has(s1 \o q, "front_down")
      /\ c4 => Has(s1 \o q, "front_up")
  BY <1>6, <1>8, ConcatSeq, HasConcat DEF q
<1> QED
  BY <1>2, <1>9 DEF q, F

(* The rest of a burst: the alert, then the motors.                        *)
LEMMA SecondPart ==
  ASSUME NEW old, NEW new, OutOK(old), OutOK(new)
  PROVE  /\ AlertRequest(old, new) \in Seq(Alerts(new))
         /\ Len(AlertRequest(old, new)) = IF old.alert # new.alert THEN 1 ELSE 0
         /\ MotorRequest(old, new) \in Seq(Motors(new))
         /\ <<old.throttle, old.steer>> # <<new.throttle, new.steer>> =>
              Has(MotorRequest(old, new), "motor")
<1>1. old \in Outputs /\ new \in Outputs
  BY DEF OutOK
<1> DEFINE c1 == old.alert # new.alert
           c2 == <<old.throttle, old.steer>> # <<new.throttle, new.steer>>
           r1 == [to |-> "alert", interval |-> new.alert]
           r2 == [to |-> "motor", stick |-> Stick(new.throttle, new.steer)]
<1>2. AlertRequest(old, new) = When(c1, r1) /\ MotorRequest(old, new) = When(c2, r2)
  BY DEF AlertRequest, MotorRequest
<1>3. Stick(new.throttle, new.steer) \in GoodSticks
  <2>1. new.throttle \in -100 .. 98 /\ new.steer \in -80 .. 80
    BY <1>1 DEF Outputs
  <2> QED
    BY <2>1, StickAssumption DEF GoodSticks
<1>4. r1 \in Alerts(new) /\ r2 \in Motors(new)
  <2>1. r1 \in Requests /\ r2 \in Requests
    BY <1>1, <1>3 DEF Outputs, Requests
  <2> QED
    BY <2>1 DEF Says, Alerts, Motors
<1>5. Kind(r2) = "motor" /\ c1 \in BOOLEAN /\ c2 \in BOOLEAN
  BY DEF Kind
<1>6. Len(When(c1, r1)) = IF c1 THEN 1 ELSE 0
  BY DEF When
<1> HIDE DEF c2, r1, r2
<1>7. /\ When(c1, r1) \in Seq(Alerts(new))
      /\ When(c2, r2) \in Seq(Motors(new)) /\ (c2 => Has(When(c2, r2), "motor"))
  BY <1>4, <1>5, WhenSeq
<1> QED
  BY <1>2, <1>6, <1>7 DEF c2

(* The whole burst. *)
LEMMA BurstParts ==
  ASSUME NEW old, NEW new, OutOK(old), OutOK(new)
  PROVE  /\ Burst(old, new) =
              (FirstRequests(old, new) \o AlertRequest(old, new)) \o MotorRequest(old, new)
         /\ FirstRequests(old, new) \in Seq(Firsts(old, new))
         /\ AlertRequest(old, new) \in Seq(Alerts(new))
         /\ MotorRequest(old, new) \in Seq(Motors(new))
BY FirstPart, SecondPart DEF Burst, FirstRequests

-----------------------------------------------------------------------------
(* The service keeps its types; every step of the ECU leaves it alone or   *)
(* takes a request off the network.                                        *)

LEMMA ServiceInit == RtInit => Service
<1> SUFFICES ASSUME RtInit PROVE Service
  OBVIOUS
<1>1. OutOK(FirstOutput)
  BY SilentOK
<1>2. out = FirstOutput /\ preOut = FirstOutput /\ net = <<>>
  BY DEF RtInit
<1>3. out \in Outputs /\ preOut \in Outputs
  BY <1>1, <1>2 DEF OutOK
<1>4. chirp \in [tone : Tones, age : 0 .. ChirpCycles]
  BY ChirpAssumption DEF RtInit, Tones
<1>5. Len(net) <= MaxNet /\ net \in Seq(Requests)
  BY <1>2, MaxNetAssumption
<1> QED
  BY <1>1, <1>2, <1>3, <1>4, <1>5 DEF RtInit, RtTypeOK, Service

LEMMA OutsideKeeps == Service /\ Outside => Service'
BY DEF Service, RtTypeOK, OutOK, Outside, JoystickMotor, JoystickButton, IpcCommand,
       SensorSample, controlVars, commVars

LEMMA SnapshotKeeps == Service /\ snapshotInputs => Service'
BY DEF Service, RtTypeOK, OutOK, snapshotInputs, Inputs, sharedVars, commVars

LEMMA PublishKeeps == Service /\ publishOutput => Service'
<1> SUFFICES ASSUME Service, publishOutput PROVE Service'
  OBVIOUS
<1>1. inputs \in Inputs
  BY DEF Service, RtTypeOK, publishOutput
<1> DEFINE C == [tone : Tones, age : 0 .. ChirpCycles]
           started == DoorChirp(inputs.door)
<1>2. PICK expired \in MayExpire(started) :
        /\ chirp' = Played(started, expired)
        /\ out' = computeOutput(inputs, chirp'.tone)
  BY DEF publishOutput
<1>3. started \in C
  BY ChirpAssumption DEF DoorChirp, Service, RtTypeOK, Tones
<1>4. expired \in BOOLEAN /\ (started.age >= ChirpCycles /\ started.age # 0 => expired)
  BY DEF MayExpire
<1> HIDE DEF started
<1>5. chirp' \in C
  <2>1. CASE started.tone = "idle"
    BY <1>2, <1>3, <2>1 DEF Played
  <2>2. CASE started.tone # "idle" /\ expired
    <3>1. chirp' = [tone |-> "high", age |-> 1] \/ chirp' = [tone |-> "idle", age |-> 0]
      BY <1>2, <2>2 DEF Played
    <3> QED
      BY <3>1, ChirpAssumption DEF Tones
  <2>3. CASE started.tone # "idle" /\ ~expired
    <3>1. chirp' = [started EXCEPT !.age = @ + 1]
      BY <1>2, <2>3 DEF Played
    <3>2. started.age + 1 \in 0 .. ChirpCycles
      BY <1>3, <1>4, <2>3, ChirpAssumption
    <3> QED
      BY <1>3, <3>1, <3>2
  <2> QED
    BY <1>4, <2>1, <2>2, <2>3
<1>6. OutOK(out')
  <2>1. chirp'.tone \in Tones
    BY <1>5
  <2>2. OutOK(computeOutput(inputs, chirp'.tone))
    BY <1>1, <2>1, ComputedOK
  <2>3. out' = computeOutput(inputs, chirp'.tone)
    BY <1>2
  <2> QED
    BY <2>2, <2>3 DEF OutOK
<1>7. out' \in Outputs
  BY <1>6 DEF OutOK
<1>8. /\ last_door' \in BOOLEAN \cup {None}
      /\ inputs' = None
      /\ UNCHANGED <<sharedVars, commVars>>
  BY <1>1 DEF publishOutput, Inputs
<1> QED
  BY <1>5, <1>6, <1>7, <1>8 DEF Service, RtTypeOK, sharedVars, commVars, OutOK

LEMMA CommKeeps == Service /\ comm_thread => Service'
<1> SUFFICES ASSUME Service, comm_thread PROVE Service'
  OBVIOUS
<1>1. OutOK(out) /\ OutOK(preOut) /\ net \in Seq(Requests)
  BY DEF Service
<1>2. Burst(preOut, out) \in Seq(Requests)
  <2> DEFINE p == FirstRequests(preOut, out)
             q == AlertRequest(preOut, out)
             s == MotorRequest(preOut, out)
  <2>1. /\ Burst(preOut, out) = (p \o q) \o s
        /\ p \in Seq(Firsts(preOut, out)) /\ q \in Seq(Alerts(out)) /\ s \in Seq(Motors(out))
    BY <1>1, BurstParts
  <2> HIDE DEF p, q, s
  <2>2. p \in Seq(Requests) /\ q \in Seq(Requests) /\ s \in Seq(Requests)
    BY <2>1 DEF Firsts, Alerts, Motors
  <2>3. p \o q \in Seq(Requests)
    BY <2>2, ConcatSeq
  <2> QED
    BY <2>1, <2>2, <2>3, ConcatSeq
<1>3. net' = net \o Burst(preOut, out) /\ preOut' = out /\ out' = out
  BY DEF comm_thread, controlVars
<1>4. net' \in Seq(Requests)
  BY <1>1, <1>2, <1>3, ConcatSeq
<1>5. OutOK(out)' /\ OutOK(preOut)'
  BY <1>1, <1>3 DEF OutOK
<1>6. RtTypeOK'
  <2>1. preOut' \in Outputs
    BY <1>5 DEF OutOK
  <2> QED
    BY <2>1 DEF Service, RtTypeOK, comm_thread, sharedVars, controlVars
<1> QED
  BY <1>4, <1>5, <1>6 DEF Service

LEMMA RestartKeeps == Service /\ RtRestart => Service'
<1> SUFFICES ASSUME Service, RtRestart PROVE Service'
  OBVIOUS
<1>1. OutOK(FirstOutput)
  BY SilentOK
<1>2. out' = FirstOutput /\ preOut' = FirstOutput /\ net' = net
  BY DEF RtRestart
<1>3. OutOK(out') /\ OutOK(preOut') /\ out' \in Outputs /\ preOut' \in Outputs
  BY <1>1, <1>2 DEF OutOK
<1>4. chirp' \in [tone : Tones, age : 0 .. ChirpCycles]
  BY ChirpAssumption DEF RtRestart, Tones
<1> QED
  BY <1>2, <1>3, <1>4 DEF RtRestart, RtTypeOK, Service

(* What takes a request off the network, or all.                           *)
LEMMA FewerKeeps ==
  ASSUME Service, (net # <<>> /\ net' = Tail(net)) \/ net' = <<>> \/ net' = net,
         UNCHANGED <<sharedVars, controlVars, preOut>>
  PROVE  Service'
<1>0. net \in Seq(Requests) /\ Len(net) <= MaxNet
  BY DEF Service, RtTypeOK
<1>1. net' \in Seq(Requests) /\ Len(net') <= MaxNet
  <2>1. CASE net # <<>> /\ net' = Tail(net)
    <3>1. Tail(net) \in Seq(Requests) /\ Len(Tail(net)) = Len(net) - 1 /\ Len(net) \in Nat
      BY <1>0, <2>1
    <3>2. Len(net) - 1 <= MaxNet
      BY <1>0, <3>1, MaxNetAssumption
    <3> QED
      BY <2>1, <3>1, <3>2
  <2>2. CASE net' = <<>>
    BY <2>2, MaxNetAssumption
  <2> QED
    BY <1>0, <2>1, <2>2
<1> QED
  BY <1>1 DEF Service, RtTypeOK, sharedVars, controlVars, OutOK

-----------------------------------------------------------------------------
(* The ECU, and what each of its steps does.  Its flag and its interval    *)
(* agree before each packet, and motors that have been commanded run at    *)
(* the speeds of the stick position they were sent.                        *)

EcuSound ==
  /\ phase \in {"rx", "alert"}
  /\ interval \in {-1, 0}
  /\ isAlertOn \in BOOLEAN
  /\ led \in [Sides -> BOOLEAN]
  /\ buzzer.on \in BOOLEAN
  /\ phase = "rx" => (isAlertOn <=> interval = 0)
  /\ <<motor.x, motor.y>> # <<0, 0>> =>
       /\ motor.left = LeftSpeed(motor.x, motor.y)
       /\ motor.right = RightSpeed(motor.x, motor.y)

Runs(stick) == /\ motor.left = LeftSpeed(stick[1], stick[2])
               /\ motor.right = RightSpeed(stick[1], stick[2])

(* What handling request r changes. *)
Handled(r) ==
  /\ phase = "rx" /\ phase' = "alert"
  /\ isAlertOn' = isAlertOn
  /\ interval' = IF Kind(r) = "alert" THEN r.interval ELSE interval
  /\ led'["front_down"] = IF Kind(r) = "front_down" THEN r.on ELSE led["front_down"]
  /\ led'["front_up"] = IF Kind(r) = "front_up" THEN r.on ELSE led["front_up"]
  /\ led'["back"] = IF Kind(r) = "back" /\ interval = -1 THEN r.on ELSE led["back"]
  /\ buzzer'.on = IF Kind(r) = "buzzer" /\ interval = -1 THEN r.on ELSE buzzer.on
  /\ Kind(r) = "motor" =>
       /\ motor'.left = LeftSpeed(r.stick[1], r.stick[2])
       /\ motor'.right = RightSpeed(r.stick[1], r.stick[2])
  /\ Kind(r) # "motor" => motor' = motor

LEMMA HandleBuzzer ==
  ASSUME EcuSound, NEW r \in Requests, r.to = "buzzer",
         BuzzerControl(IF r.on THEN 1 ELSE 0, r.freq)
  PROVE  EcuSound' /\ Handled(r)
<1>1. r.on \in BOOLEAN /\ Kind(r) = "buzzer"
  BY DEF Requests, Kind
<1>2. /\ phase = "rx" /\ phase' = "alert"
      /\ UNCHANGED <<interval, isAlertOn, led, motor>>
  BY DEF BuzzerControl
<1>3. buzzer'.on = IF interval = -1 THEN r.on ELSE buzzer.on
  <2>1. CASE interval = -1
    <3>1. ~IsEmerAlertOn
      BY <2>1 DEF IsEmerAlertOn
    <3>2. CASE r.on
      BY <1>1, <2>1, <3>1, <3>2 DEF BuzzerControl
    <3>3. CASE ~r.on
      <4>1. buzzer'.on = FALSE /\ r.on = FALSE
        BY <1>1, <3>1, <3>3 DEF BuzzerControl
      <4> QED
        BY <2>1, <4>1
    <3> QED
      BY <3>2, <3>3
  <2>2. CASE interval = 0
    BY <2>2 DEF BuzzerControl, IsEmerAlertOn
  <2> QED
    BY <2>1, <2>2 DEF EcuSound
<1> QED
  BY <1>1, <1>2, <1>3 DEF EcuSound, Handled

LEMMA HandleLed ==
  ASSUME EcuSound, NEW r \in Requests, r.to = "led",
         LedControl(r.side, IF r.on THEN 1 ELSE 0)
  PROVE  EcuSound' /\ Handled(r)
<1>1. r.on \in BOOLEAN /\ r.side \in Sides /\ Kind(r) = r.side
  BY DEF Requests, Kind, Sides
<1>2. /\ phase = "rx" /\ phase' = "alert"
      /\ UNCHANGED <<interval, isAlertOn, buzzer, motor>>
  BY DEF LedControl
<1>3. led' = IF r.side = "back" /\ interval = 0 THEN led ELSE [led EXCEPT ![r.side] = r.on]
  <2>1. CASE r.side = "back" /\ interval = 0
    BY <2>1 DEF LedControl, LedBlocked, IsEmerAlertOn
  <2>2. CASE ~(r.side = "back" /\ interval = 0)
    <3>1. ~LedBlocked(r.side)
      BY <2>2 DEF LedBlocked, IsEmerAlertOn, EcuSound
    <3>2. CASE r.on
      <4>1. led' = [led EXCEPT ![r.side] = TRUE]
        BY <1>1, <3>1, <3>2 DEF LedControl
      <4> QED
        BY <1>1, <2>2, <3>2, <4>1
    <3>3. CASE ~r.on
      <4>1. led' = [led EXCEPT ![r.side] = FALSE]
        BY <1>1, <3>1, <3>3 DEF LedControl
      <4>2. r.on = FALSE
        BY <1>1, <3>3
      <4> QED
        BY <2>2, <4>1, <4>2
    <3> QED
      BY <3>2, <3>3
  <2> QED
    BY <2>1, <2>2
<1> QED
  BY <1>1, <1>2, <1>3 DEF EcuSound, Handled, Sides

LEMMA HandleAlert ==
  ASSUME EcuSound, NEW r \in Requests, r.to = "alert", AlertControl(r.interval)
  PROVE  EcuSound' /\ Handled(r)
<1>1. r.interval \in {-1, 0} /\ Kind(r) = "alert"
  BY DEF Requests, Kind
<1> QED
  BY <1>1 DEF AlertControl, EcuSound, Handled

LEMMA HandleMotor ==
  ASSUME EcuSound, NEW r \in Requests, r.to = "motor",
         MotorControl(r.stick[1], r.stick[2])
  PROVE  EcuSound' /\ Handled(r)
<1>1. r.stick \in GoodSticks /\ Kind(r) = "motor"
  BY DEF Requests, Kind
<1> DEFINE x == r.stick[1]
           y == r.stick[2]
<1>2. x \in 0 .. 99 /\ y \in 0 .. 99 /\ <<x, y>> # <<0, 0>>
  BY <1>1 DEF GoodSticks
<1> HIDE DEF x, y
<1>3. /\ phase = "rx" /\ phase' = "alert"
      /\ UNCHANGED <<interval, isAlertOn, led, buzzer>>
      /\ motor' = IF MotorAccepts(x, y)
                  THEN [x |-> x, y |-> y, left |-> LeftSpeed(x, y),
                        right |-> RightSpeed(x, y)]
                  ELSE motor
  BY DEF MotorControl, x, y
<1>4. /\ motor'.x = x /\ motor'.y = y
      /\ motor'.left = LeftSpeed(x, y)
      /\ motor'.right = RightSpeed(x, y)
  <2>1. CASE MotorAccepts(x, y)
    BY <1>3, <2>1
  <2>2. CASE ~MotorAccepts(x, y)
    <3>1. motor.x = x /\ motor.y = y
      BY <1>2, <2>2 DEF MotorAccepts
    <3> QED
      BY <1>2, <1>3, <2>2, <3>1 DEF EcuSound
  <2> QED
    BY <2>1, <2>2
<1>5. /\ motor'.left = LeftSpeed(r.stick[1], r.stick[2])
      /\ motor'.right = RightSpeed(r.stick[1], r.stick[2])
  BY <1>4 DEF x, y
<1> QED
  BY <1>1, <1>3, <1>4, <1>5 DEF EcuSound, Handled

LEMMA HandleAny ==
  ASSUME EcuSound, NEW r \in Requests, Handle(r)
  PROVE  EcuSound' /\ Handled(r)
BY HandleBuzzer, HandleLed, HandleAlert, HandleMotor DEF Handle

LEMMA UpdateDoes ==
  ASSUME EcuSound, EmerAlert_Update_Periodic
  PROVE  /\ EcuSound'
         /\ phase = "alert" /\ phase' = "rx"
         /\ UNCHANGED <<interval, motor>>
         /\ isAlertOn' <=> interval = 0
         /\ \A side \in {"front_down", "front_up"} : led'[side] = led[side]
         /\ \/ UNCHANGED <<isAlertOn, led, buzzer>>
            \/ (isAlertOn' <=> led'["back"]) /\ (isAlertOn' <=> buzzer'.on)
<1>1. phase = "alert" /\ phase' = "rx" /\ UNCHANGED <<interval, motor>>
  BY DEF EmerAlert_Update_Periodic
<1>2. /\ interval = 0 => EmerAlert_On
      /\ interval = -1 => EmerAlert_Off
  BY DEF EmerAlert_Update_Periodic
<1>3. CASE interval = 0 /\ ~isAlertOn
  <2>1. EmerAlert_Show(TRUE)
    BY <1>2, <1>3 DEF EmerAlert_On
  <2>2. isAlertOn' = TRUE /\ led' = [led EXCEPT !["back"] = TRUE] /\ buzzer'.on = TRUE
    BY <2>1 DEF EmerAlert_Show
  <2> QED
    BY <1>1, <1>3, <2>2 DEF EcuSound, Sides
<1>4. CASE interval = -1 /\ isAlertOn
  <2>1. EmerAlert_Show(FALSE)
    BY <1>2, <1>4 DEF EmerAlert_Off
  <2>2. isAlertOn' = FALSE /\ led' = [led EXCEPT !["back"] = FALSE] /\ buzzer'.on = FALSE
    BY <2>1 DEF EmerAlert_Show
  <2>3. /\ led' \in [Sides -> BOOLEAN] /\ led'["back"] = FALSE
        /\ led'["front_down"] = led["front_down"] /\ led'["front_up"] = led["front_up"]
    BY <2>2 DEF EcuSound, Sides
  <2>4. /\ interval' \in {-1, 0} /\ interval' # 0 /\ interval # 0
        /\ isAlertOn' \in BOOLEAN /\ ~isAlertOn'
        /\ buzzer'.on \in BOOLEAN /\ ~buzzer'.on
    <3>1. interval' = interval /\ interval = -1
      BY <1>1, <1>4
    <3>2. -1 \in {-1, 0} /\ -1 # 0
      OBVIOUS
    <3>3. isAlertOn' = FALSE /\ buzzer'.on = FALSE
      BY <2>2
    <3> QED
      BY <3>1, <3>2, <3>3
  <2>5. EcuSound'
    BY <1>1, <2>3, <2>4 DEF EcuSound
  <2> QED
    BY <1>1, <2>3, <2>4, <2>5
<1>5. CASE isAlertOn <=> interval = 0
  <2>1. UNCHANGED <<isAlertOn, led, buzzer>>
    <3>1. Unshown
      BY <1>2, <1>5 DEF EmerAlert_On, EmerAlert_Off, EcuSound
    <3> QED
      BY <3>1 DEF Unshown
  <2> QED
    BY <1>1, <1>5, <2>1 DEF EcuSound
<1> QED
  BY <1>3, <1>4, <1>5 DEF EcuSound

LEMMA ResetDoes == Reset => EcuSound'
<1> SUFFICES ASSUME Reset PROVE EcuSound'
  OBVIOUS
<1>1. /\ phase' = "rx" /\ interval' = -1 /\ isAlertOn' = FALSE
      /\ motor'.x = 0 /\ motor'.y = 0 /\ buzzer'.on = FALSE
  BY DEF Reset, Off
<1>2. led' \in [Sides -> BOOLEAN]
  BY DEF Reset, Sides
<1>3. isAlertOn' \in BOOLEAN /\ buzzer'.on \in BOOLEAN /\ ~isAlertOn'
  BY <1>1
<1> QED
  BY <1>1, <1>2, <1>3 DEF EcuSound

-----------------------------------------------------------------------------
(* What a burst does to the network.                                       *)

LEMMA FromSeq ==
  ASSUME NEW S, NEW s \in Seq(S), NEW i \in 1 .. Len(s)
  PROVE  s[i] \in S
OBVIOUS

Sayings(o) == {r \in Requests : Says(r, o)}

LEMMA BurstSays ==
  ASSUME NEW old, NEW new, OutOK(old), OutOK(new)
  PROVE  /\ Burst(old, new) \in Seq(Sayings(new))
         /\ old.alert # new.alert => Has(Burst(old, new), "alert")
         /\ old.led_front_down # new.led_front_down => Has(Burst(old, new), "front_down")
         /\ old.led_front_up # new.led_front_up => Has(Burst(old, new), "front_up")
         /\ <<old.throttle, old.steer>> # <<new.throttle, new.steer>> =>
              Has(Burst(old, new), "motor")
<1> DEFINE p == FirstRequests(old, new)
           q == AlertRequest(old, new)
           s == MotorRequest(old, new)
<1>1. /\ Burst(old, new) = (p \o q) \o s
      /\ p \in Seq(Firsts(old, new)) /\ q \in Seq(Alerts(new)) /\ s \in Seq(Motors(new))
  BY BurstParts
<1>2. p \in Seq(Sayings(new)) /\ q \in Seq(Sayings(new)) /\ s \in Seq(Sayings(new))
  BY <1>1 DEF Firsts, Alerts, Motors, Sayings
<1>3. /\ old.led_front_down # new.led_front_down => Has(p, "front_down")
      /\ old.led_front_up # new.led_front_up => Has(p, "front_up")
      /\ <<old.throttle, old.steer>> # <<new.throttle, new.steer>> => Has(s, "motor")
      /\ Len(q) = IF old.alert # new.alert THEN 1 ELSE 0
  BY FirstPart, SecondPart
<1>4. old.alert # new.alert => Has(q, "alert")
  <2> SUFFICES ASSUME old.alert # new.alert PROVE Has(q, "alert")
    OBVIOUS
  <2>1. Len(q) = 1
    BY <1>3
  <2>2. q[1] \in Alerts(new)
    <3>1. 1 \in 1 .. Len(q) /\ q \in Seq(Alerts(new))
      BY <1>1, <2>1
    <3> QED
      BY <3>1, FromSeq
  <2>3. Kind(q[1]) = "alert"
    BY <2>2 DEF Alerts, Kind
  <2> QED
    BY <2>1, <2>3 DEF Has
<1> HIDE DEF p, q, s
<1>5. p \o q \in Seq(Sayings(new))
  BY <1>2, ConcatSeq
<1>6. /\ old.led_front_down # new.led_front_down => Has(p \o q, "front_down")
      /\ old.led_front_up # new.led_front_up => Has(p \o q, "front_up")
      /\ old.alert # new.alert => Has(p \o q, "alert")
  BY <1>2, <1>3, <1>4, HasConcat
<1> DEFINE pq == p \o q
<1>7. pq \in Seq(Sayings(new)) /\ Burst(old, new) = pq \o s
  BY <1>1, <1>5 DEF p, q, s
<1> HIDE DEF pq
<1>8. Burst(old, new) \in Seq(Sayings(new))
  BY <1>2, <1>7, ConcatSeq
<1>9. \A kind : Has(pq, kind) \/ Has(s, kind) => Has(Burst(old, new), kind)
  BY <1>2, <1>7, HasConcat
<1> QED
  BY <1>3, <1>6, <1>8, <1>9 DEF pq

(* The order within a burst: P requests for buzzer and LEDs, then the      *)
(* alert, if it changed.                                                   *)
LEMMA BurstOrder ==
  ASSUME NEW old, NEW new, OutOK(old), OutOK(new)
  PROVE  LET b == Burst(old, new)
             P == Len(FirstRequests(old, new))
         IN /\ P \in Nat /\ Len(b) \in Nat /\ P <= Len(b)
            /\ \A k \in 1 .. P : b[k] \in Firsts(old, new)
            /\ \A k \in P + 1 .. Len(b) : b[k].to \in {"alert", "motor"}
            /\ old.alert # new.alert => P + 1 <= Len(b) /\ b[P + 1] \in Alerts(new)
<1> DEFINE b == Burst(old, new)
           p == FirstRequests(old, new)
           q == AlertRequest(old, new)
           s == MotorRequest(old, new)
           T == Firsts(old, new) \cup Alerts(new) \cup Motors(new)
<1>1. /\ b = (p \o q) \o s
      /\ p \in Seq(Firsts(old, new)) /\ q \in Seq(Alerts(new)) /\ s \in Seq(Motors(new))
  BY BurstParts
<1>2. Len(q) = IF old.alert # new.alert THEN 1 ELSE 0
  BY SecondPart
<1>3. p \in Seq(T) /\ q \in Seq(T) /\ s \in Seq(T)
  BY <1>1
<1> HIDE DEF b, p, q, s, T
<1>4. /\ p \o q \in Seq(T)
      /\ Len(p \o q) = Len(p) + Len(q)
      /\ \A i \in 1 .. Len(p) : (p \o q)[i] = p[i]
      /\ \A i \in 1 .. Len(q) : (p \o q)[Len(p) + i] = q[i]
  BY <1>3, ConcatSeq
<1> DEFINE pq == p \o q
<1> HIDE DEF pq
<1>5. /\ Len(pq \o s) = Len(pq) + Len(s)
      /\ \A i \in 1 .. Len(pq) : (pq \o s)[i] = pq[i]
      /\ \A i \in 1 .. Len(s) : (pq \o s)[Len(pq) + i] = s[i]
  BY <1>3, <1>4, ConcatSeq DEF pq
<1>6. Len(p) \in Nat /\ Len(q) \in Nat /\ Len(s) \in Nat
  BY <1>3
<1>7. Len(b) = Len(p) + Len(q) + Len(s)
  BY <1>1, <1>4, <1>5, <1>6 DEF pq
<1>8. ASSUME NEW k \in 1 .. Len(p) PROVE b[k] \in Firsts(old, new)
  <2>1. p[k] \in Firsts(old, new)
    BY <1>1, FromSeq
  <2>2. k \in 1 .. Len(pq) /\ pq[k] = p[k]
    BY <1>4, <1>6 DEF pq
  <2> QED
    BY <1>1, <1>5, <2>1, <2>2 DEF pq
<1>9. ASSUME NEW i \in 1 .. Len(q) PROVE b[Len(p) + i] \in Alerts(new)
  <2>1. q[i] \in Alerts(new)
    BY <1>1, FromSeq
  <2>2. Len(p) + i \in 1 .. Len(pq) /\ pq[Len(p) + i] = q[i]
    BY <1>4, <1>6 DEF pq
  <2> QED
    BY <1>1, <1>5, <2>1, <2>2 DEF pq
<1>10. ASSUME NEW i \in 1 .. Len(s) PROVE b[Len(p) + Len(q) + i] \in Motors(new)
  <2>1. s[i] \in Motors(new)
    BY <1>1, FromSeq
  <2>2. b[Len(pq) + i] = s[i] /\ Len(pq) = Len(p) + Len(q)
    BY <1>1, <1>4, <1>5 DEF pq
  <2> QED
    BY <2>1, <2>2
<1>11. ASSUME NEW k \in Len(p) + 1 .. Len(b) PROVE b[k].to \in {"alert", "motor"}
  <2>1. CASE k <= Len(p) + Len(q)
    <3>1. k - Len(p) \in 1 .. Len(q) /\ Len(p) + (k - Len(p)) = k
      BY <1>6, <2>1
    <3>2. b[k] \in Alerts(new)
      BY <1>9, <3>1
    <3> QED
      BY <3>2 DEF Alerts
  <2>2. CASE k > Len(p) + Len(q)
    <3> DEFINE i == k - (Len(p) + Len(q))
    <3>1. i \in 1 .. Len(s) /\ Len(p) + Len(q) + i = k
      BY <1>6, <1>7, <2>2
    <3> HIDE DEF i
    <3>2. b[k] \in Motors(new)
      BY <1>10, <3>1
    <3> QED
      BY <3>2 DEF Motors
  <2> QED
    BY <1>6, <2>1, <2>2
<1>12. old.alert # new.alert => Len(p) + 1 <= Len(b) /\ b[Len(p) + 1] \in Alerts(new)
  BY <1>2, <1>6, <1>7, <1>9
<1> QED
  BY <1>6, <1>7, <1>8, <1>11, <1>12 DEF b, p

-----------------------------------------------------------------------------
(* The inductive invariant, in two parts.  First: of each kind, the last   *)
(* request on its way says what preOut says; if none is, and none has been *)
(* lost since the last arrived, the ECU does what preOut says.             *)

LastOfKind(i) == \A j \in i + 1 .. Len(net) : Kind(net[j]) # Kind(net[i])

LastSays == \A i \in 1 .. Len(net) : LastOfKind(i) => Says(net[i], preOut)

Settled ==
  /\ "alert" \notin stale /\ ~Has(net, "alert") => interval = preOut.alert
  /\ "front_down" \notin stale /\ ~Has(net, "front_down") =>
       led["front_down"] = preOut.led_front_down
  /\ "front_up" \notin stale /\ ~Has(net, "front_up") =>
       led["front_up"] = preOut.led_front_up
  /\ "motor" \notin stale /\ ~Has(net, "motor") =>
       Runs(Stick(preOut.throttle, preOut.steer))

(* Second, unless an alert request was lost: a request that switches the   *)
(* buzzer on arrives under an alert, which blocks it; one that switches    *)
(* the rear LED on does too, or the next alert request starts an alert.    *)
(* i is a position on the network; in force there is the interval of the   *)
(* last alert request before it.                                           *)

InForce(i) ==
  /\ (\A j \in 1 .. i - 1 : net[j].to # "alert") => interval = 0
  /\ \A j \in 1 .. i - 1 :
       net[j].to = "alert" /\ (\A m \in j + 1 .. i - 1 : net[m].to # "alert") =>
         net[j].interval = 0

NextStarts(i) ==
  \E j \in i + 1 .. Len(net) :
    /\ net[j].to = "alert" /\ net[j].interval = 0
    /\ \A m \in i + 1 .. j - 1 : net[m].to # "alert"

Covered ==
  /\ \A i \in 1 .. Len(net) :
       /\ net[i].to = "buzzer" /\ net[i].on => InForce(i)
       /\ Kind(net[i]) = "back" /\ net[i].on => InForce(i) \/ NextStarts(i)
  /\ led["back"] /\ ~isAlertOn => interval = 0 \/ NextStarts(0)
  /\ buzzer.on => isAlertOn

PathInv ==
  /\ Service
  /\ EcuSound
  /\ LastSays
  /\ Settled
  /\ stale \subseteq lost /\ lost \subseteq Kinds
  /\ "alert" \notin lost => Covered

LEMMA KindOf ==
  ASSUME NEW r \in Requests
  PROVE  /\ Kind(r) \in Kinds
         /\ Kind(r) = "alert" <=> r.to = "alert"
         /\ Kind(r) = "buzzer" <=> r.to = "buzzer"
         /\ Kind(r) = "motor" <=> r.to = "motor"
         /\ Kind(r) \in {"back", "front_down", "front_up"} => r.to = "led" /\ r.side = Kind(r)
         /\ r.to = "led" => Kind(r) = r.side
BY DEF Requests, Kind, Kinds

-----------------------------------------------------------------------------
(* The comm thread's step.                                                 *)

LEMMA SendSettles ==
  ASSUME PathInv, comm_thread, UNCHANGED <<ecuVars, historyVars>>
  PROVE  LastSays' /\ Settled'
<1> DEFINE b == Burst(preOut, out)
<1>1. OutOK(preOut) /\ OutOK(out) /\ net \in Seq(Requests)
  BY DEF PathInv, Service
<1>2. /\ b \in Seq(Sayings(out))
      /\ preOut.alert # out.alert => Has(b, "alert")
      /\ preOut.led_front_down # out.led_front_down => Has(b, "front_down")
      /\ preOut.led_front_up # out.led_front_up => Has(b, "front_up")
      /\ <<preOut.throttle, preOut.steer>> # <<out.throttle, out.steer>> => Has(b, "motor")
  BY <1>1, BurstSays
<1>3. net' = net \o b /\ preOut' = out
  BY DEF comm_thread
<1> HIDE DEF b
<1>4. b \in Seq(Requests)
  BY <1>2 DEF Sayings
<1>5. /\ Len(net) \in Nat /\ Len(b) \in Nat
      /\ Len(net') = Len(net) + Len(b)
      /\ \A i \in 1 .. Len(net) : net'[i] = net[i]
      /\ \A i \in 1 .. Len(b) : net'[Len(net) + i] = b[i]
  BY <1>1, <1>3, <1>4, ConcatSeq
<1>6. \A kind : Has(net, kind) \/ Has(b, kind) => Has(net', kind)
  BY <1>1, <1>3, <1>4, HasConcat
<1>7. LastSays'
  <2> SUFFICES ASSUME NEW i \in 1 .. Len(net'),
                      \A j \in i + 1 .. Len(net') : Kind(net'[j]) # Kind(net'[i])
               PROVE  Says(net'[i], out)
    BY <1>3 DEF LastSays, LastOfKind
  <2>1. CASE i > Len(net)
    <3> DEFINE k == i - Len(net)
    <3>1. k \in 1 .. Len(b) /\ Len(net) + k = i
      BY <1>5, <2>1
    <3> HIDE DEF k
    <3>2. b[k] \in Sayings(out)
      BY <1>2, <3>1, FromSeq
    <3> QED
      BY <1>5, <3>1, <3>2 DEF Sayings
  <2>2. CASE i <= Len(net)
    <3>1. i \in 1 .. Len(net) /\ net'[i] = net[i]
      BY <1>5, <2>2
    <3>2. net[i] \in Requests
      BY <1>1, <3>1, FromSeq
    <3>3. LastOfKind(i)
      <4> SUFFICES ASSUME NEW j \in i + 1 .. Len(net) PROVE Kind(net[j]) # Kind(net[i])
        BY DEF LastOfKind
      <4>1. j \in i + 1 .. Len(net') /\ net'[j] = net[j]
        BY <1>5, <3>1
      <4> QED
        BY <3>1, <4>1
    <3>4. Says(net[i], preOut)
      BY <3>1, <3>3 DEF PathInv, LastSays
    <3>5. ~Has(b, Kind(net[i]))
      <4> SUFFICES ASSUME NEW k \in 1 .. Len(b), Kind(b[k]) = Kind(net[i]) PROVE FALSE
        BY DEF Has
      <4>1. Len(net) + k \in i + 1 .. Len(net') /\ net'[Len(net) + k] = b[k]
        BY <1>5, <3>1
      <4> QED
        BY <3>1, <4>1
    <3> DEFINE r == net[i]
    <3> HIDE DEF r
    <3>6. /\ r \in Requests /\ Says(r, preOut) /\ ~Has(b, Kind(r))
      BY <3>2, <3>4, <3>5 DEF r
    <3>7. Says(r, out)
      <4>1. r.to = "alert" => r.interval = out.alert
        BY <1>2, <3>6, KindOf DEF Says
      <4>2. r.to = "led" /\ r.side = "front_down" => r.on = out.led_front_down
        BY <1>2, <3>6, KindOf DEF Says
      <4>3. r.to = "led" /\ r.side = "front_up" => r.on = out.led_front_up
        BY <1>2, <3>6, KindOf DEF Says
      <4>4. r.to = "motor" => r.stick = Stick(out.throttle, out.steer)
        BY <1>2, <3>6, KindOf DEF Says
      <4> QED
        BY <4>1, <4>2, <4>3, <4>4 DEF Says
    <3> QED
      BY <3>1, <3>7 DEF r
  <2> QED
    BY <1>5, <2>1, <2>2
<1>8. Settled'
  <2>1. UNCHANGED <<interval, led, motor, stale>>
    BY DEF ecuVars, historyVars
  <2>2. \A kind : ~Has(net', kind) => ~Has(net, kind) /\ ~Has(b, kind)
    BY <1>6
  <2>3. "motor" \notin stale /\ ~Has(net', "motor") => Runs(Stick(out.throttle, out.steer))
    BY <1>2, <2>2 DEF PathInv, Settled
  <2>4. Runs(Stick(out.throttle, out.steer))' <=> Runs(Stick(out.throttle, out.steer))
    BY <2>1 DEF Runs, comm_thread, controlVars
  <2> QED
    BY <1>2, <1>3, <2>1, <2>2, <2>3, <2>4 DEF PathInv, Settled, Runs
<1> QED
  BY <1>7, <1>8

LEMMA SendCovers ==
  ASSUME PathInv, comm_thread, UNCHANGED <<ecuVars, historyVars>>, "alert" \notin lost
  PROVE  Covered'
<1> DEFINE b == Burst(preOut, out)
           N == Len(net)
           P == Len(FirstRequests(preOut, out))
<1>1. OutOK(preOut) /\ OutOK(out) /\ net \in Seq(Requests)
  BY DEF PathInv, Service
<1>2. /\ P \in Nat /\ Len(b) \in Nat /\ P <= Len(b)
      /\ \A k \in 1 .. P : b[k] \in Firsts(preOut, out)
      /\ \A k \in P + 1 .. Len(b) : b[k].to \in {"alert", "motor"}
      /\ preOut.alert # out.alert => P + 1 <= Len(b) /\ b[P + 1] \in Alerts(out)
  BY <1>1, BurstOrder
<1>3. net' = net \o b /\ preOut' = out
  BY DEF comm_thread
<1>4. b \in Seq(Requests)
  <2>1. b \in Seq(Sayings(out))
    BY <1>1, BurstSays
  <2> QED
    BY <2>1 DEF Sayings
<1> HIDE DEF b, P
<1>5. /\ N \in Nat
      /\ Len(net') = N + Len(b)
      /\ \A i \in 1 .. N : net'[i] = net[i]
      /\ \A i \in 1 .. Len(b) : net'[N + i] = b[i]
  BY <1>1, <1>3, <1>4, ConcatSeq
<1> HIDE DEF N
<1>6. UNCHANGED <<interval, led, buzzer, isAlertOn>> /\ "alert" \notin stale
  BY DEF ecuVars, PathInv
<1>7. Covered
  BY DEF PathInv
(* Requests already on their way keep what covers them. *)
<1>8. ASSUME NEW i \in 1 .. N, InForce(i) PROVE InForce(i)'
  <2>1. \A j \in 1 .. i - 1 : net'[j] = net[j]
    BY <1>5
  <2>2. (\A j \in 1 .. i - 1 : net'[j].to # "alert") => interval' = 0
    BY <1>6, <1>8, <2>1 DEF InForce
  <2>3. ASSUME NEW j \in 1 .. i - 1, net'[j].to = "alert",
               \A m \in j + 1 .. i - 1 : net'[m].to # "alert"
        PROVE  net'[j].interval = 0
    <3>1. \A m \in j + 1 .. i - 1 : net[m].to # "alert"
      <4> SUFFICES ASSUME NEW m \in j + 1 .. i - 1 PROVE net[m].to # "alert"
        OBVIOUS
      <4>1. m \in 1 .. i - 1
        BY <1>5
      <4> QED
        BY <2>1, <2>3, <4>1
    <3>2. net[j].to = "alert" /\ net'[j] = net[j]
      BY <2>1, <2>3
    <3> QED
      BY <1>8, <3>1, <3>2 DEF InForce
  <2> QED
    BY <2>2, <2>3 DEF InForce
<1>9. ASSUME NEW i \in 0 .. N, NextStarts(i) PROVE NextStarts(i)'
  <2>1. PICK j \in i + 1 .. N : /\ net[j].to = "alert" /\ net[j].interval = 0
                               /\ \A m \in i + 1 .. j - 1 : net[m].to # "alert"
    BY <1>9 DEF NextStarts, N
  <2>2. j \in i + 1 .. Len(net') /\ net'[j] = net[j]
    BY <1>2, <1>5
  <2>3. \A m \in i + 1 .. j - 1 : net'[m].to # "alert"
    <3> SUFFICES ASSUME NEW m \in i + 1 .. j - 1 PROVE net'[m].to # "alert"
      OBVIOUS
    <3>1. m \in 1 .. N
      BY <1>5
    <3> QED
      BY <1>5, <2>1, <3>1
  <2> QED
    BY <2>1, <2>2, <2>3 DEF NextStarts
(* New ones start under the alert that preOut asks for. *)
<1>10. ASSUME preOut.alert = 0, NEW i, NEW k \in 1 .. P, i = N + k PROVE InForce(i)'
  <2>1. \A m \in N + 1 .. i - 1 : net'[m].to # "alert"
    <3> SUFFICES ASSUME NEW m \in N + 1 .. i - 1 PROVE net'[m].to # "alert"
      OBVIOUS
    <3> DEFINE l == m - N
    <3>1. l \in 1 .. P /\ l \in 1 .. Len(b) /\ N + l = m
      BY <1>2, <1>5, <1>10
    <3> HIDE DEF l
    <3>2. b[l] \in Firsts(preOut, out)
      BY <1>2, <3>1
    <3> QED
      BY <1>5, <3>1, <3>2 DEF Firsts
  <2>2. ASSUME \A j \in 1 .. i - 1 : net'[j].to # "alert" PROVE interval' = 0
    <3>1. ~Has(net, "alert")
      <4> SUFFICES ASSUME NEW n \in 1 .. N, Kind(net[n]) = "alert" PROVE FALSE
        BY DEF Has, N
      <4>1. net[n] \in Requests
        BY <1>1, FromSeq DEF N
      <4>2. net'[n].to = "alert" /\ n \in 1 .. i - 1
        BY <1>5, <1>10, <4>1, KindOf
      <4> QED
        BY <2>2, <4>2
    <3> QED
      BY <1>6, <1>10, <3>1 DEF PathInv, Settled
  <2>3. ASSUME NEW j \in 1 .. i - 1, net'[j].to = "alert",
               \A m \in j + 1 .. i - 1 : net'[m].to # "alert"
        PROVE  net'[j].interval = 0
    <3>1. j \in 1 .. N /\ net'[j] = net[j]
      BY <1>5, <1>10, <2>1, <2>3
    <3>2. net[j] \in Requests /\ Kind(net[j]) = "alert"
      BY <1>1, <2>3, <3>1, FromSeq, KindOf DEF N
    <3>3. LastOfKind(j)
      <4> SUFFICES ASSUME NEW m \in j + 1 .. N PROVE Kind(net[m]) # "alert"
        BY <3>2 DEF LastOfKind, N
      <4>1. m \in 1 .. N /\ m \in j + 1 .. i - 1
        BY <1>5, <1>10, <3>1
      <4>2. net[m] \in Requests /\ net[m].to # "alert"
        BY <1>1, <1>5, <2>3, <4>1, FromSeq DEF N
      <4> QED
        BY <4>2, KindOf
    <3>4. Says(net[j], preOut)
      BY <3>1, <3>3 DEF PathInv, LastSays, N
    <3> QED
      BY <1>10, <2>3, <3>1, <3>4 DEF Says
  <2> QED
    BY <2>2, <2>3 DEF InForce
(* A rear LED switched on with a new alert comes just before that alert.   *)
<1>11. ASSUME preOut.alert # 0, out.alert = 0, NEW i, NEW k \in 1 .. P, i = N + k
       PROVE  NextStarts(i)'
  <2>1. P + 1 <= Len(b) /\ b[P + 1] \in Alerts(out)
    BY <1>2, <1>11
  <2> DEFINE j == N + (P + 1)
  <2>2. j \in i + 1 .. Len(net') /\ net'[j] = b[P + 1]
    <3>1. P + 1 \in 1 .. Len(b)
      BY <1>2, <2>1
    <3>2. j \in i + 1 .. Len(net')
      BY <1>2, <1>5, <1>11, <2>1
    <3> QED
      BY <1>5, <3>1, <3>2
  <2>3. net'[j].to = "alert" /\ net'[j].interval = 0
    BY <1>11, <2>1, <2>2 DEF Alerts, Says
  <2>4. \A m \in i + 1 .. j - 1 : net'[m].to # "alert"
    <3> SUFFICES ASSUME NEW m \in i + 1 .. j - 1 PROVE net'[m].to # "alert"
      OBVIOUS
    <3> DEFINE l == m - N
    <3>1. l \in 1 .. P /\ l \in 1 .. Len(b) /\ N + l = m
      BY <1>2, <1>5, <1>11
    <3> HIDE DEF l
    <3>2. b[l] \in Firsts(preOut, out)
      BY <1>2, <3>1
    <3> QED
      BY <1>5, <3>1, <3>2 DEF Firsts
  <2> HIDE DEF j
  <2> QED
    BY <2>2, <2>3, <2>4 DEF NextStarts
<1>12. ASSUME NEW i \in 1 .. Len(net')
       PROVE  /\ net'[i].to = "buzzer" /\ net'[i].on => InForce(i)'
              /\ Kind(net'[i]) = "back" /\ net'[i].on => InForce(i)' \/ NextStarts(i)'
  <2>1. CASE i <= N
    <3>1. i \in 1 .. N /\ i \in 0 .. N /\ net'[i] = net[i]
      BY <1>5, <2>1
    <3> QED
      BY <1>7, <1>8, <1>9, <3>1 DEF Covered, N
  <2>2. CASE i > N
    <3> DEFINE k == i - N
    <3>1. k \in 1 .. Len(b) /\ N + k = i
      BY <1>5, <2>2
    <3> HIDE DEF k
    <3>2. net'[i] = b[k] /\ b[k] \in Requests
      BY <1>4, <1>5, <3>1, FromSeq
    <3>3. CASE k \in 1 .. P
      <4>1. b[k] \in Firsts(preOut, out)
        BY <1>2, <3>3
      <4>2. preOut.alert = 0 => InForce(i)'
        BY <1>10, <3>1, <3>3
      <4>3. preOut.alert # 0 /\ out.alert = 0 => NextStarts(i)'
        BY <1>11, <3>1, <3>3
      <4> QED
        BY <1>1, <3>2, <4>1, <4>2, <4>3 DEF Firsts, OutOK
    <3>4. CASE k \in P + 1 .. Len(b)
      <4>1. b[k].to \in {"alert", "motor"}
        BY <1>2, <3>4
      <4> QED
        BY <3>2, <4>1, KindOf
    <3> QED
      BY <1>2, <3>1, <3>3, <3>4
  <2> QED
    BY <1>5, <2>1, <2>2
<1>13. led["back"] /\ ~isAlertOn => interval = 0 \/ NextStarts(0)'
  BY <1>5, <1>7, <1>9 DEF Covered
<1> QED
  BY <1>6, <1>7, <1>12, <1>13 DEF Covered

-----------------------------------------------------------------------------
(* A request leaves the network, handled or lost.                          *)

LEMMA TailIs ==
  ASSUME NEW S, NEW s \in Seq(S), s # <<>>
  PROVE  /\ Len(s) \in Nat /\ Len(s) > 0
         /\ Len(Tail(s)) = Len(s) - 1
         /\ \A i \in 1 .. Len(s) - 1 : Tail(s)[i] = s[i + 1]
         /\ Head(s) = s[1] /\ s[1] \in S
OBVIOUS

LEMMA PopSettles ==
  ASSUME PathInv, net # <<>>, net' = Tail(net), preOut' = preOut,
         \/ Handled(net[1]) /\ stale' = stale \ {Kind(net[1])}
         \/ UNCHANGED <<interval, led, motor>> /\ stale' = stale \cup {Kind(net[1])}
  PROVE  LastSays' /\ Settled'
<1> DEFINE N == Len(net)
           r == net[1]
<1>1. /\ N \in Nat /\ N > 0 /\ Len(net') = N - 1
      /\ \A i \in 1 .. N - 1 : net'[i] = net[i + 1]
      /\ r \in Requests
  BY TailIs DEF PathInv, Service
<1> HIDE DEF N
<1>2. LastSays'
  <2> SUFFICES ASSUME NEW i \in 1 .. N - 1,
                      \A j \in i + 1 .. N - 1 : Kind(net'[j]) # Kind(net'[i])
               PROVE  Says(net'[i], preOut)
    BY <1>1 DEF LastSays, LastOfKind
  <2>1. i + 1 \in 1 .. N /\ net'[i] = net[i + 1]
    BY <1>1
  <2>2. LastOfKind(i + 1)
    <3> SUFFICES ASSUME NEW j \in i + 1 + 1 .. N PROVE Kind(net[j]) # Kind(net[i + 1])
      BY DEF LastOfKind, N
    <3> DEFINE l == j - 1
    <3>1. l \in i + 1 .. N - 1 /\ l \in 1 .. N - 1 /\ l + 1 = j
      BY <1>1
    <3> HIDE DEF l
    <3> QED
      BY <1>1, <2>1, <3>1
  <2> QED
    BY <2>1, <2>2 DEF PathInv, LastSays, N
<1>3. ASSUME NEW kind, ~Has(net', kind)
      PROVE  IF Kind(r) = kind THEN Says(r, preOut) ELSE ~Has(net, kind)
  <2>1. \A j \in 2 .. N : Kind(net[j]) # kind
    <3> SUFFICES ASSUME NEW j \in 2 .. N PROVE Kind(net[j]) # kind
      OBVIOUS
    <3> DEFINE l == j - 1
    <3>1. l \in 1 .. N - 1 /\ l + 1 = j
      BY <1>1
    <3> HIDE DEF l
    <3>2. Kind(net'[l]) # kind
      BY <1>1, <1>3, <3>1 DEF Has
    <3> QED
      BY <1>1, <3>1, <3>2
  <2>2. CASE Kind(r) = kind
    <3>1. 1 \in 1 .. N /\ LastOfKind(1)
      BY <1>1, <2>1, <2>2 DEF LastOfKind, N
    <3> QED
      BY <2>2, <3>1 DEF PathInv, LastSays, N
  <2>3. CASE Kind(r) # kind
    <3>1. ~Has(net, kind)
      <4> SUFFICES ASSUME NEW j \in 1 .. N, Kind(net[j]) = kind PROVE FALSE
        BY DEF Has, N
      <4>1. j = 1 \/ j \in 2 .. N
        BY <1>1
      <4> QED
        BY <2>1, <2>3, <4>1
    <3> QED
      BY <2>3, <3>1
  <2> QED
    BY <2>2, <2>3
<1> HIDE DEF r
<1>4. CASE Handled(r) /\ stale' = stale \ {Kind(r)}
  <2>1. "alert" \notin stale' /\ ~Has(net', "alert") => interval' = preOut.alert
    <3>1. CASE Kind(r) = "alert"
      BY <1>1, <1>3, <1>4, <3>1, KindOf DEF Handled, Says
    <3>2. CASE Kind(r) # "alert"
      BY <1>3, <1>4, <3>2 DEF Handled, PathInv, Settled
    <3> QED
      BY <3>1, <3>2
  <2>2. "front_down" \notin stale' /\ ~Has(net', "front_down") =>
          led'["front_down"] = preOut.led_front_down
    <3>1. CASE Kind(r) = "front_down"
      BY <1>1, <1>3, <1>4, <3>1, KindOf DEF Handled, Says
    <3>2. CASE Kind(r) # "front_down"
      BY <1>3, <1>4, <3>2 DEF Handled, PathInv, Settled
    <3> QED
      BY <3>1, <3>2
  <2>3. "front_up" \notin stale' /\ ~Has(net', "front_up") =>
          led'["front_up"] = preOut.led_front_up
    <3>1. CASE Kind(r) = "front_up"
      BY <1>1, <1>3, <1>4, <3>1, KindOf DEF Handled, Says
    <3>2. CASE Kind(r) # "front_up"
      BY <1>3, <1>4, <3>2 DEF Handled, PathInv, Settled
    <3> QED
      BY <3>1, <3>2
  <2>4. ASSUME "motor" \notin stale', ~Has(net', "motor")
        PROVE  Runs(Stick(preOut.throttle, preOut.steer))'
    <3> DEFINE x == Stick(preOut.throttle, preOut.steer)[1]
               y == Stick(preOut.throttle, preOut.steer)[2]
    <3>1. motor'.left = LeftSpeed(x, y) /\ motor'.right = RightSpeed(x, y)
      <4>1. CASE Kind(r) = "motor"
        <5>1. r.stick = Stick(preOut.throttle, preOut.steer)
          BY <1>1, <1>3, <2>4, <4>1, KindOf DEF Says
        <5> QED
          BY <1>4, <4>1, <5>1 DEF Handled
      <4>2. CASE Kind(r) # "motor"
        BY <1>3, <1>4, <2>4, <4>2 DEF Handled, PathInv, Settled, Runs
      <4> QED
        BY <4>1, <4>2
    <3>2. Stick(preOut'.throttle, preOut'.steer) = Stick(preOut.throttle, preOut.steer)
      OBVIOUS
    <3> QED
      BY <3>1, <3>2 DEF Runs
  <2> QED
    BY <1>2, <2>1, <2>2, <2>3, <2>4 DEF Settled
<1>5. CASE UNCHANGED <<interval, led, motor>> /\ stale' = stale \cup {Kind(r)}
  <2>1. \A kind : kind \notin stale' /\ ~Has(net', kind) => kind \notin stale /\ ~Has(net, kind)
    BY <1>3, <1>5
  <2>2. "motor" \notin stale' /\ ~Has(net', "motor") =>
          Runs(Stick(preOut.throttle, preOut.steer))'
    <3>1. Stick(preOut'.throttle, preOut'.steer) = Stick(preOut.throttle, preOut.steer)
      OBVIOUS
    <3> QED
      BY <1>5, <2>1, <3>1 DEF PathInv, Settled, Runs
  <2> QED
    BY <1>2, <1>5, <2>1, <2>2 DEF PathInv, Settled
<1> QED
  BY <1>4, <1>5 DEF r

LEMMA PopCovers ==
  ASSUME PathInv, Covered, net # <<>>, net' = Tail(net),
         \/ Handled(net[1])
         \/ net[1].to # "alert" /\ UNCHANGED <<interval, isAlertOn, led, buzzer>>
  PROVE  Covered'
<1> DEFINE N == Len(net)
           r == net[1]
<1>1. /\ N \in Nat /\ N > 0 /\ Len(net') = N - 1
      /\ \A i \in 1 .. N - 1 : net'[i] = net[i + 1]
      /\ r \in Requests
  BY TailIs DEF PathInv, Service
<1>2. /\ interval' = IF r.to = "alert" THEN r.interval ELSE interval
      /\ isAlertOn' = isAlertOn
  BY <1>1, KindOf DEF Handled
<1> HIDE DEF N
<1>3. ASSUME NEW i \in 1 .. N - 1, InForce(i + 1) PROVE InForce(i)'
  <2>1. ASSUME \A j \in 1 .. i - 1 : net'[j].to # "alert" PROVE interval' = 0
    <3>1. \A m \in 2 .. i : net[m].to # "alert"
      <4> SUFFICES ASSUME NEW m \in 2 .. i PROVE net[m].to # "alert"
        OBVIOUS
      <4> DEFINE l == m - 1
      <4>1. l \in 1 .. i - 1 /\ l \in 1 .. N - 1 /\ l + 1 = m
        BY <1>1
      <4> HIDE DEF l
      <4> QED
        BY <1>1, <2>1, <4>1
    <3>2. 1 \in 1 .. (i + 1) - 1 /\ 1 + 1 .. (i + 1) - 1 = 2 .. i
      OBVIOUS
    <3>3. CASE r.to = "alert"
      BY <1>2, <1>3, <3>1, <3>2, <3>3 DEF InForce
    <3>4. CASE r.to # "alert"
      <4>1. \A j \in 1 .. (i + 1) - 1 : net[j].to # "alert"
        <5> SUFFICES ASSUME NEW j \in 1 .. (i + 1) - 1 PROVE net[j].to # "alert"
          OBVIOUS
        <5>1. j = 1 \/ j \in 2 .. i
          OBVIOUS
        <5> QED
          BY <3>1, <3>4, <5>1
      <4> QED
        BY <1>2, <1>3, <3>4, <4>1 DEF InForce
    <3> QED
      BY <3>3, <3>4
  <2>2. ASSUME NEW j \in 1 .. i - 1, net'[j].to = "alert",
               \A m \in j + 1 .. i - 1 : net'[m].to # "alert"
        PROVE  net'[j].interval = 0
    <3>1. j + 1 \in 1 .. (i + 1) - 1 /\ net'[j] = net[j + 1]
      BY <1>1
    <3>2. \A m \in (j + 1) + 1 .. (i + 1) - 1 : net[m].to # "alert"
      <4> SUFFICES ASSUME NEW m \in (j + 1) + 1 .. (i + 1) - 1 PROVE net[m].to # "alert"
        OBVIOUS
      <4> DEFINE l == m - 1
      <4>1. l \in j + 1 .. i - 1 /\ l \in 1 .. N - 1 /\ l + 1 = m
        BY <1>1
      <4> HIDE DEF l
      <4> QED
        BY <1>1, <2>2, <4>1
    <3> QED
      BY <1>3, <2>2, <3>1, <3>2 DEF InForce
  <2> QED
    BY <2>1, <2>2 DEF InForce
<1>4. ASSUME NEW i \in 0 .. N - 1, NextStarts(i + 1) PROVE NextStarts(i)'
  <2>1. PICK j \in (i + 1) + 1 .. N :
          /\ net[j].to = "alert" /\ net[j].interval = 0
          /\ \A m \in (i + 1) + 1 .. j - 1 : net[m].to # "alert"
    BY <1>4 DEF NextStarts, N
  <2> DEFINE k == j - 1
  <2>2. k \in i + 1 .. Len(net') /\ k \in 1 .. N - 1 /\ k + 1 = j
    BY <1>1
  <2> HIDE DEF k
  <2>3. net'[k] = net[j]
    BY <1>1, <2>2
  <2>4. \A m \in i + 1 .. k - 1 : net'[m].to # "alert"
    <3> SUFFICES ASSUME NEW m \in i + 1 .. k - 1 PROVE net'[m].to # "alert"
      OBVIOUS
    <3>1. m \in 1 .. N - 1 /\ m + 1 \in (i + 1) + 1 .. j - 1
      BY <1>1, <2>2
    <3> QED
      BY <1>1, <2>1, <3>1
  <2> QED
    BY <2>1, <2>2, <2>3, <2>4 DEF NextStarts
<1>5. ASSUME NextStarts(0)
      PROVE  IF r.to = "alert" THEN r.interval = 0 ELSE NextStarts(0 + 1)
  <2>1. PICK j \in 1 .. N : /\ net[j].to = "alert" /\ net[j].interval = 0
                            /\ \A m \in 1 .. j - 1 : net[m].to # "alert"
    BY <1>5 DEF NextStarts, N
  <2>2. CASE j = 1
    BY <2>1, <2>2
  <2>3. CASE j # 1
    <3>1. j \in 0 + 1 + 1 .. N /\ 1 \in 1 .. j - 1
      BY <1>1, <2>3
    <3>2. \A m \in 0 + 1 + 1 .. j - 1 : net[m].to # "alert"
      BY <2>1
    <3> QED
      BY <2>1, <3>1, <3>2 DEF NextStarts, N
  <2> QED
    BY <2>2, <2>3
<1>6. InForce(1) => interval = 0
  BY DEF InForce
<1>7. 1 \in 1 .. N /\ 0 \in 0 .. N - 1
  BY <1>1
<1>8. /\ r.to = "buzzer" /\ r.on => InForce(1)
      /\ Kind(r) = "back" /\ r.on => InForce(1) \/ NextStarts(0 + 1)
  BY <1>7 DEF Covered, N
<1>9. ASSUME NEW i \in 1 .. Len(net')
      PROVE  /\ net'[i].to = "buzzer" /\ net'[i].on => InForce(i)'
             /\ Kind(net'[i]) = "back" /\ net'[i].on => InForce(i)' \/ NextStarts(i)'
  <2>1. /\ i \in 1 .. N - 1 /\ i \in 0 .. N - 1 /\ i + 1 \in 1 .. N
        /\ net'[i] = net[i + 1]
    BY <1>1
  <2> QED
    BY <1>3, <1>4, <2>1 DEF Covered, N
<1>10. led'["back"] /\ ~isAlertOn' => interval' = 0 \/ NextStarts(0)'
  <2> SUFFICES ASSUME led'["back"], ~isAlertOn' PROVE interval' = 0 \/ NextStarts(0)'
    OBVIOUS
  <2>1. CASE led["back"]
    <3>1. interval = 0 \/ NextStarts(0)
      BY <1>2, <2>1 DEF Covered
    <3>2. CASE NextStarts(0)
      BY <1>2, <1>4, <1>5, <1>7, <3>2
    <3>3. CASE interval = 0 /\ Handled(r)
      BY <1>2, <3>3 DEF Handled, PathInv, EcuSound
    <3>4. CASE interval = 0 /\ ~Handled(r)
      BY <3>4
    <3> QED
      BY <3>1, <3>2, <3>3, <3>4
  <2>2. CASE ~led["back"]
    <3>1. Handled(r) /\ Kind(r) = "back" /\ interval = -1 /\ r.on
      BY <2>2 DEF Handled
    <3>2. NextStarts(0 + 1)
      BY <1>6, <1>8, <3>1
    <3> QED
      BY <1>4, <1>7, <3>2
  <2> QED
    BY <2>1, <2>2
<1>11. buzzer'.on => isAlertOn'
  <2>1. CASE Handled(r)
    BY <1>1, <1>2, <1>6, <1>8, <2>1, KindOf DEF Handled, Covered
  <2>2. CASE ~Handled(r)
    BY <1>2, <2>2 DEF Covered
  <2> QED
    BY <2>1, <2>2
<1> QED
  BY <1>9, <1>10, <1>11 DEF Covered

-----------------------------------------------------------------------------
(* Every step keeps the invariant.                                         *)

LEMMA StandstillRuns == LeftSpeed(50, 50) = 0 /\ RightSpeed(50, 50) = 0
BY DEF LeftSpeed, RightSpeed, MapJoystickValue, Quot, Abs, Clamp

LEMMA PathInit == Init => PathInv
<1> SUFFICES ASSUME Init PROVE PathInv
  OBVIOUS
<1>1. Service
  BY ServiceInit DEF Init
<1>2. /\ phase = "rx" /\ interval = -1 /\ isAlertOn = FALSE /\ buzzer.on = FALSE
      /\ motor = [x |-> 0, y |-> 0, left |-> 0, right |-> 0]
      /\ led = [side \in Sides |-> FALSE]
      /\ lost = {} /\ stale = {} /\ net = <<>> /\ preOut = FirstOutput
  BY DEF Init, RtInit, EcuInit, Off, Sides
<1>3. EcuSound
  <2>1. led \in [Sides -> BOOLEAN]
    BY <1>2
  <2>2. isAlertOn \in BOOLEAN /\ buzzer.on \in BOOLEAN /\ ~isAlertOn
    BY <1>2
  <2>3. interval \in {-1, 0} /\ interval # 0
    BY <1>2
  <2>4. <<motor.x, motor.y>> = <<0, 0>>
    BY <1>2
  <2> QED
    BY <1>2, <2>1, <2>2, <2>3, <2>4 DEF EcuSound
<1>4. LastSays
  BY <1>2 DEF LastSays
<1>5. Settled
  <2>1. /\ Silent.alert = -1 /\ ~Silent.led_front_down /\ ~Silent.led_front_up
        /\ Silent.throttle = 0 /\ Silent.steer = 0 /\ Silent \in Outputs
    BY DEF Silent, Outputs
  <2>2. /\ preOut.alert = -1 /\ preOut.throttle = 0 /\ preOut.steer = 0
        /\ preOut.led_front_down = Silent.led_front_down
        /\ preOut.led_front_up = Silent.led_front_up
    BY <1>2, <2>1 DEF FirstOutput, Outputs
  <2>3. led["front_down"] = Silent.led_front_down /\ led["front_up"] = Silent.led_front_up
    BY <1>2 DEF Sides, Silent
  <2>4. Runs(Stick(preOut.throttle, preOut.steer))
    <3>1. Stick(preOut.throttle, preOut.steer) = <<50, 50>>
      BY <2>2, StickAssumption
    <3> QED
      BY <1>2, <3>1, StandstillRuns DEF Runs
  <2> QED
    BY <1>2, <2>2, <2>3, <2>4 DEF Settled
<1>6. Covered
  BY <1>2 DEF Covered, Sides
<1> QED
  BY <1>1, <1>2, <1>3, <1>4, <1>5, <1>6 DEF PathInv

(* The network and what was sent last stay as they are, the ECU too except *)
(* for its phase.                                                          *)
LEMMA NetworkStays ==
  ASSUME PathInv, UNCHANGED <<net, preOut, interval, motor, stale, lost>>,
         \A side \in {"front_down", "front_up"} : led'[side] = led[side],
         \/ UNCHANGED <<isAlertOn, buzzer, led>>
         \/ (isAlertOn' <=> led'["back"]) /\ (isAlertOn' <=> buzzer'.on)
  PROVE  /\ LastSays' /\ Settled'
         /\ "alert" \notin lost' => Covered'
<1>1. LastSays'
  BY DEF PathInv, LastSays, LastOfKind
<1>2. Settled'
  BY DEF PathInv, Settled, Has, Runs
<1>3. ASSUME NEW i PROVE (InForce(i) <=> InForce(i)') /\ (NextStarts(i) <=> NextStarts(i)')
  BY DEF InForce, NextStarts
<1>4. ASSUME "alert" \notin lost' PROVE Covered'
  <2>1. Covered
    BY <1>4 DEF PathInv
  <2>2. /\ led'["back"] /\ ~isAlertOn' => interval' = 0 \/ NextStarts(0)'
        /\ buzzer'.on => isAlertOn'
    <3>1. CASE UNCHANGED <<isAlertOn, buzzer, led>>
      BY <1>3, <2>1, <3>1 DEF Covered
    <3>2. CASE (isAlertOn' <=> led'["back"]) /\ (isAlertOn' <=> buzzer'.on)
      BY <3>2
    <3> QED
      BY <3>1, <3>2
  <2>3. \A i \in 1 .. Len(net') :
          /\ net'[i].to = "buzzer" /\ net'[i].on => InForce(i)'
          /\ Kind(net'[i]) = "back" /\ net'[i].on => InForce(i)' \/ NextStarts(i)'
    BY <1>3, <2>1 DEF Covered
  <2> QED
    BY <2>2, <2>3 DEF Covered
<1> QED
  BY <1>1, <1>2, <1>4

LEMMA EcuStays == EcuSound /\ UNCHANGED ecuVars => EcuSound'
BY DEF EcuSound, ecuVars

LEMMA EmptyNetwork ==
  ASSUME Service', EcuSound', net' = <<>>, lost' = Kinds, stale' = Kinds
  PROVE  PathInv'
<1>1. LastSays' /\ Settled'
  BY DEF LastSays, Settled, Kinds
<1>2. "alert" \in lost'
  BY DEF Kinds
<1> QED
  BY <1>1, <1>2 DEF PathInv

LEMMA PathStep == PathInv /\ [Next]_vars => PathInv'
<1> SUFFICES ASSUME PathInv, [Next]_vars PROVE PathInv'
  OBVIOUS
<1>0. /\ Service /\ EcuSound /\ stale \subseteq lost /\ lost \subseteq Kinds
      /\ net \in Seq(Requests)
  BY DEF PathInv, Service
<1>1. CASE Act \/ Control \/ UNCHANGED vars
  <2>1. Service'
    <3>1. CASE Act
      BY <1>0, <3>1, OutsideKeeps DEF Act
    <3>2. CASE Control
      BY <1>0, <3>2, SnapshotKeeps, PublishKeeps DEF Control, control_thread
    <3>3. CASE UNCHANGED vars
      BY <1>0, <3>3, FewerKeeps DEF vars, rtVars, commVars
    <3> QED
      BY <1>1, <3>1, <3>2, <3>3
  <2>2. UNCHANGED <<net, preOut, ecuVars, stale, lost>>
    BY <1>1 DEF Act, Outside, JoystickMotor, JoystickButton, IpcCommand, SensorSample,
                Control, control_thread, snapshotInputs, publishOutput, commVars,
                historyVars, vars, rtVars
  <2>3. EcuSound' /\ UNCHANGED <<interval, motor, led, isAlertOn, buzzer>>
    BY <1>0, <2>2, EcuStays DEF ecuVars
  <2>4. LastSays' /\ Settled' /\ ("alert" \notin lost' => Covered')
    BY <2>2, <2>3, NetworkStays
  <2> QED
    BY <1>0, <2>1, <2>2, <2>3, <2>4 DEF PathInv
<1>2. CASE Send
  <2>1. Service'
    BY <1>0, <1>2, CommKeeps DEF Send
  <2>2. EcuSound'
    BY <1>0, <1>2, EcuStays DEF Send
  <2>3. LastSays' /\ Settled'
    BY <1>2, SendSettles DEF Send
  <2>4. lost' = lost /\ stale' = stale
    BY <1>2 DEF Send, historyVars
  <2>5. "alert" \notin lost' => Covered'
    BY <1>2, <2>4, SendCovers DEF Send
  <2> QED
    BY <1>0, <2>1, <2>2, <2>3, <2>4, <2>5 DEF PathInv
<1>3. CASE LoseRequest
  <2>1. /\ net # <<>> /\ net' = Tail(net) /\ preOut' = preOut
        /\ lost' = lost \cup {Kind(net[1])} /\ stale' = stale \cup {Kind(net[1])}
        /\ UNCHANGED <<sharedVars, controlVars, ecuVars>>
    BY <1>0, <1>3, TailIs DEF LoseRequest
  <2>2. Service'
    BY <1>0, <2>1, FewerKeeps
  <2>3. EcuSound' /\ UNCHANGED <<interval, motor, led, isAlertOn, buzzer>>
    BY <1>0, <2>1, EcuStays DEF ecuVars
  <2>4. LastSays' /\ Settled'
    BY <2>1, <2>3, PopSettles
  <2>5. net[1] \in Requests
    BY <1>0, <2>1, TailIs
  <2>6. "alert" \notin lost' => Covered'
    <3> SUFFICES ASSUME "alert" \notin lost' PROVE Covered'
      OBVIOUS
    <3>1. Covered /\ net[1].to # "alert"
      BY <2>1, <2>5, KindOf DEF PathInv
    <3> QED
      BY <2>1, <2>3, <3>1, PopCovers
  <2>7. Kind(net[1]) \in Kinds
    BY <2>5, KindOf
  <2> QED
    BY <1>0, <2>1, <2>2, <2>3, <2>4, <2>6, <2>7 DEF PathInv
<1>4. CASE EcuReceive
  <2>1. lost' = lost /\ preOut' = preOut /\ UNCHANGED <<sharedVars, controlVars>>
    BY <1>4 DEF EcuReceive
  <2>2. CASE net # <<>> /\ Handle(Head(net)) /\ net' = Tail(net)
             /\ stale' = stale \ {Kind(Head(net))}
    <3>1. net[1] \in Requests /\ Head(net) = net[1]
      BY <1>0, <2>2, TailIs
    <3>2. Handle(net[1]) /\ stale' = stale \ {Kind(net[1])}
      BY <2>2, <3>1
    <3>3. EcuSound' /\ Handled(net[1])
      BY <1>0, <3>1, <3>2, HandleAny
    <3>4. Service'
      BY <1>0, <2>1, <2>2, FewerKeeps
    <3>5. LastSays' /\ Settled'
      BY <2>1, <2>2, <3>2, <3>3, PopSettles
    <3>6. "alert" \notin lost' => Covered'
      BY <2>1, <2>2, <3>3, PopCovers DEF PathInv
    <3> QED
      BY <1>0, <2>1, <3>2, <3>3, <3>4, <3>5, <3>6 DEF PathInv
  <2>3. CASE net = <<>> /\ NoRequest /\ UNCHANGED <<net, stale>>
    <3>1. phase' = "alert" /\ UNCHANGED <<interval, isAlertOn, led, buzzer, motor>>
      BY <2>3 DEF NoRequest
    <3>2. EcuSound'
      BY <1>0, <3>1 DEF EcuSound
    <3>3. Service'
      BY <1>0, <2>1, <2>3, FewerKeeps
    <3>4. LastSays' /\ Settled' /\ ("alert" \notin lost' => Covered')
      BY <2>1, <2>3, <3>1, NetworkStays
    <3> QED
      BY <1>0, <2>1, <2>3, <3>2, <3>3, <3>4 DEF PathInv
  <2> QED
    BY <1>4, <2>2, <2>3 DEF EcuReceive
<1>5. CASE EcuUpdate
  <2>1. UNCHANGED <<sharedVars, controlVars, preOut, net, stale, lost>>
    BY <1>5 DEF EcuUpdate, rtVars, commVars, historyVars
  <2>2. Service'
    BY <1>0, <2>1, FewerKeeps
  <2>3. /\ EcuSound' /\ UNCHANGED <<interval, motor>>
        /\ \A side \in {"front_down", "front_up"} : led'[side] = led[side]
        /\ \/ UNCHANGED <<isAlertOn, led, buzzer>>
           \/ (isAlertOn' <=> led'["back"]) /\ (isAlertOn' <=> buzzer'.on)
    BY <1>0, <1>5, UpdateDoes DEF EcuUpdate
  <2>4. LastSays' /\ Settled' /\ ("alert" \notin lost' => Covered')
    BY <2>1, <2>3, NetworkStays
  <2> QED
    BY <1>0, <2>1, <2>2, <2>3, <2>4 DEF PathInv
<1>6. CASE EcuRestart
  <2>1. EcuSound'
    BY <1>6, ResetDoes DEF EcuRestart
  <2>2. Service'
    BY <1>0, <1>6, FewerKeeps DEF EcuRestart
  <2> QED
    BY <1>6, <2>1, <2>2, EmptyNetwork DEF EcuRestart
<1>7. CASE RealtimeRestart
  <2>1. Service' /\ net' = <<>>
    BY <1>0, <1>7, RestartKeeps DEF RealtimeRestart, RtRestart
  <2>2. EcuSound'
    BY <1>0, <1>7, EcuStays DEF RealtimeRestart
  <2> QED
    BY <1>7, <2>1, <2>2, EmptyNetwork DEF RealtimeRestart
<1> QED
  BY <1>1, <1>2, <1>3, <1>4, <1>5, <1>6, <1>7 DEF Next

LEMMA PathAlways == Spec => []PathInv
BY PathInit, PathStep, PTL DEF Spec

LEMMA EcuTypesStep == PathInv /\ EcuTypeOK /\ [Next]_vars => EcuTypeOK'
<1> SUFFICES ASSUME PathInv, EcuTypeOK, [Next]_vars PROVE EcuTypeOK'
  OBVIOUS
<1>1. CASE UNCHANGED ecuVars
  BY <1>1 DEF ecuVars, EcuTypeOK
<1>2. CASE EcuReceive
  <2>1. CASE NoRequest
    BY <2>1, NoRequestKeepsTypes
  <2>2. CASE net # <<>> /\ Handle(Head(net))
    <3> DEFINE r == Head(net)
    <3>1. r \in Requests
      BY <2>2, TailIs DEF PathInv, Service
    <3> HIDE DEF r
    <3>2. CASE r.to = "led" /\ LedControl(r.side, IF r.on THEN 1 ELSE 0)
      <4>1. r.side \in SideBytes
        BY <3>1, <3>2 DEF Requests, Sides, SideBytes
      <4> QED
        BY <3>2, <4>1, LedKeepsTypes
    <3>3. CASE r.to = "alert" /\ AlertControl(r.interval)
      <4>1. r.interval \in Intervals \cup {Off, 0}
        BY <3>1, <3>3 DEF Requests, Off
      <4> QED
        BY <3>3, <4>1, AlertKeepsTypes
    <3>4. CASE r.to = "motor" /\ MotorControl(r.stick[1], r.stick[2])
      <4>1. r.stick \in GoodSticks
        BY <3>1, <3>4 DEF Requests
      <4>2. r.stick[1] \in Int /\ r.stick[2] \in Int
        BY <4>1 DEF GoodSticks
      <4> QED
        BY <3>4, <4>2, MotorKeepsTypes
    <3>5. CASE BuzzerControl(IF r.on THEN 1 ELSE 0, r.freq)
      BY <3>5, BuzzerKeepsTypes
    <3> QED
      BY <2>2, <3>2, <3>3, <3>4, <3>5 DEF Handle, r
  <2> QED
    BY <1>2, <2>1, <2>2 DEF EcuReceive
<1>3. CASE EcuUpdate
  BY <1>3, UpdateKeepsTypes DEF EcuUpdate
<1>4. CASE EcuRestart
  BY <1>4, ResetKeepsTypes DEF EcuRestart
<1> QED
  BY <1>1, <1>2, <1>3, <1>4
     DEF Next, Act, Control, Send, LoseRequest, RealtimeRestart, vars

(* Every variable keeps its type, on both sides of the network: no more    *)
(* than MaxNet requests are in flight, a chirp tone never outlasts its     *)
(* cycles, and whatever the service computes, loses or restarts, the ECU's *)
(* motors stay within -100 .. 100 and its buzzer within 1 .. MAX_FREQ.     *)
THEOREM PathTypes == Spec => []TypeOK
<1>1. Init => EcuTypeOK
  BY EcuInitTypes DEF Init
<1>2. PathInv /\ EcuTypeOK => TypeOK
  BY DEF PathInv, Service, TypeOK
<1> QED
  BY <1>1, <1>2, EcuTypesStep, PathAlways, PTL DEF Spec

(* Once everything sent has arrived, the ECU does what the comm thread     *)
(* remembers having sent, except for the kinds of which a request was lost *)
(* and none has arrived since: over any history of drivers, doors, sensors *)
(* and restarts of both ends.                                              *)
THEOREM SentDone == Spec => []SentIsDone
<1>1. PathInv => SentIsDone
  <2> SUFFICES ASSUME PathInv, net = <<>>, phase = "rx" PROVE SentIsDone
    BY DEF SentIsDone
  <2>1. ~Has(net, "alert") /\ ~Has(net, "front_down") /\ ~Has(net, "front_up") /\ ~Has(net, "motor")
    BY DEF Has
  <2>2. ASSUME "alert" \notin lost, preOut.alert = -1 PROVE ~led["back"] /\ ~buzzer.on
    <3>1. interval # 0 /\ ~isAlertOn
      BY <2>1, <2>2 DEF PathInv, Settled, EcuSound
    <3>2. ~NextStarts(0)
      BY DEF NextStarts
    <3> QED
      BY <2>2, <3>1, <3>2 DEF PathInv, Covered
  <2> QED
    BY <2>1, <2>2 DEF SentIsDone, PathInv, Settled, Runs, WheelsFollow
<1> QED
  BY <1>1, PathAlways, PTL

(* The buzzer sounds only under the alert, unless an alert request was     *)
(* lost, although "buzzer on" requests go out as the alarm ends.           *)
THEOREM BuzzerUnderAlert == Spec => []BuzzerOnlyInAlert
<1>1. PathInv => BuzzerOnlyInAlert
  BY DEF PathInv, Covered, BuzzerOnlyInAlert
<1> QED
  BY <1>1, PathAlways, PTL

=============================================================================
