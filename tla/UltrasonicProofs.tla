--------------------------- MODULE UltrasonicProofs --------------------------
(* The echo of a sensor runs on a correct ring queue, publishes only       *)
(* distances between neighbouring edges and filters the last of them, for  *)
(* every capacity of the queue, every filter and every budget of the main  *)
(* loop.                                                                   *)
EXTENDS Ultrasonic, RingQueueProofs, FiniteSetTheorems, WellFoundedInduction

LEMMA EchoStepIsRingStep ==
  [EchoNext /\ ~overrun']_echoVars => [Next /\ ~overrun']_ringVars
<1> SUFFICES ASSUME [EchoNext /\ ~overrun']_echoVars
             PROVE  [Next /\ ~overrun']_ringVars
  OBVIOUS
<1>1. CASE EchoNext /\ ~overrun'
  <2>1. ASSUME NEW edge \in Items, Ultrasonic_EchoHandler(edge)
        PROVE  Next
    BY <2>1 DEF Ultrasonic_EchoHandler, Next
  <2>2. CASE PopBegin \/ PopTest \/ PopCopy \/ ProcessEdge
    <3>1. PopLoad \/ PopCheck \/ PopRead \/ PopAdvance
      BY <2>2 DEF PopBegin, PopTest, PopCopy, ProcessEdge
    <3>2. QED
      BY <1>1, <3>1 DEF Next, Pop
  <2>3. CASE EnterCall \/ LeaveCall \/ Ultrasonic_GetLatestData
    BY <2>3 DEF EnterCall, LeaveCall, Ultrasonic_GetLatestData
  <2>4. QED
    BY <1>1, <2>1, <2>2, <2>3 DEF EchoNext, Ultrasonic_ProcessQueue
<1>2. CASE UNCHANGED echoVars
  BY <1>2 DEF echoVars
<1>3. QED
  BY <1>1, <1>2

LEMMA EchoIsSized == EchoSpec => SizedSpec
<1>1. EchoInit => Init
  BY DEF EchoInit
<1>2. QED
  BY <1>1, EchoStepIsRingStep, PTL DEF EchoSpec, SizedSpec

(* What is known of the queue under the echo.                              *)
RingState == TypeOK /\ RingInv /\ ~overrun

LEMMA EchoRingState == EchoSpec => []RingState
<1>1. Init => ~overrun
  BY DEF Init
<1>2. ~overrun /\ [Next /\ ~overrun']_ringVars => ~overrun'
  BY DEF ringVars
<1>3. SizedSpec => Spec
  <2>1. [Next /\ ~overrun']_ringVars => [Next]_ringVars
    OBVIOUS
  <2>2. QED
    BY <2>1, PTL DEF SizedSpec, Spec
<1>4. SizedSpec => []~overrun
  BY <1>1, <1>2, PTL DEF SizedSpec
<1>5. QED
  BY <1>3, <1>4, EchoIsSized, TypeCorrect, RingCorrect, PTL DEF RingState

(* While the queue does not overrun, the main loop of the echo takes the   *)
(* edges from a first-in first-out buffer.                                 *)
THEOREM EchoQueueCorrect == EchoSpec => []RingInv /\ RefinesFifo
<1>1. EchoSpec => []RingInv
  BY EchoRingState, PTL DEF RingState
<1>2. QED
  BY <1>1, EchoIsSized, RingImplementsFifo

-----------------------------------------------------------------------------

(* The edge that the main loop takes next, and the rising edge it has seen *)
(* last, are the ones of the interrupt handler.                            *)
TimesOrdered ==
  \A k \in 2 .. Len(sent) : sent[k - 1].time <= sent[k].time

LastIsRise ==
  last_rise_time =
    IF Len(recv) > 0 /\ sent[Len(recv)].pin_state THEN sent[Len(recv)].time ELSE 0

EchoInv == TimesOrdered /\ LastIsRise

LEMMA EdgeTypes ==
  ASSUME NEW edge \in Items
  PROVE  edge.pin_state \in BOOLEAN /\ edge.time \in Nat /\ edge.time > 0
  BY EdgesAssumption

(* An edge more at the end of the queue leaves the others where they were. *)
LEMMA EdgePushed ==
  ASSUME RingState, RingState', NEW edge \in Items, Ultrasonic_EchoHandler(edge)
  PROVE  /\ sent' = Append(sent, edge) /\ recv' = recv
         /\ Len(recv) \in Nat /\ Len(sent) \in Nat /\ Len(recv) <= Len(sent)
         /\ Len(sent') = Len(sent) + 1
         /\ sent'[Len(sent) + 1] = edge
         /\ \A k \in 1 .. Len(sent) : sent'[k] = sent[k]
<1>1. sent' = Append(sent, edge) /\ recv' = recv
  BY DEF Ultrasonic_EchoHandler, Push
<1>2. sent \in Seq(Items) /\ recv \in Seq(Items \cup {Blank})
  BY DEF RingState, TypeOK
<1>3. Len(recv) <= Len(sent)
  BY DEF RingState, RingInv, DeliveredInOrder
<1>4. QED
  BY <1>1, <1>2, <1>3

(* The edge that ProcessEdge takes is the next one of the handler.         *)
LEMMA EdgeTaken ==
  ASSUME RingState, RingState', ProcessEdge
  PROVE  /\ sent' = sent /\ sent \in Seq(Items)
         /\ Len(recv) \in Nat /\ Len(recv') = Len(recv) + 1
         /\ Len(recv') <= Len(sent)
         /\ out = sent[Len(recv')] /\ out \in Items
<1>1. sent' = sent /\ recv' = Append(recv, out)
  BY DEF ProcessEdge, PopAdvance
<1>2. sent \in Seq(Items) /\ recv \in Seq(Items \cup {Blank})
  BY DEF RingState, TypeOK
<1>3. Len(recv) \in Nat /\ Len(recv') = Len(recv) + 1 /\ recv'[Len(recv')] = out
  BY <1>1, <1>2
<1>4. /\ Len(recv') <= Len(sent')
      /\ \A k \in 1 .. Len(recv') : recv'[k] = sent'[k]
  BY DEF RingState, RingInv, DeliveredInOrder
<1>5. out = sent[Len(recv')]
  BY <1>1, <1>3, <1>4
<1>6. sent[Len(recv')] \in Items
  BY <1>1, <1>2, <1>3, <1>4
<1>7. QED
  BY <1>1, <1>2, <1>3, <1>4, <1>5, <1>6

(* Steps that neither push an edge nor take one.                           *)
LEMMA EdgesUnchanged ==
  ASSUME [EchoNext]_echoVars, ~ProcessEdge,
         \A edge \in Items : ~Ultrasonic_EchoHandler(edge)
  PROVE  UNCHANGED <<sent, recv, last_rise_time, filter, latest_data>>
  BY DEF EchoNext, Ultrasonic_ProcessQueue, EnterCall, PopBegin, PopTest, PopCopy,
         LeaveCall, Ultrasonic_GetLatestData, PopLoad, PopCheck, PopRead,
         echoVars, ringVars, dataVars

LEMMA EchoInvHolds == EchoSpec => []EchoInv
<1>1. EchoInit => EchoInv
  BY DEF EchoInit, Init, EchoInv, TimesOrdered, LastIsRise
<1>2. RingState /\ RingState' /\ EchoInv /\ [EchoNext /\ ~overrun']_echoVars
        => EchoInv'
  <2> SUFFICES ASSUME RingState, RingState', EchoInv, [EchoNext]_echoVars
               PROVE  EchoInv'
    OBVIOUS
  <2>1. ASSUME NEW edge \in Items, Ultrasonic_EchoHandler(edge)
        PROVE  EchoInv'
    <3>1. /\ recv' = recv
          /\ Len(recv) \in Nat /\ Len(sent) \in Nat /\ Len(recv) <= Len(sent)
          /\ Len(sent') = Len(sent) + 1 /\ sent'[Len(sent) + 1] = edge
          /\ \A k \in 1 .. Len(sent) : sent'[k] = sent[k]
      BY <2>1, EdgePushed
    <3>2. last_rise_time' = last_rise_time
      BY <2>1 DEF Ultrasonic_EchoHandler, dataVars
    <3>3. LastIsRise'
      BY <3>1, <3>2 DEF EchoInv, LastIsRise
    <3>4. Len(sent) > 0 => sent[Len(sent)].time <= edge.time
      BY <2>1, <3>1 DEF Ultrasonic_EchoHandler
    <3>5. ASSUME NEW k \in 2 .. Len(sent')
          PROVE  sent'[k - 1].time <= sent'[k].time
      <4>1. CASE k = Len(sent) + 1
        BY <3>1, <3>4, <3>5, <4>1
      <4>2. CASE k # Len(sent) + 1
        <5>1. k \in 2 .. Len(sent) /\ k - 1 \in 1 .. Len(sent) /\ k \in 1 .. Len(sent)
          BY <3>1, <3>5, <4>2
        <5>2. QED
          BY <3>1, <5>1 DEF EchoInv, TimesOrdered
      <4>3. QED
        BY <4>1, <4>2
    <3>6. QED
      BY <3>3, <3>5 DEF EchoInv, TimesOrdered
  <2>2. CASE ProcessEdge
    <3>1. /\ sent' = sent /\ Len(recv) \in Nat /\ Len(recv') = Len(recv) + 1
          /\ out = sent[Len(recv')]
      BY <2>2, EdgeTaken
    <3>2. last_rise_time' = IF out.pin_state THEN out.time ELSE 0
      BY <2>2 DEF ProcessEdge, RiseAfter
    <3>3. QED
      BY <3>1, <3>2 DEF EchoInv, TimesOrdered, LastIsRise
  <2>3. CASE ~ProcessEdge /\ \A edge \in Items : ~Ultrasonic_EchoHandler(edge)
    BY <2>3, EdgesUnchanged DEF EchoInv, TimesOrdered, LastIsRise
  <2>4. QED
    BY <2>1, <2>2, <2>3
<1>3. QED
  BY <1>1, <1>2, EchoRingState, PTL DEF EchoSpec

(* A falling edge after a rising one, when it is taken.                    *)
LEMMA FallTaken ==
  ASSUME RingState, RingState', EchoInv, ProcessEdge
  PROVE  LET n == Len(recv')
         IN /\ ~out.pin_state /\ last_rise_time > 0 <=>
                 n >= 2 /\ ~sent[n].pin_state /\ sent[n - 1].pin_state
            /\ last_rise_time > 0 =>
                 n >= 2 /\ last_rise_time = sent[n - 1].time
                        /\ last_rise_time \in Nat
                        /\ out.time \in Nat /\ last_rise_time <= out.time
<1> DEFINE n == Len(recv')
<1>1. /\ sent \in Seq(Items) /\ Len(recv) \in Nat /\ n = Len(recv) + 1
      /\ n <= Len(sent) /\ out = sent[n] /\ out \in Items
  BY EdgeTaken
<1>2. CASE Len(recv) = 0
  <2>1. last_rise_time = 0 /\ n = 1
    BY <1>1, <1>2 DEF EchoInv, LastIsRise
  <2>2. QED
    BY <2>1
<1>3. CASE Len(recv) > 0
  <2>1. /\ sent[n - 1] \in Items /\ n - 1 = Len(recv)
        /\ n \in 2 .. Len(sent) /\ n >= 2
    BY <1>1, <1>3
  <2>2. /\ sent[n - 1].pin_state \in BOOLEAN /\ sent[n - 1].time \in Nat
        /\ sent[n - 1].time > 0
    BY <2>1, EdgeTypes
  <2>3. last_rise_time = IF sent[n - 1].pin_state THEN sent[n - 1].time ELSE 0
    BY <1>3, <2>1 DEF EchoInv, LastIsRise
  <2>4. last_rise_time > 0 <=> sent[n - 1].pin_state
    BY <2>2, <2>3
  <2>5. out.time \in Nat /\ sent[n - 1].time <= out.time
    BY <1>1, <2>1, EdgeTypes DEF EchoInv, TimesOrdered
  <2> HIDE DEF n
  <2>6. QED
    BY <1>1, <2>1, <2>2, <2>3, <2>4, <2>5 DEF n
<1>4. QED
  BY <1>1, <1>2, <1>3

(* Only a falling edge that the handler pushed right after a rising edge   *)
(* makes a distance, the distance between these two, and the newest such   *)
(* pair is the one that is published.                                      *)
THEOREM NeighboursPaired == EchoSpec => []PairsNeighbours
<1>1. EchoInit => PairsNeighbours
  <2> SUFFICES ASSUME EchoInit PROVE PairsNeighbours
    OBVIOUS
  <2>1. Falls = {}
    BY DEF EchoInit, Init, Falls
  <2>2. QED
    BY <2>1 DEF EchoInit, PairsNeighbours
<1>2. RingState /\ RingState' /\ EchoInv /\ PairsNeighbours
        /\ [EchoNext /\ ~overrun']_echoVars => PairsNeighbours'
  <2> SUFFICES ASSUME RingState, RingState', EchoInv, PairsNeighbours,
                      [EchoNext]_echoVars
               PROVE  PairsNeighbours'
    OBVIOUS
  <2>1. ASSUME NEW edge \in Items, Ultrasonic_EchoHandler(edge)
        PROVE  PairsNeighbours'
    <3>1. /\ recv' = recv
          /\ Len(recv) \in Nat /\ Len(sent) \in Nat /\ Len(recv) <= Len(sent)
          /\ \A k \in 1 .. Len(sent) : sent'[k] = sent[k]
      BY <2>1, EdgePushed
    <3>2. latest_data' = latest_data
      BY <2>1 DEF Ultrasonic_EchoHandler, dataVars
    <3>3. \A k \in 2 .. Len(recv) :
            k \in 1 .. Len(sent) /\ k - 1 \in 1 .. Len(sent)
      BY <3>1
    <3>4. \A k \in 2 .. Len(recv) : sent'[k] = sent[k] /\ sent'[k - 1] = sent[k - 1]
      BY <3>1, <3>3
    <3>5. Falls' = Falls
      BY <3>1, <3>4 DEF Falls
    <3>6. \A k \in Falls : sent'[k] = sent[k] /\ sent'[k - 1] = sent[k - 1]
      BY <3>4 DEF Falls
    <3>7. QED
      BY <3>2, <3>5, <3>6 DEF PairsNeighbours
  <2>2. CASE ProcessEdge
    <3> DEFINE n == Len(recv')
    <3>1. /\ sent' = sent /\ Len(recv) \in Nat /\ n = Len(recv) + 1 /\ out = sent[n]
      BY <2>2, EdgeTaken
    <3> HIDE DEF n
    <3>2. 2 .. n = (2 .. Len(recv)) \cup (IF n >= 2 THEN {n} ELSE {})
      BY <3>1
    <3>3. \A k \in Falls : k \in Nat /\ k < n
      BY <3>1 DEF Falls
    <3>4. CASE ~out.pin_state /\ last_rise_time > 0
      <4>1. /\ n >= 2 /\ ~sent[n].pin_state /\ sent[n - 1].pin_state
            /\ last_rise_time = sent[n - 1].time
        BY <2>2, <3>4, FallTaken DEF n
      <4>2. Falls' = Falls \cup {n}
        BY <3>1, <3>2, <4>1 DEF Falls, n
      <4>3. /\ latest_data'.raw = Distance(out.time, last_rise_time)
            /\ latest_data'.received = last_rise_time
        BY <2>2, <3>4 DEF ProcessEdge, Measure
      <4>4. \A j \in Falls' : j <= n
        BY <3>1, <3>3, <4>2
      <4>5. /\ latest_data'.raw = Distance(sent'[n].time, sent'[n - 1].time)
            /\ latest_data'.received = sent'[n - 1].time
        BY <3>1, <4>1, <4>3
      <4>6. n \in Falls' /\ Falls' # {}
        BY <4>2
      <4>7. QED
        BY <4>4, <4>5, <4>6 DEF PairsNeighbours, Distance
    <3>5. CASE ~(~out.pin_state /\ last_rise_time > 0)
      <4>1. ~(n >= 2 /\ ~sent[n].pin_state /\ sent[n - 1].pin_state)
        BY <2>2, <3>5, FallTaken DEF n
      <4>2. Falls' = Falls
        BY <3>1, <3>2, <4>1 DEF Falls, n
      <4>3. latest_data' = latest_data
        BY <2>2, <3>5 DEF ProcessEdge
      <4>4. QED
        BY <3>1, <4>2, <4>3 DEF PairsNeighbours
    <3>6. QED
      BY <3>4, <3>5
  <2>3. CASE ~ProcessEdge /\ \A edge \in Items : ~Ultrasonic_EchoHandler(edge)
    BY <2>3, EdgesUnchanged DEF PairsNeighbours, Falls
  <2>4. QED
    BY <2>1, <2>2, <2>3
<1>3. QED
  BY <1>1, <1>2, EchoRingState, EchoInvHolds, PTL DEF EchoSpec

-----------------------------------------------------------------------------

LEMMA FilterUpdateTypes ==
  ASSUME NEW f \in Filters(Nat), NEW value \in Nat
  PROVE  /\ Filter_Update(f, value) \in Filters(Nat)
         /\ Average(Filter_Update(f, value)) \in Int
<1> DEFINE g == Filter_Update(f, value)
<1>1. FilterSize \in Nat /\ FilterSize > 0
  BY FilterSizeAssumption
<1>2. /\ f.buffer \in [0 .. FilterSize - 1 -> Nat] /\ f.next_index \in 0 .. FilterSize - 1
      /\ f.data_cnt \in 0 .. FilterSize /\ f.sum \in Int
  BY DEF Filters
<1>3. [f.buffer EXCEPT ![f.next_index] = value] \in [0 .. FilterSize - 1 -> Nat]
  BY <1>2
<1>4. (f.next_index + 1) % FilterSize \in 0 .. FilterSize - 1
  BY <1>1, <1>2
<1>5. (IF f.data_cnt < FilterSize THEN f.data_cnt + 1 ELSE FilterSize) \in 1 .. FilterSize
  BY <1>1, <1>2
<1>6. f.sum - Replaced(f) + value \in Int
  <2>1. f.buffer[f.next_index] \in Nat
    BY <1>2
  <2>2. QED
    BY <1>2, <2>1 DEF Replaced
<1>7. g \in Filters(Nat) /\ g.data_cnt \in 1 .. FilterSize /\ g.sum \in Int
  BY <1>3, <1>4, <1>5, <1>6 DEF Filters, Filter_Update
<1>8. Average(g) \in Int
  <2> HIDE DEF g
  <2>1. QED
    BY <1>1, <1>7 DEF Average
<1>9. QED
  BY <1>7, <1>8

LEMMA MeasureTypes ==
  ASSUME filter \in Filters(Nat), last_rise_time \in Nat,
         NEW edge, edge.time \in Nat, last_rise_time <= edge.time, Measure(edge)
  PROVE  filter' \in Filters(Nat) /\ latest_data' \in Answers /\ data_ready' \in BOOLEAN
<1> DEFINE dist == Distance(edge.time, last_rise_time)
<1>1. dist \in Nat
  <2>1. PICK t \in Nat : t = (edge.time - last_rise_time) * 343
    OBVIOUS
  <2>2. t \div 2000 \in Nat
    BY <2>1
  <2>3. QED
    BY <2>1, <2>2 DEF Distance
<1> HIDE DEF dist
<1>2. /\ filter' = Filter_Update(filter, dist)
      /\ latest_data' = [raw |-> dist, filt |-> Average(filter'),
                         received |-> last_rise_time]
      /\ data_ready' = TRUE
  BY DEF Measure, dist
<1>3. filter' \in Filters(Nat) /\ Average(filter') \in Int
  BY <1>1, <1>2, FilterUpdateTypes
<1>4. latest_data' \in Answers
  BY <1>1, <1>2, <1>3 DEF Answers
<1>5. QED
  BY <1>2, <1>3, <1>4

(* Everything has its type, in every reachable state: the indices stay     *)
(* inside the queue and inside the filter, and distances are not negative. *)
THEOREM EchoTypeCorrect == EchoSpec => []EchoTypeOK
<1>0. Nothing \in Answers
  BY DEF Nothing, Answers
<1>1. EchoInit /\ RingState => EchoTypeOK
  <2> SUFFICES ASSUME EchoInit, RingState PROVE EchoTypeOK
    OBVIOUS
  <2>1. filter \in Filters(Nat)
    BY FilterSizeAssumption DEF EchoInit, Filters, Filter_Init
  <2>2. inside \in BOOLEAN /\ data_ready \in BOOLEAN
    BY DEF EchoInit
  <2>3. events_processed \in 0 .. MaxEvents
    BY MaxEventsAssumption DEF EchoInit
  <2>4. QED
    BY <1>0, <2>1, <2>2, <2>3 DEF EchoInit, Init, RingState, EchoTypeOK
<1>2. RingState /\ RingState' /\ EchoInv /\ EchoTypeOK
        /\ [EchoNext /\ ~overrun']_echoVars => EchoTypeOK'
  <2> SUFFICES ASSUME RingState, RingState', EchoInv, EchoTypeOK,
                      [EchoNext]_echoVars
               PROVE  EchoTypeOK'
    OBVIOUS
  <2>0. TypeOK'
    BY DEF RingState
  <2> USE MaxEventsAssumption DEF EchoTypeOK
  <2>1. ASSUME NEW edge \in Items, Ultrasonic_EchoHandler(edge)
        PROVE  EchoTypeOK'
    BY <2>0, <2>1 DEF Ultrasonic_EchoHandler, Push, dataVars
  <2>2. CASE EnterCall
    BY <2>0, <2>2 DEF EnterCall, ringVars, dataVars
  <2>3. CASE PopBegin
    BY <2>0, <2>3 DEF PopBegin, PopLoad, dataVars
  <2>4. CASE PopTest
    <3>1. inside' \in BOOLEAN
      BY <2>4 DEF PopTest
    <3>2. pc' # "idle" => inside'
      BY <2>4 DEF PopTest, PopCheck
    <3>3. events_processed < MaxEvents
      BY <2>4 DEF PopTest, PopCheck
    <3>4. QED
      BY <2>0, <2>4, <3>1, <3>2, <3>3 DEF PopTest, dataVars
  <2>5. CASE PopCopy
    BY <2>0, <2>5 DEF PopCopy, PopRead, dataVars
  <2>6. CASE ProcessEdge
    <3>1. /\ pc = "advance" /\ pc' = "idle" /\ inside' = inside /\ served' = served
          /\ events_processed' = events_processed + 1
      BY <2>6 DEF ProcessEdge, PopAdvance
    <3>2. events_processed' \in 0 .. MaxEvents
      BY <3>1
    <3>3. out \in Items /\ out.time \in Nat
      BY <2>6, EdgeTaken, EdgeTypes
    <3>4. last_rise_time' \in Nat
      BY <2>6, <3>3 DEF ProcessEdge, RiseAfter
    <3>5. filter' \in Filters(Nat) /\ latest_data' \in Answers /\ data_ready' \in BOOLEAN
      <4>1. CASE ~out.pin_state /\ last_rise_time > 0
        <5>1. Measure(out)
          BY <2>6, <4>1 DEF ProcessEdge
        <5>2. last_rise_time <= out.time
          BY <2>6, <4>1, FallTaken
        <5>3. QED
          BY <3>3, <5>1, <5>2, MeasureTypes
      <4>2. CASE ~(~out.pin_state /\ last_rise_time > 0)
        BY <2>6, <4>2 DEF ProcessEdge
      <4>3. QED
        BY <4>1, <4>2
    <3>6. QED
      BY <2>0, <3>1, <3>2, <3>4, <3>5
  <2>7. CASE LeaveCall
    BY <2>0, <2>7 DEF LeaveCall, ringVars, dataVars
  <2>8. CASE Ultrasonic_GetLatestData
    <3>1. data_ready' \in BOOLEAN
      BY <2>8 DEF Ultrasonic_GetLatestData
    <3>2. QED
      BY <2>0, <2>8, <3>1 DEF Ultrasonic_GetLatestData, ringVars
  <2>9. CASE UNCHANGED echoVars
    BY <2>0, <2>9 DEF echoVars, ringVars, dataVars
  <2>10. QED
    BY <2>1, <2>2, <2>3, <2>4, <2>5, <2>6, <2>7, <2>8, <2>9
       DEF EchoNext, Ultrasonic_ProcessQueue
<1>3. QED
  BY <1>1, <1>2, EchoRingState, EchoInvHolds, PTL DEF EchoSpec

-----------------------------------------------------------------------------

(* Induction over a set of numbers, which needs no predicate.              *)
LEMMA SetInduction ==
  ASSUME NEW G, 0 \in G, \A n \in Nat : n \in G => n + 1 \in G
  PROVE  \A n \in Nat : n \in G
<1> SUFFICES ASSUME NEW m \in Nat, m \notin G PROVE FALSE
  OBVIOUS
<1> DEFINE T == {n \in Nat : n \notin G}
<1>1. \E x \in T : \A y \in T : ~(<<y, x>> \in OpToRel(<, Nat))
  BY NatLessThanWellFounded, WFMin
<1>2. PICK x \in T : \A y \in T : ~(<<y, x>> \in OpToRel(<, Nat))
  BY <1>1
<1>3. \A y \in T : ~(y < x)
  BY <1>2 DEF OpToRel
<1>4. x \in Nat /\ x # 0 /\ x \notin G
  OBVIOUS
<1>5. x - 1 \in Nat /\ x - 1 < x /\ (x - 1) + 1 = x
  BY <1>4
<1>6. x - 1 \in G
  BY <1>3, <1>5
<1> QED
  BY <1>4, <1>5, <1>6

(* The sum of MeanOfLast, as the recursive function it is computed by.     *)
SumOf(q, S) == MapThenSumSet(LAMBDA k : Distance(q[k].time, q[k - 1].time), S)

DistanceOf(q, k) == Distance(q[k].time, q[k - 1].time)

Chosen(s) == CHOOSE x \in s : TRUE

StepOf(q, g, s) ==
  IF s = {} THEN 0 ELSE DistanceOf(q, Chosen(s)) + g[s \ {Chosen(s)}]

Iter(q, S) == CHOOSE g : g = [s \in SUBSET S |-> StepOf(q, g, s)]

LEMMA SumIsIter ==
  ASSUME NEW q, NEW S
  PROVE  SumOf(q, S) = Iter(q, S)[S]
BY DEF SumOf, MapThenSumSet, MapThenFoldSet, Iter, StepOf, Chosen, DistanceOf

LEMMA ChosenLeaves ==
  ASSUME NEW s, IsFiniteSet(s), s # {}
  PROVE  /\ Chosen(s) \in s /\ IsFiniteSet(s \ {Chosen(s)})
         /\ Cardinality(s \ {Chosen(s)}) = Cardinality(s) - 1
         /\ Cardinality(s) \in Nat /\ Cardinality(s) > 0
<1>1. Chosen(s) \in s
  BY DEF Chosen
<1>2. Cardinality(s) \in Nat /\ Cardinality(s) # 0
  BY FS_CardinalityType, FS_EmptySet
<1> QED
  BY <1>1, <1>2, FS_RemoveElement

(* Two functions that are computed this way agree.                         *)
Computes(q, g, S) == \A s \in SUBSET S : g[s] = StepOf(q, g, s)

LEMMA SumUnique ==
  ASSUME NEW S, IsFiniteSet(S), NEW q1, NEW q2, NEW g1, NEW g2,
         Computes(q1, g1, S), Computes(q2, g2, S),
         \A k \in S : DistanceOf(q1, k) = DistanceOf(q2, k)
  PROVE  \A s \in SUBSET S : g1[s] = g2[s]
<1> DEFINE G == {n \in Nat : \A s \in SUBSET S : Cardinality(s) = n => g1[s] = g2[s]}
<1>1. \A s \in SUBSET S : IsFiniteSet(s) /\ Cardinality(s) \in Nat
  BY FS_Subset, FS_CardinalityType
<1>2. 0 \in G
  <2>1. ASSUME NEW s \in SUBSET S, Cardinality(s) = 0 PROVE g1[s] = g2[s]
    <3>1. s = {}
      BY <1>1, <2>1, FS_EmptySet
    <3> QED
      BY <3>1 DEF Computes, StepOf
  <2> QED
    BY <2>1
<1>3. ASSUME NEW n \in Nat, n \in G PROVE n + 1 \in G
  <2>1. ASSUME NEW s \in SUBSET S, Cardinality(s) = n + 1 PROVE g1[s] = g2[s]
    <3>1. s # {}
      BY <2>1, FS_EmptySet
    <3>2. /\ Chosen(s) \in S /\ s \ {Chosen(s)} \in SUBSET S
          /\ Cardinality(s \ {Chosen(s)}) = n
      BY <1>1, <2>1, <3>1, ChosenLeaves
    <3>3. g1[s \ {Chosen(s)}] = g2[s \ {Chosen(s)}]
      BY <1>3, <3>2
    <3>4. DistanceOf(q1, Chosen(s)) = DistanceOf(q2, Chosen(s))
      BY <3>2
    <3> QED
      BY <3>1, <3>3, <3>4 DEF Computes, StepOf
  <2> QED
    BY <2>1
<1>4. \A n \in Nat : n \in G
  <2> HIDE DEF G
  <2> QED
    BY <1>2, <1>3, SetInduction
<1> QED
  BY <1>1, <1>4

(* Such a function exists.                                                 *)
LEMMA SumExists ==
  ASSUME NEW q, NEW S, IsFiniteSet(S), \A k \in S : DistanceOf(q, k) \in Int
  PROVE  \E g \in [SUBSET S -> Int] : Computes(q, g, S)
<1> DEFINE Upto(g, n) == \A s \in SUBSET S : Cardinality(s) <= n => g[s] = StepOf(q, g, s)
           G == {n \in Nat : \E g \in [SUBSET S -> Int] : Upto(g, n)}
<1>1. \A s \in SUBSET S : IsFiniteSet(s) /\ Cardinality(s) \in Nat
                          /\ Cardinality(s) <= Cardinality(S)
  BY FS_Subset, FS_CardinalityType
<1>2. 0 \in G
  <2> DEFINE g == [s \in SUBSET S |-> 0]
  <2>1. ASSUME NEW s \in SUBSET S, Cardinality(s) <= 0 PROVE g[s] = StepOf(q, g, s)
    <3>1. s = {}
      BY <1>1, <2>1, FS_EmptySet
    <3> QED
      BY <3>1 DEF StepOf
  <2>2. g \in [SUBSET S -> Int] /\ Upto(g, 0)
    BY <2>1
  <2> QED
    BY <2>2
<1>3. ASSUME NEW n \in Nat, n \in G PROVE n + 1 \in G
  <2>1. PICK f \in [SUBSET S -> Int] : Upto(f, n)
    BY <1>3
  <2> DEFINE g == [s \in SUBSET S |-> IF Cardinality(s) <= n THEN f[s] ELSE StepOf(q, f, s)]
  <2>2. ASSUME NEW s \in SUBSET S, s # {}
        PROVE  /\ Chosen(s) \in S /\ s \ {Chosen(s)} \in SUBSET S
               /\ Cardinality(s \ {Chosen(s)}) = Cardinality(s) - 1
               /\ StepOf(q, f, s) \in Int
    <3>1. /\ Chosen(s) \in S /\ s \ {Chosen(s)} \in SUBSET S
          /\ Cardinality(s \ {Chosen(s)}) = Cardinality(s) - 1
      BY <1>1, <2>2, ChosenLeaves
    <3>2. DistanceOf(q, Chosen(s)) \in Int /\ f[s \ {Chosen(s)}] \in Int
      BY <3>1
    <3> QED
      BY <3>1, <3>2 DEF StepOf
  <2>3. g \in [SUBSET S -> Int]
    <3>1. StepOf(q, f, {}) \in Int
      BY DEF StepOf
    <3> QED
      BY <2>2, <3>1
  <2>4. ASSUME NEW s \in SUBSET S, Cardinality(s) <= n + 1 PROVE g[s] = StepOf(q, g, s)
    <3>1. g[s] = StepOf(q, f, s)
      BY <2>1
    <3>2. StepOf(q, f, s) = StepOf(q, g, s)
      <4>1. CASE s = {}
        BY <4>1 DEF StepOf
      <4>2. CASE s # {}
        <5>1. Cardinality(s \ {Chosen(s)}) <= n /\ s \ {Chosen(s)} \in SUBSET S
          BY <1>1, <2>2, <2>4, <4>2
        <5>2. g[s \ {Chosen(s)}] = f[s \ {Chosen(s)}]
          BY <5>1
        <5> HIDE DEF g
        <5> QED
          BY <5>2 DEF StepOf
      <4> QED
        BY <4>1, <4>2
    <3> QED
      BY <3>1, <3>2
  <2> HIDE DEF g
  <2> QED
    BY <2>3, <2>4
<1>4. \A n \in Nat : n \in G
  <2> HIDE DEF G
  <2> QED
    BY <1>2, <1>3, SetInduction
<1>5. Cardinality(S) \in Nat
  BY FS_CardinalityType
<1>6. PICK g \in [SUBSET S -> Int] : Upto(g, Cardinality(S))
  BY <1>4, <1>5
<1> QED
  BY <1>1, <1>6 DEF Computes

LEMMA IterComputes ==
  ASSUME NEW q, NEW S, IsFiniteSet(S), \A k \in S : DistanceOf(q, k) \in Int
  PROVE  Computes(q, Iter(q, S), S) /\ \A s \in SUBSET S : Iter(q, S)[s] \in Int
<1>1. PICK g \in [SUBSET S -> Int] : Computes(q, g, S)
  BY SumExists
<1>2. g = [s \in SUBSET S |-> StepOf(q, g, s)]
  BY <1>1 DEF Computes
<1>3. Iter(q, S) = [s \in SUBSET S |-> StepOf(q, Iter(q, S), s)]
  BY <1>2 DEF Iter
<1>4. Computes(q, Iter(q, S), S)
  <2> DEFINE f == Iter(q, S)
  <2>1. f = [s \in SUBSET S |-> StepOf(q, f, s)]
    BY <1>3
  <2> HIDE DEF f
  <2>2. Computes(q, f, S)
    BY <2>1 DEF Computes
  <2> QED
    BY <2>2 DEF f
<1>5. \A s \in SUBSET S : Iter(q, S)[s] = g[s]
  BY <1>1, <1>4, SumUnique
<1> QED
  BY <1>1, <1>4, <1>5

(* In which order the elements are chosen does not matter.                 *)
LEMMA AnyChoice ==
  ASSUME NEW q, NEW S, IsFiniteSet(S), \A k \in S : DistanceOf(q, k) \in Int,
         NEW g, Computes(q, g, S), \A s \in SUBSET S : g[s] \in Int
  PROVE  \A s \in SUBSET S : \A x \in s : g[s] = DistanceOf(q, x) + g[s \ {x}]
<1> DEFINE G == {n \in Nat : \A s \in SUBSET S : Cardinality(s) = n =>
                               \A x \in s : g[s] = DistanceOf(q, x) + g[s \ {x}]}
<1>1. \A s \in SUBSET S : IsFiniteSet(s) /\ Cardinality(s) \in Nat
  BY FS_Subset, FS_CardinalityType
<1>2. 0 \in G
  <2>1. \A s \in SUBSET S : Cardinality(s) = 0 => s = {}
    BY <1>1, FS_EmptySet
  <2> QED
    BY <2>1
<1>3. ASSUME NEW n \in Nat, n \in G PROVE n + 1 \in G
  <2>1. ASSUME NEW s \in SUBSET S, Cardinality(s) = n + 1, NEW x \in s
        PROVE  g[s] = DistanceOf(q, x) + g[s \ {x}]
    <3> DEFINE c == Chosen(s)
    <3>1. /\ c \in s /\ Cardinality(s \ {c}) = n /\ Cardinality(s \ {x}) = n
          /\ s \ {c} \in SUBSET S /\ s \ {x} \in SUBSET S
      <4>1. IsFiniteSet(s) /\ s # {}
        BY <1>1, <2>1
      <4>2. c \in s
        BY <2>1 DEF Chosen
      <4> HIDE DEF c, G
      <4>3. Cardinality(s \ {c}) = Cardinality(s) - 1
        BY <4>1, <4>2, FS_RemoveElement
      <4>4. Cardinality(s \ {x}) = Cardinality(s) - 1
        BY <2>1, <4>1, FS_RemoveElement
      <4> QED
        BY <2>1, <4>2, <4>3, <4>4
    <3>2. g[s] = DistanceOf(q, c) + g[s \ {c}]
      BY <2>1 DEF Computes, StepOf
    <3> HIDE DEF c
    <3>3. CASE x = c
      BY <3>2, <3>3
    <3>4. CASE x # c
      <4>1. x \in s \ {c} /\ c \in s \ {x} /\ (s \ {c}) \ {x} = (s \ {x}) \ {c}
        BY <3>1, <3>4
      <4>2. g[s \ {c}] = DistanceOf(q, x) + g[(s \ {c}) \ {x}]
        BY <1>3, <3>1, <4>1
      <4>3. g[s \ {x}] = DistanceOf(q, c) + g[(s \ {x}) \ {c}]
        BY <1>3, <3>1, <4>1
      <4>4. /\ DistanceOf(q, x) \in Int /\ DistanceOf(q, c) \in Int
            /\ (s \ {c}) \ {x} \in SUBSET S
        BY <3>1
      <4>5. g[(s \ {c}) \ {x}] \in Int
        BY <4>4
      <4> DEFINE r == g[(s \ {c}) \ {x}]
                 a == DistanceOf(q, x)
                 b == DistanceOf(q, c)
      <4>6. /\ g[s] = b + g[s \ {c}] /\ g[s \ {c}] = a + r /\ g[s \ {x}] = b + r
        BY <3>2, <4>1, <4>2, <4>3
      <4>7. r \in Int /\ a \in Int /\ b \in Int
        BY <4>4, <4>5
      <4> HIDE DEF r, a, b
      <4>8. g[s] = a + g[s \ {x}]
        BY <4>6, <4>7
      <4> QED
        BY <4>8 DEF a
    <3> QED
      BY <3>3, <3>4
  <2> QED
    BY <2>1
<1>4. \A n \in Nat : n \in G
  <2> HIDE DEF G
  <2> QED
    BY <1>2, <1>3, SetInduction
<1> QED
  BY <1>1, <1>4

(* The sum over a set with one element more, and of edges that did not     *)
(* change.                                                                 *)
LEMMA SumAdds ==
  ASSUME NEW q, NEW S, IsFiniteSet(S), \A k \in S : DistanceOf(q, k) \in Int, NEW x \in S
  PROVE  /\ SumOf(q, S) \in Int /\ SumOf(q, S \ {x}) \in Int
         /\ SumOf(q, S) = DistanceOf(q, x) + SumOf(q, S \ {x})
<1> DEFINE R == S \ {x}
<1>1. IsFiniteSet(R) /\ (\A k \in R : DistanceOf(q, k) \in Int) /\ R \in SUBSET S
  BY FS_RemoveElement
<1>2. Computes(q, Iter(q, S), S) /\ \A s \in SUBSET S : Iter(q, S)[s] \in Int
  BY IterComputes
<1>3. Computes(q, Iter(q, R), R)
  BY <1>1, IterComputes
<1>4. Iter(q, S)[S] = DistanceOf(q, x) + Iter(q, S)[R]
  BY <1>2, AnyChoice
<1>5. Iter(q, S)[R] = Iter(q, R)[R]
  <2>1. Computes(q, Iter(q, S), R)
    BY <1>1, <1>2 DEF Computes
  <2>2. \A s \in SUBSET R : Iter(q, S)[s] = Iter(q, R)[s]
    BY <1>1, <1>3, <2>1, SumUnique
  <2> QED
    BY <2>2
<1> QED
  BY <1>1, <1>2, <1>4, <1>5, SumIsIter

LEMMA SumOfNone ==
  ASSUME NEW q
  PROVE  SumOf(q, {}) = 0
<1>1. IsFiniteSet({})
  BY FS_EmptySet
<1>2. Computes(q, Iter(q, {}), {})
  BY <1>1, IterComputes
<1> QED
  BY <1>2, SumIsIter DEF Computes, StepOf

LEMMA SumStays ==
  ASSUME NEW p, NEW q, NEW S, IsFiniteSet(S),
         \A k \in S : DistanceOf(q, k) \in Int /\ DistanceOf(p, k) = DistanceOf(q, k)
  PROVE  SumOf(p, S) = SumOf(q, S)
<1>1. Computes(q, Iter(q, S), S) /\ Computes(p, Iter(p, S), S)
  BY IterComputes
<1>2. Iter(p, S)[S] = Iter(q, S)[S]
  BY <1>1, SumUnique
<1> QED
  BY <1>2, SumIsIter

-----------------------------------------------------------------------------

(* The number of measurements after measurement k.                         *)
RankIn(F, k) == Cardinality({j \in F : j > k})

LEMMA RankShifts ==
  ASSUME NEW F, IsFiniteSet(F), F \subseteq Nat, NEW n \in Nat, \A k \in F : k < n
  PROVE  /\ RankIn(F \cup {n}, n) = 0
         /\ \A k \in F : /\ RankIn(F, k) \in Nat
                         /\ RankIn(F \cup {n}, k) = RankIn(F, k) + 1
<1>1. {j \in F \cup {n} : j > n} = {}
  <2>1. ASSUME NEW j \in F \cup {n} PROVE ~(j > n)
    <3>1. CASE j \in F
      <4>1. j \in Nat /\ j < n
        BY <3>1
      <4> QED
        BY <4>1
    <3>2. CASE j = n
      BY <3>2
    <3> QED
      BY <3>1, <3>2
  <2> QED
    BY <2>1
<1>2. RankIn(F \cup {n}, n) = 0
  BY <1>1, FS_EmptySet DEF RankIn
<1>3. ASSUME NEW k \in F
      PROVE  RankIn(F, k) \in Nat /\ RankIn(F \cup {n}, k) = RankIn(F, k) + 1
  <2> DEFINE A == {j \in F : j > k}
  <2>1. IsFiniteSet(A) /\ Cardinality(A) \in Nat /\ n \notin A
    BY FS_Subset, FS_CardinalityType
  <2>2. {j \in F \cup {n} : j > k} = A \cup {n}
    OBVIOUS
  <2>3. Cardinality(A \cup {n}) = Cardinality(A) + 1
    BY <2>1, FS_AddElement
  <2> QED
    BY <2>1, <2>2, <2>3 DEF RankIn
<1> QED
  BY <1>2, <1>3

LEMMA RankDecides ==
  ASSUME NEW F, IsFiniteSet(F), F \subseteq Nat, NEW j \in F, NEW k \in F,
         RankIn(F, j) = RankIn(F, k)
  PROVE  j = k
<1>1. ASSUME NEW a \in F, NEW b \in F, a < b PROVE RankIn(F, a) > RankIn(F, b)
  <2> DEFINE A == {i \in F : i > a}
             B == {i \in F : i > b}
  <2>1. IsFiniteSet(A) /\ IsFiniteSet(B) /\ Cardinality(A) \in Nat /\ Cardinality(B) \in Nat
    BY FS_Subset, FS_CardinalityType
  <2>2. b \notin B /\ B \cup {b} \subseteq A
    <3>1. a \in Nat /\ b \in Nat
      OBVIOUS
    <3>2. \A i \in F : i \in Nat /\ (i > b => i > a)
      BY <1>1, <3>1
    <3>3. b \in A /\ b \notin B
      BY <1>1, <3>1
    <3>4. \A i \in B : i \in A
      BY <3>2
    <3> HIDE DEF A, B
    <3> QED
      BY <3>3, <3>4
  <2>3. Cardinality(B \cup {b}) = Cardinality(B) + 1
    BY <2>1, <2>2, FS_AddElement
  <2>4. Cardinality(B \cup {b}) <= Cardinality(A)
    BY <2>1, <2>2, FS_Subset
  <2>5. Cardinality(A) > Cardinality(B)
    BY <2>1, <2>3, <2>4
  <2> QED
    BY <2>5 DEF RankIn
<1>2. IsFiniteSet({i \in F : i > k}) /\ RankIn(F, k) \in Nat
  BY FS_Subset, FS_CardinalityType DEF RankIn
<1>3. ~(j < k) /\ ~(k < j)
  BY <1>1, <1>2
<1> QED
  BY <1>3

(* The slot of the filter that holds the value number i, counted from the  *)
(* newest one.                                                             *)
SlotOf(f, i) ==
  IF i < f.next_index THEN f.next_index - 1 - i ELSE f.next_index - 1 - i + FilterSize

LEMMA SlotsShift ==
  ASSUME NEW f \in Filters(Nat), NEW value \in Nat, NEW g, g = Filter_Update(f, value)
  PROVE  /\ SlotOf(f, FilterSize - 1) = f.next_index
         /\ g.buffer[SlotOf(g, 0)] = value
         /\ \A i \in 0 .. FilterSize - 2 :
              g.buffer[SlotOf(g, i + 1)] = f.buffer[SlotOf(f, i)]
<1>1. FilterSize \in Nat /\ FilterSize > 0
  BY FilterSizeAssumption
<1>2. /\ f.buffer \in [0 .. FilterSize - 1 -> Nat] /\ f.next_index \in 0 .. FilterSize - 1
  BY DEF Filters
<1>3. /\ g.buffer = [f.buffer EXCEPT ![f.next_index] = value]
      /\ g.next_index = (f.next_index + 1) % FilterSize
  BY DEF Filter_Update
<1>4. g.next_index = IF f.next_index = FilterSize - 1 THEN 0 ELSE f.next_index + 1
  <2>1. PICK p \in Nat : p = f.next_index /\ p < FilterSize
    BY <1>1, <1>2
  <2>2. CASE p + 1 = FilterSize
    <3>1. (p + 1) % FilterSize = 0
      BY <1>1, <2>2
    <3> QED
      BY <1>1, <1>3, <2>1, <2>2, <3>1
  <2>3. CASE p + 1 < FilterSize
    <3>1. (p + 1) % FilterSize = p + 1
      BY <1>1, <2>3
    <3> QED
      BY <1>1, <1>3, <2>1, <2>3, <3>1
  <2> QED
    BY <1>1, <2>1, <2>2, <2>3
<1> DEFINE p == f.next_index
           q == g.next_index
<1>5. p \in 0 .. FilterSize - 1 /\ q = IF p = FilterSize - 1 THEN 0 ELSE p + 1
  BY <1>2, <1>4
<1>6. SlotOf(f, FilterSize - 1) = f.next_index /\ SlotOf(g, 0) = f.next_index
  <2> SUFFICES /\ (IF FilterSize - 1 < p THEN p - 1 - (FilterSize - 1)
                   ELSE p - 1 - (FilterSize - 1) + FilterSize) = p
               /\ (IF 0 < q THEN q - 1 - 0 ELSE q - 1 - 0 + FilterSize) = p
    BY DEF SlotOf
  <2> HIDE DEF p, q
  <2> QED
    BY <1>1, <1>5
<1>7. ASSUME NEW i \in 0 .. FilterSize - 2
      PROVE  /\ SlotOf(g, i + 1) = SlotOf(f, i)
             /\ SlotOf(f, i) \in 0 .. FilterSize - 1 /\ SlotOf(f, i) # f.next_index
  <2> SUFFICES LET s == IF i < p THEN p - 1 - i ELSE p - 1 - i + FilterSize
               IN /\ (IF i + 1 < q THEN q - 1 - (i + 1)
                      ELSE q - 1 - (i + 1) + FilterSize) = s
                  /\ s \in 0 .. FilterSize - 1 /\ s # p
    BY DEF SlotOf
  <2> HIDE DEF p, q
  <2> QED
    BY <1>1, <1>5
<1> QED
  BY <1>2, <1>3, <1>6, <1>7

(* The filter holds the last measurements in the order of their falling    *)
(* edges, as many as there are, and sum is their sum.                      *)
WindowInv ==
  /\ \A i \in 0 .. filter.data_cnt - 1 : \E k \in Falls : RankIn(Falls, k) = i
  /\ filter.data_cnt < FilterSize =>
       \A k \in Falls : RankIn(Falls, k) < filter.data_cnt
  /\ \A k \in Recent :
       filter.buffer[SlotOf(filter, RankIn(Falls, k))] = DistanceOf(sent, k)
  /\ Cardinality(Recent) = filter.data_cnt

MeanInv ==
  /\ WindowInv
  /\ filter.sum = SumOf(sent, Recent)
  /\ Falls # {} => latest_data.filt = Average(filter)

LEMMA FallsFinite ==
  ASSUME RingState
  PROVE  /\ IsFiniteSet(Falls) /\ Falls \subseteq Nat
         /\ IsFiniteSet(Recent) /\ Recent \subseteq Falls
         /\ \A k \in Falls : DistanceOf(sent, k) \in Int
<1>1. sent \in Seq(Items) /\ Len(recv) \in Nat /\ Len(recv) <= Len(sent)
  BY DEF RingState, TypeOK, RingInv, DeliveredInOrder
<1>2. IsFiniteSet(2 .. Len(recv)) /\ Falls \subseteq 2 .. Len(recv)
  BY <1>1, FS_Interval DEF Falls
<1>3. Recent \subseteq Falls
  BY DEF Recent
<1>4. IsFiniteSet(Falls) /\ IsFiniteSet(Recent)
  BY <1>2, <1>3, FS_Subset
<1>5. ASSUME NEW k \in Falls PROVE DistanceOf(sent, k) \in Int
  <2>1. k \in 1 .. Len(sent) /\ k - 1 \in 1 .. Len(sent)
    BY <1>1, <1>2
  <2>2. sent[k] \in Items /\ sent[k - 1] \in Items
    BY <1>1, <2>1
  <2>3. sent[k].time \in Nat /\ sent[k - 1].time \in Nat
    BY <2>2, EdgeTypes
  <2>4. PICK x \in Int : x = (sent[k].time - sent[k - 1].time) * 343
    BY <2>3
  <2>5. x \div 2000 \in Int
    BY <2>4
  <2> QED
    BY <2>4, <2>5 DEF DistanceOf, Distance
<1> QED
  BY <1>2, <1>3, <1>4, <1>5

(* What a new measurement n does to the set of the last ones.              *)
LastOf(F) == {k \in F : RankIn(F, k) < FilterSize}

LEMMA WindowMoves ==
  ASSUME NEW F, IsFiniteSet(F), F \subseteq Nat, NEW n \in Nat, \A k \in F : k < n
  PROVE  /\ n \notin LastOf(F)
         /\ (\A k \in F : RankIn(F, k) < FilterSize - 1) =>
              LastOf(F) = F /\ LastOf(F \cup {n}) = F \cup {n}
         /\ \A old \in F : RankIn(F, old) = FilterSize - 1 =>
              /\ old \in LastOf(F)
              /\ LastOf(F \cup {n}) = (LastOf(F) \ {old}) \cup {n}
<1>0. FilterSize \in Nat /\ FilterSize > 0
  BY FilterSizeAssumption
<1>1. /\ RankIn(F \cup {n}, n) = 0
      /\ \A k \in F : /\ RankIn(F, k) \in Nat
                      /\ RankIn(F \cup {n}, k) = RankIn(F, k) + 1
  BY RankShifts
<1>2. LastOf(F \cup {n}) = {k \in F : RankIn(F, k) < FilterSize - 1} \cup {n}
  <2> DEFINE Q == LastOf(F \cup {n})
  <2>1. \A k \in F : RankIn(F \cup {n}, k) < FilterSize
                       <=> RankIn(F, k) < FilterSize - 1
    BY <1>0, <1>1
  <2>2. RankIn(F \cup {n}, n) < FilterSize
    BY <1>0, <1>1
  <2>3. \A k : k \in Q <=> k \in {l \in F : RankIn(F, l) < FilterSize - 1} \cup {n}
    BY <2>1, <2>2 DEF LastOf
  <2> QED
    BY <2>3
<1>3. n \notin LastOf(F)
  BY DEF LastOf
<1>4. ASSUME \A k \in F : RankIn(F, k) < FilterSize - 1
      PROVE  LastOf(F) = F /\ LastOf(F \cup {n}) = F \cup {n}
  <2>1. \A k \in F : RankIn(F, k) < FilterSize
    BY <1>0, <1>1, <1>4
  <2>2. LastOf(F) = F
    BY <2>1 DEF LastOf
  <2> QED
    BY <1>2, <1>4, <2>2
<1>5. ASSUME NEW old \in F, RankIn(F, old) = FilterSize - 1
      PROVE  /\ old \in LastOf(F)
             /\ LastOf(F \cup {n}) = (LastOf(F) \ {old}) \cup {n}
  <2>1. old \in LastOf(F)
    BY <1>0, <1>5 DEF LastOf
  <2>2. \A k \in F : RankIn(F, k) = FilterSize - 1 => k = old
    BY <1>5, RankDecides
  <2>3. \A k \in F : RankIn(F, k) < FilterSize - 1
                       <=> RankIn(F, k) < FilterSize /\ k # old
    BY <1>0, <1>1, <1>5, <2>2
  <2>4. {k \in F : RankIn(F, k) < FilterSize - 1} = LastOf(F) \ {old}
    BY <2>3 DEF LastOf
  <2> QED
    BY <1>2, <2>1, <2>4
<1> QED
  BY <1>3, <1>4, <1>5

LEMMA MeasureKeepsMean ==
  ASSUME RingState, RingState', EchoInv, filter \in Filters(Nat), MeanInv,
         ProcessEdge, ~out.pin_state, last_rise_time > 0
  PROVE  MeanInv'
<1> DEFINE n == Len(recv')
           d == DistanceOf(sent, n)
           F == Falls
           G == Falls'
           R == Recent
           Q == Recent'
           f == filter
           g == filter'
<1>1. /\ sent' = sent /\ Len(recv) \in Nat /\ n = Len(recv) + 1 /\ out = sent[n]
      /\ n >= 2 /\ ~sent[n].pin_state /\ sent[n - 1].pin_state
      /\ last_rise_time = sent[n - 1].time /\ last_rise_time \in Nat
      /\ out.time \in Nat /\ last_rise_time <= out.time
  BY EdgeTaken, FallTaken
<1>2. d \in Nat /\ g = Filter_Update(f, d) /\ latest_data'.filt = Average(g)
  <2>1. d = Distance(out.time, last_rise_time)
    BY <1>1 DEF DistanceOf
  <2>2. PICK t \in Nat : t = (out.time - last_rise_time) * 343
    BY <1>1
  <2>3. t \div 2000 \in Nat
    BY <2>2
  <2>4. d \in Nat
    BY <2>1, <2>2, <2>3 DEF Distance
  <2> HIDE DEF d
  <2> QED
    BY <2>1, <2>4 DEF ProcessEdge, Measure
<1>3. G = F \cup {n}
  <2>1. 2 .. n = (2 .. Len(recv)) \cup {n}
    BY <1>1
  <2> QED
    BY <1>1, <2>1 DEF Falls
<1>4. /\ IsFiniteSet(F) /\ F \subseteq Nat /\ n \in Nat /\ \A k \in F : k < n
      /\ IsFiniteSet(R) /\ R \subseteq F
      /\ \A k \in F : DistanceOf(sent, k) \in Int
  <2>1. \A k \in F : k < n
    BY <1>1 DEF Falls
  <2> QED
    BY <1>1, <2>1, FallsFinite
<1>5. FilterSize \in Nat \ {0}
  BY FilterSizeAssumption
<1>6. /\ R = {k \in F : RankIn(F, k) < FilterSize}
      /\ Q = {k \in G : RankIn(G, k) < FilterSize}
  BY DEF Recent, RankIn
<1>7. /\ f.data_cnt \in 0 .. FilterSize /\ f.sum \in Int
      /\ g.data_cnt = IF f.data_cnt < FilterSize THEN f.data_cnt + 1 ELSE FilterSize
      /\ g.sum = f.sum - Replaced(f) + d
  BY <1>2 DEF Filters, Filter_Update
<1>8. /\ SlotOf(f, FilterSize - 1) = f.next_index
      /\ g.buffer[SlotOf(g, 0)] = d
      /\ \A i \in 0 .. FilterSize - 2 :
           g.buffer[SlotOf(g, i + 1)] = f.buffer[SlotOf(f, i)]
  BY <1>2, SlotsShift
<1>9. /\ RankIn(G, n) = 0
      /\ \A k \in F : RankIn(F, k) \in Nat /\ RankIn(G, k) = RankIn(F, k) + 1
  BY <1>3, <1>4, RankShifts
<1>10. /\ n \notin R
       /\ (\A k \in F : RankIn(F, k) < FilterSize - 1) => Q = R \cup {n}
       /\ \A old \in F :
            RankIn(F, old) = FilterSize - 1 => old \in R /\ Q = (R \ {old}) \cup {n}
  <2>1. R = LastOf(F) /\ Q = LastOf(F \cup {n})
    BY <1>3, <1>6 DEF LastOf
  <2> HIDE DEF F, G, R, Q, n
  <2> QED
    BY <1>4, <2>1, WindowMoves
<1>11. /\ \A i \in 0 .. f.data_cnt - 1 : \E k \in F : RankIn(F, k) = i
       /\ f.data_cnt < FilterSize => \A k \in F : RankIn(F, k) < f.data_cnt
       /\ \A k \in R : f.buffer[SlotOf(f, RankIn(F, k))] = DistanceOf(sent, k)
       /\ Cardinality(R) = f.data_cnt
       /\ f.sum = SumOf(sent, R)
  BY DEF MeanInv, WindowInv
<1>12. /\ \A i \in 0 .. g.data_cnt - 1 : \E k \in G : RankIn(G, k) = i
       /\ g.data_cnt < FilterSize => \A k \in G : RankIn(G, k) < g.data_cnt
       /\ \A k \in Q : g.buffer[SlotOf(g, RankIn(G, k))] = DistanceOf(sent, k)
       /\ Cardinality(Q) = g.data_cnt
       /\ g.sum = SumOf(sent, Q)
  <2> HIDE DEF n, d, F, G, R, Q, f, g
  <2>1. ASSUME NEW i \in 0 .. g.data_cnt - 1
        PROVE  \E k \in G : RankIn(G, k) = i
    <3>1. CASE i = 0
      BY <1>3, <1>9, <3>1
    <3>2. CASE i # 0
      <4>1. i - 1 \in 0 .. f.data_cnt - 1
        BY <1>5, <1>7, <3>2
      <4>2. PICK k \in F : RankIn(F, k) = i - 1
        BY <1>11, <4>1
      <4>3. k \in G /\ RankIn(G, k) = RankIn(F, k) + 1
        BY <1>3, <1>9
      <4>4. i \in Int /\ RankIn(G, k) = (i - 1) + 1
        BY <4>2, <4>3
      <4>5. RankIn(G, k) = i
        BY <4>4
      <4> QED
        BY <4>3, <4>5
    <3> QED
      BY <3>1, <3>2
  <2>2. ASSUME g.data_cnt < FilterSize, NEW k \in G
        PROVE  RankIn(G, k) < g.data_cnt
    <3>1. f.data_cnt < FilterSize /\ g.data_cnt = f.data_cnt + 1
      BY <1>5, <1>7, <2>2
    <3>2. CASE k = n
      BY <1>7, <1>9, <3>1, <3>2
    <3>3. CASE k \in F
      <4>1. RankIn(F, k) < f.data_cnt /\ RankIn(F, k) \in Nat
        BY <1>9, <1>11, <3>1, <3>3
      <4> QED
        BY <1>7, <1>9, <3>1, <3>3, <4>1
    <3> QED
      BY <1>3, <3>2, <3>3
  <2>3. ASSUME NEW k \in Q
        PROVE  g.buffer[SlotOf(g, RankIn(G, k))] = DistanceOf(sent, k)
    <3>1. CASE k = n
      BY <1>8, <1>9, <3>1 DEF d
    <3>2. CASE k \in F
      <4>1. /\ RankIn(F, k) \in Nat /\ RankIn(F, k) + 1 < FilterSize
            /\ RankIn(G, k) = RankIn(F, k) + 1
        BY <1>6, <1>9, <3>2
      <4>2. RankIn(F, k) \in 0 .. FilterSize - 2 /\ k \in R
        BY <1>5, <1>6, <3>2, <4>1
      <4>3. g.buffer[SlotOf(g, RankIn(F, k) + 1)] = f.buffer[SlotOf(f, RankIn(F, k))]
        BY <1>8, <4>2
      <4> QED
        BY <1>11, <4>1, <4>2, <4>3
    <3> QED
      BY <1>3, <1>6, <3>1, <3>2
  <2>4. /\ d \in Int /\ d = DistanceOf(sent, n)
    BY <1>2 DEF d
  <2>5. Cardinality(Q) = g.data_cnt /\ g.sum = SumOf(sent, Q)
    <3>1. CASE f.data_cnt < FilterSize
      <4>1. Replaced(f) = 0 /\ g.data_cnt = f.data_cnt + 1
        BY <1>7, <3>1 DEF Replaced
      <4>2. \A k \in F : RankIn(F, k) < FilterSize - 1
        BY <1>5, <1>7, <1>9, <1>11, <3>1
      <4>3. Q = R \cup {n} /\ Q \ {n} = R
        BY <1>10, <4>2
      <4>4. IsFiniteSet(Q) /\ Cardinality(Q) = Cardinality(R) + 1
        BY <1>4, <1>10, <4>3, FS_AddElement
      <4>5. \A k \in Q : DistanceOf(sent, k) \in Int
        BY <1>4, <2>4, <4>3
      <4>6. SumOf(sent, R) \in Int /\ SumOf(sent, Q) = d + SumOf(sent, R)
        <5>1. n \in Q
          BY <4>3
        <5>2. /\ SumOf(sent, Q \ {n}) \in Int
              /\ SumOf(sent, Q) = DistanceOf(sent, n) + SumOf(sent, Q \ {n})
          BY <4>4, <4>5, <5>1, SumAdds
        <5> QED
          BY <2>4, <4>3, <5>2
      <4> QED
        BY <1>7, <1>11, <2>4, <4>1, <4>4, <4>6
    <3>2. CASE f.data_cnt = FilterSize
      <4>1. PICK old \in F : RankIn(F, old) = FilterSize - 1
        BY <1>5, <1>11, <3>2
      <4>2. old \in R /\ Q = (R \ {old}) \cup {n} /\ Q \ {n} = R \ {old}
        BY <1>10, <4>1
      <4>3. Replaced(f) = DistanceOf(sent, old)
        <5>1. Replaced(f) = f.buffer[f.next_index]
          BY <3>2, <1>5 DEF Replaced
        <5> QED
          BY <1>8, <1>11, <4>1, <4>2, <5>1
      <4>4. /\ IsFiniteSet(R \ {old}) /\ Cardinality(R \ {old}) = Cardinality(R) - 1
            /\ n \notin R \ {old}
        BY <1>4, <1>10, <4>2, FS_RemoveElement
      <4>5. IsFiniteSet(Q) /\ Cardinality(Q) = Cardinality(R \ {old}) + 1
        BY <4>2, <4>4, FS_AddElement
      <4>6. (\A k \in R : DistanceOf(sent, k) \in Int)
            /\ (\A k \in Q : DistanceOf(sent, k) \in Int)
        BY <1>4, <2>4, <4>2
      <4>7. /\ SumOf(sent, R \ {old}) \in Int
            /\ SumOf(sent, R) = DistanceOf(sent, old) + SumOf(sent, R \ {old})
        <5>1. IsFiniteSet(R) /\ old \in R
          BY <1>4, <4>2
        <5> QED
          BY <4>6, <5>1, SumAdds
      <4>8. SumOf(sent, Q) = d + SumOf(sent, R \ {old})
        <5>1. n \in Q
          BY <4>2
        <5>2. SumOf(sent, Q) = DistanceOf(sent, n) + SumOf(sent, Q \ {n})
          BY <4>5, <4>6, <5>1, SumAdds
        <5> QED
          BY <2>4, <4>2, <5>2
      <4>9. DistanceOf(sent, old) \in Int
        BY <4>2, <4>6
      <4>10. g.sum = SumOf(sent, Q)
        BY <1>7, <1>11, <2>4, <4>3, <4>7, <4>8, <4>9
      <4>11. Cardinality(Q) = g.data_cnt
        BY <1>5, <1>7, <1>11, <3>2, <4>4, <4>5
      <4> QED
        BY <4>10, <4>11
    <3> QED
      BY <1>5, <1>7, <3>1, <3>2
  <2> QED
    BY <2>1, <2>2, <2>3, <2>5
<1> QED
  BY <1>1, <1>2, <1>12 DEF MeanInv, WindowInv

(* The filtered distance a client is sent is the mean of the last          *)
(* FilterSize measurements, or of all while there are fewer: the running   *)
(* sum never drifts from what the ring holds, however often it wraps.      *)
THEOREM FilterAverages == EchoSpec => []MeanOfLast
<1>1. EchoInit => MeanInv
  <2> SUFFICES ASSUME EchoInit PROVE MeanInv
    OBVIOUS
  <2>1. Falls = {} /\ Recent = {}
    BY DEF EchoInit, Init, Falls, Recent
  <2>2. filter.data_cnt = 0 /\ filter.sum = 0
    BY DEF EchoInit, Filter_Init
  <2>3. Cardinality({}) = 0
    BY FS_EmptySet
  <2> QED
    BY <2>1, <2>2, <2>3, SumOfNone DEF MeanInv, WindowInv
<1>2. RingState /\ RingState' /\ EchoInv /\ EchoTypeOK /\ MeanInv
        /\ [EchoNext /\ ~overrun']_echoVars => MeanInv'
  <2> SUFFICES ASSUME RingState, RingState', EchoInv, EchoTypeOK, MeanInv,
                      [EchoNext]_echoVars
               PROVE  MeanInv'
    OBVIOUS
  <2>1. ASSUME NEW edge \in Items, Ultrasonic_EchoHandler(edge)
        PROVE  MeanInv'
    <3>1. /\ recv' = recv
          /\ Len(recv) \in Nat /\ Len(sent) \in Nat /\ Len(recv) <= Len(sent)
          /\ \A k \in 1 .. Len(sent) : sent'[k] = sent[k]
      BY <2>1, EdgePushed
    <3>2. filter' = filter /\ latest_data' = latest_data
      BY <2>1 DEF Ultrasonic_EchoHandler, dataVars
    <3>3. \A k \in 2 .. Len(recv) :
            k \in 1 .. Len(sent) /\ k - 1 \in 1 .. Len(sent)
      BY <3>1
    <3>4. \A k \in 2 .. Len(recv) : sent'[k] = sent[k] /\ sent'[k - 1] = sent[k - 1]
      BY <3>1, <3>3
    <3>5. Falls' = Falls
      BY <3>1, <3>4 DEF Falls
    <3>6. Recent' = Recent
      BY <3>5 DEF Recent
    <3>7. /\ IsFiniteSet(Recent) /\ Recent \subseteq Falls
          /\ \A k \in Falls : DistanceOf(sent, k) \in Int
      BY FallsFinite
    <3>8. \A k \in Falls : DistanceOf(sent', k) = DistanceOf(sent, k)
      BY <3>4 DEF Falls, DistanceOf
    <3>9. \A k \in Recent : /\ DistanceOf(sent', k) = DistanceOf(sent, k)
                            /\ DistanceOf(sent, k) \in Int
      BY <3>7, <3>8
    <3>10. SumOf(sent', Recent) = SumOf(sent, Recent)
      BY <3>7, <3>9, SumStays
    <3>11. WindowInv'
      BY <3>2, <3>5, <3>6, <3>9 DEF MeanInv, WindowInv
    <3> QED
      BY <3>2, <3>5, <3>6, <3>10, <3>11 DEF MeanInv
  <2>2. CASE ProcessEdge
    <3>1. CASE ~out.pin_state /\ last_rise_time > 0
      BY <2>2, <3>1, MeasureKeepsMean DEF EchoTypeOK
    <3>2. CASE ~(~out.pin_state /\ last_rise_time > 0)
      <4> DEFINE n == Len(recv')
      <4>1. /\ sent' = sent /\ Len(recv) \in Nat /\ n = Len(recv) + 1 /\ out = sent[n]
        BY <2>2, EdgeTaken
      <4>2. ~(n >= 2 /\ ~sent[n].pin_state /\ sent[n - 1].pin_state)
        BY <2>2, <3>2, FallTaken
      <4> HIDE DEF n
      <4>3. 2 .. n = (2 .. Len(recv)) \cup (IF n >= 2 THEN {n} ELSE {})
        BY <4>1
      <4>4. Falls' = Falls
        BY <4>1, <4>2, <4>3 DEF Falls, n
      <4>5. filter' = filter /\ latest_data' = latest_data
        BY <2>2, <3>2 DEF ProcessEdge
      <4>6. Recent' = Recent
        BY <4>4 DEF Recent
      <4> QED
        BY <4>1, <4>4, <4>5, <4>6 DEF MeanInv, WindowInv
    <3> QED
      BY <3>1, <3>2
  <2>3. CASE ~ProcessEdge /\ \A edge \in Items : ~Ultrasonic_EchoHandler(edge)
    <3>1. UNCHANGED <<sent, recv, filter, latest_data>>
      BY <2>3, EdgesUnchanged
    <3>2. Falls' = Falls /\ Recent' = Recent
      BY <3>1 DEF Falls, Recent
    <3> QED
      BY <3>1, <3>2 DEF MeanInv, WindowInv
  <2> QED
    BY <2>1, <2>2, <2>3
<1>3. MeanInv => MeanOfLast
  <2>1. SumOf(sent, Recent) =
          MapThenSumSet(LAMBDA k : Distance(sent[k].time, sent[k - 1].time), Recent)
    BY DEF SumOf
  <2> QED
    BY <2>1 DEF MeanInv, WindowInv, MeanOfLast, Average
<1> QED
  BY <1>1, <1>2, <1>3, EchoRingState, EchoInvHolds, EchoTypeCorrect, PTL DEF EchoSpec
=============================================================================
