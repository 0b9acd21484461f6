----------------------------- MODULE Ultrasonic ------------------------------
(***************************************************************************)
(* The echo of one ultrasonic sensor on the TC375, from the interrupt at   *)
(* each edge of the pin to the SOME/IP handler of method 0x0103; the three *)
(* sensors share nothing but code.  The items of the queue are edges: the  *)
(* level the interrupt handler reads from the pin, which need not alternate *)
(* when an edge follows before the handler looks, and a time stamp, which  *)
(* may repeat because the clock is divided as a float.                     *)
(***************************************************************************)
EXTENDS RingQueue, AvgFilter, FiniteSetsExt

CONSTANT MaxEvents  \* max_events_per_call

ASSUME EdgesAssumption == Items \subseteq [pin_state : BOOLEAN, time : Nat \ {0}]
ASSUME MaxEventsAssumption == MaxEvents \in Nat \ {0}

VARIABLES
  inside,            \* the main loop is inside Ultrasonic_ProcessQueue
  events_processed,
  last_rise_time,    \* 0: none
  filter,
  latest_data,
  data_ready,
  served             \* ult_latest_data of SOMEIP_Service1_Callback

dataVars == <<last_rise_time, filter, latest_data, data_ready>>
echoVars == <<ringVars, inside, events_processed, dataVars, served>>

Nothing == [raw |-> 0, filt |-> 0, received |-> 0]

EchoInit ==
  /\ Init
  /\ inside = FALSE
  /\ events_processed = 0
  /\ last_rise_time = 0
  /\ filter = Filter_Init
  /\ latest_data = Nothing
  /\ data_ready = FALSE
  /\ served = Nothing

(* CALCULATE_DISTANCE: microseconds to millimetres. *)
Distance(fall, rise) == ((fall - rise) * 343) \div 2000

(* The interrupt handler. *)
Ultrasonic_EchoHandler(edge) ==
  /\ sent # <<>> => sent[Len(sent)].time <= edge.time
  /\ Push(edge)
  /\ UNCHANGED <<inside, events_processed, dataVars, served>>

-----------------------------------------------------------------------------
(* Ultrasonic_ProcessQueue, called by the main loop: at most MaxEvents     *)
(* Pops, until one finds the queue empty.                                  *)

EnterCall ==
  /\ ~inside
  /\ inside' = TRUE
  /\ events_processed' = 0
  /\ UNCHANGED <<ringVars, dataVars, served>>

PopBegin ==
  /\ inside /\ events_processed < MaxEvents
  /\ PopLoad
  /\ UNCHANGED <<inside, events_processed, dataVars, served>>

PopTest ==
  /\ PopCheck
  /\ inside' = (pc' = "read")
  /\ UNCHANGED <<events_processed, dataVars, served>>

PopCopy ==
  /\ PopRead
  /\ UNCHANGED <<inside, events_processed, dataVars, served>>

(* Mutant: a falling edge keeps the time of the rising edge. *)
RiseKept(edge) == IF edge.pin_state THEN edge.time ELSE last_rise_time

RiseAfter(edge) == IF edge.pin_state THEN edge.time ELSE 0

(* A falling edge ends a measurement if a rising edge came before it. *)
Measure(edge) ==
  LET dist_raw == Distance(edge.time, last_rise_time)
  IN /\ filter' = Filter_Update(filter, dist_raw)
     /\ latest_data' = [raw |-> dist_raw, filt |-> Average(filter'),
                        received |-> last_rise_time]
     /\ data_ready' = TRUE

ProcessEdge ==
  /\ PopAdvance
  /\ IF ~out.pin_state /\ last_rise_time > 0 THEN Measure(out)
     ELSE UNCHANGED <<filter, latest_data, data_ready>>
  /\ last_rise_time' = RiseAfter(out)
  /\ events_processed' = events_processed + 1
  /\ UNCHANGED <<inside, served>>

LeaveCall ==
  /\ inside /\ pc = "idle" /\ events_processed = MaxEvents
  /\ inside' = FALSE
  /\ UNCHANGED <<ringVars, events_processed, dataVars, served>>

(* A request of a client, handled by the main loop as well: with nothing   *)
(* new, the last answer is sent again.                                     *)
Ultrasonic_GetLatestData ==
  /\ ~inside
  /\ served' = IF data_ready THEN latest_data ELSE served
  /\ data_ready' = FALSE
  /\ UNCHANGED <<ringVars, inside, events_processed, last_rise_time, filter,
                 latest_data>>

Ultrasonic_ProcessQueue ==
  EnterCall \/ PopBegin \/ PopTest \/ PopCopy \/ ProcessEdge \/ LeaveCall

EchoNext ==
  \/ \E edge \in Items : Ultrasonic_EchoHandler(edge)
  \/ Ultrasonic_ProcessQueue
  \/ Ultrasonic_GetLatestData

(* The queue holds 64 edges and is emptied in every round of the main loop: *)
(* it does not overrun.                                                    *)
EchoSpec == EchoInit /\ [][EchoNext /\ ~overrun']_echoVars

-----------------------------------------------------------------------------

Answers == [raw : Nat, filt : Int, received : Nat]

EchoTypeOK ==
  /\ TypeOK
  /\ inside \in BOOLEAN /\ (pc # "idle" => inside)
  /\ events_processed \in 0 .. MaxEvents
  /\ (pc # "idle" => events_processed < MaxEvents)
  /\ last_rise_time \in Nat
  /\ filter \in Filters(Nat)
  /\ {latest_data, served} \subseteq Answers
  /\ data_ready \in BOOLEAN

(* The measurements the main loop has seen: falling edges that the         *)
(* interrupt handler pushed immediately after a rising edge.               *)
Falls == {k \in 2 .. Len(recv) : ~sent[k].pin_state /\ sent[k - 1].pin_state}

(* The published distance is the time between a falling edge and the       *)
(* rising edge next to it, of the newest such pair the main loop has       *)
(* taken, whatever glitches came before, however calls are cut by their    *)
(* budget and however the handler interleaves with them.                   *)
PairsNeighbours ==
  IF Falls = {} THEN latest_data = Nothing
  ELSE \E k \in Falls :
         /\ \A j \in Falls : j <= k
         /\ latest_data.raw = Distance(sent[k].time, sent[k - 1].time)
         /\ latest_data.received = sent[k - 1].time

(* The filtered distance is the mean of the last FilterSize measurements,  *)
(* or of all as long as there are fewer.                                   *)
Recent == {k \in Falls : Cardinality({j \in Falls : j > k}) < FilterSize}

MeanOfLast ==
  Falls # {} =>
    latest_data.filt =
      MapThenSumSet(LAMBDA k : Distance(sent[k].time, sent[k - 1].time), Recent)
        \div Cardinality(Recent)

=============================================================================
