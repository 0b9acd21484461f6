----------------------------- MODULE KeyCommand ------------------------------
(***************************************************************************)
(* A command of the digital key from the phone to the doors and back: the  *)
(* chunks of the message (ChunkAssembler), the command handler, its        *)
(* requests over a datagram socket to the realtime process, and the answer *)
(* the phone reads.  One GLib thread runs every BLE callback to its end,   *)
(* waits included, so no other message is written meanwhile.  Each request *)
(* has a socket of its own for its reply and waits 0.3 s for it; a request *)
(* that has timed out stays in the queue of the server.                    *)
(***************************************************************************)
EXTENDS ChunkAssembler, Sequences

CONSTANTS
  Command,   \* the command in a message
  Unknown    \* the messages whose key is not in the key store

ASSUME CommandAssumption ==
  /\ Command \in [Messages -> {"LOCK", "UNLOCK", "START", "GET_ALL"}]
  /\ Unknown \subseteq Messages

VARIABLES
  stage,       \* the request the handler waits for: "none", "action", "status"
  queue,       \* datagrams the realtime process has not yet received
  reply,       \* what has come back on the socket of the request
  door_locked, engine_on,  \* g_shared of the realtime process
  answer,      \* the last command response, if any: success and vehicleState
  ran,         \* history: the command answered last, or in work, was executed
  restarted    \* history: the realtime process restarted since its dispatch

carVars == <<door_locked, engine_on>>
requestVars == <<stage, queue, reply>>
keyVars == <<chunkVars, requestVars, carVars, answer, ran, restarted>>

NoState == [locked |-> None, engineOn |-> None]

KeyInit ==
  /\ ChunkInit
  /\ stage = "none" /\ queue = <<>> /\ reply = None
  /\ door_locked = FALSE /\ engine_on = FALSE
  /\ answer = None
  /\ ran = FALSE /\ restarted = FALSE

Write ==
  /\ PhonesAndWrites
  /\ UNCHANGED <<requestVars, carVars, answer, ran, restarted>>

-----------------------------------------------------------------------------
(* _handle_vehicle_command.                                                *)

Send(command) ==
  queue' = Append(queue, [command |-> command, open |-> TRUE])

(* Mutant: the end of the callback leaves the request behind. *)
RespondInStage(success, state) ==
  /\ Processed
  /\ answer' = [success |-> success, vehicleState |-> state]
  /\ stage' = stage

(* The callback ends with this response. *)
Respond(success, state) ==
  /\ Processed
  /\ answer' = [success |-> success, vehicleState |-> state]
  /\ stage' = "none"

(* The key is unknown, also after a synchronisation with the server; or    *)
(* the realtime process is not there and the datagram cannot be sent.      *)
Refuse ==
  /\ stage = "none" /\ assembled # None
  /\ Respond(FALSE, NoState)
  /\ ran' = FALSE
  /\ UNCHANGED <<queue, reply, carVars, restarted>>

dispatch_ipc_command ==
  /\ stage = "none" /\ assembled # None
  /\ assembled \notin Unknown
  /\ Send(Command[assembled])
  /\ stage' = "action"
  /\ ran' = FALSE /\ restarted' = FALSE
  /\ UNCHANGED <<chunkVars, reply, carVars, answer>>

(* A command other than GET_ALL was executed: its reply says nothing of    *)
(* the car, so the state is asked for.                                     *)
QueryState ==
  /\ stage = "action" /\ reply # None
  /\ reply' = None
  /\ \/ /\ Command[assembled] = "GET_ALL"
        /\ Respond(TRUE, reply)
        /\ UNCHANGED queue
     \/ /\ Command[assembled] # "GET_ALL"
        /\ Send("GET_ALL")
        /\ stage' = "status"
        /\ UNCHANGED <<chunkVars, answer>>
     \/ /\ Command[assembled] # "GET_ALL"
        /\ Respond(TRUE, NoState)
        /\ UNCHANGED queue
  /\ UNCHANGED <<carVars, ran, restarted>>

RespondWithState ==
  /\ stage = "status" /\ reply # None
  /\ reply' = None
  /\ Respond(TRUE, reply)
  /\ UNCHANGED <<queue, carVars, ran, restarted>>

(* The socket is closed, the request is not: a failed command, or a        *)
(* successful one without a state.                                         *)
TimeOut ==
  /\ stage # "none" /\ reply = None
  /\ Respond(stage = "status", NoState)
  /\ queue' = [i \in DOMAIN queue |-> [queue[i] EXCEPT !.open = FALSE]]
  /\ UNCHANGED <<reply, carVars, ran, restarted>>

-----------------------------------------------------------------------------
(* The realtime process.                                                   *)

(* Mutant: one socket for all requests, whose replies are not told apart. *)
ReachesAny(request) == stage # "none"

(* A reply reaches the socket of its request as long as that is open. *)
Reaches(request) == request.open

(* ipc_thread: the next datagram is executed and replied to. *)
ipc_thread ==
  /\ queue # <<>>
  /\ LET request == Head(queue)
         command == request.command
     IN /\ door_locked' = CASE command = "LOCK" -> TRUE
                            [] command = "UNLOCK" -> FALSE
                            [] OTHER -> door_locked
        /\ engine_on' = (engine_on \/ command = "START")
        /\ reply' = IF ~Reaches(request) THEN reply
                    ELSE IF command = "GET_ALL"
                    THEN [locked |-> door_locked, engineOn |-> engine_on]
                    ELSE NoState
        /\ ran' = (ran \/ (request.open /\ stage = "action"))
  /\ queue' = Tail(queue)
  /\ UNCHANGED <<chunkVars, stage, answer, restarted>>

(* A button of the joystick switches the engine. *)
JoystickButton ==
  /\ engine_on' = ~engine_on
  /\ UNCHANGED <<chunkVars, requestVars, door_locked, answer, ran, restarted>>

(* The realtime process dies and starts again with nothing. *)
RestartRealtime ==
  /\ queue' = <<>>
  /\ door_locked' = FALSE /\ engine_on' = FALSE
  /\ restarted' = TRUE
  /\ UNCHANGED <<chunkVars, stage, reply, answer, ran>>

KeyNext ==
  \/ Write \/ Refuse \/ dispatch_ipc_command \/ QueryState \/ RespondWithState
  \/ TimeOut \/ ipc_thread \/ JoystickButton \/ RestartRealtime

KeySpec == KeyInit /\ [][KeyNext]_keyVars

-----------------------------------------------------------------------------

States == [locked : BOOLEAN, engineOn : BOOLEAN] \cup {NoState}

Requests == [command : {"LOCK", "UNLOCK", "START", "GET_ALL"}, open : BOOLEAN]

KeyTypeOK ==
  /\ ChunkTypeOK
  /\ stage \in {"none", "action", "status"} /\ (stage # "none" => assembled # None)
  /\ queue \in Seq(Requests)
  /\ reply \in States \cup {None} /\ (reply # None => stage # "none")
  /\ door_locked \in BOOLEAN /\ engine_on \in BOOLEAN
  /\ answer \in [success : BOOLEAN, vehicleState : States] \cup {None}

(* What the phone is told is so.  A success means that the command has     *)
(* been executed, not only an earlier one that timed out; and the state    *)
(* that comes with it is the state of the doors until the next command is  *)
(* dispatched: none of the commands that timed out is still to come.  Only *)
(* a restart of the realtime process, which forgets the doors, is outside  *)
(* of what the digital key can know.                                       *)
AnswerTruthful ==
  stage = "none" /\ answer # None /\ answer.success =>
    /\ ran
    /\ answer.vehicleState # NoState /\ ~restarted =>
         answer.vehicleState.locked = door_locked

=============================================================================
