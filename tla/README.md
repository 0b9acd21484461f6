# A TLA+ model of the connected RC car

This directory holds TLA+ specifications of the program in `src/`, the TLC
configurations that check them on small instances, and theorems about them with
proofs that TLAPS checks. All line numbers below are lines of files under `src/`.

## 1. The system

A model car with an emergency brake, driven from a joystick or unlocked and
started by a phone.

```
 phone ──BLE──> digital key (Python) ──┐ UDP/JSON "LOCK","START"…
 joystick RPi ──UDP──> ┌───────────────▼────────────────┐  SOME/IP   ┌──────────────┐
 sensors (RPi) ──────> │ realtime service (C++)         │───UDP────> │ TC375 ECU (C)│──> motors,
                       │ joystick, ipc, sensor, control,│            │ superloop +  │    buzzer,
                       │ comm threads around g_shared   │ <──UDP──── │ interrupts   │    LEDs
 OTA PC ──MQTT──> OTA bridge / UI / service (Python)     │            └──────▲───────┘
                                                                            │ UART, GPIO edges
                                                               ToF sensor, ultrasonic sensors
```

### 1.1 Components

| Component | State it keeps | Operations | Talks to | What makes it correct | Modelled |
|---|---|---|---|---|---|
| Receive queues, `TC375/Libraries/Utils/Queue/*.c` | ring buffer, head, tail | Push (interrupt), Pop (main loop) | ToF and echo interrupt handlers, main loop | nothing lost, repeated or reordered while it does not overflow; an overflow drops the oldest item only | `RingQueue`, `Fifo` |
| ToF receiver, `TC375/BSW/IO/ToF.c` | header time stamps, partial packet, newest distance | RxHandler, ProcessQueue, GetLatestData | ring, SOME/IP method 0x0102 | a distance carries its own arrival time; resynchronisation after a lost byte; never back in time | `ToFReceiver` |
| Ultrasonic receiver, `Ultrasonic.c`, `avg_filter.c` | last rising edge, moving average, newest distance | EchoHandler, ProcessQueue, GetLatestData | ring, method 0x0103 | only neighbouring edges are paired, the average is of the last n distances | `Ultrasonic`, `AvgFilter` |
| ECU actuators: SOME/IP services 2 and 3, emergency alert, buzzer, LED, motors | interval, flag, outputs, last accepted request, cached responses | one handler per method, periodic update, reset | main loop, `comm_thread` | the alert owns its outputs, answers are true, the alert blinks, legal mixing | `EcuActuators` |
| Realtime service, `vc_software/apps/realtime` | `g_shared`; door and chirp state; last output sent | one per thread: joystick, IPC, sensor, control, comm; restart | all of the above | every change of output is sent, emergency brake goes first | `Realtime`, driving mode |
| Control path | the two above and the requests between them | losses, restarts of either end | – | what was sent is what the ECU does; the brake always arrives | `ControlPath` |
| Automatic parking, `control_thread.cpp` 72-298, 396-411 | parking state machine, 3 sensor ages | updateSensors, processStateTransition, computeOutputs | control thread | – | no: nothing sets mode `Auto`, the code is unreachable |
| SOME/IP service 1 and service discovery | cached distances, offer/suback | handlers | clients | cached answers | methods 0x0102 and 0x0103 only |
| lwIP port, `Ifx_Lwip.c` 245-358 | timer flags, counters | onTimerTick (interrupt), pollTimerFlags, pollReceiveFlags | main loop | no timer starves or is lost | one packet per poll only |
| OTA pipeline: publisher, terminal UI, bridge, `ota/publisher`, `vc_software/apps/ui`, `apps/ota/ota_bridge.py` | ack event, pending notification, newest notification, processed versions | notify, decide, acknowledge, forward | MQTT broker, OTA service | only approved updates are installed; the user is asked until he approves | `OtaPipeline`, `OtaInstall` |
| OTA service, `apps/ota/ota_service.py`, `utils.py` | downloaded file, program, backup, `versions.json` | on_message, apply_ota | bridge over MQTT, disk, systemd | a whole program survives every crash; the record names it | `OtaApply`, `OtaInstall` |
| Digital key: BLE service, chunks, commands, `vehicle_ble.py`, `chunks.py`, `command_handler.py`, `ipc_client.py` | the chunks of one message, the last response | command characteristic, send_cmd | phones, IPC thread | a command is one a phone wrote, is run once, and its answer is true | `ChunkAssembler`, `KeyCommand` |
| Digital key: pairing, PIN, key store, `pairing.py`, `key_store.py` | PIN session, session keys, two files, pollers | challenge, handshake, key storage, synchronisation, PKI commands, poll | BLE thread, poller threads, key server | every key has an origin; a session ends; what was acknowledged is kept; a paired car stays closed | `Pairing` |
| Joystick controller, `joystick_rasp` | last position sent | send on change | realtime service | the resting stick is sent in the end | its packets are `JoystickMotor`, `JoystickButton` |
| UDS dashboard, TC375 drivers and start-up, test client, multicast proxy | – | – | – | – | no: I/O without control logic |
| Vendored lwIP and PHY code, scripts, old copies (`reference_1stpj*`) | – | – | – | – | no: third-party or not built |

### 1.2 Behaviours that are hard

* **Interrupts against the main loop.** The UART and echo interrupts push into a
  ring while the main loop pops, without disabling interrupts and with
  non-volatile indices; the ToF time-stamp array is indexed by the ring's own
  indices.
* **Threads around `g_shared`.** The control thread holds the mutex twice in a
  cycle and works on a copy in between; the comm thread compares with what it
  sent last and sends the difference.
* **State kept at both ends of an unreliable link.** The realtime service
  remembers what it *sent* (`preOut`), never what the ECU did; requests are UDP
  datagrams, no lost one is sent again, and a restart of either end goes unnoticed
  by the other.
* **Two masters for one output.** Rear LED and buzzer belong to clients and to
  the emergency alert, which blocks the former for as long as its interval says.
* **Threads around a PIN session.** The BLE thread starts and stops one poller
  thread per session; stopping is four steps without a lock, waits 1.5 s at most,
  and may be done by either thread.
* **Several phones, one buffer.** Chunks of different phones, repeated chunks and
  retries of a message meet in one assembler.
* **A request that timed out is still in the queue.** The digital key reports a
  command as failed after 0.3 s; the realtime process may run it later.
* **A conversation over a broker.** Publisher, terminal UI, bridge and OTA service
  each keep their own idea of which update is being talked about; messages to
  different subscribers overtake each other, get lost and come twice.
* **A crash in the middle of a write.** `apply_ota` moves files one after the
  other, and nothing takes an interrupted update up again; the digital key
  overwrites its files in place.
* **Cached answers.** Static response data is refreshed only when a setter
  reports a change.

`PROJECT.json` lists every hazard with the line at which it bites and the
properties that would show it; those with no property have the reason.

## 2. Modules

```
Fifo <──refines── RingQueue <──EXTENDS── ToFReceiver <── ToFReceiverProofs,
                   ▲     ▲                               MCToFReceiver
     RingQueueProofs     └──EXTENDS── Ultrasonic ──EXTENDS──> AvgFilter
     MCRingQueue                          ▲
                                   UltrasonicProofs, MCUltrasonic

EcuActuators <──EXTENDS── ControlPath ──EXTENDS──> Realtime
     ▲                         ▲
 MCEcuActuators            ControlPathProofs (its part 1 is about EcuActuators),
                           MCControlPath

ChunkAssembler <──EXTENDS── KeyCommand <── KeyCommandProofs, MCKeyCommand

Pairing <── PairingProofs, MCPairing

OtaInstall <──refines── OtaApply <── OtaApplyProofs, MCOtaApply
    ▲
    └──INSTANCE── OtaPipeline <── OtaPipelineProofs, MCOtaPipeline
```

### `Fifo`, `RingQueue` — `byte_queue.c`, `eru_event_queue.c`

The two C files hold the same code for two item types. `Push` runs in an
interrupt handler and is one step. `Pop` is four: load head, compare with tail,
read the slot, advance. head is not volatile, so `PopAdvance` may use the loaded
copy or load it again (`ByteQueue_Pop` stores through a byte pointer in between,
which may alias; `EruEventQueue_Pop` may not), and the model allows both.
`SizedSpec` is the specification of a queue that is never lapped: `Cpu0_Init.c`
22-27 sizes the ToF buffer and budget for that ("덮어쓰기 안되도록 조절").
`Fifo` is the abstract promise: a bounded buffer with `Put` and `Take`. The
refinement maps the slots between head and tail to its queue, so a `Push` is a
`Put`, the last step of `Pop` is a `Take`, and everything else stutters.

### `ToFReceiver` — `ToF.c`

`EXTENDS RingQueue`; the items are bytes. A byte is its frame and its position
there, with a bit that says whether its value is the header's: what the parser can tell
apart. The UART interrupt stamps the slot a header byte will occupy, then
pushes. `ToF_ProcessQueue` is `PopByte` followed by `WaitForHeader`,
`StartPacket`/`ReadStamp` or `CollectByte`; the time stamp is read in a separate
step because the interrupt may write it meanwhile. The 8-bit checksum is taken
to reject every packet that is not one whole frame, an idealisation (1 in 256
misaligned packets would pass). The sensor may be in the middle of a frame when
the board starts, and one byte may be lost on the line.

### `Ultrasonic`, `AvgFilter` — `Ultrasonic.c`, `avg_filter.c`

One sensor, from the edge to the client. The items of the ring are edges: the
level the handler read from the pin and a time stamp. Levels need not alternate,
since a second edge may come before the handler looks; stamps never decrease but
may repeat, since the clock is a `float`. `Ultrasonic_ProcessQueue` is `EnterCall`,
up to `MaxEvents` times `PopBegin`, `PopTest`, `PopCopy` and `ProcessEdge`, and
`LeaveCall`; the interrupt may come between any two. The filter is the C ring
with its running sum. Method 0x0103 is `Ultrasonic_GetLatestData`, with the
answer of before when nothing is new.

### `EcuActuators` — `someip.c` 163-370, `emer_alert.c`, `Buzzer.c`, `LED.c`, `motor_controller.c`

The superloop (`Cpu0_Main.c` 15-42) polls for *one* packet and then calls
`EmerAlert_Update_Periodic`; `phase` alternates between the two. There is one
action per SOME/IP method, containing the handler, the setter it calls, the
cached response data and the reply. `NoRequest` is a round without a packet or
with one the handlers drop, `Reset` a reset of the board. The motor mixing is C's
truncating integer arithmetic. Two saturating counters stand for the millisecond
clock, of which the code only uses differences.

The handlers of services 2 and 3 check the datagram against the 16-byte header
only, so a request of 16 to 23 bytes reads bytes that an earlier packet left in
`rxBuf` (someip.c 207, 338). Such a request acts like one with arbitrary
arguments, which the enumeration of arguments covers; a side byte that names no
LED is one of them. It switches nothing, and its answer is read from outside of
`isOn` (someip.c 257), so any answer is possible there, and `AnswerHolds` says
nothing of it.

### `Realtime` — `vc_software/apps/realtime`

`g_shared` with the actions of each thread: `JoystickMotor`, `JoystickButton`
(joystick thread), `IpcCommand` (IPC thread), `SensorSample`, `snapshotInputs`
and `publishOutput` (control thread), `comm_thread`; and `RtRestart`, a restart of
the process. `computeOutput` is driving with the emergency brake and the high
beam, and the two-tone chirp that acknowledges a door (un)lock. `comm_thread`
sends a burst of requests, one for each part of the output that changed, in the
code's order, and nothing while the engine is off.

The repository does not build as it stands: `comm_thread.cpp` reads
`interval_ms`, which `shared.h` calls `alert_interval_ms` (the model takes them
for the same field), and `main.cpp` and the sensor thread use fields that
`shared.h` lacks. `VSomeIPManager`, which turns requests into datagrams, is not
in the repository either; how it turns throttle and steering into the two stick
bytes of the ECU's protocol is the parameter `Stick`, of which `StickAssumption`
asks that it stays in the protocol's range, never gives (0, 0), which the ECU
refuses after a start, and centres the stick for standstill. No code writes
`g_shared.mode`, so the mode is always driving assistance.

### `ControlPath`

`EXTENDS Realtime` and `EcuActuators`. `net` is a FIFO of requests
(one Ethernet link keeps their order) from which `LoseRequest` may drop the
oldest. `EcuRestart` loses what is on its way and puts the ECU back to its initial
state while `preOut` stays; `RealtimeRestart` does the reverse. `Act` is everything
outside, the driver, the key and the sensors, bounded by `MaxChanges`. Two history
variables say where the ends may differ: `lost`, the kinds of request ever lost
(all of them after a restart), and `stale`, those of which none has arrived since.

### `ChunkAssembler`, `KeyCommand` — `chunks.py`, `vehicle_ble.py`, `command_handler.py`, `ipc_client.py`

A chunk is abstracted to the message and the *sending* it was cut from: phones
send a message again after a failure, with the same contents but from the start.
`WriteChunk` and `WriteWhole` are the write of the command characteristic, with
`ingest`; a phone may repeat a chunk, give up, or start over, and `Expire` is the
15 s life of a partial message. `KeyCommand` extends it with the command handler,
its two requests (`dispatch_ipc_command`, then `QueryState`) over one datagram
socket each, the 0.3 s time-out, after which the request stays in the server's
queue, and the realtime process, which executes requests one by one, whose doors
nobody else moves and which may restart. A BLE callback runs to its end, so
nothing is written while `assembled` holds a message.

### `Pairing` — `pairing.py`, `key_store.py`

The BLE thread (`at["ble"]`) and one poller per session (`at[s]`), each a sequence
of steps: one for each access to what the other also uses. `_stop_pin_status_poller`
is `StopSet`, `StopJoin`, `StopForget` and `StopFresh`, run by whoever calls it;
the event it sets may be replaced while a poller waits on it, so a waiting poller
is "wait", "told" or "deaf". `PollCheck`, `PollExpired`, `PollAsk`,
`handle_pin_status_update`, `handle_pin_verified` and `handle_pin_terminal` are the
poller; `build_challenge`, `handle_pairing_handshake`, `handle_pairing_key_storage`
and `SyncOnMiss` begin the callbacks. The server hands out sessions and statuses;
`Restart` recovers from the two files what the program recovers. Cryptography is
abstract: a session key is absent, derived or signed.

The commands of the PKI protocol write the same session keys and the same files, from
the same BLE thread, and are modelled as far as they do: `seed_pki_session` (the
phone sends a session key), `begin_pki_handshake` (the entry of a session is looked up
and put back, and becomes the exported one), `store_pki_certificate` and
`handle_pki_command` (which register a key and may recover a session). `InstallKey`
and `ExportState` follow. `recover_pki_session` takes its token and nonce from the
latest entry, from `_cached_pki_payload` or from the PIN session. The latter two are
left out as sources, because there is a latest entry wherever they have something: the
payload is cleared when that entry is, and a PIN session gets its vehicle nonce along
with a key (352, 1294) and is replaced when that entry is cleared.
Seeding and recovery do not ask for a PIN.

`ExportTo` and `FlushFails` are the writes that fail: the error of an export, of the
removal of the flag and of a registered key is passed over, and the file is left as it
was or cut short. `Expiring` are the sessions whose `expires_at` is a number of
milliseconds; only those expire locally.

Two histories record what the properties exclude, by name. `mishaps`: a stop that gave
up waiting ("late"), a verified PIN without a usable public key ("unusable"), a
result for another session than the active one ("stray"). `losses`: a file not
written ("unwritten"), one cut short by a crash (the session's: "torn", the keys':
"lost"), and one that lacks what a restart needs because a PKI command brought the
session ("incomplete"). A late stop is not rare: a request to the server may take 5 s,
and the stop waits 1.5 s.

### `OtaInstall`, `OtaApply` — `ota_service.py`, `utils.py`

`OtaInstall` is the promise: a whole program is in the car, and it only ever
changes, in one step, to the update being worked on. `OtaApply` is `on_message`
and `apply_ota` call by call, for one program: what is in the inbox, at the
program's place and in the backup directory, and the record in `versions.json`.
`Die` is a crash or an exception between any two calls. A download may be
another file than the checksum names. The refinement takes the backup for the
program while its place is empty: that is the file a person would put back,
since the code itself resumes nothing. Every update is taken to carry a checksum
(`send_ota.py` computes it); `verify_checksum` would let an update without one pass.

### `OtaPipeline` — `ota_publisher.py`, `terminal_ui.py`, `ota_bridge.py`

One queue per subscriber at the broker, and `OtaInstall` as the OTA service at
its end. `Publish` notifies UI and bridge; `handle_ack` ends a publisher's run;
`publish_decision`, `publish_ack` and `ClearPending` are the UI's main thread, with
`UiReceive`, MQTT's thread, in between; `BridgeReceive` is the bridge. There is one
publisher run per update; two runs at a time are possible, since nothing
prevents them. `faults` counts lost or repeated messages, restarts and failed
updates.

## 3. Runs

| Run | Configuration | Question | Bounds |
|---|---|---|---|
| `ring_overrun` | `MCRingOverrun.cfg` | Does an overflow in the middle of a `Pop` cost one item? **No** (finding 1) | 4 slots, 2 items, 8 pushes: two full turns of both indices |
| `tof` | `MCToFReceiver.cfg` | Do packets keep their own stamps, does the parser resynchronise, does an old frame ever follow a newer one? | 2-byte packets (header, checksum), 5 slots, 5 frames, 1 lost byte: the ring holds two whole packets, without which an old frame could never be read after a newer byte, and is lapped in some behaviours; one frame can be damaged and the next sacrificed, the rest must arrive |
| `echo` | `MCUltrasonic.cfg` | Is the queue a FIFO under every interleaving with the interrupt, and are the distances those of neighbouring edges? | 3 places, 7 edges at 3 times: three measurements, so the filter over 2 wraps; a budget of 2 edges cuts measurements |
| `ecu` | `MCEcuActuators.cfg` | Any order of requests from any clients, and resets: who owns the outputs, do answers stay true, does the alert blink? | intervals 1 and 2 ms, one legal and one illegal frequency, 7 stick positions on both sides of the deadzone, at the limits and out of range |
| `control_safety` | `MCControlSafety.cfg` | Does the ECU do what the comm thread believes it does? | 4 outside changes, one lossy kind of request or any number of restarts of either end: obstacle appears, driver steers, door chirps, engine stops and restarts |
| `control_live` | `MCControlLive.cfg` | Does a lasting obstacle stop the car, does a lasting free road give it back? | 4 changes, no loss, no restart |
| `engine_off` | `MCEngineOff.cfg` | Does switching the engine off stop the wheels? **No** (finding 2) | same |
| `key_command` | `MCKeyCommand.cfg` | Are messages whole, run once, and answered truly? | 2 phones; one sends two 2-chunk messages under one id, each twice, the other a 2-chunk message with an unknown key and an unchunked query; any number of repeated chunks, time-outs and restarts: up to five commands meet |
| `pairing` | `MCPairing.cfg` | Where does a session key come from, is a pending session watched, does it end, does an acknowledged handshake last, does pairing stay closed? | 2 sessions, one with an expiry time, so that the poller of one meets the beginning of the other; 1 key; at most one thing out of the ordinary (below); any number of restarts |
| `ota` | `MCOtaPipeline.cfg` | Is only what was approved installed, is the user asked until he approves, does an approved update arrive? | two updates with different versions and a publisher each, one of them asking for confirmation; one message per queue, enough for every queue to hold something older than the reader's state; one fault of any kind |
| `ota_ack` | `OtaAck.cfg` | Does a publisher that was told "approved" have its own approval? **No** (finding 3) | same, no fault |
| `ota_apply` | `MCOtaApply.cfg` | What is on disk when the service dies between any two calls? | two updates, any number of crashes and updates |

`MaxNet` = 6 is the longest burst; a comm cycle waits in the model while its burst
does not fit behind what is still under way. The two samples are an obstacle
closer than the braking distance of full speed and a free road in the dark; the
one stick position is full throttle (the initial position is full reverse).
`MCStick` is the inverse of `map_joy`.

`Ordinary` is the constraint of run `pairing`: one mishap, loss or session key brought
by a PKI command in a behaviour. With one such thing in it, a key store that
already held something, or a second session after a loss, adds only states that
differ in what none of the steps then taken reads. The theorems (section 4) hold
without this constraint.

`EchoSpec` excludes an overrun of the echo queue, whose 64 places are emptied in
every round of the main loop; `ring_overrun` shows what would happen otherwise.

Deadlock is checked in every run but `tof`, where the sensor stops after
`MaxFrames` frames while the reader polls an empty ring, and `ota` and `ota_ack`,
where all publishers may have ended: a system at rest in both cases.

Each property has a mutant of the code in the module (an operator with `Mutant:` in
its comment) under which TLC finds it violated.

### What the properties say

* `RefinesFifo`, `RingInv`: without an overrun the main loop reads exactly what
  the interrupt wrote, in order.
* `StampIsHeaderArrival`: the stamp found behind head, after the interrupt was
  free to write more, is that of the packet's own header byte.
  `ResyncWithinOneFrame`, `AlignedStaysAligned`: what a lost byte costs at most,
  and that nothing is lost otherwise, whatever the payload looks like.
  `FramesAdvance`: holds even when overruns hand out bytes twice.
* `PairsNeighbours`: the published distance is that of the newest falling edge
  pushed right after a rising one, whatever repeats, glitches and cut calls came
  before. `MeanOfLast`: the ring with a running sum is the mean of the last n.
* `AlertInv`: while the alert's flag is set the rear LED and the buzzer are its
  own. `AnswerHolds`: what a buzzer or LED response says is not undone by the
  alert's periodic update. `MotorAnswerTruthful`: the cached answer describes the
  motors. `MotorMixing`: the deadzone stops the car, a turn turns the right way.
  `AlertBlinks`: under a lasting blinking alert the outputs keep changing.
* `SentIsDone`: with the link empty, the ECU's outputs are those the comm thread
  has recorded as sent. A lost request or a restart makes an actuator wrong, but
  only until the next request of its kind arrives, with one exception: rear LED
  and buzzer after a lost alert request or a restart. There a "buzzer on" (below)
  can take effect and leave the buzzer on for good.
* `BuzzerOnlyInAlert`: the buzzer request carries the *old* on/off state
  (comm_thread.cpp 30), so a "buzzer on" leaves at the very moment the alarm
  ends. It has no effect only because it arrives while the alert still blocks
  it: the order of the burst is what this property rests on. For the same
  reason the chirp's 350 and 900 Hz are never heard: the ECU's alert, which each
  chirp requests too, sounds 500 Hz and blocks the buzzer request.
* `AebReachesEcu`, `AlarmEnds`, `DriverRegainsControl`: the emergency brake, its
  end, and the way back to the driver, end to end.
* `WholeMessages`: all chunks of a message that is handed on come from one
  sending. It rests on index 0 starting over, which the code does whatever it
  holds, and on phones choosing different ids (`IdAssumption`): a chunk
  without one gets the id "default" (chunks.py), so at most one phone may leave it out.
  `OncePerSending`: a last chunk written twice does not run its command twice.
* `AnswerTruthful`: a success means this command was executed, and the doors it
  reports are the doors until the next command is dispatched, although commands
  reported as failed may still be waiting in front of it. They cannot come
  *after* it because the realtime process serves one queue.
* `KeyHasOrigin`: whichever thread was in the middle of what, a session has a key
  only if the server saw its PIN or a PKI command brought or recovered it, and
  recovery never makes a first key. It does *not* say that a key needs a PIN:
  see section 3, findings.
* `ActiveIsWatched`: between callbacks a session that waits for its PIN has a live
  poller that nobody has told to stop. `ActiveEnds`: no session with an expiry time
  waits for ever. Both hold as long as no mishap happened: a poller that outlives a
  "late" stop forgets its successor's thread, and an "unusable" answer leaves the
  session active for good. Of sessions without an expiry time `ActiveEnds` says
  nothing: if the server never ends one, it is polled for ever.
* `AcknowledgedSurvives`: what the phone was told of its handshake survives pollers,
  PKI commands and crashes, as long as files are written whole, and until another
  key is installed or exported. There is one file, so a handshake for a session
  whose key is not the exported one is lost with the next restart.
* `PairingStaysClosed`: a car that has stored a key does not open to other phones by
  itself, although the server's list replaces all keys, a failing write leaves
  memory ahead of the file, and a restart reads the file. "Key stored" is answered
  after that list came in and does not mean that the key is in it.
* `InstalledWasApproved`: although the bridge takes the update from its newest
  notification and the UI from its own. `AskedAgain`: although the UI throws away
  a prompt that came in while it published an answer, and whatever is lost.
  `ApprovedIsInstalled`: a lone publisher's update, approved, is installed if
  nothing fails; with two publishers, or a fault after the acknowledgement, it
  may not be, and nothing tells the publisher.
* `ProgramSurvives`, `RefinesInstall`: what is on disk when `apply_ota` is cut
  short. `RecordedIsInstalled`: the record agrees with the file, also when the
  restart of the program fails.

### Fairness

The control and comm threads are loops with a 20 ms sleep, and the ECU's main
loop never blocks: weak fairness of `Control`, `Send`, `EcuReceive` and
`EcuUpdate`. In `EcuActuators`, weak fairness of `Receive` (which includes the
round without a packet), the update and `Tick`, since time passes. Nothing is
assumed of the driver, the key, the sensors or the interrupts. The liveness
properties of the control path assume that no request is lost and no end
restarts, because the program does not repeat one; run `control_live` therefore
has `MaxLost` = 0 and `Restarts` FALSE.

In `Pairing`, weak fairness of a callback that has begun and of each poller, which
are threads; and strong fairness of `PollExpired` for the sessions in `Expiring`,
whose expiry time the code compares with the clock again and again (pairing.py
1194-1204) until it has passed. The code justifies no such assumption for a session
without one, and none is made. The
server need not answer and the user need not do anything.

In `OtaPipeline`, weak fairness of every loop: MQTT's threads, the rest of
`publish_decision` once it has begun, the bridge, the service. A waiting publisher
publishes when its interval is over, whoever else does: strong fairness, since in
the model (not in the broker) the bound on the queues may disable it for a
moment. Nothing is assumed of the operator or of the user's answer.

### Findings

1. **A Pop can empty an overflowing queue** (byte_queue.c 37, eru_event_queue.c
   37). `Pop` computes `head + 1` from its copy; two `Push` calls that overflow in
   between move head themselves, and the stale store puts head back onto tail:
   the queue is empty instead of one item shorter. The comment (byte_queue.c 25)
   says an overflow drops the oldest item, and the ultrasonic queue is allowed to
   overflow (`Cpu0_Init.c` 27).
2. **Switching the engine off leaves the wheels turning** (comm_thread.cpp 26).
   The comm thread sends nothing while the engine is off, so the zero throttle
   the control thread then publishes never leaves. A restart of the realtime
   process has the same effect: it starts with the engine off.
3. **An approval stops the wrong publisher** (ota_publisher.py 107-112). The
   acknowledgement names its version, but `handle_ack` does not look at it: of two
   publishers for one car, or one started while an older prompt is still
   pending, the one whose update was not approved stops as well and does not ask
   again, although it promises to repeat until its approval (ota_publisher.py 202).

Seen in the models and left as notes, since no document says otherwise:

* "Alert off" is answered with "on" after a start (someip.c 325): the cached
  response is refreshed only when the interval changes, and its initial 0 means
  *on* (emer_alert.c 68) while the initial interval means off.
* A lost alert request, or a restart of either end, can leave the buzzer on until
  the next alarm (`SentIsDone` and `BuzzerOnlyInAlert` exclude it by `lost`).
* A verified PIN without a usable public key ends the poller and leaves the
  session active; a late result for another session stops the current poller
  (pairing.py 348-363, 1252).
* The phone's "session_seed" command, and a recovery after it, install and export a
  session key without a PIN (pairing.py 774-992), although the docstring of
  `PkiSessionState` calls it "derived after PIN validation" (pki.py 46).
  `KeyHasOrigin` is what does hold.
* An export that fails is passed over in silence (pairing.py 1088): the handshake is
  acknowledged and is gone after a restart.
* A restart while the key file is written leaves a car without keys (key_store.py
  68-72), until the server's list arrives.
* If the echo queue overflows, edges of different measurements may be paired.

## 4. Proofs

All theorems hold for every value of the constants that the named assumptions
allow. Those are: a ring capacity and a budget of at least 1, and a blank that is
no item; packets of at least 2 bytes, and bytes with a frame of at least 1 and a
position inside the packet; filter sizes of 1 to 16 (the C limit), and edges with a
time stamp of at least 1; intervals positive and at most the
horizon; updates none of which is the original program or a damaged file;
`StickAssumption`, and joystick and sensor values of the right type
(`Realtime`'s assumptions); phones with ids of their own; and `None` being no
message, session, stored session, content of the key file or update; and no session
being called "ble".

| Theorem | Statement |
|---|---|
| `RingQueueProofs!TypeCorrect` | `Spec => []TypeOK`: no index leaves the buffer, whatever interrupts `Pop` |
| `RingQueueProofs!RingCorrect` | `Spec => []RingInv`: without an overrun everything is delivered, in order |
| `RingQueueProofs!RingImplementsFifo` | `SizedSpec => RefinesFifo` |
| `RingQueueProofs!OnlyPushedItems` | `Spec => [](\A i \in 1 .. Len(recv) : recv[i] \in Items)`: overrun or not, the main loop gets no item that was never pushed |
| `ToFReceiverProofs!ToFTypeCorrect` | `ToFSpec => []ToFTypeOK`: the packet never outgrows its buffer, stamps are read inside theirs |
| `ToFReceiverProofs!ToFFramesAdvance` | `ToFSpec => FramesAdvance`, overruns included |
| `ToFReceiverProofs!ToFStampsHeaders` | `ToFSpec => []StampIsHeaderArrival` |
| `ToFReceiverProofs!ToFResynchronises` | `ToFSpec => []ResyncWithinOneFrame`, for any number of losses |
| `ToFReceiverProofs!ToFStaysAligned` | `ToFSpec => []AlignedStaysAligned` |
| `UltrasonicProofs!EchoQueueCorrect` | `EchoSpec => []RingInv /\ RefinesFifo` |
| `UltrasonicProofs!EchoTypeCorrect` | `EchoSpec => []EchoTypeOK` |
| `UltrasonicProofs!NeighboursPaired` | `EchoSpec => []PairsNeighbours` |
| `UltrasonicProofs!FilterAverages` | `EchoSpec => []MeanOfLast` |
| `ControlPathProofs!EcuTypeCorrect` | `EcuSpec => []EcuTypeOK`: motor speeds stay within ±100, frequencies in the legal range |
| `ControlPathProofs!AlertCorrect` | `EcuSpec => []AlertInv` |
| `ControlPathProofs!MotorAnswerCorrect` | `EcuSpec => []MotorAnswerTruthful` |
| `ControlPathProofs!AnswerCorrect` | `EcuSpec => []AnswerHolds` |
| `ControlPathProofs!MixingCorrect` | `EcuSpec => []MotorMixing`, for every stick position a request can carry |
| `ControlPathProofs!PathTypes` | `Spec => []TypeOK`: both ends and the network between them |
| `ControlPathProofs!SentDone` | `Spec => []SentIsDone`, for any losses and restarts |
| `ControlPathProofs!BuzzerUnderAlert` | `Spec => []BuzzerOnlyInAlert` |
| `KeyCommandProofs!ChunkTypeCorrect` | `ChunkSpec => []ChunkTypeOK` |
| `KeyCommandProofs!MessagesWhole` | `ChunkSpec => []WholeMessages` |
| `KeyCommandProofs!SentOnce` | `ChunkSpec => OncePerSending` |
| `KeyCommandProofs!KeyMessagesWhole` | `KeySpec => []WholeMessages /\ OncePerSending`: both carried to the composition |
| `KeyCommandProofs!KeyTypeCorrect` | `KeySpec => []KeyTypeOK` |
| `KeyCommandProofs!AnswersTruthful` | `KeySpec => []AnswerTruthful` |
| `PairingProofs!PairingTypeCorrect` | `Spec => []TypeOK` |
| `PairingProofs!KeysHaveOrigin` | `Spec => []KeyHasOrigin` |
| `PairingProofs!StaysClosed` | `Spec => []PairingStaysClosed` |
| `PairingProofs!AlwaysWatched` | `Spec => []ActiveIsWatched` |
| `PairingProofs!AcknowledgedKept` | `Spec => []AcknowledgedSurvives` |
| `OtaApplyProofs!TypeCorrect` | `Spec => []TypeOK` |
| `OtaApplyProofs!SurvivalCorrect` | `Spec => []ProgramSurvives` |
| `OtaApplyProofs!RecordedCorrect` | `Spec => []RecordedIsInstalled` |
| `OtaApplyProofs!ApplyImplementsInstall` | `Spec => RefinesInstall` |
| `OtaPipelineProofs!TypeCorrect` | `Spec => []TypeOK` |
| `OtaPipelineProofs!ApprovalCorrect` | `Spec => []InstalledWasApproved`, for any number of faults |

*The ring.* `DeliveredInOrder` is not inductive: it says nothing of what is still
in the buffer. `RingInv` adds `BufferHoldsRest` (slot head + i holds item
Len(recv) + i + 1) and `PopCopyCurrent` (without an overrun only `Pop` writes head,
so its copy is current and what it has read is still there). The arithmetic of the
circular buffer is in `AfterIsNext`, which frees the rest from `%`, and
`CountBounds`. The refinement follows from the two invariants: `Contents` is the
part of `sent` behind `recv`, so one item more or one less in it is an
`Append` or a `Tail`.

*The ring, overrun.* An overflow makes `RingInv` void, so what an overrun may still
not do rests on `NumberInv`, which holds always: every slot that was ever written
holds the item whose number its distance from tail gives, and the copy of head in
`Pop` is current or the queue is full. Hence nothing unwritten is ever handed out.

*The ToF receiver.* `StreamInv` says how the bytes on the wire follow one another
(`Follows`: between two neighbours only bytes of damaged frames are missing).
`FramesAdvance` has to hold with overruns: `NothingOlder` (nothing that can still be
popped or parsed is of an older frame than the one published) is preserved because
the last byte of a packet is less than a ring's length behind the oldest one in the
queue (`Near`), so what a lapped `Pop` reads is newer. Without an overrun,
`PacketInv` says that the packet is the last bytes parsed. `StampInv` carries the
time stamps: every header byte in the queue has its stamp in its own slot, and so
has the one that was popped last, in the slot behind head; the interrupt handler
cannot write that slot, since the ring keeps one place free. Resynchronisation is
about the byte that comes next (`Coming`), wherever it is: the packet is `Aligned`
if it is the part of that byte's frame before it. `SyncInv` says that in a clean
frame the packet is empty, too long for its place in the frame, or aligned, and
aligned if the frame before was clean as well; `AlignedInv` is the same for a line
without losses.

*The echo.* Every step of `EchoSpec` is a step of `SizedSpec`, so the ring's theorems
carry over. The pairing then needs only `LastIsRise` (`last_rise_time` is the time of
the last edge taken if that was a rising one, and 0 otherwise), and `TimesOrdered`
for the sign of distances; `RingInv` says that the edge popped is the next of `sent`.

*The filter.* `MeanOfLast` is about a sum over a set, which is defined by recursion.
Its laws (`SumAdds`, `SumStays`: what one element contributes, whatever the order
of choice) are proved by induction on the cardinality, written with a set instead
of a predicate (`SetInduction`, from the well-foundedness of `<`). `WindowInv` then
relates ring and history: a measurement with i newer ones is in the slot i places
behind the newest (`SlotOf`), and there is one for each i below `data_cnt`. So the
value that a full ring overwrites is the one that leaves the last `FilterSize`
(`WindowMoves`), and `sum` stays their sum. TLC checked `MeanInv` first.

*The alert.* `AlertOwnsOutputs` alone is not inductive: with the flag set and the
interval negative, a buzzer request would be carried out under the alert. It is
`AlertFollowsInterval`, which holds before each packet because the update runs
between any two packets, that excludes that state; conversely, that
the flag is cleared needs nothing else. `AnswerHolds` is strengthened to
`AnswerPending`, which also covers the moment between the request and the update:
if the flag is still set there, a negative interval was only just asked for, and
the last reply is the alert's own.

*The mixing.* The quotients make it nonlinear; `QuotSign`, `SteerSign` and `DriveSign`
give the sign of each axis by itself, after which only sums and the clamp remain.

*The control path.* `PathInv` describes the requests on their way. For `SentIsDone`:
the last request of each kind on the network says what `preOut` says (`LastSays`),
and where there is none and none was lost, the ECU already does it (`Settled`).
A burst keeps this because it contains a request for every field that changed
(`BurstSays`). For the buzzer: a "buzzer on" under way arrives with an alert in
force, and a "rear LED on" with one in force or right before the one that starts
it (`Covered`), which comes from the order of requests within a burst
(`BurstOrder`). `EcuSound` is the part of the ECU's invariant needed here, proved
again for requests from the network. `PathTypes` uses the lemmas about what each
handler keeps that part 1 proves for the ECU alone.

*The chunks.* `WholeMessages` needs to know of the chunks held that they are of one
sending of the phone that owns their id, and that this phone is not yet past it
(`WholeInv`). `OncePerSending` needs that a phone has written no chunk at or beyond
its next one, and that what was handed on is not also held (`OnceInv`).

*The command.* `OpenIsLast`: a request whose socket is open is the last in the queue,
so when its reply comes (`ReplyIsFresh`) no older command is left behind it.

*The pairing.* `PairInv` is what holds whatever goes wrong. A poller derives a key only
after the server's "verified" for its own session (`AnswerSound`); the running
callback has a session the server knows, where a callback needs one (`TaskSound`);
the exported session has an entry when it is exported, although it is read outside of
the lock (`ExportSound`); the entry a PKI command is about to install came from an
origin (`InstallSound`), and so did every key (`OriginSound`). `PairingStaysClosed`
needs in addition that neither the key store in memory nor a readable file of it is
empty, unless a restart lost it (`Closed`). As long as no mishap has happened, `Calm` holds: at most one poller
lives, the registered one (`OnePoller`); an active session between callbacks is the
one that poller asks for, and nobody tells it to stop (`CallbackSound`). The stops need
no lock for this, because a stop that has really waited leaves no poller at all. As
long as no write has failed, `AckKept` holds: the acknowledged entry is in memory,
and in the file unless its export is still to come (`Acked`), and a look-up that is
about to be put back has not become older than it (`PutBack`).

*The OTA service.* `ProgramSurvives` needs to know what is moved into place:
`CheckedInbox` (from the check to the replacement, the inbox is the update) and
`WholeFiles`. The same two make `Replace` the one step of the refinement that
installs. `RecordedIsInstalled` speaks of an idle service only; `RecordedInv` says
what is true of record and program in each phase of an uninterrupted update.

*The approval.* `OnlyApproved` carries it along the pipeline: every "yes" on its
way to the bridge is for an approved version, and everything queued at the
service, being installed or installed is approved. `BridgeKeepsApproved` is the
step that rests on the code's comparison of versions.

*Not proved, only model-checked:* liveness (`AlertBlinks`, the three of the control
path, `AskedAgain`, `ApprovedIsInstalled`, `ActiveEnds`), which is outside the
prover's reach. Every invariant and every safety property of a passing run has a
theorem.

## 5. What is not modelled

* Floating point: the ECU's clock (`stm.c` 28-40) is a `float` of microseconds
  and loses its resolution after seconds; distances are floats. Time is exact here,
  except that stamps may repeat.
* Checksum collisions of the ToF packet; electrical behaviour; timing beyond order.
* The parking controller (control_thread.cpp 72-298): the mode is read there but
  written nowhere in the repository, so no state of the running program enters it.
* The ultrasonic trigger pulses; `Filter_Reset`, which nothing calls.
* A joystick that falls silent (no code looks at the stamp of its last packet) and
  the shutdown of the realtime service: no document says what either should do.
* Of the digital key: the answers to the PKI commands and the contents of handshake
  contexts and certificates (what they do to session keys and files is in `Pairing`),
  the notification of responses, and cryptography itself. An `expires_at` that the
  server first sends, changes or withholds in a later answer is not modelled.
* Of the OTA parts: the reconnect workers (a broken connection is a fault),
  `confirm_update.py`, which runs a second `apply_ota` by hand, updates without a
  checksum, two updates with one version, several programs, and backups that
  replace each other because they were made in the same second.
* SOME/IP service discovery, which sends constant messages, and method 0x0101.
* The lwIP timer flags: a read-modify-write in an interrupt against a protected one
  in the main loop, in code that came with the vendored port.
* Everything else in the table above with "no". lwIP, the PHY driver and the
  set-up code are about nine tenths of the lines under `src/`; they came with the
  board's Ethernet example, and the models cover what this project wrote.

## 6. Plan

The order is by how much of the car's behaviour depends on a part.

1. *Done:* rings, ToF receiver, ECU actuators, realtime driving, control path with
   losses and restarts, OTA pipeline and OTA service.
2. *Done:* echo receiver and filter; chunks and commands of the digital key; pairing.
3. *Dropped:* the parking controller (unreachable).
4. *Done:* proofs of every safety property, the ToF receiver and the mean last.
5. *Done:* the PKI commands' effect on sessions, keys and files.
6. *Left:* the lwIP timer flags.

## 7. Running

```
tlc -workers 2 -config MCControlSafety.cfg MCControlPath.tla
tlapm RingQueueProofs.tla
```

`PROJECT.json` names each run with its module, configuration and properties, maps
every definition to the lines it models, and lists hazards, mutants, findings and
theorems.
