----------------------------- MODULE ToFReceiver -----------------------------
(***************************************************************************)
(* The ToF distance sensor's receive path on the TC375: the UART interrupt *)
(* stores bytes and the arrival time of header bytes, ToF_ProcessQueue in  *)
(* the main loop cuts the byte stream into packets of PacketLength bytes   *)
(* and the SOME/IP handler of method 0x0102 reads the newest packet.       *)
(*                                                                         *)
(* The items of the queue are bytes: the frame the sensor sent it in, its  *)
(* position there and whether it has the header's value, which a payload   *)
(* byte may happen to have.  The checksum is taken to reject exactly the   *)
(* packets that are not one whole frame.  The clock is the number of bytes *)
(* received.                                                               *)
(***************************************************************************)
EXTENDS RingQueue

CONSTANTS
  PacketLength,  \* TOF_PACKET_LENGTH
  MaxLost        \* bound: bytes lost on the line

Frames == Nat \ {0}
Positions == 0 .. PacketLength - 1

ASSUME PacketAssumption == PacketLength \in Nat \ {0, 1}
ASSUME BytesAssumption ==
  Items \subseteq [frame : Frames, pos : Positions, header : BOOLEAN]
ASSUME MaxLostAssumption == MaxLost \in Nat

VARIABLES
  line,      \* the sensor: frame and position of the next byte it sends
  lost,      \* history: bytes lost on the line
  damaged,   \* history: frames that lost a byte on the line
  misled,    \* history: frames with a payload byte equal to the header
  stamps,    \* header_timestamp_us
  stage,     \* the main loop between two Pops: "pop", "parse" or "stamp"
  slot,      \* the index whose time stamp the main loop is about to read
  packet,    \* packet[0 .. packet_index - 1]
  started,   \* packet_start_time_us
  latest,    \* latest_data
  ready,     \* data_ready
  served,    \* tof_latest_data of SOMEIP_Service1_Callback
  published  \* history: frames that have been published

parserVars == <<stage, slot, packet, started, latest, ready, served, published>>
lineVars == <<line, lost, damaged, misled, stamps>>
tofVars == <<ringVars, lineVars, parserVars>>

Now == Len(sent) + 1

(* The board may start listening in the middle of a frame. *)
ToFInit ==
  /\ Init
  /\ \E p \in Positions :
       /\ line = [frame |-> 1, pos |-> p]
       /\ damaged = IF p = 0 THEN {} ELSE {1}
  /\ lost = 0
  /\ misled = {}
  /\ stamps = [s \in Slots |-> 0]
  /\ stage = "pop"
  /\ slot = 0
  /\ packet = <<>>
  /\ started = 0
  /\ latest = [frame |-> 0, received |-> 0]
  /\ ready = FALSE
  /\ served = [frame |-> 0, received |-> 0]
  /\ published = {}

Advanced(l) == IF l.pos = PacketLength - 1
               THEN [frame |-> l.frame + 1, pos |-> 0]
               ELSE [l EXCEPT !.pos = @ + 1]

(* The UART interrupt: time-stamp a header byte in the slot it is about to *)
(* occupy, then Push.  The sensor sends the bytes of a frame in order, the *)
(* first one is the header.                                                *)
ToF_RxHandler(byte) ==
  /\ byte.frame = line.frame /\ byte.pos = line.pos
  /\ line.pos = 0 => byte.header
  /\ Push(byte)
  /\ stamps' = IF byte.header THEN [stamps EXCEPT ![tail] = Now] ELSE stamps
  /\ misled' = IF byte.header /\ line.pos # 0
               THEN misled \cup {line.frame} ELSE misled
  /\ line' = Advanced(line)
  /\ UNCHANGED <<lost, damaged, parserVars>>

(* The line loses a byte: noise, or the UART's own FIFO overflows. *)
LoseByte ==
  /\ lost < MaxLost
  /\ lost' = lost + 1
  /\ damaged' = damaged \cup {line.frame}
  /\ line' = Advanced(line)
  /\ UNCHANGED <<ringVars, misled, stamps, parserVars>>

-----------------------------------------------------------------------------
(* ToF_ProcessQueue.  A Pop that returns a byte is followed by the parsing *)
(* of that byte; the per-call budget max_bytes only decides when the main  *)
(* loop pauses, which any interleaving with the interrupt already covers.  *)

PopByte ==
  /\ stage = "pop"
  /\ Pop
  /\ stage' = IF pc = "advance" THEN "parse" ELSE "pop"
  /\ UNCHANGED <<lineVars, slot, packet, started, latest, ready, served, published>>

(* Mutant: the time stamp is looked up at head. *)
SlotOfHead == head

SlotBehindHead == (head - 1 + Capacity) % Capacity

WaitForHeader ==
  /\ stage = "parse"
  /\ packet = <<>>
  /\ ~out.header
  /\ stage' = "pop"
  /\ UNCHANGED <<ringVars, lineVars, slot, packet, started, latest, ready,
                 served, published>>

(* Mutant: any byte may start a packet. *)
StartPacketAnywhere ==
  /\ stage = "parse"
  /\ packet = <<>>
  /\ packet' = <<out>>
  /\ slot' = SlotBehindHead
  /\ stage' = "stamp"
  /\ UNCHANGED <<ringVars, lineVars, started, latest, ready, served, published>>

(* The header starts a packet; its time stamp is looked up behind head. *)
StartPacket ==
  /\ stage = "parse"
  /\ packet = <<>>
  /\ out.header
  /\ packet' = <<out>>
  /\ slot' = SlotBehindHead
  /\ stage' = "stamp"
  /\ UNCHANGED <<ringVars, lineVars, started, latest, ready, served, published>>

ReadStamp ==
  /\ stage = "stamp"
  /\ started' = stamps[slot]
  /\ stage' = "pop"
  /\ UNCHANGED <<ringVars, lineVars, slot, packet, latest, ready, served, published>>

(* Mutant: the checksum is not compared. *)
parseUnchecked(bytes) == bytes[1].header

(* parseToFPacket accepts a packet that starts with the header and whose   *)
(* checksum matches.                                                       *)
parseToFPacket(bytes) ==
  /\ bytes[1].header
  /\ \A k \in 1 .. PacketLength : /\ bytes[k].frame = bytes[1].frame
                                 /\ bytes[k].pos = k - 1

(* Mutant: a byte with the header's value always starts a new packet. *)
CollectedRestarting == IF out.header THEN <<out>> ELSE Append(packet, out)

Collected == Append(packet, out)

CollectByte ==
  /\ stage = "parse"
  /\ packet # <<>>
  /\ LET bytes == Collected
         full == Len(bytes) >= PacketLength
         good == full /\ parseToFPacket(bytes)
     IN /\ packet' = IF full THEN <<>> ELSE bytes
        /\ latest' = IF good THEN [frame |-> out.frame, received |-> started]
                     ELSE latest
        /\ ready' = (ready \/ good)
        /\ published' = IF good THEN published \cup {out.frame} ELSE published
  /\ stage' = "pop"
  /\ UNCHANGED <<ringVars, lineVars, slot, started, served>>

(* ToF_GetLatestData, called from the same main loop by method 0x0102. *)
ToF_GetLatestData ==
  /\ stage = "pop" /\ pc = "idle"
  /\ ready
  /\ served' = latest
  /\ ready' = FALSE
  /\ UNCHANGED <<ringVars, lineVars, stage, slot, packet, started, latest,
                 published>>

ToF_ProcessQueue == \/ PopByte \/ WaitForHeader \/ StartPacket
                    \/ ReadStamp \/ CollectByte

ToFNext ==
  \/ \E byte \in Items : ToF_RxHandler(byte)
  \/ LoseByte \/ ToF_ProcessQueue \/ ToF_GetLatestData

ToFSpec == ToFInit /\ [][ToFNext]_tofVars

-----------------------------------------------------------------------------

Data == [frame : Nat, received : 0 .. MaxPush]

ToFTypeOK ==
  /\ TypeOK
  /\ line \in [frame : Frames, pos : Positions]
  /\ lost \in 0 .. MaxLost
  /\ damaged \subseteq Frames /\ misled \subseteq Frames /\ published \subseteq Frames
  /\ stamps \in [Slots -> 0 .. MaxPush]
  /\ stage \in {"pop", "parse", "stamp"}
  /\ slot \in Slots
  /\ packet \in Seq(Items) /\ Len(packet) < PacketLength
  /\ started \in 0 .. MaxPush
  /\ {latest, served} \subseteq Data
  /\ ready \in BOOLEAN

(* A published distance carries the arrival time of its own header byte:   *)
(* header_timestamp_us[head - 1] is read after Pop has moved head, with    *)
(* the interrupt free to store more stamps, and must not have been reused. *)
StampIsHeaderArrival ==
  ~overrun /\ latest.frame # 0 =>
    /\ latest.received # 0
    /\ sent[latest.received].frame = latest.frame
    /\ sent[latest.received].pos = 0

(* Every byte of frame f that arrived has been popped and parsed. *)
Consumed(f) == /\ line.frame > f
               /\ head = tail /\ pc = "idle" /\ stage = "pop"

(* One damaged frame costs at most the next one: of two frames in a row    *)
(* that arrive whole, the second is published, provided no payload byte    *)
(* so far looked like a header.                                            *)
ResyncWithinOneFrame ==
  ~overrun => \A f \in 2 .. line.frame :
    Consumed(f) /\ {f - 1, f} \cap damaged = {} /\ misled \cap 1 .. f = {}
      => f \in published

(* Without losses every frame is published, whatever its payload holds:    *)
(* once aligned, the parser never takes a payload byte for a header.       *)
AlignedStaysAligned ==
  ~overrun /\ damaged = {} => \A f \in 1 .. line.frame : Consumed(f) => f \in published

(* What SOME/IP clients read never goes back in time, not even when the    *)
(* queue overflows under Pop and hands out bytes twice or out of order.    *)
FramesAdvance == [][latest'.frame >= latest.frame]_tofVars

=============================================================================
