-------------------------- MODULE ToFReceiverProofs ---------------------------
(***************************************************************************)
(* What the ToF receiver publishes, for every packet length, capacity of   *)
(* the queue, number of bytes and of bytes lost on the line.               *)
(***************************************************************************)
EXTENDS ToFReceiver, RingQueueProofs

(* The receiver uses its queue only through Push and Pop, so what is       *)
(* proved of the ring buffer holds of it.                                  *)
LEMMA ToFStepIsRingStep == [ToFNext]_tofVars => [Next]_ringVars
<1> SUFFICES ASSUME [ToFNext]_tofVars PROVE [Next]_ringVars
  OBVIOUS
<1>1. ASSUME NEW byte \in Items, ToF_RxHandler(byte) PROVE Next
  BY <1>1 DEF ToF_RxHandler, Next
<1>2. CASE PopByte
  BY <1>2 DEF PopByte, Next
<1>3. CASE \/ LoseByte \/ WaitForHeader \/ StartPacket \/ ReadStamp \/ CollectByte
           \/ ToF_GetLatestData
  BY <1>3 DEF LoseByte, WaitForHeader, StartPacket, ReadStamp, CollectByte,
              ToF_GetLatestData
<1>4. CASE UNCHANGED tofVars
  BY <1>4 DEF tofVars
<1> QED
  BY <1>1, <1>2, <1>3, <1>4 DEF ToFNext, ToF_ProcessQueue

Ring == TypeOK /\ RingInv /\ NumberInv

LEMMA ToFRing == ToFSpec => []Ring
<1>1. ToFInit => Init
  BY DEF ToFInit
<1>2. ToFSpec => Spec
  BY <1>1, ToFStepIsRingStep, PTL DEF ToFSpec, Spec
<1> QED
  BY <1>2, TypeCorrect, RingCorrect, RingNumbers, PTL DEF Ring

-----------------------------------------------------------------------------
(* Types.  The parser only runs between two Pops, on a byte that arrived.  *)

ParsesArrived ==
  /\ stage # "pop" => pc = "idle"
  /\ stage = "parse" => Pushed(out)

Typed == ToFTypeOK /\ ParsesArrived

LEMMA ByteTypes ==
  ASSUME NEW byte \in Items
  PROVE  /\ byte.frame \in Nat \ {0} /\ byte.pos \in Positions
         /\ byte.header \in BOOLEAN
BY BytesAssumption DEF Frames

LEMMA AdvancedTypes ==
  ASSUME NEW l \in [frame : Frames, pos : Positions]
  PROVE  /\ Advanced(l) \in [frame : Frames, pos : Positions]
         /\ l.pos = PacketLength - 1 =>
              Advanced(l).frame = l.frame + 1 /\ Advanced(l).pos = 0
         /\ l.pos # PacketLength - 1 =>
              Advanced(l).frame = l.frame /\ Advanced(l).pos = l.pos + 1
BY PacketAssumption DEF Advanced, Frames, Positions

LEMMA BehindSlot ==
  ASSUME NEW s \in Slots
  PROVE  /\ (s - 1 + Capacity) % Capacity = IF s = 0 THEN Capacity - 1 ELSE s - 1
         /\ (s - 1 + Capacity) % Capacity \in Slots
<1>1. Capacity \in Nat /\ Capacity > 0 /\ s \in 0 .. Capacity - 1
  BY CapacityAssumption DEF Slots
<1>2. CASE s = 0
  <2>1. (s - 1 + Capacity) % Capacity = Capacity - 1
    BY <1>1, <1>2
  <2> QED
    BY <1>1, <1>2, <2>1 DEF Slots
<1>3. CASE s # 0
  <2>1. (s - 1 + Capacity) % Capacity = s - 1
    <3>1. s - 1 \in 0 .. Capacity - 1 /\ s - 1 + Capacity = (s - 1) + 1 * Capacity
      BY <1>1, <1>3
    <3> QED
      BY <1>1, <3>1
  <2> QED
    BY <1>1, <1>3, <2>1 DEF Slots
<1> QED
  BY <1>2, <1>3

LEMMA BehindHead ==
  ASSUME head \in Slots
  PROVE  /\ SlotBehindHead = IF head = 0 THEN Capacity - 1 ELSE head - 1
         /\ SlotBehindHead \in Slots
BY BehindSlot DEF SlotBehindHead

LEMMA RxTyped ==
  ASSUME Typed, TypeOK', NEW byte \in Items, ToF_RxHandler(byte)
  PROVE  Typed'
<1>1. /\ line' = Advanced(line) /\ line' \in [frame : Frames, pos : Positions]
      /\ line.frame \in Frames
  BY AdvancedTypes DEF ToF_RxHandler, Typed, ToFTypeOK
<1>2. Now \in 0 .. MaxPush
  BY MaxPushAssumption DEF Now, ToF_RxHandler, Push, Typed, ToFTypeOK, TypeOK
<1>3. stamps' \in [Slots -> 0 .. MaxPush] /\ misled' \subseteq Frames
  BY <1>1, <1>2 DEF ToF_RxHandler, Typed, ToFTypeOK
<1>4. /\ UNCHANGED <<lost, damaged, stage, slot, packet, started, latest, ready,
                     served, published>>
      /\ pc' = pc /\ out' = out
  BY DEF ToF_RxHandler, parserVars, Push
<1>5. Pushed(out) => Pushed(out)'
  <2>1. ASSUME NEW k \in 1 .. Len(sent), sent[k] = out PROVE Pushed(out)'
    <3>1. k \in 1 .. Len(sent') /\ sent'[k] = out'
      BY <1>4, <2>1, PushNumbers DEF ToF_RxHandler, Typed, ToFTypeOK, TypeOK
    <3> QED
      BY <3>1 DEF Pushed
  <2> QED
    BY <2>1 DEF Pushed
<1>6. ToFTypeOK'
  BY <1>1, <1>3, <1>4 DEF Typed, ToFTypeOK
<1> QED
  BY <1>4, <1>5, <1>6 DEF Typed, ParsesArrived

LEMMA PopTyped ==
  ASSUME Typed, NumberInv, TypeOK', PopByte
  PROVE  Typed'
<1>1. /\ UNCHANGED <<lineVars, slot, packet, started, latest, ready, served, published>>
      /\ stage = "pop" /\ Pop
      /\ stage' = IF pc = "advance" THEN "parse" ELSE "pop"
  BY DEF PopByte
<1>2. ToFTypeOK'
  BY <1>1 DEF Typed, ToFTypeOK, lineVars
<1>3. ASSUME stage' = "parse" PROVE pc' = "idle" /\ Pushed(out)'
  <2>1. PopAdvance
    BY <1>1, <1>3 DEF Pop, PopLoad, PopCheck, PopRead
  <2> QED
    BY <2>1 DEF PopAdvance, NumberInv, Pushed
<1> QED
  BY <1>1, <1>2, <1>3 DEF Typed, ParsesArrived

LEMMA OutTypes ==
  ASSUME Typed, stage = "parse"
  PROVE  out \in Items /\ out.frame \in Frames
<1>1. out \in Items
  BY DEF Typed, ToFTypeOK, TypeOK, ParsesArrived, Pushed
<1> QED
  BY <1>1, ByteTypes DEF Frames

LEMMA StartTyped ==
  ASSUME Typed, TypeOK', StartPacket
  PROVE  Typed'
<1>1. out \in Items
  BY OutTypes DEF StartPacket
<1>2. packet' \in Seq(Items) /\ Len(packet') < PacketLength
  BY <1>1, PacketAssumption DEF StartPacket
<1>3. slot' \in Slots
  BY BehindHead DEF StartPacket, Typed, ToFTypeOK, TypeOK
<1> QED
  BY <1>2, <1>3 DEF StartPacket, Typed, ToFTypeOK, ParsesArrived, lineVars, ringVars

LEMMA CollectTyped ==
  ASSUME Typed, TypeOK', CollectByte
  PROVE  Typed'
<1>1. out \in Items /\ out.frame \in Frames
  BY OutTypes DEF CollectByte
<1>2. Collected \in Seq(Items) /\ Len(Collected) = Len(packet) + 1
  BY <1>1 DEF Collected, Typed, ToFTypeOK
<1>3. packet' \in Seq(Items) /\ Len(packet') < PacketLength
  BY <1>2, PacketAssumption DEF CollectByte, Typed, ToFTypeOK
<1>4. latest' \in Data /\ published' \subseteq Frames /\ ready' \in BOOLEAN
  <2>1. [frame |-> out.frame, received |-> started] \in Data
    BY <1>1 DEF Data, Frames, Typed, ToFTypeOK
  <2> QED
    BY <1>1, <2>1 DEF CollectByte, Typed, ToFTypeOK
<1> QED
  BY <1>3, <1>4 DEF CollectByte, Typed, ToFTypeOK, ParsesArrived, lineVars, ringVars

LEMMA TypedStep ==
  Typed /\ Ring /\ Ring' /\ [ToFNext]_tofVars => Typed'
<1> SUFFICES ASSUME Typed, NumberInv, TypeOK', [ToFNext]_tofVars PROVE Typed'
  BY DEF Ring
<1>1. CASE LoseByte
  <2>1. line' \in [frame : Frames, pos : Positions] /\ line.frame \in Frames
    BY <1>1, AdvancedTypes DEF LoseByte, Typed, ToFTypeOK
  <2>2. lost' \in 0 .. MaxLost
    BY <1>1, MaxLostAssumption DEF LoseByte, Typed, ToFTypeOK
  <2>3. Pushed(out)' <=> Pushed(out)
    BY <1>1 DEF LoseByte, Pushed, ringVars
  <2> QED
    BY <1>1, <2>1, <2>2, <2>3
       DEF LoseByte, Typed, ToFTypeOK, ParsesArrived, parserVars, ringVars
<1>2. CASE WaitForHeader
  BY <1>2 DEF WaitForHeader, Typed, ToFTypeOK, ParsesArrived, lineVars, ringVars
<1>3. CASE ReadStamp
  BY <1>3 DEF ReadStamp, Typed, ToFTypeOK, ParsesArrived, lineVars, ringVars
<1>4. CASE ToF_GetLatestData
  BY <1>4 DEF ToF_GetLatestData, Typed, ToFTypeOK, ParsesArrived, lineVars, ringVars
<1>5. CASE UNCHANGED tofVars
  <2>1. Pushed(out)' <=> Pushed(out)
    BY <1>5 DEF Pushed, ringVars, tofVars
  <2> QED
    BY <1>5, <2>1
       DEF tofVars, ringVars, lineVars, parserVars, Typed, ToFTypeOK, ParsesArrived
<1> QED
  BY <1>1, <1>2, <1>3, <1>4, <1>5, RxTyped, PopTyped, StartTyped, CollectTyped
     DEF ToFNext, ToF_ProcessQueue

LEMMA AlwaysTyped == ToFSpec => []Typed
<1>1. ToFInit /\ Ring => Typed
  <2> SUFFICES ASSUME ToFInit, TypeOK PROVE Typed
    BY DEF Ring
  <2>1. /\ 1 \in Frames /\ 0 \in Slots
        /\ 0 \in 0 .. MaxPush /\ 0 \in 0 .. MaxLost
        /\ 0 < PacketLength
    BY CapacityAssumption, PacketAssumption, MaxPushAssumption, MaxLostAssumption
       DEF Frames, Slots
  <2>2. line \in [frame : Frames, pos : Positions] /\ damaged \subseteq Frames
    BY <2>1 DEF ToFInit
  <2>3. packet \in Seq(Items) /\ Len(packet) < PacketLength
    BY <2>1 DEF ToFInit
  <2>4. {latest, served} \subseteq Data
    BY <2>1 DEF ToFInit, Data
  <2> QED
    BY <2>1, <2>2, <2>3, <2>4 DEF ToFInit, Typed, ToFTypeOK, ParsesArrived
<1> QED
  BY <1>1, TypedStep, ToFRing, PTL DEF ToFSpec

(* Every variable of the receiver keeps its type, overrun or not: the      *)
(* parser only ever takes bytes that arrived, its packet never grows past  *)
(* PacketLength and the time stamps it reads lie inside their array.       *)
THEOREM ToFTypeCorrect == ToFSpec => []ToFTypeOK
BY AlwaysTyped, PTL DEF Typed

-----------------------------------------------------------------------------
(* The stream: the sensor sends bytes in order, and of a frame of which    *)
(* none is lost every byte arrives.  At(k) is the k-th byte that arrived,  *)
(* behind them the one the sensor sends next, before them the last byte of *)
(* a frame 0.                                                              *)

At(k) ==
  IF k = 0 THEN [frame |-> 0, pos |-> PacketLength - 1]
  ELSE IF k <= Len(sent) THEN [frame |-> sent[k].frame, pos |-> sent[k].pos]
  ELSE line

Before(a, b) == a.frame < b.frame \/ (a.frame = b.frame /\ a.pos < b.pos)

(* Between a and b only bytes of the damaged frames d are missing.         *)
Follows(a, b, d) ==
  /\ Before(a, b)
  /\ a.frame = b.frame => b.pos = a.pos + 1 \/ a.frame \in d
  /\ a.frame < b.frame =>
       /\ a.pos = PacketLength - 1 \/ a.frame \in d
       /\ b.pos = 0 \/ b.frame \in d
       /\ \A f \in a.frame + 1 .. b.frame - 1 : f \in d

StreamInv ==
  /\ \A k \in 0 .. Len(sent) : Follows(At(k), At(k + 1), damaged)
  /\ \A j \in 0 .. Len(sent), k \in 1 .. Len(sent) + 1 : j < k => Before(At(j), At(k))
  /\ \A k \in 1 .. Len(sent) :
       /\ sent[k].pos = 0 => sent[k].header
       /\ sent[k].pos # 0 /\ sent[k].header => sent[k].frame \in misled

LEMMA AtTypes ==
  ASSUME Typed
  PROVE  /\ Len(sent) \in Nat
         /\ \A k \in 0 .. Len(sent) + 1 : At(k).frame \in Nat /\ At(k).pos \in Positions
         /\ \A k \in 1 .. Len(sent) + 1 : At(k).frame > 0
         /\ \A k \in 1 .. Len(sent) : /\ sent[k] \in Items
                                      /\ At(k).frame = sent[k].frame
                                      /\ At(k).pos = sent[k].pos
         /\ At(Len(sent) + 1) = line
<1>1. sent \in Seq(Items) /\ line \in [frame : Frames, pos : Positions]
  BY DEF Typed, ToFTypeOK, TypeOK
<1>2. PacketLength - 1 \in Positions
  BY PacketAssumption DEF Positions
<1>3. \A k \in 1 .. Len(sent) : sent[k] \in Items
  BY <1>1
<1> QED
  BY <1>1, <1>2, <1>3, ByteTypes DEF At, Frames

LEMMA LinePlaces ==
  ASSUME Typed
  PROVE  /\ line.frame \in Nat \ {0} /\ line.pos \in Positions
         /\ Advanced(line).frame \in Nat \ {0} /\ Advanced(line).pos \in Positions
         /\ \/ /\ line.pos = PacketLength - 1
               /\ Advanced(line).frame = line.frame + 1 /\ Advanced(line).pos = 0
            \/ /\ line.pos # PacketLength - 1
               /\ Advanced(line).frame = line.frame
               /\ Advanced(line).pos = line.pos + 1
BY AdvancedTypes DEF Typed, ToFTypeOK, Frames

(* A byte that arrives leaves the stream before it as it was.              *)
LEMMA AtArrival ==
  ASSUME Typed, NEW byte \in Items, ToF_RxHandler(byte)
  PROVE  /\ Len(sent') = Len(sent) + 1
         /\ \A k \in 0 .. Len(sent) + 1 : At(k)' = At(k)
         /\ \A k : k = Len(sent) + 2 => At(k)' = Advanced(line)
         /\ sent'[Len(sent) + 1] = byte
         /\ \A k \in 1 .. Len(sent) : sent'[k] = sent[k]
<1>1. /\ Len(sent') = Len(sent) + 1 /\ sent'[Len(sent) + 1] = byte
      /\ \A k \in 1 .. Len(sent) : sent'[k] = sent[k]
  BY PushNumbers DEF ToF_RxHandler, Typed, ToFTypeOK
<1>2. line' = Advanced(line) /\ line = [frame |-> byte.frame, pos |-> byte.pos]
  BY DEF ToF_RxHandler, Typed, ToFTypeOK
<1>3. Len(sent) \in Nat
  BY DEF Typed, ToFTypeOK, TypeOK
<1>4. ASSUME NEW k \in 0 .. Len(sent) + 1 PROVE At(k)' = At(k)
  <2>1. CASE k = Len(sent) + 1
    BY <1>1, <1>2, <1>3, <2>1 DEF At
  <2>2. CASE k # Len(sent) + 1
    BY <1>1, <1>3, <2>2 DEF At
  <2> QED
    BY <2>1, <2>2
<1>5. ASSUME NEW k, k = Len(sent) + 2 PROVE At(k)' = Advanced(line)
  BY <1>1, <1>2, <1>3, <1>5 DEF At
<1> QED
  BY <1>1, <1>4, <1>5

LEMMA BeforeTransitive ==
  ASSUME NEW a, NEW b, NEW c, a.frame \in Nat, b.frame \in Nat, c.frame \in Nat,
         a.pos \in Nat, b.pos \in Nat, c.pos \in Nat,
         Before(a, b), Before(b, c)
  PROVE  Before(a, c)
BY DEF Before

LEMMA AdvancedFollows ==
  ASSUME Typed, NEW d
  PROVE  Before(line, Advanced(line)) /\ Follows(line, Advanced(line), d)
<1>1. /\ line.frame \in Nat \ {0} /\ line.pos \in Nat
      /\ \/ /\ line.pos = PacketLength - 1
            /\ Advanced(line).frame = line.frame + 1 /\ Advanced(line).pos = 0
         \/ /\ line.pos # PacketLength - 1
            /\ Advanced(line).frame = line.frame
            /\ Advanced(line).pos = line.pos + 1
  BY LinePlaces, PacketAssumption DEF Positions
<1> QED
  BY <1>1 DEF Before, Follows

LEMMA StreamArrival ==
  ASSUME Typed, StreamInv, NEW byte \in Items, ToF_RxHandler(byte)
  PROVE  StreamInv'
<1> DEFINE n == Len(sent)
<1>1. /\ n \in Nat /\ n' = n + 1
      /\ \A k \in 0 .. n + 1 : At(k)' = At(k)
      /\ \A k : k = n + 2 => At(k)' = Advanced(line)
      /\ At(n + 1) = line
      /\ sent'[n + 1] = byte /\ \A k \in 1 .. n : sent'[k] = sent[k]
  BY AtTypes, AtArrival
<1>2. /\ \A k \in 0 .. n + 1 : At(k).frame \in Nat /\ At(k).pos \in Nat
      /\ Advanced(line).frame \in Nat /\ Advanced(line).pos \in Nat
  BY AtTypes, LinePlaces, PacketAssumption DEF Positions
<1>3. /\ damaged' = damaged /\ misled \subseteq misled'
      /\ byte.frame = line.frame /\ byte.pos = line.pos
      /\ (line.pos = 0 => byte.header)
      /\ (byte.header /\ line.pos # 0 => line.frame \in misled')
  BY DEF ToF_RxHandler
<1>4. /\ \A k \in 0 .. n : Follows(At(k), At(k + 1), damaged)
      /\ \A j \in 0 .. n, k \in 1 .. n + 1 : j < k => Before(At(j), At(k))
      /\ \A k \in 1 .. n :
           /\ sent[k].pos = 0 => sent[k].header
           /\ sent[k].pos # 0 /\ sent[k].header => sent[k].frame \in misled
  BY DEF StreamInv
<1>5. Before(line, Advanced(line)) /\ Follows(line, Advanced(line), damaged)
  BY AdvancedFollows
<1> HIDE DEF n
<1>6. ASSUME NEW k \in 0 .. n + 1 PROVE Follows(At(k)', At(k + 1)', damaged')
  <2>1. CASE k = n + 1
    <3>1. k + 1 = n + 2 /\ n + 1 \in 0 .. n + 1
      BY <1>1, <2>1
    <3>2. At(k)' = line
      BY <1>1, <2>1, <3>1
    <3>3. At(k + 1)' = Advanced(line)
      BY <1>1, <3>1
    <3> QED
      BY <1>3, <1>5, <3>2, <3>3
  <2>2. CASE k # n + 1
    <3>1. k \in 0 .. n /\ k + 1 \in 0 .. n + 1
      BY <1>1, <2>2
    <3> QED
      BY <1>1, <1>3, <1>4, <3>1
  <2> QED
    BY <2>1, <2>2
<1>7. ASSUME NEW j \in 0 .. n + 1, NEW k \in 1 .. n + 2, j < k
      PROVE  Before(At(j)', At(k)')
  <2>1. CASE k = n + 2
    <3>0. At(k)' = Advanced(line)
      BY <1>1, <2>1
    <3>1. CASE j = n + 1
      <4>1. At(j)' = line
        BY <1>1, <3>1
      <4> QED
        BY <1>5, <3>0, <4>1
    <3>2. CASE j # n + 1
      <4>1. j \in 0 .. n /\ j \in 0 .. n + 1 /\ n + 1 \in 1 .. n + 1 /\ j < n + 1
        BY <1>1, <3>2
      <4>2. Before(At(j), line)
        BY <1>1, <1>4, <4>1
      <4>3. Before(At(j), Advanced(line))
        <5>1. line.frame \in Nat /\ line.pos \in Nat
          BY <1>1, <1>2
        <5> QED
          BY <1>2, <1>5, <4>1, <4>2, <5>1, BeforeTransitive
      <4>4. At(j)' = At(j)
        BY <1>1, <4>1
      <4> QED
        BY <3>0, <4>3, <4>4
    <3> QED
      BY <3>1, <3>2
  <2>2. CASE k # n + 2
    <3>1. j \in 0 .. n /\ k \in 1 .. n + 1 /\ j \in 0 .. n + 1 /\ k \in 0 .. n + 1
      BY <1>1, <1>7, <2>2
    <3> QED
      BY <1>1, <1>4, <1>7, <3>1
  <2> QED
    BY <2>1, <2>2
<1>8. ASSUME NEW k \in 1 .. n + 1
      PROVE  /\ sent'[k].pos = 0 => sent'[k].header
             /\ sent'[k].pos # 0 /\ sent'[k].header => sent'[k].frame \in misled'
  <2>1. CASE k = n + 1
    BY <1>1, <1>3, <2>1
  <2>2. CASE k # n + 1
    <3>1. k \in 1 .. n
      BY <1>1, <2>2
    <3> QED
      BY <1>1, <1>3, <1>4, <3>1
  <2> QED
    BY <2>1, <2>2
<1>9. n' + 1 = n + 2
  BY <1>1
<1> QED
  BY <1>1, <1>6, <1>7, <1>8, <1>9 DEF StreamInv, n

(* A byte that is lost damages its frame.                                  *)
LEMMA AtLoss ==
  ASSUME Typed, LoseByte
  PROVE  /\ sent' = sent /\ damaged' = damaged \cup {line.frame}
         /\ \A k \in 0 .. Len(sent) : At(k)' = At(k)
         /\ \A k : k = Len(sent) + 1 => At(k)' = Advanced(line)
<1>1. sent' = sent /\ line' = Advanced(line) /\ damaged' = damaged \cup {line.frame}
  BY DEF LoseByte, ringVars
<1>2. Len(sent) \in Nat
  BY DEF Typed, ToFTypeOK, TypeOK
<1> QED
  BY <1>1, <1>2 DEF At

LEMMA StreamLoss ==
  ASSUME Typed, StreamInv, LoseByte
  PROVE  StreamInv'
<1> DEFINE n == Len(sent)
<1>1. /\ n \in Nat /\ sent' = sent
      /\ \A k \in 0 .. n : At(k)' = At(k)
      /\ \A k : k = n + 1 => At(k)' = Advanced(line)
      /\ At(n + 1) = line
      /\ damaged' = damaged \cup {line.frame} /\ misled' = misled
  BY AtTypes, AtLoss DEF LoseByte
<1>2. /\ \A k \in 0 .. n + 1 : At(k).frame \in Nat /\ At(k).pos \in Nat
      /\ Advanced(line).frame \in Nat /\ Advanced(line).pos \in Nat
      /\ line.frame \in Nat /\ line.pos \in Nat
  BY AtTypes, LinePlaces, PacketAssumption DEF Positions
<1>3. /\ \A k \in 0 .. n : Follows(At(k), At(k + 1), damaged)
      /\ \A j \in 0 .. n, k \in 1 .. n + 1 : j < k => Before(At(j), At(k))
  BY DEF StreamInv
<1>4. Before(line, Advanced(line))
  BY AdvancedFollows
<1>5. n' = n
  BY <1>1
<1> HIDE DEF n
<1>6. ASSUME NEW k \in 0 .. n PROVE Follows(At(k)', At(k + 1)', damaged')
  <2>1. CASE k = n
    <3> DEFINE a == At(n)
               b == Advanced(line)
    <3>1. Follows(a, line, damaged) /\ a.frame \in Nat /\ a.pos \in Nat
      BY <1>1, <1>2, <1>3
    <3>2. Before(a, b)
      BY <1>2, <1>4, <3>1, BeforeTransitive DEF Follows
    <3>3. \/ line.pos = PacketLength - 1 /\ b.frame = line.frame + 1 /\ b.pos = 0
          \/ b.frame = line.frame
      BY LinePlaces
    <3> HIDE DEF a, b
    <3>4. Follows(a, b, damaged \cup {line.frame})
      BY <1>2, <3>1, <3>2, <3>3 DEF Follows, Before
    <3>5. At(k)' = At(n) /\ k + 1 = n + 1
      BY <1>1, <2>1
    <3>6. At(k + 1)' = Advanced(line)
      BY <1>1, <3>5
    <3> QED
      BY <1>1, <3>4, <3>5, <3>6 DEF a, b
  <2>2. CASE k # n
    <3>1. k \in 0 .. n /\ k + 1 \in 0 .. n
      BY <1>1, <2>2
    <3>2. Follows(At(k), At(k + 1), damaged')
      BY <1>1, <1>3, <3>1 DEF Follows
    <3> QED
      BY <1>1, <3>1, <3>2
  <2> QED
    BY <2>1, <2>2
<1>7. ASSUME NEW j \in 0 .. n, NEW k \in 1 .. n + 1, j < k
      PROVE  Before(At(j)', At(k)')
  <2>1. Before(At(j), At(k))
    BY <1>3, <1>7
  <2>2. CASE k = n + 1
    <3>1. Before(At(j), line)
      BY <1>1, <2>1, <2>2
    <3>2. j \in 0 .. n + 1
      BY <1>1
    <3>3. Before(At(j), Advanced(line))
      BY <1>2, <1>4, <3>1, <3>2, BeforeTransitive
    <3>4. At(j)' = At(j) /\ At(k)' = Advanced(line)
      BY <1>1, <2>2
    <3> QED
      BY <3>3, <3>4
  <2>3. CASE k # n + 1
    <3>1. k \in 0 .. n
      BY <1>1, <2>3
    <3> QED
      BY <1>1, <2>1, <3>1
  <2> QED
    BY <2>2, <2>3
<1> QED
  BY <1>1, <1>5, <1>6, <1>7 DEF StreamInv, n

(* Every other step leaves the stream alone. *)
LEMMA OthersLeaveStream ==
  ASSUME [ToFNext]_tofVars, ~LoseByte, \A byte \in Items : ~ToF_RxHandler(byte)
  PROVE  UNCHANGED <<sent, line, damaged, misled, stamps, lost>>
BY DEF ToFNext, ToF_ProcessQueue, PopByte, Pop, PopLoad, PopCheck, PopRead, PopAdvance,
       WaitForHeader, StartPacket, ReadStamp, CollectByte, ToF_GetLatestData,
       tofVars, ringVars, lineVars

LEMMA AtStays ==
  ASSUME UNCHANGED <<sent, line>>
  PROVE  \A k : At(k)' = At(k)
BY DEF At

LEMMA StreamAlways == ToFSpec => []StreamInv
<1>1. ToFInit /\ Typed => StreamInv
  <2> SUFFICES ASSUME ToFInit, Typed PROVE StreamInv
    OBVIOUS
  <2>1. Len(sent) = 0 /\ line.frame = 1 /\ (line.pos = 0 \/ 1 \in damaged)
    BY DEF ToFInit, Init
  <2>2. /\ At(0).frame = 0 /\ At(0).pos = PacketLength - 1
        /\ At(1).frame = 1 /\ At(1).pos = line.pos
    BY <2>1 DEF At
  <2>3. Before(At(0), At(1)) /\ Follows(At(0), At(1), damaged)
    BY <2>1, <2>2 DEF Before, Follows
  <2>4. \A k \in 0 .. Len(sent) : k = 0 /\ k + 1 = 1
    BY <2>1
  <2>5. \A k \in 1 .. Len(sent) + 1 : k = 1
    BY <2>1
  <2>6. 1 .. Len(sent) = {}
    BY <2>1
  <2> QED
    BY <2>3, <2>4, <2>5, <2>6 DEF StreamInv
<1>2. Typed /\ StreamInv /\ [ToFNext]_tofVars => StreamInv'
  <2> SUFFICES ASSUME Typed, StreamInv, [ToFNext]_tofVars PROVE StreamInv'
    OBVIOUS
  <2>1. CASE UNCHANGED <<sent, line, damaged, misled>>
    BY <2>1, AtStays DEF StreamInv
  <2> QED
    BY <2>1, StreamArrival, StreamLoss, OthersLeaveStream
<1> QED
  BY <1>1, <1>2, AlwaysTyped, PTL DEF ToFSpec

-----------------------------------------------------------------------------
(* Published frames never go back, with or without an overrun: a byte that *)
(* Pop reads from a slot it no longer owns cannot complete an older frame. *)

Distinct == \A j, k \in 1 .. Len(sent) : sent[j] = sent[k] => j = k

LEMMA StreamDistinct == Typed /\ StreamInv => Distinct
<1> SUFFICES ASSUME Typed, StreamInv, NEW j \in 1 .. Len(sent), NEW k \in 1 .. Len(sent),
                    sent[j] = sent[k], j < k
             PROVE  FALSE
  <2>1. Len(sent) \in Nat
    BY DEF Typed, ToFTypeOK, TypeOK
  <2> QED
    BY <2>1 DEF Distinct
<1>1. j \in 0 .. Len(sent) /\ k \in 1 .. Len(sent) + 1 /\ k \in 0 .. Len(sent) + 1
      /\ j \in 0 .. Len(sent) + 1
  BY AtTypes
<1>2. Before(At(j), At(k))
  BY <1>1 DEF StreamInv
<1>3. At(j).frame = At(k).frame /\ At(j).pos = At(k).pos
  BY AtTypes
<1>4. At(j).frame \in Nat /\ At(j).pos \in Nat
  BY <1>1, AtTypes, PacketAssumption DEF Positions
<1> QED
  BY <1>2, <1>3, <1>4 DEF Before

LEMMA StreamMonotone ==
  ASSUME Typed, StreamInv, NEW j \in 0 .. Len(sent) + 1, NEW k \in 0 .. Len(sent) + 1,
         j <= k
  PROVE  At(j).frame <= At(k).frame
<1>1. Len(sent) \in Nat /\ At(j).frame \in Nat /\ At(k).frame \in Nat
  BY AtTypes
<1>2. CASE j = k
  BY <1>1, <1>2
<1>3. CASE j # k
  <2>1. j \in 0 .. Len(sent) /\ k \in 1 .. Len(sent) + 1 /\ j < k
    BY <1>1, <1>3
  <2>2. Before(At(j), At(k))
    BY <2>1 DEF StreamInv
  <2> QED
    BY <1>1, <2>2 DEF Before
<1> QED
  BY <1>2, <1>3

(* Two bytes with successive places in one frame are neighbours. *)
LEMMA Adjacent ==
  ASSUME Typed, StreamInv, NEW r \in 1 .. Len(sent), NEW k \in 1 .. Len(sent),
         sent[r].frame = sent[k].frame, sent[k].pos = sent[r].pos + 1
  PROVE  k = r + 1
<1>1. /\ Len(sent) \in Nat
      /\ \A i \in 1 .. Len(sent) : At(i).frame \in Nat /\ At(i).pos \in Nat
      /\ At(r).frame = sent[r].frame /\ At(r).pos = sent[r].pos
      /\ At(k).frame = sent[k].frame /\ At(k).pos = sent[k].pos
  BY AtTypes, PacketAssumption DEF Positions
<1>2. \A i \in 1 .. Len(sent), j \in 1 .. Len(sent) : i < j => Before(At(i), At(j))
  BY <1>1 DEF StreamInv
<1>3. ~(k < r)
  BY <1>1, <1>2 DEF Before
<1>4. k # r
  BY <1>1
<1>5. CASE k > r + 1
  <2>1. r + 1 \in 1 .. Len(sent) /\ r < r + 1 /\ r + 1 < k
    BY <1>1, <1>5
  <2>2. Before(At(r), At(r + 1)) /\ Before(At(r + 1), At(k))
    BY <1>2, <2>1
  <2>3. At(r + 1).frame \in Nat /\ At(r + 1).pos \in Nat
    BY <1>1, <2>1
  <2> QED
    BY <1>1, <2>2, <2>3 DEF Before
<1> QED
  BY <1>1, <1>3, <1>4, <1>5

Low == Len(sent) - Count + 1     \* the oldest byte in the queue

(* Nothing that can still be popped, or has been and waits to be parsed,   *)
(* is of an older frame than the one published.                            *)
NothingOlder ==
  /\ \A k \in 0 .. Len(sent) + 1 : k >= Low => At(k).frame >= latest.frame
  /\ pc \in {"check", "read"} /\ head # tail => sent[Number(h)].frame >= latest.frame
  /\ pc = "advance" \/ stage = "parse" => out.frame >= latest.frame

(* How far behind the queue the packet's last byte, the r-th, can be, and  *)
(* that the byte behind it is only ever popped from the front.             *)
NearTo(r) ==
  /\ stage # "parse" => r - Capacity + 2 <= Low
  /\ stage = "parse" /\ r < Len(sent) /\ sent[r + 1] = out => r + 1 < Low
  /\ pc \in {"check", "read"} /\ head # tail =>
       \/ h = head
       \/ Number(h) >= r + 2
       \/ r - Capacity + 2 <= Number(h) /\ Number(h) < Low
  /\ pc = "advance" =>
       \A k \in 1 .. Len(sent) : sent[k] = out => k <= Low \/ k >= r + 2

Near ==
  /\ stage = "parse" =>
       \A k \in 1 .. Len(sent) : sent[k] = out => k - Capacity + 2 <= Low
  /\ packet # <<>> =>
       /\ Pushed(packet[Len(packet)])
       /\ \A r \in 1 .. Len(sent) : sent[r] = packet[Len(packet)] => NearTo(r)

Context == Typed /\ Ring /\ StreamInv /\ Distinct

LEMMA QueueNumbers ==
  ASSUME Context
  PROVE  /\ Capacity \in Nat /\ Capacity > 0
         /\ Len(sent) \in Nat /\ Count \in 0 .. Capacity - 1 /\ Low \in 1 .. Len(sent) + 1
         /\ head # tail => Number(head) = Low /\ Low <= Len(sent)
         /\ \A s \in Slots : /\ Number(s) \in Int /\ Number(s) <= Len(sent)
                             /\ Number(s) >= Len(sent) - Capacity + 1
         /\ Number(tail) = Len(sent) - Capacity + 1
         /\ Full => Low = Len(sent) - Capacity + 2
         /\ pc \in {"check", "read"} /\ head # tail => Number(h) \in 1 .. Len(sent)
<1>1. /\ head \in Slots /\ tail \in Slots /\ h \in Slots
      /\ Len(sent) \in Nat /\ Capacity \in Nat /\ Capacity > 0
      /\ Count <= Len(sent)
      /\ pc \in {"check", "read"} /\ head # tail => Number(h) >= 1
  BY CapacityAssumption DEF Context, Ring, TypeOK, NumberInv
<1>2. Count \in 0 .. Capacity - 1 /\ (Count = 0 <=> head = tail)
  BY <1>1, CountBounds
<1>3. /\ \A s \in Slots : Newer(s) \in 0 .. Capacity - 1
      /\ head # tail => Newer(head) = Count - 1
      /\ Newer(tail) = Capacity - 1
      /\ Full => Count = Capacity - 1
  BY <1>1, NumberBounds
<1> QED
  BY <1>1, <1>2, <1>3 DEF Number, Low

(* A Push.  What is stored has a number of its own; Pop's copy of head is  *)
(* current, or one behind, or what it points at has just been replaced.    *)
LEMMA PushMoves ==
  ASSUME Context, NEW byte \in Items, ToF_RxHandler(byte)
  PROVE  /\ Len(sent') = Len(sent) + 1
         /\ Low' = IF Full THEN Low + 1 ELSE Low
         /\ ~Full => head' = head
         /\ Number(h)' = IF h = tail THEN Len(sent) + 1 ELSE Number(h)
         /\ pc \in {"check", "read"} /\ head' # tail' =>
              \/ h = head /\ head = tail /\ head' = h
              \/ h = tail /\ head # tail /\ Full
              \/ h # tail /\ head # tail
<1>1. TypeOK /\ NumberInv /\ Push(byte) /\ h \in Slots /\ head \in Slots /\ tail \in Slots
  BY DEF Context, Ring, TypeOK, ToF_RxHandler
<1>2. /\ Len(sent') = Len(sent) + 1
      /\ \A s \in Slots : Newer(s)' = IF s = tail THEN 0 ELSE Newer(s) + 1
      /\ Full => Full' /\ Count' = Count /\ head' = After(head)
      /\ ~Full => head' = head /\ Count' = Count + 1
      /\ h' = h
  BY <1>1, PushNumbers DEF Push
<1>3. Len(sent) \in Nat /\ Count \in Nat
  BY QueueNumbers
<1>4. Low' = IF Full THEN Low + 1 ELSE Low
  BY <1>2, <1>3 DEF Low
<1>5. Number(h)' = IF h = tail THEN Len(sent) + 1 ELSE Number(h)
  <2>1. Newer(h)' = IF h = tail THEN 0 ELSE Newer(h) + 1
    BY <1>1, <1>2 DEF Newer
  <2>2. Newer(h) \in Nat
    BY <1>1, NumberBounds, CapacityAssumption
  <2> QED
    BY <1>2, <1>3, <2>1, <2>2 DEF Number
<1>6. ASSUME pc \in {"check", "read"}, head' # tail'
      PROVE  \/ h = head /\ head = tail /\ head' = h
             \/ h = tail /\ head # tail /\ Full
             \/ h # tail /\ head # tail
  <2>1. h = head \/ Full
    BY <1>1, <1>6 DEF NumberInv
  <2>2. CASE head = tail /\ Full
    <3>1. Capacity = 1
      BY <1>1, <2>2, FullAndEmpty
    <3>2. head' \in Slots /\ tail' \in Slots
      BY <1>1, <1>2, AfterIsNext DEF Push
    <3> QED
      BY <1>6, <3>1, <3>2 DEF Slots
  <2>3. CASE head = tail /\ ~Full
    BY <1>2, <2>1, <2>3
  <2>4. CASE head # tail
    BY <2>1, <2>4
  <2> QED
    BY <2>2, <2>3, <2>4
<1> QED
  BY <1>2, <1>4, <1>5, <1>6

LEMMA PushNothingOlder ==
  ASSUME Context, NothingOlder, NEW byte \in Items, ToF_RxHandler(byte)
  PROVE  NothingOlder'
<1> DEFINE n == Len(sent)
<1>1. /\ n \in Nat /\ Low \in 1 .. n + 1 /\ n' = n + 1
      /\ Low' \in {Low, Low + 1}
  BY QueueNumbers, PushMoves
<1>2. /\ \A k \in 0 .. n + 1 : At(k)' = At(k)
      /\ \A k : k = n + 2 => At(k)' = Advanced(line)
      /\ At(n + 1) = line
      /\ \A k \in 0 .. n + 1 : At(k).frame \in Nat
      /\ sent'[n + 1] = byte /\ byte.frame = line.frame
      /\ \A k \in 1 .. n : sent'[k] = sent[k]
  BY AtArrival, AtTypes DEF Context, ToF_RxHandler
<1>3. UNCHANGED <<pc, h, out, stage, latest>>
  BY DEF ToF_RxHandler, Push, parserVars
<1>4. latest.frame \in Nat
  BY DEF Context, Typed, ToFTypeOK, Data
<1> HIDE DEF n
<1>5. \A k \in 0 .. n + 1 : k >= Low => At(k).frame >= latest.frame
  BY DEF NothingOlder, n
<1>6. line.frame >= latest.frame
  BY <1>1, <1>2, <1>5
<1>7. ASSUME NEW k \in 0 .. n + 2, k >= Low' PROVE At(k)'.frame >= latest.frame
  <2>1. CASE k = n + 2
    <3>1. Advanced(line).frame >= line.frame /\ Advanced(line).frame \in Nat
          /\ line.frame \in Nat
      BY LinePlaces DEF Context
    <3> QED
      BY <1>2, <1>4, <1>6, <2>1, <3>1
  <2>2. CASE k # n + 2
    BY <1>1, <1>2, <1>5, <1>7, <2>2
  <2> QED
    BY <2>1, <2>2
<1>8. ASSUME pc \in {"check", "read"}, head' # tail'
      PROVE  sent'[Number(h)'].frame >= latest.frame
  <2>1. CASE h = tail
    <3>1. Number(h)' = n + 1
      BY <2>1, PushMoves DEF n
    <3> QED
      BY <1>2, <1>6, <3>1
  <2>2. CASE h # tail
    <3>1. head # tail /\ Number(h)' = Number(h)
      BY <1>8, <2>2, PushMoves
    <3>2. Number(h) \in 1 .. n
      BY <1>8, <3>1, QueueNumbers DEF n
    <3> QED
      BY <1>2, <1>8, <3>1, <3>2 DEF NothingOlder
  <2> QED
    BY <2>1, <2>2
<1>9. n' + 1 = n + 2
  BY <1>1
<1> QED
  BY <1>3, <1>7, <1>8, <1>9 DEF NothingOlder, n

(* The slot Pop moves past, and what it leaves in the queue. *)
LEMMA PopMoves ==
  ASSUME Context, PopAdvance
  PROVE  /\ sent' = sent /\ out' = out
         /\ \/ Low' = Low + 1
            \/ Low' = Number(h) + 1
         /\ Low' >= Len(sent) - Capacity + 2
         /\ \E k \in 1 .. Len(sent) : sent[k] = out /\ k <= Number(h)
<1>1. /\ TypeOK /\ NumberInv /\ pc = "advance" /\ head # tail
      /\ h \in Slots /\ head \in Slots /\ tail \in Slots
      /\ tail' = tail /\ sent' = sent /\ out' = out
  BY DEF Context, Ring, TypeOK, NumberInv, PopAdvance
<1>2. /\ Len(sent) \in Nat /\ Number(head) = Low
      /\ Number(h) \in Int /\ Number(h) >= Len(sent) - Capacity + 1
      /\ Number(head) \in Int /\ Number(head) >= Len(sent) - Capacity + 1
      /\ Capacity \in Nat
  BY <1>1, QueueNumbers
<1>3. /\ Newer(h) \in Int /\ Newer(head) \in Int
  BY <1>1, NumberBounds, CapacityAssumption
<1>4. ASSUME NEW s \in {h, head}, head' = After(s) PROVE Low' = Number(s) + 1
  <2>1. Count' = Newer(s)
    BY <1>1, <1>4, AdvanceCount
  <2> QED
    BY <1>1, <1>2, <1>3, <2>1 DEF Low, Number
<1>5. Low' = Low + 1 \/ Low' = Number(h) + 1
  BY <1>2, <1>4 DEF PopAdvance
<1>6. Low' >= Len(sent) - Capacity + 2
  BY <1>2, <1>5
<1> QED
  BY <1>1, <1>5, <1>6 DEF NumberInv

LEMMA PopNothingOlder ==
  ASSUME Context, NothingOlder, PopByte
  PROVE  NothingOlder'
<1>1. /\ stage = "pop" /\ UNCHANGED <<line, latest>>
      /\ stage' = IF pc = "advance" THEN "parse" ELSE "pop"
  BY DEF PopByte, lineVars
<1>2. /\ Len(sent) \in Nat /\ Low \in 1 .. Len(sent) + 1
      /\ latest.frame \in Nat
      /\ \A k \in 0 .. Len(sent) + 1 : At(k).frame \in Nat
      /\ \A k \in 1 .. Len(sent) : At(k).frame = sent[k].frame
  BY QueueNumbers, AtTypes DEF Context, Typed, ToFTypeOK, Data
<1>3. CASE PopLoad \/ PopCheck \/ PopRead
  <2>1. UNCHANGED <<buffer, head, tail, sent>>
    BY <1>3 DEF PopLoad, PopCheck, PopRead
  <2>2. Low' = Low /\ \A k : At(k)' = At(k)
    BY <1>1, <2>1 DEF Low, Count, At
  <2>3. h' = h => Number(h)' = Number(h)
    BY <2>1 DEF Number, Newer
  <2>4. CASE PopLoad
    <3>1. h' = head /\ pc' = "check"
      BY <2>4 DEF PopLoad
    <3>2. Number(h)' = Number(head)
      BY <2>1, <3>1 DEF Number, Newer
    <3>3. ASSUME head # tail PROVE sent[Number(head)].frame >= latest.frame
      <4>1. Number(head) = Low /\ Low \in 1 .. Len(sent)
        BY <1>2, <3>3, QueueNumbers
      <4>2. At(Low).frame >= latest.frame
        BY <1>2, <4>1 DEF NothingOlder
      <4> QED
        BY <1>2, <4>1, <4>2
    <3> QED
      BY <1>1, <2>1, <2>2, <2>4, <3>1, <3>2, <3>3 DEF NothingOlder, PopLoad
  <2>5. CASE PopCheck
    BY <1>1, <2>1, <2>2, <2>3, <2>5 DEF NothingOlder, PopCheck
  <2>6. CASE PopRead
    <3>1. pc = "read" /\ pc' = "advance" /\ out' = buffer[h] /\ head # tail
      BY <2>6 DEF PopRead, Context, Ring, NumberInv
    <3>2. h \in Slots /\ Number(h) >= 1
      BY <3>1 DEF Context, Ring, TypeOK, NumberInv
    <3>3. out' = sent[Number(h)]
      BY <3>1, <3>2 DEF Context, Ring, NumberInv
    <3> QED
      BY <1>1, <2>1, <2>2, <3>1, <3>3 DEF NothingOlder
  <2> QED
    BY <1>3, <2>4, <2>5, <2>6
<1>4. CASE PopAdvance
  <2>1. /\ sent' = sent /\ out' = out
        /\ Low' = Low + 1 \/ Low' = Number(h) + 1
    BY <1>4, PopMoves
  <2>2. PICK j \in 1 .. Len(sent) : sent[j] = out /\ j <= Number(h)
    BY <1>4, PopMoves
  <2>3. out.frame >= latest.frame /\ pc' = "idle"
    BY <1>4 DEF NothingOlder, PopAdvance
  <2>4. Number(h) \in Int
    BY QueueNumbers DEF Context, Ring, TypeOK
  <2>5. ASSUME NEW k \in 0 .. Len(sent) + 1, k >= Low' PROVE At(k).frame >= latest.frame
    <3>1. CASE Low' = Low + 1
      BY <1>2, <2>5, <3>1 DEF NothingOlder
    <3>2. CASE Low' = Number(h) + 1
      <4>1. j <= k /\ j \in 0 .. Len(sent) + 1
        BY <1>2, <2>2, <2>4, <2>5, <3>2
      <4>2. At(j).frame <= At(k).frame
        BY <4>1, StreamMonotone DEF Context
      <4>3. At(j).frame = out.frame
        BY <1>2, <2>2
      <4> QED
        BY <1>2, <2>3, <4>1, <4>2, <4>3
    <3> QED
      BY <2>1, <3>1, <3>2
  <2>6. \A k : At(k)' = At(k)
    BY <1>1, <2>1 DEF At
  <2> QED
    BY <1>1, <2>1, <2>3, <2>5, <2>6 DEF NothingOlder
<1> QED
  BY <1>3, <1>4 DEF PopByte, Pop

(* A packet that is published: its last two bytes are neighbours. *)
LEMMA PublishedBytes ==
  ASSUME Context, Near, CollectByte, Len(Collected) >= PacketLength,
         parseToFPacket(Collected)
  PROVE  /\ out.frame \in Nat
         /\ \A k \in 0 .. Len(sent) + 1 : k >= Low => At(k).frame >= out.frame
<1> DEFINE p == Len(packet)
<1>1. /\ packet \in Seq(Items) /\ p \in Nat /\ p < PacketLength /\ packet # <<>>
      /\ PacketLength \in Nat /\ PacketLength > 1
      /\ stage = "parse"
  BY PacketAssumption DEF Context, Typed, ToFTypeOK, CollectByte
<1>2. p = PacketLength - 1 /\ p \in 1 .. PacketLength /\ PacketLength \in 1 .. PacketLength
      /\ Collected[p] = packet[p] /\ Collected[PacketLength] = out
  BY <1>1 DEF Collected
<1>3. /\ packet[p].frame = out.frame /\ packet[p].pos = p - 1
      /\ out.pos = PacketLength - 1
  BY <1>2 DEF parseToFPacket
<1>4. PICK r \in 1 .. Len(sent) : sent[r] = packet[p]
  BY <1>1 DEF Near, Pushed
<1>5. PICK j \in 1 .. Len(sent) : sent[j] = out
  BY <1>1 DEF Context, Typed, ParsesArrived, Pushed
<1>6. j = r + 1
  <2>1. sent[j].pos = sent[r].pos + 1
    BY <1>1, <1>2, <1>3, <1>4, <1>5
  <2> QED
    BY <1>3, <1>4, <1>5, <2>1, Adjacent DEF Context
<1>7. r + 1 < Low
  <2>1. NearTo(r)
    BY <1>1, <1>4 DEF Near
  <2>2. r < Len(sent) /\ sent[r + 1] = out
    BY <1>5, <1>6, QueueNumbers
  <2> QED
    BY <1>1, <2>1, <2>2 DEF NearTo
<1>8. Len(sent) \in Nat /\ Low \in 1 .. Len(sent) + 1
  BY QueueNumbers
<1>9. At(j).frame = out.frame /\ out.frame \in Nat
  BY <1>5, <1>8, AtTypes DEF Context
<1>10. ASSUME NEW k \in 0 .. Len(sent) + 1, k >= Low PROVE At(k).frame >= out.frame
  <2>1. j \in 0 .. Len(sent) + 1 /\ j <= k
    BY <1>6, <1>7, <1>8, <1>10
  <2>2. At(j).frame <= At(k).frame /\ At(k).frame \in Nat
    BY <2>1, StreamMonotone, AtTypes DEF Context
  <2> QED
    BY <1>9, <2>2
<1> QED
  BY <1>9, <1>10

LEMMA NothingOlderStep ==
  Context /\ Near /\ NothingOlder /\ [ToFNext]_tofVars => NothingOlder'
<1> SUFFICES ASSUME Context, Near, NothingOlder, [ToFNext]_tofVars PROVE NothingOlder'
  OBVIOUS
<1>1. CASE LoseByte
  <2>1. UNCHANGED <<ringVars, stage, latest>>
    BY <1>1 DEF LoseByte, parserVars
  <2>2. /\ \A k \in 0 .. Len(sent) : At(k)' = At(k)
        /\ \A k : k = Len(sent) + 1 => At(k)' = Advanced(line)
        /\ At(Len(sent) + 1) = line
    BY <1>1, AtLoss, AtTypes DEF Context
  <2>3. /\ Advanced(line).frame >= line.frame /\ Advanced(line).frame \in Nat
        /\ line.frame \in Nat /\ latest.frame \in Nat
        /\ Len(sent) \in Nat /\ Low \in 1 .. Len(sent) + 1
    <3>1. Typed /\ latest.frame \in Nat
      BY DEF Context, Typed, ToFTypeOK, Data
    <3>2. Len(sent) \in Nat /\ Low \in 1 .. Len(sent) + 1
      BY QueueNumbers
    <3> QED
      BY <3>1, <3>2, LinePlaces
  <2>4. ASSUME NEW k \in 0 .. Len(sent) + 1, k >= Low PROVE At(k)'.frame >= latest.frame
    <3>1. At(k).frame >= latest.frame
      BY <2>4 DEF NothingOlder
    <3>2. CASE k = Len(sent) + 1
      BY <2>2, <2>3, <3>1, <3>2
    <3>3. CASE k # Len(sent) + 1
      BY <2>2, <2>3, <3>1, <3>3
    <3> QED
      BY <3>2, <3>3
  <2>5. Low' = Low /\ Number(h)' = Number(h)
    BY <2>1 DEF Low, Number, Newer, Count, ringVars
  <2> QED
    BY <2>1, <2>4, <2>5 DEF NothingOlder, ringVars
<1>2. CASE UNCHANGED <<ringVars, line>> /\ stage' # "parse" /\ latest' = latest
  <2>1. Low' = Low /\ Number(h)' = Number(h) /\ \A k : At(k)' = At(k)
    BY <1>2 DEF Low, Number, Newer, Count, At, ringVars
  <2> QED
    BY <1>2, <2>1 DEF NothingOlder, ringVars
<1>3. CASE UNCHANGED tofVars
  <2>1. Low' = Low /\ Number(h)' = Number(h) /\ \A k : At(k)' = At(k)
    BY <1>3 DEF Low, Number, Newer, Count, At, tofVars, ringVars, lineVars
  <2> QED
    BY <1>3, <2>1 DEF NothingOlder, tofVars, ringVars, parserVars
<1>4. CASE CollectByte
  <2>1. /\ UNCHANGED <<ringVars, line>> /\ stage' = "pop" /\ pc = "idle"
    BY <1>4 DEF CollectByte, lineVars, Context, Typed, ParsesArrived
  <2>2. CASE latest' = latest
    BY <1>2, <2>1, <2>2
  <2>3. CASE latest' # latest
    <3>1. /\ Len(Collected) >= PacketLength /\ parseToFPacket(Collected)
          /\ latest'.frame = out.frame
      BY <1>4, <2>3 DEF CollectByte
    <3>2. Low' = Low /\ \A k : At(k)' = At(k)
      BY <2>1 DEF Low, Count, At, ringVars
    <3> QED
      BY <1>4, <2>1, <3>1, <3>2, PublishedBytes DEF NothingOlder, ringVars
  <2> QED
    BY <2>2, <2>3
<1>5. CASE WaitForHeader \/ StartPacket \/ ReadStamp \/ ToF_GetLatestData
  BY <1>2, <1>5 DEF WaitForHeader, StartPacket, ReadStamp, ToF_GetLatestData, lineVars
<1> QED
  BY <1>1, <1>3, <1>4, <1>5, PushNothingOlder, PopNothingOlder
     DEF ToFNext, ToF_ProcessQueue

LEMMA PushNear ==
  ASSUME Context, Distinct', Near, NEW byte \in Items, ToF_RxHandler(byte)
  PROVE  Near'
<1> DEFINE n == Len(sent)
<1>1. /\ n \in Nat /\ n' = n + 1 /\ Low \in 1 .. n + 1
      /\ Low' = IF Full THEN Low + 1 ELSE Low
      /\ Capacity \in Nat
  BY QueueNumbers, PushMoves
<1>2. UNCHANGED <<pc, h, out, stage, packet>>
  BY DEF ToF_RxHandler, Push, parserVars
<1>3. \A k \in 1 .. n : sent'[k] = sent[k]
  BY AtArrival DEF Context
<1> HIDE DEF n
<1>4. ASSUME NEW x, Pushed(x), NEW k \in 1 .. n + 1, sent'[k] = x
      PROVE  k \in 1 .. n /\ sent[k] = x
  <2>1. PICK j \in 1 .. n : sent[j] = x
    BY <1>4 DEF Pushed, n
  <2>2. j \in 1 .. n' /\ k \in 1 .. n' /\ sent'[j] = sent'[k]
    BY <1>1, <1>3, <1>4, <2>1
  <2>3. j = k
    BY <2>2 DEF Distinct, n
  <2> QED
    BY <2>1, <2>3
<1>5. ASSUME stage = "parse", NEW k \in 1 .. n + 1, sent'[k] = out
      PROVE  k - Capacity + 2 <= Low'
  <2>1. k \in 1 .. n /\ sent[k] = out
    BY <1>4, <1>5 DEF Context, Typed, ParsesArrived
  <2>2. k - Capacity + 2 <= Low
    BY <1>5, <2>1 DEF Near, n
  <2> QED
    BY <1>1, <2>1, <2>2
<1>6. ASSUME packet # <<>>
      PROVE  Pushed(packet[Len(packet)])'
  <2>1. PICK j \in 1 .. n : sent[j] = packet[Len(packet)]
    BY <1>6 DEF Near, Pushed, n
  <2>2. j \in 1 .. n' /\ sent'[j] = packet'[Len(packet')]
    BY <1>1, <1>2, <1>3, <2>1
  <2> QED
    BY <2>2 DEF Pushed, n
<1>7. ASSUME packet # <<>>, NEW r \in 1 .. n + 1, sent'[r] = packet[Len(packet)]
      PROVE  NearTo(r)'
  <2>1. r \in 1 .. n /\ sent[r] = packet[Len(packet)]
    BY <1>4, <1>7 DEF Near
  <2>2. NearTo(r)
    BY <1>7, <2>1 DEF Near, n
  <2>3. stage # "parse" => r - Capacity + 2 <= Low'
    BY <1>1, <2>1, <2>2 DEF NearTo
  <2>4. ASSUME stage = "parse", r < n + 1, sent'[r + 1] = out PROVE r + 1 < Low'
    <3>1. r + 1 \in 1 .. n + 1
      BY <1>1, <2>1, <2>4
    <3>2. r + 1 \in 1 .. n /\ sent[r + 1] = out
      BY <1>4, <2>4, <3>1 DEF Context, Typed, ParsesArrived
    <3>3. r < Len(sent)
      BY <1>1, <2>1, <3>2 DEF n
    <3>4. r + 1 < Low
      BY <2>2, <2>4, <3>2, <3>3 DEF NearTo
    <3> QED
      BY <1>1, <2>1, <3>4
  <2>5. ASSUME pc \in {"check", "read"}, head' # tail'
        PROVE  \/ h = head'
               \/ Number(h)' >= r + 2
               \/ r - Capacity + 2 <= Number(h)' /\ Number(h)' < Low'
    <3>1. Number(h)' = IF h = tail THEN n + 1 ELSE Number(h)
      BY PushMoves DEF n
    <3>2. ASSUME head # tail
          PROVE  \/ h = head
                 \/ Number(h) >= r + 2
                 \/ r - Capacity + 2 <= Number(h) /\ Number(h) < Low
      BY <2>2, <2>5, <3>2 DEF NearTo
    <3>3. CASE h = head /\ head = tail /\ head' = h
      BY <3>3
    <3>4. CASE h = tail /\ head # tail /\ Full
      <4>1. Number(h) = n - Capacity + 1
        BY <3>4, QueueNumbers DEF n
      <4>2. Number(h)' = n + 1
        BY <3>1, <3>4
      <4>3. h # head
        BY <3>4
      <4> QED
        BY <1>1, <2>1, <3>2, <3>4, <4>1, <4>2, <4>3
    <3>5. CASE h # tail /\ head # tail
      <4>1. Number(h)' = Number(h) /\ Number(h) \in 1 .. n
        BY <2>5, <3>1, <3>5, QueueNumbers DEF n
      <4>2. CASE h = head /\ ~Full
        BY <4>2, PushMoves
      <4>3. CASE h = head /\ Full
        <5>1. Number(h) = Low /\ Low = n - Capacity + 2
          BY <3>5, <4>3, QueueNumbers DEF n
        <5> QED
          BY <1>1, <2>1, <4>1, <4>3, <5>1
      <4>4. CASE h # head
        BY <1>1, <2>1, <3>2, <3>5, <4>1, <4>4
      <4> QED
        BY <4>2, <4>3, <4>4
    <3> QED
      BY <2>5, <3>3, <3>4, <3>5, PushMoves
  <2>6. ASSUME pc = "advance", NEW k \in 1 .. n + 1, sent'[k] = out
        PROVE  k <= Low' \/ k >= r + 2
    <3>1. Pushed(out)
      BY <2>6 DEF Context, Ring, NumberInv, Pushed
    <3>2. k \in 1 .. n /\ sent[k] = out
      BY <1>4, <2>6, <3>1
    <3>3. k <= Low \/ k >= r + 2
      BY <2>2, <2>6, <3>2 DEF NearTo, n
    <3> QED
      BY <1>1, <2>1, <3>2, <3>3
  <2>7. Len(sent') = n + 1
    BY <1>1 DEF n
  <2> QED
    BY <1>2, <2>3, <2>4, <2>5, <2>6, <2>7 DEF NearTo
<1>8. Len(sent') = n + 1
  BY <1>1 DEF n
<1> QED
  BY <1>2, <1>5, <1>6, <1>7, <1>8 DEF Near

LEMMA PopNear ==
  ASSUME Context, Near, PopByte
  PROVE  Near'
<1>1. /\ stage = "pop" /\ packet' = packet
      /\ stage' = IF pc = "advance" THEN "parse" ELSE "pop"
  BY DEF PopByte
<1>2. /\ Len(sent) \in Nat /\ Low \in 1 .. Len(sent) + 1
      /\ Capacity \in Nat
  BY QueueNumbers
<1>3. sent' = sent
  BY DEF PopByte, Pop, PopLoad, PopCheck, PopRead, PopAdvance
<1>4. \A x : Pushed(x)' <=> Pushed(x)
  BY <1>3 DEF Pushed
<1>5. CASE PopLoad \/ PopCheck \/ PopRead
  <2>1. UNCHANGED <<buffer, head, tail, sent>> /\ pc # "advance"
    BY <1>5 DEF PopLoad, PopCheck, PopRead
  <2>2. Low' = Low
    BY <2>1 DEF Low, Count
  <2>3. h' = h => Number(h)' = Number(h)
    BY <2>1 DEF Number, Newer
  <2>4. ASSUME NEW r \in 1 .. Len(sent), NearTo(r) PROVE NearTo(r)'
    <3>1. CASE PopLoad
      BY <1>1, <2>1, <2>2, <2>4, <3>1 DEF NearTo, PopLoad
    <3>2. CASE PopCheck
      BY <1>1, <2>1, <2>2, <2>3, <2>4, <3>2 DEF NearTo, PopCheck
    <3>3. CASE PopRead
      <4>1. /\ pc = "read" /\ pc' = "advance" /\ out' = buffer[h] /\ head # tail
            /\ h \in Slots
        BY <3>3 DEF PopRead, Context, Ring, NumberInv, TypeOK
      <4>2. Number(h) \in 1 .. Len(sent) /\ Number(head) = Low
        BY <4>1, QueueNumbers
      <4>3. out' = sent[Number(h)]
        BY <4>1, <4>2 DEF Context, Ring, NumberInv
      <4>4. ASSUME NEW k \in 1 .. Len(sent), sent[k] = out'
            PROVE  k <= Low \/ k >= r + 2
        <5>1. k = Number(h)
          BY <4>2, <4>3, <4>4 DEF Context, Distinct
        <5>2. \/ h = head
              \/ Number(h) >= r + 2
              \/ Number(h) < Low
          BY <2>4, <4>1 DEF NearTo
        <5> QED
          BY <1>2, <4>2, <5>1, <5>2
      <4> QED
        BY <1>1, <2>1, <2>2, <2>4, <4>1, <4>4 DEF NearTo
    <3> QED
      BY <1>5, <3>1, <3>2, <3>3
  <2> QED
    BY <1>1, <1>3, <1>4, <2>1, <2>4 DEF Near
<1>6. CASE PopAdvance
  <2>1. pc = "advance" /\ pc' = "idle" /\ stage' = "parse" /\ out' = out
    BY <1>1, <1>6 DEF PopAdvance
  <2>2. /\ Low' = Low + 1 \/ Low' = Number(h) + 1
        /\ Low' >= Len(sent) - Capacity + 2
    BY <1>6, PopMoves
  <2>3. PICK j \in 1 .. Len(sent) : sent[j] = out /\ j <= Number(h)
    BY <1>6, PopMoves
  <2>4. Number(h) \in Int
    BY QueueNumbers DEF Context, Ring, TypeOK
  <2>5. Low' \in Int
    BY <1>2, <2>2, <2>4
  <2>6. \A k \in 1 .. Len(sent) : k - Capacity + 2 <= Low'
    BY <1>2, <2>2, <2>5
  <2>7. ASSUME NEW r \in 1 .. Len(sent), NearTo(r) PROVE NearTo(r)'
    <3>1. ASSUME r < Len(sent), sent[r + 1] = out PROVE r + 1 < Low'
      <4>1. r + 1 \in 1 .. Len(sent)
        BY <1>2, <3>1
      <4>2. r + 1 <= Low
        BY <1>2, <2>1, <2>7, <3>1, <4>1 DEF NearTo
      <4>3. j = r + 1
        BY <2>3, <3>1, <4>1 DEF Context, Distinct
      <4> QED
        BY <1>2, <2>2, <2>3, <2>4, <4>2, <4>3
    <3> QED
      BY <1>3, <2>1, <3>1 DEF NearTo
  <2> QED
    BY <1>1, <1>3, <1>4, <2>1, <2>6, <2>7 DEF Near
<1> QED
  BY <1>5, <1>6 DEF PopByte, Pop

LEMMA NearStep ==
  Context /\ Distinct' /\ Near /\ [ToFNext]_tofVars => Near'
<1> SUFFICES ASSUME Context, Distinct', Near, [ToFNext]_tofVars PROVE Near'
  OBVIOUS
<1>1. CASE /\ UNCHANGED <<ringVars, packet>>
           /\ stage' = stage \/ (stage # "parse" /\ stage' # "parse")
  <2>1. Low' = Low /\ Number(h)' = Number(h) /\ \A x : Pushed(x)' <=> Pushed(x)
    BY <1>1 DEF Low, Number, Newer, Count, Pushed, ringVars
  <2>2. \A r \in 1 .. Len(sent) : NearTo(r) => NearTo(r)'
    BY <1>1, <2>1 DEF NearTo, ringVars
  <2> QED
    BY <1>1, <2>1, <2>2 DEF Near, ringVars
<1>2. CASE LoseByte \/ ReadStamp \/ ToF_GetLatestData \/ UNCHANGED tofVars
  BY <1>1, <1>2 DEF LoseByte, ReadStamp, ToF_GetLatestData, tofVars, parserVars
<1>3. CASE WaitForHeader
  BY <1>3 DEF WaitForHeader, Near
<1>4. CASE StartPacket \/ CollectByte
  <2>1. /\ UNCHANGED ringVars /\ stage = "parse" /\ stage' # "parse" /\ pc = "idle"
        /\ Pushed(out)
    BY <1>4 DEF StartPacket, CollectByte, Context, Typed, ParsesArrived
  <2>2. packet' = <<>> \/ packet'[Len(packet')] = out
    <3>1. CASE StartPacket
      BY <3>1 DEF StartPacket
    <3>2. CASE CollectByte
      <4>1. packet' = <<>> \/ packet' = Append(packet, out)
        BY <3>2 DEF CollectByte, Collected
      <4>2. packet \in Seq(Items)
        BY DEF Context, Typed, ToFTypeOK
      <4> QED
        BY <4>1, <4>2
    <3> QED
      BY <1>4, <3>1, <3>2
  <2>3. Low' = Low /\ (Pushed(out)' <=> Pushed(out))
    BY <2>1 DEF Low, Count, Pushed, ringVars
  <2>4. ASSUME NEW r \in 1 .. Len(sent), sent[r] = out PROVE NearTo(r)'
    <3>1. r - Capacity + 2 <= Low
      BY <2>1, <2>4 DEF Near
    <3> QED
      BY <2>1, <2>3, <3>1 DEF NearTo, ringVars
  <2>5. packet' # <<>> => Pushed(packet[Len(packet)])'
    BY <2>1, <2>2, <2>3 DEF Pushed, ringVars
  <2> QED
    BY <2>1, <2>2, <2>4, <2>5 DEF Near, ringVars
<1> QED
  BY <1>2, <1>3, <1>4, PushNear, PopNear DEF ToFNext, ToF_ProcessQueue

LEMMA AlwaysInOrder == ToFSpec => [](Context /\ Near /\ NothingOlder)
<1>1. ToFSpec => []Context
  BY ToFRing, AlwaysTyped, StreamAlways, StreamDistinct, PTL DEF Context
<1>2. ToFInit /\ Context => Near /\ NothingOlder
  <2> SUFFICES ASSUME ToFInit, Context PROVE Near /\ NothingOlder
    OBVIOUS
  <2>1. /\ latest.frame = 0 /\ pc = "idle" /\ stage = "pop" /\ packet = <<>>
    BY DEF ToFInit, Init
  <2>2. \A k \in 0 .. Len(sent) + 1 : At(k).frame >= latest.frame
    BY <2>1, AtTypes DEF Context
  <2> QED
    BY <2>1, <2>2 DEF Near, NothingOlder
<1> QED
  BY <1>1, <1>2, NearStep, NothingOlderStep, PTL DEF ToFSpec, Context

(* The frame a client reads never goes back, for every capacity, packet    *)
(* length and number of losses, and also when the interrupt handler laps   *)
(* the reader in the middle of a Pop.                                      *)
THEOREM ToFFramesAdvance == ToFSpec => FramesAdvance
<1>1. Context /\ Near /\ NothingOlder /\ [ToFNext]_tofVars
        => [latest'.frame >= latest.frame]_tofVars
  <2> SUFFICES ASSUME Context, NothingOlder, [ToFNext]_tofVars
               PROVE  latest'.frame >= latest.frame \/ UNCHANGED tofVars
    OBVIOUS
  <2>1. latest.frame \in Nat
    BY DEF Context, Typed, ToFTypeOK, Data
  <2>2. CASE latest' = latest
    BY <2>1, <2>2
  <2>3. CASE latest' # latest
    <3>1. CollectByte \/ UNCHANGED tofVars
      BY <2>3 DEF ToFNext, ToF_ProcessQueue, ToF_RxHandler, LoseByte, PopByte, WaitForHeader,
                  StartPacket, ReadStamp, ToF_GetLatestData, parserVars
    <3>2. CASE CollectByte
      <4>1. latest'.frame = out.frame /\ stage = "parse"
        BY <2>3, <3>2 DEF CollectByte
      <4> QED
        BY <4>1 DEF NothingOlder
    <3> QED
      BY <3>1, <3>2
  <2> QED
    BY <2>2, <2>3
<1> QED
  BY <1>1, AlwaysInOrder, PTL DEF ToFSpec, FramesAdvance

-----------------------------------------------------------------------------
(* Without an overrun the parser sees the bytes that arrived, one by one.  *)

Parsed == IF stage = "parse" THEN Len(recv) - 1 ELSE Len(recv)

PacketInv ==
  /\ stage = "parse" => Len(recv) > 0 /\ out = sent[Len(recv)]
  /\ stage = "stamp" => Len(packet) = 1
  /\ Len(packet) <= Parsed
  /\ \A i \in 1 .. Len(packet) : packet[i] = sent[Parsed - Len(packet) + i]

LEMMA QueueInOrder ==
  ASSUME Typed, Ring, ~overrun
  PROVE  /\ Len(recv) \in Nat /\ Len(sent) \in Nat /\ Count \in 0 .. Capacity - 1
         /\ Len(sent) = Len(recv) + Count
         /\ pc # "idle" => h = head
         /\ pc = "advance" => Count > 0 /\ out = sent[Len(recv) + 1]
<1>1. /\ PopCopyCurrent /\ BufferHoldsRest /\ TypeOK
      /\ head \in Slots /\ tail \in Slots
  BY DEF Ring, RingInv, TypeOK
<1>2. Len(recv) \in Nat /\ Len(sent) \in Nat /\ Count \in 0 .. Capacity - 1
  BY <1>1, CountBounds DEF TypeOK
<1>3. ASSUME pc = "advance" PROVE Count > 0 /\ out = sent[Len(recv) + 1]
  <2>1. Count > 0 /\ out = buffer[head]
    BY <1>1, <1>3 DEF PopCopyCurrent
  <2>2. 0 \in 0 .. Count - 1 /\ SlotAt(0) = head
    BY <1>1, <1>2, <2>1, CountBounds
  <2>3. buffer[SlotAt(0)] = sent[Len(recv) + 0 + 1]
    BY <1>1, <2>2 DEF BufferHoldsRest
  <2> QED
    BY <1>2, <2>1, <2>2, <2>3
<1> QED
  BY <1>1, <1>2, <1>3 DEF PopCopyCurrent, BufferHoldsRest

LEMMA PacketTypes ==
  ASSUME Typed
  PROVE  /\ packet \in Seq(Items) /\ Len(packet) \in Nat /\ Len(packet) < PacketLength
         /\ PacketLength \in Nat /\ PacketLength > 1
         /\ packet = <<>> <=> Len(packet) = 0
BY PacketAssumption DEF Typed, ToFTypeOK

(* What parsing a byte does to the packet, by the code's four cases.       *)
Parses == WaitForHeader \/ StartPacket \/ CollectByte

LEMMA ParseStep ==
  ASSUME Typed, Ring, ~overrun, PacketInv, Parses
  PROVE  /\ UNCHANGED <<ringVars, lineVars>> /\ stage = "parse"
         /\ Parsed \in Nat /\ Parsed' = Parsed + 1 /\ Parsed + 1 = Len(recv)
         /\ Parsed + 1 <= Len(sent) /\ out = sent[Parsed + 1] /\ out \in Items
         /\ published \subseteq published'
         /\ \/ packet = <<>> /\ ~out.header /\ packet' = <<>> /\ stage' = "pop"
            \/ packet = <<>> /\ out.header /\ packet' = <<out>> /\ stage' = "stamp"
            \/ /\ packet # <<>> /\ Len(packet) + 1 < PacketLength
               /\ packet' = Append(packet, out) /\ stage' = "pop"
            \/ /\ packet # <<>> /\ Len(packet) + 1 = PacketLength
               /\ packet' = <<>> /\ stage' = "pop"
               /\ parseToFPacket(Append(packet, out)) => out.frame \in published'
<1>1. UNCHANGED <<ringVars, lineVars>> /\ stage = "parse" /\ stage' \in {"pop", "stamp"}
  BY DEF Parses, WaitForHeader, StartPacket, CollectByte
<1>2. /\ Len(recv) \in Nat /\ Len(sent) \in Nat /\ Len(recv) <= Len(sent)
  BY QueueInOrder
<1>3. /\ Parsed \in Nat /\ Parsed' = Parsed + 1 /\ Parsed + 1 = Len(recv)
      /\ out = sent[Parsed + 1]
  BY <1>1, <1>2 DEF Parsed, PacketInv, ringVars
<1>4. out \in Items
  BY <1>1, OutTypes
<1>5. CASE WaitForHeader
  BY <1>1, <1>2, <1>3, <1>4, <1>5 DEF WaitForHeader
<1>6. CASE StartPacket
  BY <1>1, <1>2, <1>3, <1>4, <1>6 DEF StartPacket
<1>7. CASE CollectByte
  <2>1. Len(Append(packet, out)) = Len(packet) + 1
    BY <1>4, PacketTypes
  <2>2. Len(packet) + 1 < PacketLength \/ Len(packet) + 1 = PacketLength
    BY PacketTypes
  <2>3. published \subseteq published' /\ packet # <<>> /\ stage' = "pop"
    BY <1>7 DEF CollectByte
  <2>4. CASE Len(packet) + 1 < PacketLength
    <3>1. packet' = Append(packet, out)
      BY <1>7, <2>1, <2>4, PacketTypes DEF CollectByte, Collected
    <3> QED
      BY <1>1, <1>2, <1>3, <1>4, <2>3, <2>4, <3>1
  <2>5. CASE Len(packet) + 1 = PacketLength
    <3>1. packet' = <<>> /\ (parseToFPacket(Append(packet, out)) => out.frame \in published')
      BY <1>7, <2>1, <2>5, PacketTypes DEF CollectByte, Collected
    <3> QED
      BY <1>1, <1>2, <1>3, <1>4, <2>3, <2>5, <3>1
  <2> QED
    BY <2>2, <2>4, <2>5
<1> QED
  BY <1>5, <1>6, <1>7 DEF Parses

LEMMA ParsePacket ==
  ASSUME Typed, Ring, ~overrun, PacketInv, Parses
  PROVE  PacketInv'
<1>1. /\ sent' = sent /\ recv' = recv /\ stage' \in {"pop", "stamp"}
      /\ Parsed \in Nat /\ Parsed' = Parsed + 1
      /\ out = sent[Parsed + 1] /\ out \in Items
  BY ParseStep DEF ringVars
<1>2. /\ packet \in Seq(Items) /\ Len(packet) \in Nat /\ Len(packet) <= Parsed
      /\ \A i \in 1 .. Len(packet) : packet[i] = sent[Parsed - Len(packet) + i]
  BY PacketTypes DEF PacketInv
<1>3. CASE packet' = <<>> /\ stage' = "pop"
  BY <1>1, <1>3 DEF PacketInv
<1>4. CASE packet = <<>> /\ packet' = <<out>> /\ stage' = "stamp"
  BY <1>1, <1>4 DEF PacketInv
<1>5. CASE packet' = Append(packet, out) /\ stage' = "pop"
  <2>1. Len(packet') = Len(packet) + 1
    BY <1>1, <1>2, <1>5
  <2>2. ASSUME NEW i \in 1 .. Len(packet')
        PROVE  packet'[i] = sent[Parsed' - Len(packet') + i]
    <3>1. Parsed' - Len(packet') + i = Parsed - Len(packet) + i
      BY <1>1, <1>2, <2>1
    <3>2. CASE i = Len(packet) + 1
      BY <1>1, <1>2, <1>5, <3>1, <3>2
    <3>3. CASE i # Len(packet) + 1
      BY <1>1, <1>2, <1>5, <2>1, <3>1, <3>3
    <3> QED
      BY <3>2, <3>3
  <2> QED
    BY <1>1, <1>2, <1>5, <2>1, <2>2 DEF PacketInv
<1> QED
  BY <1>3, <1>4, <1>5, ParseStep

(* A Pop hands over the next byte, but the parser has not seen it yet.     *)
LEMMA PopAdvanceStep ==
  ASSUME Typed, Ring, ~overrun, PacketInv, PopByte, PopAdvance
  PROVE  /\ Len(recv') = Len(recv) + 1 /\ sent' = sent /\ stage' = "parse"
         /\ stage = "pop" /\ out' = out /\ out = sent[Len(recv) + 1] /\ overrun' = overrun
         /\ Parsed' = Parsed /\ Parsed = Len(recv)
         /\ head' = After(head) /\ tail' = tail /\ Count > 0
<1>1. /\ recv' = Append(recv, out) /\ sent' = sent /\ out' = out /\ overrun' = overrun
      /\ pc = "advance" /\ stage = "pop" /\ stage' = "parse" /\ tail' = tail
  BY DEF PopAdvance, PopByte
<1>2. h = head /\ Count > 0 /\ out = sent[Len(recv) + 1]
  BY <1>1, QueueInOrder
<1>3. Len(recv') = Len(recv) + 1 /\ Len(recv) \in Nat
  BY <1>1 DEF Typed, ToFTypeOK, TypeOK
<1>4. head' = After(head)
  BY <1>2 DEF PopAdvance
<1> QED
  BY <1>1, <1>2, <1>3, <1>4 DEF Parsed

LEMMA PacketStep ==
  Typed /\ Ring /\ (~overrun => PacketInv) /\ [ToFNext]_tofVars
    => (~overrun' => PacketInv')
<1> SUFFICES ASSUME Typed, Ring, ~overrun => PacketInv, [ToFNext]_tofVars, ~overrun'
             PROVE  PacketInv'
  OBVIOUS
<1>1. [Next]_ringVars
  BY ToFStepIsRingStep
<1>2. ~overrun
  BY <1>1 DEF Next, Pop, Push, PopLoad, PopCheck, PopRead, PopAdvance, ringVars, Ring, TypeOK
<1>3. /\ PacketInv /\ Len(recv) \in Nat /\ Len(sent) \in Nat /\ Len(recv) <= Len(sent)
      /\ Len(packet) \in Nat
  BY <1>2, QueueInOrder, PacketTypes
<1>4. CASE Parses
  BY <1>2, <1>3, <1>4, ParsePacket
<1>5. ASSUME NEW byte \in Items, ToF_RxHandler(byte) PROVE PacketInv'
  <2>1. /\ recv' = recv /\ stage' = stage /\ packet' = packet /\ out' = out
    BY <1>5 DEF ToF_RxHandler, Push, parserVars
  <2>2. \A k \in 1 .. Len(sent) : sent'[k] = sent[k]
    BY <1>5, AtArrival
  <2>3. Parsed' = Parsed /\ Parsed \in Int /\ Parsed <= Len(sent)
    BY <1>3, <2>1 DEF Parsed
  <2>4. ASSUME NEW i \in 1 .. Len(packet)
        PROVE  Parsed - Len(packet) + i \in 1 .. Len(sent)
    BY <1>3, <2>3 DEF PacketInv
  <2>5. ASSUME NEW i \in 1 .. Len(packet')
        PROVE  packet'[i] = sent'[Parsed' - Len(packet') + i]
    <3>1. packet[i] = sent[Parsed - Len(packet) + i]
      BY <1>3, <2>1, <2>5 DEF PacketInv
    <3> QED
      BY <2>1, <2>2, <2>3, <2>4, <2>5, <3>1
  <2>6. ASSUME stage' = "parse" PROVE Len(recv') > 0 /\ out' = sent'[Len(recv')]
    <3>1. Len(recv) > 0 /\ out = sent[Len(recv)]
      BY <1>3, <2>1, <2>6 DEF PacketInv
    <3> QED
      BY <1>3, <2>1, <2>2, <3>1
  <2> QED
    BY <1>3, <2>1, <2>3, <2>5, <2>6 DEF PacketInv
<1>6. CASE PopByte /\ PopAdvance
  <2>1. packet' = packet
    BY <1>6 DEF PopByte
  <2> QED
    BY <1>2, <1>3, <1>6, <2>1, PopAdvanceStep DEF PacketInv
<1>7. CASE PopByte /\ ~PopAdvance
  <2>1. stage' = "pop" /\ stage = "pop" /\ recv' = recv /\ sent' = sent /\ packet' = packet
    BY <1>7 DEF PopByte, Pop, PopLoad, PopCheck, PopRead
  <2> QED
    BY <1>3, <2>1 DEF PacketInv, Parsed
<1>8. CASE ReadStamp
  <2>1. /\ stage = "stamp" /\ stage' = "pop" /\ recv' = recv /\ sent' = sent
        /\ packet' = packet
    BY <1>8 DEF ReadStamp, ringVars
  <2> QED
    BY <1>3, <2>1 DEF PacketInv, Parsed
<1>9. CASE LoseByte \/ ToF_GetLatestData \/ UNCHANGED tofVars
  <2>1. UNCHANGED <<ringVars, stage, packet>>
    BY <1>9 DEF LoseByte, ToF_GetLatestData, tofVars, parserVars
  <2> QED
    BY <1>3, <2>1 DEF PacketInv, Parsed, ringVars
<1> QED
  BY <1>4, <1>5, <1>6, <1>7, <1>8, <1>9 DEF ToFNext, ToF_ProcessQueue, Parses

LEMMA PacketAlways == ToFSpec => [](~overrun => PacketInv)
<1>1. ToFInit => PacketInv
  BY DEF ToFInit, Init, PacketInv, Parsed
<1> QED
  BY <1>1, PacketStep, ToFRing, AlwaysTyped, PTL DEF ToFSpec

-----------------------------------------------------------------------------
(* Time stamps.  The stamp of a header byte stays in the byte's slot until *)
(* the packet that it starts has read it: a free slot lies between.        *)

ArrivalsStamped ==
  \A i \in 0 .. Count - 1 :
    sent[Len(recv) + i + 1].header => stamps[SlotAt(i)] = Len(recv) + i + 1

LatestStamped ==
  latest.frame # 0 =>
    /\ latest.received \in 1 .. Len(sent)
    /\ sent[latest.received].frame = latest.frame
    /\ sent[latest.received].pos = 0

StampInv ==
  /\ ArrivalsStamped
  /\ stage = "parse" /\ out.header => stamps[SlotBehindHead] = Len(recv)
  /\ stage = "stamp" => slot = SlotBehindHead /\ stamps[slot] = Len(recv)
  /\ stage # "stamp" /\ packet # <<>> => started = Parsed - Len(packet) + 1
  /\ LatestStamped

LEMMA BehindHeadPlaces ==
  ASSUME head \in Slots
  PROVE  /\ After(SlotBehindHead) = head
         /\ \A s \in Slots : After(s) = head => s = SlotBehindHead
<1>1. /\ SlotBehindHead = IF head = 0 THEN Capacity - 1 ELSE head - 1
      /\ SlotBehindHead \in Slots
  BY BehindHead
<1>2. Capacity \in Nat /\ Capacity > 0 /\ head \in 0 .. Capacity - 1
  BY CapacityAssumption DEF Slots
<1>3. /\ After(SlotBehindHead) = IF SlotBehindHead + 1 = Capacity THEN 0
                                 ELSE SlotBehindHead + 1
      /\ \A s \in Slots : After(s) = IF s + 1 = Capacity THEN 0 ELSE s + 1
  BY <1>1, AfterIsNext
<1> HIDE DEF SlotBehindHead
<1> QED
  BY <1>1, <1>2, <1>3 DEF Slots

LEMMA PushStamps ==
  ASSUME Typed, Ring, ~overrun, ~overrun', PacketInv, StampInv,
         NEW byte \in Items, ToF_RxHandler(byte)
  PROVE  StampInv'
<1>1. /\ Len(recv) \in Nat /\ Len(sent) \in Nat /\ Count \in 0 .. Capacity - 1
      /\ Len(sent) = Len(recv) + Count
  BY QueueInOrder
<1>2. /\ TypeOK /\ Push(byte)
      /\ UNCHANGED <<stage, slot, packet, started, latest, recv, out>>
      /\ stamps' = IF byte.header THEN [stamps EXCEPT ![tail] = Now] ELSE stamps
      /\ Now = Len(sent) + 1
      /\ head \in Slots /\ tail \in Slots /\ stamps \in [Slots -> 0 .. MaxPush]
  BY DEF ToF_RxHandler, Push, parserVars, Now, Typed, ToFTypeOK, TypeOK
<1>3. /\ head' = head /\ Count' = Count + 1 /\ Count + 1 <= Capacity - 1
      /\ \A i \in 0 .. Count : SlotAt(i)' = SlotAt(i)
  BY <1>2, PushPlaces
<1>4. /\ sent'[Len(sent) + 1] = byte /\ Len(sent') = Len(sent) + 1
      /\ \A k \in 1 .. Len(sent) : sent'[k] = sent[k]
  BY AtArrival
<1>5. /\ \A s \in Slots : s # tail => stamps'[s] = stamps[s]
      /\ byte.header => stamps'[tail] = Len(sent) + 1
  BY <1>2
<1>6. /\ SlotAt(Count) = tail
      /\ \A i \in 0 .. Count - 1 : SlotAt(i) \in Slots /\ SlotAt(i) # tail
  <2>1. \A i \in 0 .. Count - 1 : i \in 0 .. Capacity - 1
    BY <1>1, CapacityAssumption
  <2> QED
    BY <1>1, <1>2, <2>1, CountBounds
<1>7. SlotBehindHead' = SlotBehindHead /\ SlotBehindHead \in Slots /\ SlotBehindHead # tail
  <2>1. After(tail) # head
    BY <1>2 DEF Push
  <2> QED
    BY <1>2, <1>3, <2>1, BehindHead, BehindHeadPlaces DEF SlotBehindHead
<1>8. ASSUME NEW i \in 0 .. Count' - 1, sent'[Len(recv') + i + 1].header
      PROVE  stamps'[SlotAt(i)'] = Len(recv') + i + 1
  <2>1. CASE i = Count
    <3>1. Len(recv') + i + 1 = Len(sent) + 1
      BY <1>1, <1>2, <2>1
    <3>2. SlotAt(i)' = tail
      BY <1>1, <1>3, <1>6, <2>1
    <3> QED
      BY <1>4, <1>5, <1>8, <3>1, <3>2
  <2>2. CASE i # Count
    <3>1. i \in 0 .. Count - 1 /\ i \in 0 .. Count
      BY <1>1, <1>3, <2>2
    <3>2. Len(recv) + i + 1 \in 1 .. Len(sent)
      BY <1>1, <3>1
    <3>3. sent[Len(recv) + i + 1].header
      BY <1>2, <1>4, <1>8, <3>2
    <3>4. stamps[SlotAt(i)] = Len(recv) + i + 1
      BY <3>1, <3>3 DEF StampInv, ArrivalsStamped
    <3> QED
      BY <1>2, <1>3, <1>5, <1>6, <3>1, <3>4
  <2> QED
    BY <2>1, <2>2
<1>9. ArrivalsStamped'
  BY <1>8 DEF ArrivalsStamped
<1>10. LatestStamped'
  BY <1>1, <1>2, <1>4 DEF StampInv, LatestStamped
<1>11. Parsed' = Parsed
  BY <1>2 DEF Parsed
<1>12. ASSUME stage' = "parse", out'.header PROVE stamps'[SlotBehindHead'] = Len(recv')
  BY <1>2, <1>5, <1>7, <1>12 DEF StampInv
<1>13. ASSUME stage' = "stamp"
       PROVE  slot' = SlotBehindHead' /\ stamps'[slot'] = Len(recv')
  BY <1>2, <1>5, <1>7, <1>13 DEF StampInv
<1>14. ASSUME stage' # "stamp", packet' # <<>>
       PROVE  started' = Parsed' - Len(packet') + 1
  BY <1>2, <1>11, <1>14 DEF StampInv
<1> QED
  BY <1>9, <1>10, <1>12, <1>13, <1>14 DEF StampInv

LEMMA AdvanceStamps ==
  ASSUME Typed, Ring, ~overrun, PacketInv, StampInv, PopByte, PopAdvance
  PROVE  StampInv'
<1>1. /\ Len(recv') = Len(recv) + 1 /\ sent' = sent /\ stage' = "parse"
      /\ stage = "pop" /\ out' = out /\ out = sent[Len(recv) + 1]
      /\ Parsed' = Parsed
      /\ head' = After(head) /\ tail' = tail /\ Count > 0
  BY PopAdvanceStep
<1>2. UNCHANGED <<stamps, slot, packet, started, latest>>
  BY DEF PopByte, lineVars
<1>3. Len(recv) \in Nat /\ Count \in 0 .. Capacity - 1 /\ head \in Slots /\ tail \in Slots
      /\ TypeOK
  BY QueueInOrder DEF Typed, ToFTypeOK, TypeOK
<1>4. /\ Count' = Count - 1
      /\ \A i \in 0 .. Count - 2 : SlotAt(i)' = SlotAt(i + 1)
  BY <1>1, <1>3, AdvancePlaces
<1>5. ASSUME NEW i \in 0 .. Count' - 1, sent'[Len(recv') + i + 1].header
      PROVE  stamps'[SlotAt(i)'] = Len(recv') + i + 1
  <2>1. i \in 0 .. Count - 2 /\ i + 1 \in 0 .. Count - 1
        /\ Len(recv') + i + 1 = Len(recv) + (i + 1) + 1
    BY <1>1, <1>3, <1>4
  <2>2. stamps[SlotAt(i + 1)] = Len(recv) + (i + 1) + 1
    BY <1>1, <1>5, <2>1 DEF StampInv, ArrivalsStamped
  <2> QED
    BY <1>2, <1>4, <2>1, <2>2
<1>6. SlotBehindHead' = head
  <2>1. head' \in Slots
    BY <1>1, <1>3, AfterIsNext
  <2>2. head' = IF head + 1 = Capacity THEN 0 ELSE head + 1
    BY <1>1, <1>3, AfterIsNext
  <2>3. SlotBehindHead' = IF head' = 0 THEN Capacity - 1 ELSE head' - 1
    BY <2>1, BehindSlot DEF SlotBehindHead
  <2> QED
    BY <1>3, <2>2, <2>3, CapacityAssumption DEF Slots
<1>7. ASSUME out.header PROVE stamps[head] = Len(recv) + 1
  <2>1. 0 \in 0 .. Count - 1 /\ SlotAt(0) = head /\ Len(recv) + 0 + 1 = Len(recv) + 1
    BY <1>1, <1>3, CountBounds
  <2>2. stamps[SlotAt(0)] = Len(recv) + 0 + 1
    BY <1>1, <1>7, <2>1 DEF StampInv, ArrivalsStamped
  <2> QED
    BY <2>1, <2>2
<1>8. ArrivalsStamped'
  BY <1>5 DEF ArrivalsStamped
<1>9. LatestStamped'
  BY <1>1, <1>2 DEF StampInv, LatestStamped
<1>10. ASSUME stage' = "parse", out'.header PROVE stamps'[SlotBehindHead'] = Len(recv')
  BY <1>1, <1>2, <1>6, <1>7, <1>10
<1>11. ASSUME packet' # <<>> PROVE started' = Parsed' - Len(packet') + 1
  BY <1>1, <1>2, <1>11 DEF StampInv
<1> QED
  BY <1>1, <1>8, <1>9, <1>10, <1>11 DEF StampInv

(* Only a whole frame is published, with the stamp of its first byte.      *)
LEMMA PublishedStamp ==
  ASSUME Typed, Ring, ~overrun, PacketInv, StampInv, CollectByte
  PROVE  LatestStamped'
<1>1. /\ stage = "parse" /\ packet # <<>> /\ sent' = sent
      /\ out \in Items /\ Parsed \in Nat /\ Parsed + 1 <= Len(sent) /\ Len(sent) \in Nat
  BY ParseStep, QueueInOrder DEF Parses, CollectByte, ringVars
<1>2. /\ packet \in Seq(Items) /\ Len(packet) \in Nat /\ Len(packet) < PacketLength
      /\ Len(packet) > 0 /\ PacketLength \in Nat /\ PacketLength > 1
  BY <1>1, PacketTypes
<1>3. CASE latest' = latest
  BY <1>1, <1>3 DEF StampInv, LatestStamped
<1>4. CASE latest' # latest
  <2> DEFINE bytes == Append(packet, out)
  <2>1. /\ Len(bytes) = Len(packet) + 1 /\ bytes[1] = packet[1]
        /\ bytes[Len(packet) + 1] = out
    BY <1>1, <1>2
  <2>2. /\ Len(bytes) >= PacketLength /\ parseToFPacket(bytes)
        /\ latest' = [frame |-> out.frame, received |-> started]
    BY <1>4 DEF CollectByte, Collected
  <2> HIDE DEF bytes
  <2>3. Len(packet) + 1 = PacketLength /\ 1 \in 1 .. PacketLength
        /\ PacketLength \in 1 .. PacketLength
    BY <1>2, <2>1, <2>2
  <2>4. out.frame = packet[1].frame /\ packet[1].pos = 0
    BY <2>1, <2>2, <2>3 DEF parseToFPacket
  <2>5. started = Parsed - Len(packet) + 1 /\ started \in 1 .. Len(sent)
    BY <1>1, <1>2 DEF StampInv, PacketInv
  <2>6. packet[1] = sent[started]
    BY <1>1, <1>2, <2>5 DEF PacketInv
  <2> QED
    BY <1>1, <2>2, <2>4, <2>5, <2>6 DEF LatestStamped
<1> QED
  BY <1>3, <1>4

LEMMA ParseStamps ==
  ASSUME Typed, Ring, ~overrun, PacketInv, StampInv, Parses
  PROVE  StampInv'
<1>1. /\ UNCHANGED <<ringVars, lineVars>> /\ stage = "parse"
      /\ Parsed \in Nat /\ Parsed' = Parsed + 1 /\ Parsed + 1 = Len(recv) /\ out \in Items
  BY ParseStep
<1>2. UNCHANGED <<recv, sent, head, tail, stamps, out>>
  BY <1>1 DEF ringVars, lineVars
<1>3. ArrivalsStamped' /\ SlotBehindHead' = SlotBehindHead
  <2>1. Count' = Count /\ \A i : SlotAt(i)' = SlotAt(i)
    BY <1>2 DEF Count, SlotAt
  <2> QED
    BY <1>2, <2>1 DEF StampInv, ArrivalsStamped, SlotBehindHead
<1>4. packet \in Seq(Items) /\ Len(packet) \in Nat
  BY PacketTypes
<1>5. LatestStamped'
  <2>1. CASE CollectByte
    BY <2>1, PublishedStamp
  <2>2. CASE WaitForHeader \/ StartPacket
    <3>1. latest' = latest
      BY <2>2 DEF WaitForHeader, StartPacket
    <3> QED
      BY <1>2, <3>1 DEF StampInv, LatestStamped
  <2> QED
    BY <2>1, <2>2 DEF Parses
<1>6. CASE packet' = <<>> /\ stage' = "pop"
  BY <1>3, <1>5, <1>6 DEF StampInv
<1>7. CASE StartPacket
  <2>1. /\ stage' = "stamp" /\ slot' = SlotBehindHead /\ out.header
    BY <1>7 DEF StartPacket
  <2>2. stamps[SlotBehindHead] = Len(recv)
    BY <1>1, <2>1 DEF StampInv
  <2> QED
    BY <1>2, <1>3, <1>5, <2>1, <2>2 DEF StampInv
<1>8. CASE CollectByte /\ packet # <<>> /\ packet' = Append(packet, out) /\ stage' = "pop"
  <2>1. started' = started /\ Len(packet') = Len(packet) + 1
    BY <1>1, <1>4, <1>8 DEF CollectByte
  <2>2. started = Parsed - Len(packet) + 1
    BY <1>1, <1>8 DEF StampInv
  <2>3. started' = Parsed' - Len(packet') + 1
    BY <1>1, <1>4, <2>1, <2>2
  <2> QED
    BY <1>3, <1>5, <1>8, <2>3 DEF StampInv
<1>9. CASE WaitForHeader
  BY <1>6, <1>9 DEF WaitForHeader
<1> QED
  BY <1>6, <1>7, <1>8, <1>9, ParseStep DEF Parses, CollectByte

LEMMA StampStep ==
  Typed /\ Ring /\ (~overrun => PacketInv) /\ (~overrun => StampInv) /\ [ToFNext]_tofVars
    => (~overrun' => StampInv')
<1> SUFFICES ASSUME Typed, Ring, ~overrun => PacketInv /\ StampInv, [ToFNext]_tofVars,
                    ~overrun'
             PROVE  StampInv'
  OBVIOUS
<1>1. [Next]_ringVars
  BY ToFStepIsRingStep
<1>2. ~overrun
  BY <1>1 DEF Next, Pop, Push, PopLoad, PopCheck, PopRead, PopAdvance, ringVars, Ring, TypeOK
<1>3. PacketInv /\ StampInv
  BY <1>2
<1>4. CASE Parses
  BY <1>2, <1>3, <1>4, ParseStamps
<1>5. ASSUME NEW byte \in Items, ToF_RxHandler(byte) PROVE StampInv'
  BY <1>2, <1>3, <1>5, PushStamps
<1>6. CASE PopByte /\ PopAdvance
  BY <1>2, <1>3, <1>6, AdvanceStamps
<1>7. CASE ReadStamp
  <2>1. /\ stage = "stamp" /\ stage' = "pop" /\ started' = stamps[slot]
        /\ UNCHANGED <<recv, sent, head, tail, stamps, out, packet, latest>>
    BY <1>7 DEF ReadStamp, ringVars, lineVars
  <2>2. Count' = Count /\ \A i : SlotAt(i)' = SlotAt(i)
    BY <2>1 DEF Count, SlotAt
  <2>3. started' = Len(recv) /\ Len(packet) = 1
    BY <1>3, <2>1 DEF StampInv, PacketInv
  <2>4. Parsed' = Len(recv) /\ Len(recv) \in Nat
    BY <1>2, <2>1, QueueInOrder DEF Parsed
  <2>5. ArrivalsStamped' /\ LatestStamped'
    BY <1>3, <2>1, <2>2 DEF StampInv, ArrivalsStamped, LatestStamped
  <2> QED
    BY <2>1, <2>3, <2>4, <2>5 DEF StampInv
<1>8. CASE \/ PopByte /\ ~PopAdvance
           \/ LoseByte \/ ToF_GetLatestData \/ UNCHANGED tofVars
  <2>1. /\ UNCHANGED <<recv, sent, head, tail, stamps, slot, packet, started, latest, stage>>
        /\ stage = "parse" => out' = out
    BY <1>8 DEF PopByte, Pop, PopLoad, PopCheck, PopRead, LoseByte, ToF_GetLatestData,
                tofVars, ringVars, lineVars, parserVars
  <2>2. /\ Count' = Count /\ \A i : SlotAt(i)' = SlotAt(i)
        /\ Parsed' = Parsed /\ SlotBehindHead' = SlotBehindHead
    BY <2>1 DEF Count, SlotAt, Parsed, SlotBehindHead
  <2>3. ArrivalsStamped' /\ LatestStamped'
    BY <1>3, <2>1, <2>2 DEF StampInv, ArrivalsStamped, LatestStamped
  <2> QED
    BY <1>3, <2>1, <2>2, <2>3 DEF StampInv
<1> QED
  BY <1>4, <1>5, <1>6, <1>7, <1>8 DEF ToFNext, ToF_ProcessQueue, Parses

LEMMA StampAlways == ToFSpec => [](~overrun => StampInv)
<1>1. ToFInit => StampInv
  <2> SUFFICES ASSUME ToFInit PROVE StampInv
    OBVIOUS
  <2>1. Count = 0 /\ stage = "pop" /\ packet = <<>> /\ latest.frame = 0
    BY DEF ToFInit, Init, Count
  <2> QED
    BY <2>1 DEF StampInv, ArrivalsStamped, LatestStamped
<1> QED
  BY <1>1, StampStep, PacketAlways, ToFRing, AlwaysTyped, PTL DEF ToFSpec

(* A published distance carries the arrival time of its own header byte,   *)
(* although the parser reads header_timestamp_us behind head after Pop has *)
(* moved it, for every capacity and packet length and however many bytes   *)
(* the interrupt handler stores meanwhile without an overrun.              *)
THEOREM ToFStampsHeaders == ToFSpec => []StampIsHeaderArrival
<1>1. (~overrun => StampInv) => StampIsHeaderArrival
  BY DEF StampInv, LatestStamped, StampIsHeaderArrival
<1> QED
  BY <1>1, StampAlways, PTL

-----------------------------------------------------------------------------
(* Frames.  Coming is the byte the parser sees next, which may still be    *)
(* under way; a frame is clean when none of it is lost and nothing up to   *)
(* it could be mistaken for a header.                                      *)

Coming == IF Parsed < Len(sent)
          THEN [frame |-> sent[Parsed + 1].frame, pos |-> sent[Parsed + 1].pos]
          ELSE line

CleanIn(f, d, m) == f \notin d /\ m \cap 1 .. f = {}

Clean(f) == CleanIn(f, damaged, misled)

(* The packet holds the bytes of one frame up to the coming one.           *)
AlignedTo(bytes, c) ==
  /\ Len(bytes) = c.pos
  /\ \A i \in 1 .. Len(bytes) : bytes[i].frame = c.frame /\ bytes[i].pos = i - 1

Aligned == AlignedTo(packet, Coming)

SyncInv ==
  /\ Clean(Coming.frame) => packet = <<>> \/ Len(packet) > Coming.pos \/ Aligned
  /\ Coming.frame > 1 /\ Clean(Coming.frame - 1) /\ Clean(Coming.frame) => Aligned
  /\ \A f \in 2 .. Coming.frame - 1 : Clean(f - 1) /\ Clean(f) => f \in published

AlignedInv ==
  damaged = {} => Aligned /\ \A f \in 1 .. Coming.frame - 1 : f \in published

InOrder == Typed /\ Ring /\ StreamInv /\ ~overrun /\ PacketInv

LEMMA ComingTypes ==
  ASSUME InOrder
  PROVE  /\ Parsed \in Nat /\ Parsed <= Len(sent) /\ Len(sent) \in Nat
         /\ Coming = At(Parsed + 1)
         /\ Coming.frame \in Nat /\ Coming.frame > 0 /\ Coming.pos \in Positions
<1>1. /\ Parsed \in Nat /\ Parsed <= Len(sent) /\ Len(sent) \in Nat
  BY QueueInOrder DEF Parsed, PacketInv, InOrder
<1>2. Coming = At(Parsed + 1)
  BY <1>1 DEF Coming, At
<1>3. Parsed + 1 \in 0 .. Len(sent) + 1 /\ Parsed + 1 \in 1 .. Len(sent) + 1
  BY <1>1
<1> QED
  BY <1>1, <1>2, <1>3, AtTypes DEF InOrder

LEMMA ParseMoves ==
  ASSUME InOrder, Parses
  PROVE  /\ Follows(Coming, Coming', damaged)
         /\ Coming'.frame \in Nat /\ Coming'.frame > 0 /\ Coming'.pos \in Positions
         /\ out.frame = Coming.frame /\ out.pos = Coming.pos
         /\ out.pos = 0 => out.header
         /\ out.pos # 0 /\ out.header => out.frame \in misled
         /\ damaged' = damaged /\ misled' = misled /\ published \subseteq published'
<1>1. /\ UNCHANGED <<ringVars, lineVars>>
      /\ Parsed \in Nat /\ Parsed' = Parsed + 1 /\ Parsed + 1 <= Len(sent)
      /\ out = sent[Parsed + 1] /\ published \subseteq published'
      /\ Len(sent) \in Nat
  BY ParseStep, ComingTypes DEF InOrder
<1>2. /\ sent' = sent /\ line' = line /\ damaged' = damaged /\ misled' = misled
  BY <1>1 DEF ringVars, lineVars
<1>3. Coming = At(Parsed + 1)
  BY ComingTypes
<1>4. Coming' = At(Parsed + 2)
  BY <1>1, <1>2 DEF Coming, At
<1>5. /\ Parsed + 1 \in 0 .. Len(sent) /\ Parsed + 1 \in 1 .. Len(sent)
      /\ Parsed + 2 \in 0 .. Len(sent) + 1 /\ Parsed + 2 \in 1 .. Len(sent) + 1
      /\ (Parsed + 1) + 1 = Parsed + 2
  BY <1>1
<1>6. Follows(At(Parsed + 1), At(Parsed + 2), damaged)
  BY <1>5 DEF StreamInv, InOrder
<1>7. /\ At(Parsed + 2).frame \in Nat /\ At(Parsed + 2).frame > 0
      /\ At(Parsed + 2).pos \in Positions
      /\ At(Parsed + 1).frame = sent[Parsed + 1].frame
      /\ At(Parsed + 1).pos = sent[Parsed + 1].pos
  BY <1>5, AtTypes DEF InOrder
<1>8. /\ out.pos = 0 => out.header
      /\ out.pos # 0 /\ out.header => out.frame \in misled
  BY <1>1, <1>5 DEF StreamInv, InOrder
<1> QED
  BY <1>1, <1>2, <1>3, <1>4, <1>6, <1>7, <1>8

(* An aligned parser takes the next byte of the frame into its packet ...  *)
LEMMA AlignedStep ==
  ASSUME InOrder, Parses, Aligned,
         Coming'.frame = Coming.frame, Coming'.pos = Coming.pos + 1
  PROVE  Aligned'
<1>1. /\ out.frame = Coming.frame /\ out.pos = Coming.pos /\ (out.pos = 0 => out.header)
      /\ Coming'.pos \in Positions
  BY ParseMoves
<1>2. /\ packet \in Seq(Items) /\ Len(packet) \in Nat /\ PacketLength \in Nat
      /\ packet = <<>> <=> Len(packet) = 0
  BY PacketTypes DEF InOrder
<1>3. /\ Len(packet) = Coming.pos
      /\ \A i \in 1 .. Len(packet) : packet[i].frame = Coming.frame /\ packet[i].pos = i - 1
  BY DEF Aligned, AlignedTo
<1>4. Len(packet) + 1 < PacketLength
  BY <1>1, <1>2, <1>3 DEF Positions
<1>5. out \in Items
  BY ParseStep DEF InOrder
<1>6. packet' = Append(packet, out)
  <2>1. CASE packet = <<>>
    <3>1. out.header
      BY <1>1, <1>2, <1>3, <2>1
    <3>2. packet' = <<out>>
      BY <2>1, <3>1, ParseStep DEF InOrder
    <3> QED
      BY <1>5, <2>1, <3>2
  <2>2. CASE packet # <<>>
    BY <1>2, <1>4, <2>2, ParseStep DEF InOrder
  <2> QED
    BY <2>1, <2>2
<1>7. /\ Len(packet') = Len(packet) + 1 /\ packet'[Len(packet) + 1] = out
      /\ \A i \in 1 .. Len(packet) : packet'[i] = packet[i]
  BY <1>2, <1>5, <1>6
<1>8. ASSUME NEW i \in 1 .. Len(packet')
      PROVE  packet'[i].frame = Coming.frame /\ packet'[i].pos = i - 1
  <2>1. CASE i = Len(packet) + 1
    BY <1>1, <1>2, <1>3, <1>7, <2>1
  <2>2. CASE i # Len(packet) + 1
    <3>1. i \in 1 .. Len(packet)
      BY <1>2, <1>7, <2>2
    <3> QED
      BY <1>3, <1>7, <3>1
  <2> QED
    BY <2>1, <2>2
<1>9. Len(packet') = Coming'.pos
  BY <1>3, <1>7
<1> QED
  BY <1>8, <1>9 DEF Aligned, AlignedTo

(* ... and publishes the frame with its last byte.                         *)
LEMMA AlignedEnd ==
  ASSUME InOrder, Parses, Aligned, Coming.pos = PacketLength - 1
  PROVE  packet' = <<>> /\ Coming.frame \in published'
<1>1. /\ out.frame = Coming.frame /\ out.pos = Coming.pos
  BY ParseMoves
<1>2. /\ packet \in Seq(Items) /\ Len(packet) \in Nat
      /\ PacketLength \in Nat /\ PacketLength > 1
      /\ packet = <<>> <=> Len(packet) = 0
  BY PacketTypes DEF InOrder
<1>3. /\ Len(packet) = PacketLength - 1
      /\ \A i \in 1 .. Len(packet) : packet[i].frame = Coming.frame /\ packet[i].pos = i - 1
  BY DEF Aligned, AlignedTo
<1>4. out \in Items /\ Parsed \in Nat /\ Parsed + 1 <= Len(sent)
  BY ParseStep DEF InOrder
<1> DEFINE bytes == Append(packet, out)
<1>5. /\ bytes[Len(packet) + 1] = out
      /\ \A i \in 1 .. Len(packet) : bytes[i] = packet[i]
  BY <1>2, <1>4
<1> HIDE DEF bytes
<1>6. bytes[1].header
  <2>1. /\ 1 \in 1 .. Len(packet) /\ Len(packet) <= Parsed
        /\ packet[1] = sent[Parsed - Len(packet) + 1]
    BY <1>2, <1>3 DEF PacketInv, InOrder
  <2>2. Parsed - Len(packet) + 1 \in 1 .. Len(sent)
    BY <1>2, <1>3, <1>4, <2>1, ComingTypes
  <2>3. sent[Parsed - Len(packet) + 1].pos = 0
    BY <1>3, <2>1
  <2> QED
    BY <1>5, <2>1, <2>2, <2>3 DEF StreamInv, InOrder
<1>7. ASSUME NEW k \in 1 .. PacketLength
      PROVE  bytes[k].frame = Coming.frame /\ bytes[k].pos = k - 1
  <2>1. CASE k = PacketLength
    BY <1>1, <1>2, <1>3, <1>5, <2>1
  <2>2. CASE k # PacketLength
    <3>1. k \in 1 .. Len(packet)
      BY <1>2, <1>3, <2>2
    <3> QED
      BY <1>3, <1>5, <3>1
  <2> QED
    BY <2>1, <2>2
<1>8. parseToFPacket(bytes)
  <2>1. 1 \in 1 .. PacketLength
    BY <1>2
  <2> QED
    BY <1>6, <1>7, <2>1 DEF parseToFPacket
<1> QED
  BY <1>1, <1>2, <1>3, <1>8, ParseStep DEF bytes, InOrder

LEMMA EmptyAligned ==
  ASSUME NEW c, c.pos = 0
  PROVE  AlignedTo(<<>>, c)
BY DEF AlignedTo


(* Parsing a byte, the next one being of the same frame or of a later one. *)
LEMMA ParseSyncSame ==
  ASSUME InOrder, SyncInv, Parses, Coming'.frame = Coming.frame
  PROVE  SyncInv'
<1>1. /\ Follows(Coming, Coming', damaged)
      /\ Coming'.pos \in Positions
      /\ out.frame = Coming.frame /\ out.pos = Coming.pos
      /\ out.pos # 0 /\ out.header => out.frame \in misled
      /\ damaged' = damaged /\ misled' = misled /\ published \subseteq published'
  BY ParseMoves
<1>2. Coming.frame \in Nat /\ Coming.frame > 0 /\ Coming.pos \in Nat
  BY ComingTypes, PacketAssumption DEF Positions
<1>3. /\ packet \in Seq(Items) /\ Len(packet) \in Nat /\ out \in Items
      /\ packet = <<>> <=> Len(packet) = 0
  BY PacketTypes, ParseStep DEF InOrder
<1>4. \A f : CleanIn(f, damaged', misled') <=> Clean(f)
  BY <1>1 DEF Clean
<1>5. Clean(Coming.frame) => Coming'.pos = Coming.pos + 1
  BY <1>1 DEF Follows, Clean, CleanIn
<1>6. ASSUME Clean(Coming.frame)
      PROVE  packet' = <<>> \/ Len(packet') > Coming'.pos \/ Aligned'
  <2>1. CASE Aligned
    BY <1>5, <1>6, <2>1, AlignedStep
  <2>2. CASE packet = <<>> /\ ~Aligned
    <3>1. Coming.pos # 0
      BY <2>2, EmptyAligned DEF Aligned
    <3>2. ~out.header
      BY <1>1, <1>2, <1>6, <3>1 DEF Clean, CleanIn
    <3> QED
      BY <2>2, <3>2, ParseStep DEF InOrder
  <2>3. CASE Len(packet) > Coming.pos
    <3>1. packet # <<>>
      BY <1>2, <1>3, <2>3
    <3>2. packet' = <<>> \/ packet' = Append(packet, out)
      BY <3>1, ParseStep DEF InOrder
    <3>3. packet' = Append(packet, out) => Len(packet') = Len(packet) + 1
      BY <1>3
    <3> QED
      BY <1>2, <1>3, <1>5, <1>6, <2>3, <3>2, <3>3
  <2> QED
    BY <1>6, <2>1, <2>2, <2>3 DEF SyncInv
<1>7. ASSUME Coming.frame > 1, Clean(Coming.frame - 1), Clean(Coming.frame)
      PROVE  Aligned'
  BY <1>5, <1>7, AlignedStep DEF SyncInv
<1>8. ASSUME NEW f \in 2 .. Coming.frame - 1, Clean(f - 1), Clean(f)
      PROVE  f \in published'
  BY <1>1, <1>8 DEF SyncInv
<1> QED
  BY <1>1, <1>4, <1>6, <1>7, <1>8 DEF SyncInv, Clean

LEMMA ParseSyncNext ==
  ASSUME InOrder, SyncInv, Parses, Coming'.frame # Coming.frame
  PROVE  SyncInv'
<1>1. /\ Follows(Coming, Coming', damaged)
      /\ Coming'.frame \in Nat /\ Coming'.frame > 0 /\ Coming'.pos \in Positions
      /\ out.frame = Coming.frame /\ out.pos = Coming.pos
      /\ out.pos # 0 /\ out.header => out.frame \in misled
      /\ damaged' = damaged /\ misled' = misled /\ published \subseteq published'
  BY ParseMoves
<1>2. Coming.frame \in Nat /\ Coming.frame > 0 /\ Coming.pos \in Nat
  BY ComingTypes, PacketAssumption DEF Positions
<1>3. /\ packet \in Seq(Items) /\ Len(packet) \in Nat /\ Len(packet) < PacketLength
      /\ packet' = <<>> \/ Len(packet') > 0
      /\ PacketLength \in Nat /\ PacketLength > 1
  <2>1. packet \in Seq(Items) /\ Len(packet) \in Nat /\ out \in Items
    BY PacketTypes, ParseStep DEF InOrder
  <2>2. packet' = <<>> \/ packet' = <<out>> \/ packet' = Append(packet, out)
    BY ParseStep DEF InOrder
  <2>3. packet' = Append(packet, out) => Len(packet') = Len(packet) + 1
    BY <2>1
  <2>4. packet' = <<out>> => Len(packet') = 1
    BY <2>1
  <2>5. packet' = <<>> \/ Len(packet') > 0
    BY <2>1, <2>2, <2>3, <2>4
  <2> QED
    BY <2>5, PacketTypes DEF InOrder
<1>4. \A f : CleanIn(f, damaged', misled') <=> Clean(f)
  BY <1>1 DEF Clean
<1>5. /\ Coming.frame < Coming'.frame
      /\ Coming.pos = PacketLength - 1 \/ Coming.frame \in damaged
      /\ Coming'.pos = 0 \/ Coming'.frame \in damaged
      /\ \A f \in Coming.frame + 1 .. Coming'.frame - 1 : f \in damaged
  BY <1>1 DEF Follows, Before
<1>6. ASSUME Clean(Coming'.frame)
      PROVE  Coming'.pos = 0 /\ (packet' = <<>> \/ Len(packet') > Coming'.pos)
  BY <1>3, <1>5, <1>6 DEF Clean, CleanIn
<1>7. ASSUME Clean(Coming'.frame - 1), Clean(Coming'.frame)
      PROVE  packet' = <<>>
  <2>1. Coming'.frame - 1 = Coming.frame
    <3>1. Coming'.frame - 1 \notin damaged
      BY <1>7 DEF Clean, CleanIn
    <3> QED
      BY <1>1, <1>2, <1>5, <3>1
  <2>2. Clean(Coming.frame)
    BY <1>7, <2>1
  <2>3. Coming.pos = PacketLength - 1 /\ Coming.frame \in 1 .. Coming.frame
    BY <1>2, <1>5, <2>2 DEF Clean, CleanIn
  <2>4. CASE Aligned
    BY <2>3, <2>4, AlignedEnd
  <2>5. CASE packet = <<>>
    <3>1. ~out.header
      BY <1>1, <1>3, <2>2, <2>3 DEF Clean, CleanIn
    <3> QED
      BY <2>5, <3>1, ParseStep DEF InOrder
  <2>6. ~(Len(packet) > Coming.pos)
    BY <1>3, <2>3
  <2> QED
    BY <2>2, <2>4, <2>5, <2>6 DEF SyncInv
<1>8. ASSUME NEW f \in 2 .. Coming'.frame - 1, Clean(f - 1), Clean(f)
      PROVE  f \in published'
  <2>1. f \notin damaged
    BY <1>8 DEF Clean, CleanIn
  <2>2. CASE f = Coming.frame
    <3>1. Coming.pos = PacketLength - 1 /\ Coming.frame > 1
      BY <1>5, <1>8, <2>1, <2>2
    <3>2. Aligned
      BY <1>8, <2>2, <3>1 DEF SyncInv
    <3> QED
      BY <2>2, <3>1, <3>2, AlignedEnd
  <2>3. CASE f # Coming.frame
    <3>1. f \in 2 .. Coming.frame - 1 \/ f \in Coming.frame + 1 .. Coming'.frame - 1
      BY <1>1, <1>2, <1>8, <2>3
    <3>2. f \in 2 .. Coming.frame - 1
      BY <1>5, <2>1, <3>1
    <3> QED
      BY <1>1, <1>8, <3>2 DEF SyncInv
  <2> QED
    BY <2>2, <2>3
<1>9. ASSUME Clean(Coming'.frame - 1), Clean(Coming'.frame)
      PROVE  Aligned'
  BY <1>6, <1>7, <1>9, EmptyAligned DEF Aligned
<1> QED
  BY <1>4, <1>6, <1>8, <1>9 DEF SyncInv, Clean

LEMMA ParseAligned ==
  ASSUME InOrder, AlignedInv, Parses
  PROVE  AlignedInv'
<1> SUFFICES ASSUME damaged' = {}
             PROVE  Aligned' /\ \A f \in 1 .. Coming'.frame - 1 : f \in published'
  BY DEF AlignedInv
<1>1. /\ Follows(Coming, Coming', {}) /\ damaged = {}
      /\ Coming'.frame \in Nat /\ published \subseteq published'
  BY ParseMoves
<1>2. Coming.frame \in Nat /\ Coming.frame > 0
  BY ComingTypes
<1>3. Aligned /\ \A f \in 1 .. Coming.frame - 1 : f \in published
  BY <1>1 DEF AlignedInv
<1>4. CASE Coming'.frame = Coming.frame
  <2>1. Coming'.pos = Coming.pos + 1
    BY <1>1, <1>4 DEF Follows
  <2> QED
    BY <1>1, <1>3, <1>4, <2>1, AlignedStep
<1>5. CASE Coming'.frame # Coming.frame
  <2>1. /\ Coming.frame < Coming'.frame /\ Coming.pos = PacketLength - 1 /\ Coming'.pos = 0
        /\ \A f \in Coming.frame + 1 .. Coming'.frame - 1 : FALSE
    BY <1>1, <1>5 DEF Follows, Before
  <2>2. Coming'.frame = Coming.frame + 1
    <3>1. Coming.frame + 1 \notin Coming.frame + 1 .. Coming'.frame - 1
      BY <2>1
    <3> QED
      BY <1>1, <1>2, <2>1, <3>1
  <2>3. packet' = <<>> /\ Coming.frame \in published'
    BY <1>3, <2>1, AlignedEnd
  <2>4. Aligned'
    BY <2>1, <2>3, EmptyAligned DEF Aligned
  <2>5. ASSUME NEW f \in 1 .. Coming'.frame - 1 PROVE f \in published'
    <3>1. f = Coming.frame \/ f \in 1 .. Coming.frame - 1
      BY <1>2, <2>2
    <3> QED
      BY <1>1, <1>3, <2>3, <3>1
  <2> QED
    BY <2>4, <2>5
<1> QED
  BY <1>4, <1>5

(* A lost byte damages its frame; when the parser has caught up, the byte  *)
(* it waits for is another one.                                            *)
LEMMA LossSync ==
  ASSUME InOrder, SyncInv, LoseByte, Parsed = Len(sent)
  PROVE  SyncInv' /\ AlignedInv'
<1>1. /\ Coming = line /\ Coming' = Advanced(line)
      /\ damaged' = damaged \cup {line.frame} /\ misled' = misled
      /\ packet' = packet /\ published' = published
  <2>1. /\ UNCHANGED <<ringVars, parserVars, misled>> /\ line' = Advanced(line)
        /\ damaged' = damaged \cup {line.frame}
    BY DEF LoseByte
  <2>2. Parsed' = Parsed /\ sent' = sent /\ packet' = packet /\ published' = published
    BY <2>1 DEF Parsed, ringVars, parserVars
  <2> QED
    BY <2>1, <2>2, ComingTypes DEF Coming
<1>2. /\ line.frame \in Nat /\ line.frame > 0
      /\ \/ Coming'.frame = line.frame + 1 /\ Coming'.pos = 0
         \/ Coming'.frame = line.frame
  BY <1>1, LinePlaces DEF InOrder
<1>3. packet \in Seq(Items)
  BY PacketTypes DEF InOrder
<1>4. /\ ~CleanIn(line.frame, damaged', misled') /\ damaged' # {}
      /\ \A f : CleanIn(f, damaged', misled') => Clean(f)
  BY <1>1 DEF Clean, CleanIn
<1>5. CleanIn(Coming'.frame, damaged', misled') => Coming'.frame = line.frame + 1 /\ Coming'.pos = 0
  BY <1>2, <1>4
<1>6. CleanIn(Coming'.frame, damaged', misled') => packet' = <<>> \/ Len(packet') > Coming'.pos
  BY <1>1, <1>3, <1>5
<1>7. ~(/\ CleanIn(Coming'.frame - 1, damaged', misled')
        /\ CleanIn(Coming'.frame, damaged', misled'))
  <2>1. Coming'.frame = line.frame + 1 => Coming'.frame - 1 = line.frame
    BY <1>2
  <2> QED
    BY <1>4, <1>5, <2>1
<1>8. ASSUME NEW f \in 2 .. Coming'.frame - 1,
             CleanIn(f - 1, damaged', misled'), CleanIn(f, damaged', misled')
      PROVE  f \in published'
  <2>1. f # line.frame
    BY <1>4, <1>8
  <2>2. f \in 2 .. Coming.frame - 1
    BY <1>1, <1>2, <1>8, <2>1
  <2> QED
    BY <1>1, <1>4, <1>8, <2>2 DEF SyncInv
<1> QED
  BY <1>4, <1>6, <1>7, <1>8 DEF SyncInv, AlignedInv, Clean


(* Every other step leaves the byte the parser waits for, and its packet.  *)
Waits == /\ Coming'.frame = Coming.frame /\ Coming'.pos = Coming.pos
         /\ packet' = packet /\ published' = published
         /\ damaged \subseteq damaged' /\ misled \subseteq misled'

LEMMA WaitsKeeps ==
  ASSUME SyncInv, AlignedInv, Waits
  PROVE  SyncInv' /\ AlignedInv'
<1>1. /\ Coming'.frame = Coming.frame /\ Coming'.pos = Coming.pos
      /\ packet' = packet /\ published' = published
      /\ damaged \subseteq damaged' /\ misled \subseteq misled'
  BY DEF Waits
<1>2. Aligned' <=> Aligned
  BY <1>1 DEF Aligned, AlignedTo
<1>3. \A f : CleanIn(f, damaged', misled') => Clean(f)
  BY <1>1 DEF Clean, CleanIn
<1>4. AlignedInv'
  <2>1. damaged' = {} => damaged = {}
    BY <1>1
  <2> QED
    BY <1>1, <1>2, <2>1 DEF AlignedInv
<1>5. CleanIn(Coming'.frame, damaged', misled')
        => packet' = <<>> \/ Len(packet') > Coming'.pos \/ Aligned'
  BY <1>1, <1>2, <1>3 DEF SyncInv
<1>6. ASSUME Coming'.frame > 1, CleanIn(Coming'.frame - 1, damaged', misled'),
             CleanIn(Coming'.frame, damaged', misled')
      PROVE  Aligned'
  BY <1>1, <1>2, <1>3, <1>6 DEF SyncInv
<1>7. ASSUME NEW f \in 2 .. Coming'.frame - 1,
             CleanIn(f - 1, damaged', misled'), CleanIn(f, damaged', misled')
      PROVE  f \in published'
  BY <1>1, <1>3, <1>7 DEF SyncInv
<1> QED
  BY <1>4, <1>5, <1>6, <1>7 DEF SyncInv, Clean

LEMMA OthersWait ==
  ASSUME InOrder, [ToFNext]_tofVars, ~Parses, ~(LoseByte /\ Parsed = Len(sent))
  PROVE  Waits
<1>1. /\ Parsed \in Nat /\ Parsed <= Len(sent) /\ Len(sent) \in Nat
  BY ComingTypes
<1>2. ASSUME NEW byte \in Items, ToF_RxHandler(byte) PROVE Waits
  <2>1. /\ recv' = recv /\ stage' = stage /\ packet' = packet /\ published' = published
        /\ damaged' = damaged /\ misled \subseteq misled'
        /\ byte.frame = line.frame /\ byte.pos = line.pos
    BY <1>2 DEF ToF_RxHandler, Push, parserVars
  <2>2. /\ Len(sent') = Len(sent) + 1 /\ sent'[Len(sent) + 1] = byte
        /\ \A k \in 1 .. Len(sent) : sent'[k] = sent[k]
    BY <1>2, AtArrival DEF InOrder
  <2>3. Parsed' = Parsed
    BY <2>1 DEF Parsed
  <2>4. Coming'.frame = Coming.frame /\ Coming'.pos = Coming.pos
    <3>1. Parsed' < Len(sent')
      BY <1>1, <2>2, <2>3
    <3>2. /\ Coming'.frame = sent'[Parsed + 1].frame
          /\ Coming'.pos = sent'[Parsed + 1].pos
      BY <2>3, <3>1 DEF Coming
    <3>3. CASE Parsed < Len(sent)
      BY <1>1, <2>2, <3>2, <3>3 DEF Coming
    <3>4. CASE Parsed = Len(sent)
      BY <1>1, <2>1, <2>2, <3>2, <3>4 DEF Coming
    <3> QED
      BY <1>1, <3>3, <3>4
  <2> QED
    BY <2>1, <2>4 DEF Waits
<1>3. CASE PopByte /\ PopAdvance
  <2>1. sent' = sent /\ Parsed' = Parsed
    BY <1>3, PopAdvanceStep DEF InOrder
  <2>2. UNCHANGED <<lineVars, packet, published>>
    BY <1>3 DEF PopByte
  <2> QED
    BY <2>1, <2>2 DEF Waits, Coming, lineVars
<1>4. CASE LoseByte
  <2>1. /\ UNCHANGED <<sent, recv, stage, packet, published, misled>>
        /\ damaged \subseteq damaged'
    BY <1>4 DEF LoseByte, ringVars, parserVars
  <2>2. Parsed' = Parsed /\ Parsed < Len(sent)
    BY <1>1, <1>4, <2>1 DEF Parsed
  <2> QED
    BY <2>1, <2>2 DEF Waits, Coming
<1>5. CASE (PopByte /\ ~PopAdvance) \/ ReadStamp \/ ToF_GetLatestData \/ UNCHANGED tofVars
  <2>1. /\ UNCHANGED <<sent, recv, line, damaged, misled, packet, published>>
        /\ stage # "parse" \/ stage' = stage
        /\ stage' # "parse" \/ stage' = stage
    BY <1>5 DEF PopByte, Pop, PopLoad, PopCheck, PopRead, ReadStamp, ToF_GetLatestData,
                tofVars, ringVars, lineVars, parserVars
  <2>2. Parsed' = Parsed
    BY <2>1 DEF Parsed
  <2> QED
    BY <2>1, <2>2 DEF Waits, Coming
<1> QED
  BY <1>2, <1>3, <1>4, <1>5 DEF ToFNext, ToF_ProcessQueue, Parses

LEMMA SyncStep ==
  Typed /\ Ring /\ StreamInv /\ (~overrun => PacketInv)
  /\ (~overrun => SyncInv /\ AlignedInv) /\ [ToFNext]_tofVars
    => (~overrun' => SyncInv' /\ AlignedInv')
<1> SUFFICES ASSUME Typed, Ring, StreamInv, ~overrun => PacketInv /\ SyncInv /\ AlignedInv,
                    [ToFNext]_tofVars, ~overrun'
             PROVE  SyncInv' /\ AlignedInv'
  OBVIOUS
<1>1. [Next]_ringVars
  BY ToFStepIsRingStep
<1>2. ~overrun
  BY <1>1 DEF Next, Pop, Push, PopLoad, PopCheck, PopRead, PopAdvance, ringVars, Ring, TypeOK
<1>3. InOrder /\ SyncInv /\ AlignedInv
  BY <1>2 DEF InOrder
<1>4. CASE Parses
  BY <1>3, <1>4, ParseSyncSame, ParseSyncNext, ParseAligned
<1>5. CASE LoseByte /\ Parsed = Len(sent)
  BY <1>3, <1>5, LossSync
<1>6. CASE ~Parses /\ ~(LoseByte /\ Parsed = Len(sent))
  BY <1>3, <1>6, OthersWait, WaitsKeeps
<1> QED
  BY <1>4, <1>5, <1>6

SyncAlways ==
  Typed /\ Ring /\ (~overrun => StreamInv /\ PacketInv /\ SyncInv /\ AlignedInv)

LEMMA AlwaysSync == ToFSpec => []SyncAlways
<1>1. ToFInit /\ Typed => SyncInv /\ AlignedInv
  <2> SUFFICES ASSUME ToFInit, Typed PROVE SyncInv /\ AlignedInv
    OBVIOUS
  <2>1. /\ Coming = line /\ line.frame = 1 /\ packet = <<>>
        /\ damaged = {} => line.pos = 0
    <3>1. sent = <<>> /\ recv = <<>> /\ stage = "pop" /\ packet = <<>>
      BY DEF ToFInit, Init
    <3>2. Coming = line
      BY <3>1 DEF Coming, Parsed
    <3> QED
      BY <3>1, <3>2 DEF ToFInit
  <2>2. damaged = {} => Aligned
    BY <2>1, EmptyAligned DEF Aligned
  <2> QED
    BY <2>1, <2>2 DEF SyncInv, AlignedInv
<1>2. ToFSpec => [](~overrun => SyncInv /\ AlignedInv)
  BY <1>1, SyncStep, PacketAlways, StreamAlways, ToFRing, AlwaysTyped, PTL DEF ToFSpec
<1> QED
  BY <1>2, PacketAlways, StreamAlways, ToFRing, AlwaysTyped, PTL DEF SyncAlways

(* A frame whose bytes have all been parsed lies behind the coming byte.   *)
LEMMA ConsumedBehind ==
  ASSUME Typed, Ring, ~overrun, PacketInv, NEW f \in Nat, Consumed(f)
  PROVE  Coming = line /\ f <= Coming.frame - 1
<1>1. Len(recv) \in Nat /\ Len(sent) = Len(recv) + Count
  BY QueueInOrder
<1>2. Count = 0 /\ stage = "pop" /\ line.frame > f
  BY CountBounds DEF Consumed, Typed, ToFTypeOK, TypeOK
<1>3. Coming = line
  BY <1>1, <1>2 DEF Coming, Parsed
<1> QED
  BY <1>2, <1>3, LinePlaces

(* One damaged frame costs at most the next one: the second of two whole   *)
(* frames in a row is published, for every packet length, capacity and     *)
(* pattern of losses, provided no payload byte so far looks like a header. *)
THEOREM ToFResynchronises == ToFSpec => []ResyncWithinOneFrame
<1>1. SyncAlways => ResyncWithinOneFrame
  <2> SUFFICES ASSUME SyncAlways, ~overrun, NEW f \in 2 .. line.frame, Consumed(f),
                      {f - 1, f} \cap damaged = {}, misled \cap 1 .. f = {}
               PROVE  f \in published
    BY DEF ResyncWithinOneFrame
  <2>1. line.frame \in Nat /\ f \in Nat
    BY LinePlaces DEF SyncAlways
  <2>2. Coming = line /\ f \in 2 .. Coming.frame - 1
    BY <2>1, ConsumedBehind DEF SyncAlways
  <2>3. Clean(f - 1) /\ Clean(f)
    <3>1. 1 .. f - 1 \subseteq 1 .. f
      BY <2>1
    <3> QED
      BY <3>1 DEF Clean, CleanIn
  <2> QED
    BY <2>2, <2>3 DEF SyncAlways, SyncInv
<1> QED
  BY <1>1, AlwaysSync, PTL

(* Without losses every frame is published, whatever its payload holds.    *)
THEOREM ToFStaysAligned == ToFSpec => []AlignedStaysAligned
<1>1. SyncAlways => AlignedStaysAligned
  <2> SUFFICES ASSUME SyncAlways, ~overrun, damaged = {}, NEW f \in 1 .. line.frame,
                      Consumed(f)
               PROVE  f \in published
    BY DEF AlignedStaysAligned
  <2>1. line.frame \in Nat /\ f \in Nat
    BY LinePlaces DEF SyncAlways
  <2>2. Coming = line /\ f \in 1 .. Coming.frame - 1
    BY <2>1, ConsumedBehind DEF SyncAlways
  <2> QED
    BY <2>2 DEF SyncAlways, AlignedInv
<1> QED
  BY <1>1, AlwaysSync, PTL

=============================================================================
