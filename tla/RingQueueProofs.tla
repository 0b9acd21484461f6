--------------------------- MODULE RingQueueProofs ---------------------------
(***************************************************************************)
(* Proofs about the ring buffers, for every capacity and every set of      *)
(* items.                                                                  *)
(***************************************************************************)
EXTENDS RingQueue, SequenceTheorems, TLAPS

(* (i + 1) % Capacity, which the code computes, is the next slot or 0.     *)
LEMMA AfterIsNext ==
  ASSUME NEW i \in Slots
  PROVE  /\ After(i) = IF i + 1 = Capacity THEN 0 ELSE i + 1
         /\ After(i) \in Slots
<1>1. Capacity \in Nat /\ Capacity > 0
  BY CapacityAssumption
<1>2. i \in Nat /\ i < Capacity
  BY <1>1 DEF Slots
<1>3. CASE i + 1 = Capacity
  <2>1. (i + 1) % Capacity = 0
    BY <1>1, <1>3
  <2>2. QED
    BY <2>1, <1>1, <1>3 DEF After, Slots
<1>4. CASE i + 1 < Capacity
  <2>1. (i + 1) % Capacity = i + 1
    BY <1>1, <1>2, <1>4
  <2>2. QED
    BY <2>1, <1>1, <1>2, <1>4 DEF After, Slots
<1>5. QED
  BY <1>1, <1>2, <1>3, <1>4

(* The queue's indices never leave the buffer, whatever interrupts Pop:    *)
(* ByteQueue_Push/Pop and EruEventQueue_Push/Pop never touch memory beyond *)
(* the capacity given to Init.                                             *)
THEOREM TypeCorrect == Spec => []TypeOK
<1>1. Init => TypeOK
  BY CapacityAssumption DEF Init, TypeOK, Slots
<1>2. TypeOK /\ [Next]_ringVars => TypeOK'
  <2> SUFFICES ASSUME TypeOK, [Next]_ringVars
               PROVE  TypeOK'
    OBVIOUS
  <2>1. ASSUME NEW x \in Items, Push(x)
        PROVE  TypeOK'
    <3>1. After(tail) \in Slots /\ After(head) \in Slots
      BY AfterIsNext DEF TypeOK
    <3>2. QED
      BY <2>1, <3>1 DEF TypeOK, Push
  <2>2. CASE PopLoad
    BY <2>2 DEF TypeOK, PopLoad
  <2>3. CASE PopCheck
    BY <2>3 DEF TypeOK, PopCheck
  <2>4. CASE PopRead
    BY <2>4 DEF TypeOK, PopRead
  <2>5. CASE PopAdvance
    <3>1. After(h) \in Slots /\ After(head) \in Slots
      BY AfterIsNext DEF TypeOK
    <3>2. QED
      BY <2>5, <3>1 DEF TypeOK, PopAdvance
  <2>6. CASE UNCHANGED ringVars
    BY <2>6 DEF TypeOK, ringVars
  <2>7. QED
    BY <2>1, <2>2, <2>3, <2>4, <2>5, <2>6 DEF Next, Pop
<1>3. QED
  BY <1>1, <1>2, PTL DEF Spec

-----------------------------------------------------------------------------

(* Taking the oldest item shifts every slot one place, and an item stored  *)
(* at tail becomes the newest: the arithmetic of a circular buffer.        *)
LEMMA CountBounds ==
  ASSUME head \in Slots, tail \in Slots
  PROVE  /\ Count \in 0 .. Capacity - 1
         /\ Count = 0 <=> head = tail
         /\ SlotAt(Count) = tail
         /\ \A i \in 0 .. Capacity - 1 : SlotAt(i) \in Slots
         /\ \A i \in 0 .. Count - 1 : SlotAt(i) # tail
         /\ SlotAt(0) = head
BY CapacityAssumption DEF Slots, Count, SlotAt

LEMMA PushPlaces ==
  ASSUME TypeOK, NEW x \in Items, Push(x), ~overrun'
  PROVE  /\ head' = head
         /\ Count' = Count + 1
         /\ \A i \in 0 .. Count : SlotAt(i)' = SlotAt(i)
         /\ Count + 1 <= Capacity - 1
<1>1. /\ After(tail) # head /\ head' = head /\ tail' = After(tail)
      /\ head \in Slots /\ tail \in Slots
  BY DEF Push, TypeOK
<1>2. tail' = IF tail + 1 = Capacity THEN 0 ELSE tail + 1
  BY <1>1, AfterIsNext
<1>3. Count' = Count + 1 /\ Count + 1 <= Capacity - 1
  BY <1>1, <1>2, CapacityAssumption DEF Count, Slots
<1>4. \A i \in 0 .. Count : SlotAt(i)' = SlotAt(i)
  BY <1>1 DEF SlotAt
<1> QED
  BY <1>1, <1>3, <1>4

LEMMA AdvancePlaces ==
  ASSUME TypeOK, head' = After(head), tail' = tail, Count > 0
  PROVE  /\ Count' = Count - 1
         /\ \A i \in 0 .. Count - 2 : SlotAt(i)' = SlotAt(i + 1)
<1>1. head \in Slots /\ tail \in Slots
  BY DEF TypeOK
<1>2. head' = IF head + 1 = Capacity THEN 0 ELSE head + 1
  BY <1>1, AfterIsNext
<1>3. head # tail
  BY <1>1, CountBounds
<1>4. Count' = Count - 1
  BY <1>1, <1>2, <1>3, CapacityAssumption DEF Count, Slots
<1>5. ASSUME NEW i \in 0 .. Count - 2
      PROVE  SlotAt(i)' = SlotAt(i + 1)
  <2>1. i \in Nat /\ i + 1 < Capacity
    BY <1>1, CountBounds, CapacityAssumption
  <2> QED
    BY <1>1, <1>2, <2>1, CapacityAssumption DEF SlotAt, Slots
<1> QED
  BY <1>4, <1>5

(* A Push that does not overrun adds one item, behind the others.          *)
LEMMA PushKeepsInv ==
  ASSUME TypeOK, RingInv, NEW x \in Items, Push(x), ~overrun'
  PROVE  RingInv'
<1>0. TypeOK'
  <2>1. After(tail) \in Slots /\ After(head) \in Slots
    BY AfterIsNext DEF TypeOK
  <2>2. QED
    BY <2>1 DEF TypeOK, Push
<1>1. /\ ~overrun
      /\ After(tail) # head
      /\ head' = head /\ tail' = After(tail) /\ recv' = recv
      /\ sent' = Append(sent, x) /\ buffer' = [buffer EXCEPT ![tail] = x]
      /\ pc' = pc /\ h' = h /\ out' = out
  BY DEF Push, TypeOK
<1>2. PopCopyCurrent /\ BufferHoldsRest /\ DeliveredInOrder
  BY <1>1 DEF RingInv
<1>3. /\ head \in Slots /\ tail \in Slots /\ head' \in Slots /\ tail' \in Slots
      /\ sent \in Seq(Items) /\ buffer \in [Slots -> Items \cup {Blank}]
      /\ Len(recv) \in Nat
  BY <1>0 DEF TypeOK
<1>4. /\ Count' = Count + 1
      /\ \A i \in 0 .. Count : SlotAt(i)' = SlotAt(i)
      /\ Count + 1 <= Capacity - 1
  BY PushPlaces
<1>5. /\ Len(sent') = Len(sent) + 1
      /\ sent'[Len(sent) + 1] = x
      /\ \A k \in 1 .. Len(sent) : sent'[k] = sent[k]
  BY <1>1, <1>3
<1>6. BufferHoldsRest'
  <2>1. Len(sent') = Len(recv') + Count'
    BY <1>1, <1>2, <1>3, <1>4, <1>5, CountBounds DEF BufferHoldsRest
  <2>2. ASSUME NEW i \in 0 .. Count' - 1
        PROVE  buffer'[SlotAt(i)'] = sent'[Len(recv') + i + 1]
    <3>1. CASE i = Count
      <4>1. SlotAt(i)' = tail
        BY <3>1, <1>3, <1>4, CountBounds
      <4>2. buffer'[SlotAt(i)'] = x
        BY <4>1, <1>1, <1>3
      <4>3. Len(recv') + i + 1 = Len(sent) + 1
        BY <3>1, <1>1, <1>2, <1>3, CountBounds DEF BufferHoldsRest
      <4>4. QED
        BY <4>2, <4>3, <1>5
    <3>2. CASE i # Count
      <4>1. i \in 0 .. Count - 1
        BY <3>2, <1>3, <1>4, CountBounds
      <4>2. SlotAt(i)' = SlotAt(i) /\ SlotAt(i) # tail /\ SlotAt(i) \in Slots
        <5>1. i \in 0 .. Count /\ i \in 0 .. Capacity - 1
          BY <4>1, <1>3, CountBounds, CapacityAssumption
        <5>2. SlotAt(i)' = SlotAt(i)
          BY <5>1, <1>4
        <5>3. QED
          BY <4>1, <5>1, <5>2, <1>3, CountBounds
      <4>3. buffer'[SlotAt(i)'] = buffer[SlotAt(i)]
        BY <4>2, <1>1, <1>3
      <4>4. Len(recv) + i + 1 \in 1 .. Len(sent)
        BY <4>1, <1>2, <1>3, CountBounds DEF BufferHoldsRest
      <4>5. QED
        BY <4>1, <4>3, <4>4, <1>1, <1>2, <1>5 DEF BufferHoldsRest
    <3>3. QED
      BY <3>1, <3>2
  <2>3. QED
    BY <2>1, <2>2 DEF BufferHoldsRest
<1>7. PopCopyCurrent'
  <2>1. pc' # "idle" => h' = head'
    BY <1>1, <1>2 DEF PopCopyCurrent
  <2>2. pc' \in {"read", "advance"} => Count' > 0
    BY <1>3, <1>4, CountBounds
  <2>3. ASSUME pc' = "advance" PROVE out' = buffer'[head']
    <3>1. out = buffer[head] /\ Count > 0
      BY <2>3, <1>1, <1>2 DEF PopCopyCurrent
    <3>2. head # tail
      BY <3>1, <1>3, CountBounds
    <3>3. QED
      BY <3>1, <3>2, <1>1, <1>3
  <2>4. QED
    BY <2>1, <2>2, <2>3 DEF PopCopyCurrent
<1>8. DeliveredInOrder'
  BY <1>1, <1>2, <1>3, <1>5 DEF DeliveredInOrder
<1>9. QED
  BY <1>6, <1>7, <1>8 DEF RingInv

(* Completing a Pop hands over the oldest item, which is the next of sent. *)
LEMMA AdvanceKeepsInv ==
  ASSUME TypeOK, RingInv, PopAdvance, ~overrun'
  PROVE  RingInv'
<1>1. /\ ~overrun /\ ~overrun'
      /\ pc = "advance" /\ pc' = "idle"
      /\ buffer' = buffer /\ tail' = tail /\ sent' = sent
      /\ recv' = Append(recv, out)
  BY DEF PopAdvance
<1>2. PopCopyCurrent /\ BufferHoldsRest /\ DeliveredInOrder
  BY <1>1 DEF RingInv
<1>3. head' = After(head)
  BY <1>1, <1>2 DEF PopAdvance, PopCopyCurrent
<1>4. /\ head \in Slots /\ tail \in Slots /\ head' \in Slots
      /\ recv \in Seq(Items \cup {Blank}) /\ out \in Items \cup {Blank}
      /\ Len(recv) \in Nat /\ Len(sent) \in Nat
  BY <1>3, AfterIsNext DEF TypeOK
<1>5. Count > 0 /\ out = buffer[head]
  BY <1>1, <1>2 DEF PopCopyCurrent
<1>6. /\ Count' = Count - 1
      /\ \A i \in 0 .. Count - 2 : SlotAt(i)' = SlotAt(i + 1)
  BY <1>1, <1>3, <1>5, AdvancePlaces
<1>7. /\ Len(recv') = Len(recv) + 1
      /\ recv'[Len(recv) + 1] = out
      /\ \A k \in 1 .. Len(recv) : recv'[k] = recv[k]
  BY <1>1, <1>4
<1>8. out = sent[Len(recv) + 1]
  <2>1. 0 \in 0 .. Count - 1 /\ SlotAt(0) = head
    BY <1>4, <1>5, CountBounds
  <2>2. buffer[SlotAt(0)] = sent[Len(recv) + 0 + 1]
    BY <2>1, <1>2 DEF BufferHoldsRest
  <2>3. QED
    BY <2>1, <2>2, <1>4, <1>5
<1>9. BufferHoldsRest'
  <2>1. Len(sent') = Len(recv') + Count'
    BY <1>1, <1>2, <1>4, <1>6, <1>7, CountBounds DEF BufferHoldsRest
  <2>2. ASSUME NEW i \in 0 .. Count' - 1
        PROVE  buffer'[SlotAt(i)'] = sent'[Len(recv') + i + 1]
    <3>1. i \in 0 .. Count - 2 /\ i + 1 \in 0 .. Count - 1
      BY <1>4, <1>6, CountBounds
    <3>2. buffer[SlotAt(i + 1)] = sent[Len(recv) + (i + 1) + 1]
      BY <3>1, <1>2 DEF BufferHoldsRest
    <3>3. Len(recv) + (i + 1) + 1 = Len(recv') + i + 1
      BY <3>1, <1>4, <1>7
    <3>4. QED
      BY <3>1, <3>2, <3>3, <1>1, <1>6
  <2>3. QED
    BY <2>1, <2>2 DEF BufferHoldsRest
<1>10. DeliveredInOrder'
  <2>1. Len(recv') <= Len(sent')
    BY <1>1, <1>2, <1>4, <1>5, <1>7, CountBounds DEF BufferHoldsRest
  <2>2. ASSUME NEW k \in 1 .. Len(recv')
        PROVE  recv'[k] = sent'[k]
    BY <1>1, <1>2, <1>4, <1>7, <1>8 DEF DeliveredInOrder
  <2>3. QED
    BY <2>1, <2>2 DEF DeliveredInOrder
<1>11. PopCopyCurrent'
  BY <1>1 DEF PopCopyCurrent
<1>12. QED
  BY <1>9, <1>10, <1>11 DEF RingInv

(* The other steps of Pop: the copy of head stays current because, without *)
(* an overrun, nobody else writes head.                                    *)
LEMMA PopKeepsInv ==
  ASSUME TypeOK, RingInv, PopLoad \/ PopCheck \/ PopRead, ~overrun'
  PROVE  RingInv'
<1>1. /\ ~overrun
      /\ buffer' = buffer /\ head' = head /\ tail' = tail
      /\ sent' = sent /\ recv' = recv
  BY DEF PopLoad, PopCheck, PopRead
<1>2. PopCopyCurrent /\ BufferHoldsRest /\ DeliveredInOrder
  BY <1>1 DEF RingInv
<1>3. Count' = Count /\ \A i \in 0 .. Count - 1 : SlotAt(i)' = SlotAt(i)
  BY <1>1 DEF Count, SlotAt
<1>4. BufferHoldsRest' /\ DeliveredInOrder'
  BY <1>1, <1>2, <1>3 DEF BufferHoldsRest, DeliveredInOrder
<1>5. CASE PopLoad
  <2>1. PopCopyCurrent'
    BY <1>5, <1>1 DEF PopCopyCurrent, PopLoad
  <2>2. QED
    BY <2>1, <1>4 DEF RingInv
<1>6. CASE PopCheck
  <2>1. h = head /\ h' = h
    BY <1>6, <1>2 DEF PopCopyCurrent, PopCheck
  <2>2. h # tail => Count > 0
    BY <2>1, CountBounds, CapacityAssumption DEF TypeOK
  <2>3. PopCopyCurrent'
    BY <2>1, <2>2, <1>6, <1>1, <1>3 DEF PopCopyCurrent, PopCheck
  <2>4. QED
    BY <2>3, <1>4 DEF RingInv
<1>7. CASE PopRead
  <2>1. PopCopyCurrent'
    BY <1>7, <1>1, <1>2, <1>3 DEF PopCopyCurrent, PopRead
  <2>2. QED
    BY <2>1, <1>4 DEF RingInv
<1>8. QED
  BY <1>5, <1>6, <1>7

(* As long as the interrupt handler has never lapped the reader, whatever  *)
(* Pop has returned is the beginning of what Push stored, and the ring     *)
(* holds the rest in order, for every interleaving of the two.             *)
THEOREM RingCorrect == Spec => []RingInv
<1>1. Init => RingInv
  <2> SUFFICES ASSUME Init PROVE RingInv
    OBVIOUS
  <2>1. Count = 0 /\ Len(recv) = 0 /\ Len(sent) = 0
    BY DEF Init, Count
  <2>2. QED
    BY <2>1 DEF Init, RingInv, PopCopyCurrent, BufferHoldsRest, DeliveredInOrder
<1>2. TypeOK /\ RingInv /\ [Next]_ringVars => RingInv'
  <2> SUFFICES ASSUME TypeOK, RingInv, [Next]_ringVars, ~overrun'
               PROVE  RingInv'
    BY DEF RingInv
  <2>1. ASSUME NEW x \in Items, Push(x)
        PROVE  RingInv'
    BY <2>1, PushKeepsInv
  <2>2. CASE PopLoad \/ PopCheck \/ PopRead
    BY <2>2, PopKeepsInv
  <2>3. CASE PopAdvance
    BY <2>3, AdvanceKeepsInv
  <2>4. CASE UNCHANGED ringVars
    <3>1. RingInv' <=> RingInv
      BY <2>4 DEF ringVars, RingInv, PopCopyCurrent, BufferHoldsRest,
                  DeliveredInOrder, Count, SlotAt
    <3>2. QED
      BY <3>1
  <2>5. QED
    BY <2>1, <2>2, <2>3, <2>4 DEF Next, Pop
<1>3. QED
  BY <1>1, <1>2, TypeCorrect, PTL DEF Spec

-----------------------------------------------------------------------------

(* Contents is the sequence of the items between head and tail.            *)
ContentsAreRest ==
  /\ Contents \in Seq(Items)
  /\ Count \in 0 .. Capacity - 1
  /\ Len(Contents) = Count
  /\ \A i \in 1 .. Count : Contents[i] = sent[Len(recv) + i]

LEMMA ContentsIsSeq == TypeOK /\ RingInv /\ ~overrun => ContentsAreRest
<1> SUFFICES ASSUME TypeOK, RingInv, ~overrun
             PROVE  ContentsAreRest
  OBVIOUS
<1>1. PopCopyCurrent /\ BufferHoldsRest
  BY DEF RingInv
<1>2. /\ Count \in Nat /\ Len(recv) \in Nat /\ Len(sent) \in Nat
      /\ sent \in Seq(Items)
  BY CountBounds, CapacityAssumption DEF TypeOK
<1>3. ASSUME NEW i \in 1 .. Count
      PROVE  /\ buffer[SlotAt(i - 1)] = sent[Len(recv) + i]
             /\ buffer[SlotAt(i - 1)] \in Items
  <2>1. i - 1 \in 0 .. Count - 1 /\ Len(recv) + (i - 1) + 1 = Len(recv) + i
    BY <1>2
  <2>2. buffer[SlotAt(i - 1)] = sent[Len(recv) + i]
    BY <2>1, <1>1 DEF BufferHoldsRest
  <2>3. Len(recv) + i \in 1 .. Len(sent)
    BY <1>1, <1>2 DEF BufferHoldsRest
  <2>4. QED
    BY <2>2, <2>3, <1>2
<1>4. Contents \in [1 .. Count -> Items]
  BY <1>3 DEF Contents
<1>5. Contents \in Seq(Items) /\ Len(Contents) = Count
  BY <1>2, <1>4
<1>6. Count \in 0 .. Capacity - 1
  BY CountBounds DEF TypeOK
<1>7. QED
  BY <1>3, <1>5, <1>6 DEF Contents, ContentsAreRest

(* A queue that never overruns implements the FIFO buffer of Fifo.tla: a   *)
(* Push is a Put, the last step of Pop is a Take, the others are stutters. *)
THEOREM RingImplementsFifo == SizedSpec => RefinesFifo
<1>1. Init => Abstract!Init /\ ~overrun
  <2> SUFFICES ASSUME Init PROVE Contents = <<>> /\ recv = <<>> /\ ~overrun
    BY DEF Abstract!Init
  <2>1. Count = 0
    BY DEF Init, Count
  <2>2. QED
    BY <2>1 DEF Init, Contents
<1>2. TypeOK /\ RingInv /\ TypeOK' /\ RingInv' /\ ~overrun
        /\ [Next /\ ~overrun']_ringVars
      => [Abstract!Next]_(Abstract!vars) /\ ~overrun'
  <2> SUFFICES ASSUME TypeOK, RingInv, TypeOK', RingInv', ~overrun,
                      [Next /\ ~overrun']_ringVars
               PROVE  [Abstract!Next]_(Abstract!vars) /\ ~overrun'
    OBVIOUS
  <2>1. ~overrun'
    BY DEF ringVars
  <2>a. ContentsAreRest /\ ContentsAreRest'
    BY <2>1, ContentsIsSeq, PTL
  <2>2. /\ Contents \in Seq(Items) /\ Len(Contents) = Count
        /\ \A i \in 1 .. Count : Contents[i] = sent[Len(recv) + i]
    BY <2>a DEF ContentsAreRest
  <2>3. /\ Contents' \in Seq(Items) /\ Len(Contents') = Count'
        /\ \A i \in 1 .. Count' : Contents'[i] = sent'[Len(recv') + i]
    BY <2>a DEF ContentsAreRest
  <2>4. /\ Count \in 0 .. Capacity - 1 /\ Count' \in 0 .. Capacity - 1
        /\ Capacity \in Nat
    BY <2>a, CapacityAssumption DEF ContentsAreRest
  <2>5. /\ Len(recv) \in Nat /\ Len(sent) = Len(recv) + Count
        /\ sent \in Seq(Items)
        /\ Len(sent') = Len(recv') + Count'
    BY <2>1 DEF TypeOK, RingInv, BufferHoldsRest
  <2>6. ASSUME NEW x \in Items, Push(x)
        PROVE  Abstract!Next
    <3>1. recv' = recv /\ sent' = Append(sent, x)
      BY <2>6 DEF Push
    <3>2. Count' = Count + 1
      BY <3>1, <2>4, <2>5
    <3>3. Contents' = Append(Contents, x)
      <4>1. Append(Contents, x) \in Seq(Items)
            /\ Len(Append(Contents, x)) = Count + 1
        BY <2>2, <2>4
      <4>2. ASSUME NEW i \in 1 .. Count + 1
            PROVE  Contents'[i] = Append(Contents, x)[i]
        <5>1. Contents'[i] = Append(sent, x)[Len(recv) + i]
          BY <2>3, <3>1, <3>2
        <5>2. CASE i = Count + 1
          <6>1. Append(sent, x)[Len(recv) + i] = x
            BY <5>2, <2>4, <2>5
          <6>2. Append(Contents, x)[i] = x
            BY <5>2, <2>2, <2>4
          <6>3. QED
            BY <5>1, <6>1, <6>2
        <5>3. CASE i # Count + 1
          <6>1. i \in 1 .. Count /\ Len(recv) + i \in 1 .. Len(sent)
            BY <5>3, <2>4, <2>5
          <6>2. Append(sent, x)[Len(recv) + i] = sent[Len(recv) + i]
            BY <6>1, <2>5
          <6>3. Append(Contents, x)[i] = Contents[i]
            BY <6>1, <2>2
          <6>4. QED
            BY <5>1, <6>1, <6>2, <6>3, <2>2
        <5>4. QED
          BY <5>2, <5>3
      <4>3. QED
        BY <4>1, <4>2, <2>3, <3>2, SeqEqual
    <3>4. Len(Contents) < Capacity - 1
      BY <2>2, <2>4, <3>2
    <3>5. QED
      BY <3>1, <3>3, <3>4 DEF Abstract!Next, Abstract!Put
  <2>7. CASE PopAdvance
    <3>1. /\ recv' = Append(recv, out) /\ sent' = sent
          /\ Count > 0 /\ out = buffer[head]
      BY <2>7 DEF PopAdvance, RingInv, PopCopyCurrent
    <3>2. recv \in Seq(Items \cup {Blank}) /\ Len(recv') = Len(recv) + 1
      BY <3>1 DEF TypeOK
    <3>3. Count' = Count - 1
      BY <3>1, <3>2, <2>4, <2>5
    <3>4. Contents # <<>> /\ Head(Contents) = out
      <4>1. SlotAt(0) = head
        BY CountBounds DEF TypeOK
      <4>2. Contents[1] = buffer[SlotAt(0)]
        BY <3>1, <2>4 DEF Contents
      <4>3. QED
        BY <4>1, <4>2, <3>1, <2>2, <2>4
    <3>5. Contents' = Tail(Contents)
      <4>1. /\ Tail(Contents) \in Seq(Items)
            /\ Len(Tail(Contents)) = Count - 1
            /\ \A i \in 1 .. Count - 1 : Tail(Contents)[i] = Contents[i + 1]
        BY <3>4, <2>2, <2>4
      <4>2. \A i \in 1 .. Count - 1 : Contents'[i] = Tail(Contents)[i]
        BY <4>1, <2>2, <2>3, <2>4, <2>5, <3>1, <3>2, <3>3
      <4>3. QED
        BY <4>1, <4>2, <2>3, <3>3, SeqEqual
    <3>6. QED
      BY <2>1, <3>1, <3>4, <3>5 DEF Abstract!Next, Abstract!Take
  <2>8. CASE PopLoad \/ PopCheck \/ PopRead \/ UNCHANGED ringVars
    <3>1. /\ buffer' = buffer /\ head' = head /\ tail' = tail /\ recv' = recv
      BY <2>8 DEF PopLoad, PopCheck, PopRead, ringVars
    <3>2. Contents' = Contents
      BY <3>1 DEF Contents, Count, SlotAt
    <3>3. QED
      BY <2>1, <3>1, <3>2 DEF Abstract!vars
  <2>9. QED
    BY <2>1, <2>6, <2>7, <2>8 DEF Next, Pop
<1>3. SizedSpec => Spec
  BY PTL DEF SizedSpec, Spec
<1>4. QED
  BY <1>1, <1>2, <1>3, TypeCorrect, RingCorrect, PTL
     DEF SizedSpec, RefinesFifo, Abstract!Spec

-----------------------------------------------------------------------------
(* With an overrun.  Push then moves head under a running Pop, whose copy  *)
(* may be stale.  Every slot still holds an item with a number, its place  *)
(* among the items pushed: the newest stands just before tail.             *)

Newer(s) == IF s < tail THEN tail - s - 1 ELSE tail - s + Capacity - 1
Number(s) == Len(sent) - Newer(s)
Full == head = After(tail)
Pushed(x) == \E k \in 1 .. Len(sent) : sent[k] = x

(* The copy of head is current or the queue is full, and the item that Pop *)
(* has copied is one that was in its slot, then or before.                 *)
NumberInv ==
  /\ \A s \in Slots : Number(s) >= 1 => buffer[s] = sent[Number(s)]
  /\ Count <= Len(sent)
  /\ pc # "idle" => h = head \/ Full
  /\ pc \in {"read", "advance"} => head # tail
  /\ pc \in {"check", "read"} /\ head # tail => Number(h) >= 1
  /\ pc = "advance" => \E k \in 1 .. Len(sent) : sent[k] = out /\ k <= Number(h)
  /\ \A i \in 1 .. Len(recv) : Pushed(recv[i])

LEMMA NumberBounds ==
  ASSUME head \in Slots, tail \in Slots, NEW s \in Slots
  PROVE  /\ Newer(s) \in 0 .. Capacity - 1
         /\ s # tail => Newer(s) < Capacity - 1
         /\ head # tail => Newer(head) = Count - 1
         /\ Newer(tail) = Capacity - 1
         /\ Full => Count = Capacity - 1
         /\ Full /\ s \notin {head, tail} => Newer(s) < Newer(head)
<1>1. Capacity \in Nat /\ Capacity > 0 /\ s \in 0 .. Capacity - 1
      /\ head \in 0 .. Capacity - 1 /\ tail \in 0 .. Capacity - 1
  BY CapacityAssumption DEF Slots
<1>2. After(tail) = IF tail + 1 = Capacity THEN 0 ELSE tail + 1
  BY AfterIsNext
<1> QED
  BY <1>1, <1>2 DEF Newer, Count, Full

LEMMA FullAndEmpty ==
  ASSUME tail \in Slots, Full, head = tail
  PROVE  Capacity = 1
<1>1. Capacity \in Nat /\ Capacity > 0 /\ tail \in 0 .. Capacity - 1
  BY CapacityAssumption DEF Slots
<1>2. tail = IF tail + 1 = Capacity THEN 0 ELSE tail + 1
  BY AfterIsNext DEF Full
<1> QED
  BY <1>1, <1>2

(* A Push makes every item one place older, except the one it stores; when *)
(* the queue is full, head gives way.                                      *)
LEMMA PushNumbers ==
  ASSUME TypeOK, NEW x \in Items, Push(x)
  PROVE  /\ Len(sent') = Len(sent) + 1
         /\ sent'[Len(sent) + 1] = x
         /\ \A k \in 1 .. Len(sent) : sent'[k] = sent[k]
         /\ \A s \in Slots : Newer(s)' = IF s = tail THEN 0 ELSE Newer(s) + 1
         /\ Full => Full' /\ Count' = Count /\ head' = After(head)
         /\ ~Full => head' = head /\ Count' = Count + 1
<1>1. /\ Capacity \in Nat /\ Capacity > 0
      /\ head \in 0 .. Capacity - 1 /\ tail \in 0 .. Capacity - 1
      /\ sent \in Seq(Items)
  BY CapacityAssumption DEF Slots, TypeOK
<1>2. /\ tail' = After(tail) /\ sent' = Append(sent, x)
      /\ head' = IF Full THEN After(head) ELSE head
  BY DEF Push, Full
<1>3. /\ After(tail) = IF tail + 1 = Capacity THEN 0 ELSE tail + 1
      /\ After(head) = IF head + 1 = Capacity THEN 0 ELSE head + 1
  BY AfterIsNext DEF TypeOK
<1>4. Len(sent') = Len(sent) + 1 /\ sent'[Len(sent) + 1] = x
      /\ \A k \in 1 .. Len(sent) : sent'[k] = sent[k]
  BY <1>1, <1>2
<1>5. \A s \in Slots : Newer(s)' = IF s = tail THEN 0 ELSE Newer(s) + 1
  BY <1>1, <1>2, <1>3 DEF Newer, Slots
<1>6. ASSUME Full PROVE Full' /\ Count' = Count /\ head' = After(head)
  <2>1. head' = After(head) /\ tail' = head
    BY <1>2, <1>6 DEF Full
  <2>2. Full'
    BY <2>1 DEF Full, After
  <2>3. Count' = Count
    BY <1>1, <1>3, <1>6, <2>1 DEF Count, Full
  <2> QED
    BY <2>1, <2>2, <2>3
<1>7. ASSUME ~Full PROVE head' = head /\ Count' = Count + 1
  BY <1>1, <1>2, <1>3, <1>7 DEF Count, Full
<1> QED
  BY <1>4, <1>5, <1>6, <1>7

(* Pop leaves in the queue what is newer than the slot it moves past.      *)
LEMMA AdvanceCount ==
  ASSUME TypeOK, NEW s \in Slots, head' = After(s), tail' = tail
  PROVE  Count' = Newer(s)
<1>1. /\ Capacity \in Nat /\ Capacity > 0
      /\ s \in 0 .. Capacity - 1 /\ tail \in 0 .. Capacity - 1
  BY CapacityAssumption DEF Slots, TypeOK
<1>2. head' = IF s + 1 = Capacity THEN 0 ELSE s + 1
  BY AfterIsNext
<1> QED
  BY <1>1, <1>2 DEF Count, Newer

LEMMA PushKeepsNumbers ==
  ASSUME TypeOK, NumberInv, NEW x \in Items, Push(x)
  PROVE  NumberInv'
<1> DEFINE n == Len(sent)
<1>1. /\ head \in Slots /\ tail \in Slots /\ h \in Slots
      /\ n \in Nat /\ buffer \in [Slots -> Items \cup {Blank}]
      /\ Capacity \in Nat /\ Capacity > 0 /\ Count \in 0 .. Capacity - 1
      /\ n' = n + 1
  BY PushNumbers, CountBounds, CapacityAssumption DEF TypeOK
<1>2. /\ buffer' = [buffer EXCEPT ![tail] = x]
      /\ pc' = pc /\ h' = h /\ out' = out /\ recv' = recv
  BY DEF Push
<1>3. \A s \in Slots : Number(s)' = IF s = tail THEN n + 1 ELSE Number(s)
  BY <1>1, PushNumbers, NumberBounds DEF Number
<1>4. ASSUME NEW s \in Slots, Number(s)' >= 1 PROVE buffer'[s] = sent'[Number(s)']
  <2>1. CASE s = tail
    BY <1>1, <1>2, <1>3, <2>1, PushNumbers
  <2>2. CASE s # tail
    <3>1. Number(s)' = Number(s) /\ buffer'[s] = buffer[s]
      BY <1>1, <1>2, <1>3, <2>2
    <3>2. Number(s) \in 1 .. n
      BY <1>1, <1>4, <3>1, NumberBounds DEF Number
    <3> QED
      BY <3>1, <3>2, PushNumbers DEF NumberInv
  <2> QED
    BY <2>1, <2>2
<1>5. Count' <= Len(sent')
  BY <1>1, PushNumbers DEF NumberInv
<1>6. ASSUME pc' # "idle" PROVE h' = head' \/ Full'
  BY <1>2, <1>6, PushNumbers DEF NumberInv
<1>7. ASSUME head # tail PROVE head' # tail'
  <2>1. tail' = After(tail)
    BY DEF Push
  <2>2. CASE ~Full
    BY <2>1, <2>2, PushNumbers DEF Full
  <2>3. CASE Full
    <3>1. head' = After(head) /\ tail' = head
      BY <2>1, <2>3, PushNumbers DEF Full
    <3>2. After(head) # head
      BY <1>1, <1>7, AfterIsNext DEF Slots
    <3> QED
      BY <3>1, <3>2
  <2> QED
    BY <2>2, <2>3
<1>8. ASSUME pc' \in {"check", "read"}, head' # tail' PROVE Number(h)' >= 1
  <2>1. CASE h = tail
    BY <1>1, <1>2, <1>3, <2>1
  <2>2. CASE h # tail
    <3>1. Number(h)' = Number(h)
      BY <1>1, <1>2, <1>3, <2>2 DEF Number, Newer
    <3>2. CASE head # tail
      BY <1>2, <1>8, <3>1, <3>2 DEF NumberInv
    <3>3. CASE head = tail
      <4>1. h # head /\ Full
        BY <1>2, <1>8, <2>2, <3>3 DEF NumberInv
      <4>2. Capacity = 1
        BY <1>1, <3>3, <4>1, FullAndEmpty
      <4> QED
        BY <1>1, <2>2, <4>2 DEF Slots
    <3> QED
      BY <3>2, <3>3
  <2> QED
    BY <2>1, <2>2
<1>9. ASSUME pc' = "advance"
      PROVE  \E k \in 1 .. Len(sent') : sent'[k] = out' /\ k <= Number(h)'
  <2>1. PICK k \in 1 .. n : sent[k] = out /\ k <= Number(h)
    BY <1>2, <1>9 DEF NumberInv
  <2>2. k \in 1 .. n' /\ sent'[k] = out'
    BY <1>1, <1>2, <2>1, PushNumbers
  <2>3. Number(h)' = IF h = tail THEN n + 1 ELSE Number(h)
    BY <1>1, <1>2, <1>3 DEF Number, Newer
  <2>4. k <= Number(h)'
    BY <1>1, <2>1, <2>3
  <2> QED
    BY <2>2, <2>4
<1>10. ASSUME NEW i \in 1 .. Len(recv') PROVE Pushed(recv[i])'
  <2>1. PICK k \in 1 .. n : sent[k] = recv[i]
    BY <1>2 DEF NumberInv, Pushed
  <2>2. k \in 1 .. n' /\ sent'[k] = recv'[i]
    BY <1>1, <1>2, <2>1, PushNumbers
  <2> QED
    BY <2>2 DEF Pushed
<1> QED
  BY <1>2, <1>4, <1>5, <1>6, <1>7, <1>8, <1>9, <1>10 DEF NumberInv

LEMMA AdvanceKeepsNumbers ==
  ASSUME TypeOK, NumberInv, PopAdvance
  PROVE  NumberInv'
<1>1. /\ pc = "advance" /\ pc' = "idle"
      /\ UNCHANGED <<buffer, tail, sent>>
      /\ recv' = Append(recv, out)
      /\ head \in Slots /\ tail \in Slots /\ h \in Slots
      /\ Len(sent) \in Nat /\ recv \in Seq(Items \cup {Blank})
      /\ out \in Items \cup {Blank}
  BY DEF PopAdvance, TypeOK
<1>2. PICK k \in 1 .. Len(sent) : sent[k] = out /\ k <= Number(h)
  BY <1>1 DEF NumberInv
<1>3. Count' <= Len(sent')
  <2>1. CASE head' = After(h)
    BY <1>1, <1>2, <2>1, AdvanceCount, NumberBounds, CapacityAssumption DEF Number
  <2>2. CASE head' = After(head)
    <3>1. Count' = Newer(head) /\ Newer(head) = Count - 1 /\ Count <= Len(sent)
      BY <1>1, <2>2, AdvanceCount, NumberBounds DEF NumberInv
    <3> QED
      BY <1>1, <3>1, CountBounds, CapacityAssumption
  <2> QED
    BY <2>1, <2>2 DEF PopAdvance
<1>4. ASSUME NEW i \in 1 .. Len(recv') PROVE Pushed(recv[i])'
  <2>1. recv'[i] = out \/ (i \in 1 .. Len(recv) /\ recv'[i] = recv[i])
    BY <1>1
  <2> QED
    BY <1>1, <1>2, <2>1 DEF Pushed, NumberInv
<1>5. \A s \in Slots : Number(s)' = Number(s)
  BY <1>1 DEF Number, Newer
<1> QED
  BY <1>1, <1>3, <1>4, <1>5 DEF NumberInv

LEMMA PopKeepsNumbers ==
  ASSUME TypeOK, NumberInv, PopLoad \/ PopCheck \/ PopRead
  PROVE  NumberInv'
<1>1. /\ UNCHANGED <<buffer, head, tail, sent, recv>>
      /\ head \in Slots /\ tail \in Slots /\ h \in Slots
      /\ Len(sent) \in Nat
      /\ Capacity \in Nat /\ Capacity > 0 /\ Count \in 0 .. Capacity - 1
  BY CountBounds, CapacityAssumption DEF PopLoad, PopCheck, PopRead, TypeOK
<1>2. /\ Count' = Count /\ (Full' <=> Full)
      /\ \A s \in Slots : Number(s)' = Number(s)
      /\ \A x : Pushed(x)' <=> Pushed(x)
  BY <1>1 DEF Count, Full, Number, Newer, Pushed
<1>3. /\ \A s \in Slots : Number(s)' >= 1 => buffer'[s] = sent'[Number(s)']
      /\ Count' <= Len(sent')
      /\ \A i \in 1 .. Len(recv') : Pushed(recv[i])'
  BY <1>1, <1>2 DEF NumberInv
<1>4. CASE PopLoad
  <2>1. h' = head /\ pc' = "check"
    BY <1>4 DEF PopLoad
  <2>2. Number(h)' = Number(head)
    BY <1>1, <2>1 DEF Number, Newer
  <2>3. head # tail => Number(head) >= 1
    BY <1>1, NumberBounds DEF Number, NumberInv
  <2> QED
    BY <1>1, <1>3, <2>1, <2>2, <2>3 DEF NumberInv
<1>5. CASE PopCheck
  <2>1. pc = "check" /\ pc' = (IF h = tail THEN "idle" ELSE "read") /\ UNCHANGED <<h, out>>
    BY <1>5 DEF PopCheck
  <2>2. h # tail => head # tail
    <3>1. h # head => Full
      BY <2>1 DEF NumberInv
    <3>2. Full /\ head = tail => Capacity = 1
      BY <1>1, FullAndEmpty
    <3> QED
      BY <1>1, <3>1, <3>2 DEF Slots
  <2>3. Number(h)' = Number(h)
    BY <1>1, <1>2, <2>1 DEF Number, Newer
  <2> QED
    BY <1>1, <1>2, <1>3, <2>1, <2>2, <2>3 DEF NumberInv
<1>6. CASE PopRead
  <2>1. pc = "read" /\ pc' = "advance" /\ out' = buffer[h] /\ h' = h
    BY <1>6 DEF PopRead
  <2>2. Number(h)' = Number(h)
    BY <1>1, <1>2, <2>1 DEF Number, Newer
  <2>3. Number(h) \in 1 .. Len(sent) /\ out' = sent[Number(h)]
    BY <1>1, <2>1, NumberBounds DEF NumberInv, Number
  <2> QED
    BY <1>1, <1>2, <1>3, <2>1, <2>2, <2>3 DEF NumberInv
<1> QED
  BY <1>4, <1>5, <1>6

LEMMA NumbersStay ==
  ASSUME NumberInv, UNCHANGED ringVars
  PROVE  NumberInv'
BY DEF NumberInv, Number, Newer, Count, Full, Pushed, ringVars

LEMMA RingNumbers == Spec => []NumberInv
<1>1. Init => NumberInv
  <2> SUFFICES ASSUME Init PROVE NumberInv
    OBVIOUS
  <2>1. /\ Len(sent) = 0 /\ Len(recv) = 0 /\ Count = 0 /\ pc = "idle"
        /\ head \in Slots /\ tail \in Slots
    BY CapacityAssumption DEF Init, Count, Slots
  <2>2. \A s \in Slots : ~(Number(s) >= 1)
    BY <2>1, NumberBounds, CapacityAssumption DEF Number
  <2> QED
    BY <2>1, <2>2 DEF NumberInv
<1>2. TypeOK /\ NumberInv /\ [Next]_ringVars => NumberInv'
  BY PushKeepsNumbers, AdvanceKeepsNumbers, PopKeepsNumbers, NumbersStay DEF Next, Pop
<1> QED
  BY <1>1, <1>2, TypeCorrect, PTL DEF Spec

(* Even when the interrupt handler laps the reader, in the middle of a Pop *)
(* or not, the main loop never gets an item that was not pushed, and never *)
(* the content of a slot that was not written.                             *)
THEOREM OnlyPushedItems == Spec => [](\A i \in 1 .. Len(recv) : recv[i] \in Items)
<1>1. TypeOK /\ NumberInv => \A i \in 1 .. Len(recv) : recv[i] \in Items
  BY DEF TypeOK, NumberInv, Pushed
<1> QED
  BY <1>1, TypeCorrect, RingNumbers, PTL

=============================================================================
