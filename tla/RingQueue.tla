------------------------------ MODULE RingQueue ------------------------------
(***************************************************************************)
(* The ring buffers between the TC375's interrupt handlers and its main    *)
(* loop: ByteQueue (UART bytes of the ToF sensor) and EruEventQueue (echo  *)
(* edges of the ultrasonic sensors).  The two files hold the same code.    *)
(*                                                                         *)
(* Push runs in an interrupt handler.  Nothing that touches the queue      *)
(* preempts it, so it is one step.  Pop runs in the main loop with         *)
(* interrupts enabled, so a Push can fall between any two of its accesses  *)
(* to memory.  head is not volatile: Pop loads it once to test for         *)
(* emptiness and to index the buffer, and when it advances head the        *)
(* compiler may use that copy or load head again (ByteQueue_Pop stores     *)
(* through a uint8_t pointer just before, which may alias head;            *)
(* EruEventQueue_Pop stores a struct, which may not).                      *)
(***************************************************************************)
EXTENDS Integers, Sequences

CONSTANTS
  Items,      \* what is queued
  Capacity,   \* q->capacity, the size given to Init
  MaxPush,    \* bound: number of Push calls in a behaviour
  Blank       \* content of a slot never written

ASSUME CapacityAssumption == Capacity \in Nat \ {0}
ASSUME MaxPushAssumption == MaxPush \in Nat
ASSUME BlankAssumption == Blank \notin Items

VARIABLES
  buffer,     \* q->buffer, the first Capacity slots
  head,       \* q->head: next slot to read
  tail,       \* q->tail: next slot to write
  pc,         \* where the main loop is inside Pop
  h,          \* the register that holds Pop's copy of head
  out,        \* *out, the item Pop has copied
  sent,       \* history: every item pushed
  recv,       \* history: every item returned by Pop
  overrun     \* history: some Push has found the queue full

ringVars == <<buffer, head, tail, pc, h, out, sent, recv, overrun>>

Slots == 0 .. Capacity - 1

(* Mutant: the index does not wrap around. *)
AfterUnwrapped(i) == i + 1

After(i) == (i + 1) % Capacity

(* The number of items between head and tail. *)
Count == IF head <= tail THEN tail - head ELSE tail - head + Capacity

(* The slot i places after head. *)
SlotAt(i) == IF head + i < Capacity THEN head + i ELSE head + i - Capacity

Init ==
  /\ buffer = [s \in Slots |-> Blank]
  /\ head = 0
  /\ tail = 0
  /\ pc = "idle"
  /\ h = 0
  /\ out = Blank
  /\ sent = <<>>
  /\ recv = <<>>
  /\ overrun = FALSE

(* Mutant: the oldest item is dropped while one place is still free. *)
PushDropsEarly(x) ==
  /\ Len(sent) < MaxPush
  /\ buffer' = [buffer EXCEPT ![tail] = x]
  /\ tail' = After(tail)
  /\ head' = IF After(After(tail)) = head THEN After(head) ELSE head
  /\ overrun' = (overrun \/ After(tail) = head)
  /\ sent' = Append(sent, x)
  /\ UNCHANGED <<pc, h, out, recv>>

(* Push in the interrupt handler: store, advance tail and, when tail runs  *)
(* into head, advance head past the oldest item.                           *)
Push(x) ==
  /\ Len(sent) < MaxPush
  /\ buffer' = [buffer EXCEPT ![tail] = x]
  /\ tail' = After(tail)
  /\ head' = IF After(tail) = head THEN After(head) ELSE head
  /\ overrun' = (overrun \/ After(tail) = head)
  /\ sent' = Append(sent, x)
  /\ UNCHANGED <<pc, h, out, recv>>

(* Pop, one memory access at a time. *)
PopLoad ==
  /\ pc = "idle"
  /\ h' = head
  /\ pc' = "check"
  /\ UNCHANGED <<buffer, head, tail, out, sent, recv, overrun>>

PopCheck ==
  /\ pc = "check"
  /\ pc' = IF h = tail THEN "idle" ELSE "read"
  /\ UNCHANGED <<buffer, head, tail, h, out, sent, recv, overrun>>

PopRead ==
  /\ pc = "read"
  /\ out' = buffer[h]
  /\ pc' = "advance"
  /\ UNCHANGED <<buffer, head, tail, h, sent, recv, overrun>>

(* Mutant: the slot is not released. *)
PopAdvanceless ==
  /\ pc = "advance"
  /\ recv' = Append(recv, out)
  /\ pc' = "idle"
  /\ UNCHANGED <<buffer, head, tail, h, out, sent, overrun>>

PopAdvance ==
  /\ pc = "advance"
  /\ \E base \in {h, head} : head' = After(base)
  /\ recv' = Append(recv, out)
  /\ pc' = "idle"
  /\ UNCHANGED <<buffer, tail, h, out, sent, overrun>>

Pop == PopLoad \/ PopCheck \/ PopRead \/ PopAdvance

Next == Pop \/ \E x \in Items : Push(x)

Spec == Init /\ [][Next]_ringVars

(* The queue as it is configured to run: Cpu0_Init sizes the ToF queue and *)
(* its per-call budget so that the interrupt handler never laps the reader. *)
SizedSpec == Init /\ [][Next /\ ~overrun']_ringVars

-----------------------------------------------------------------------------

(* The indices stay inside the buffer and the items are items. *)
TypeOK ==
  /\ buffer \in [Slots -> Items \cup {Blank}]
  /\ head \in Slots
  /\ tail \in Slots
  /\ pc \in {"idle", "check", "read", "advance"}
  /\ h \in Slots
  /\ out \in Items \cup {Blank}
  /\ sent \in Seq(Items)
  /\ recv \in Seq(Items \cup {Blank})
  /\ overrun \in BOOLEAN

(* Without an overrun, what the main loop has popped is exactly what the   *)
(* interrupt handler pushed first, in the same order, however the two      *)
(* interleave: no byte is lost, repeated, reordered or read unwritten.     *)
DeliveredInOrder ==
  ~overrun => /\ Len(recv) <= Len(sent)
              /\ \A k \in 1 .. Len(recv) : recv[k] = sent[k]

(* Why DeliveredInOrder holds: without an overrun only Pop writes head,    *)
(* so its copy is current, and slot head + i holds item Len(recv) + i + 1. *)
PopCopyCurrent ==
  /\ pc # "idle" => h = head
  /\ pc \in {"read", "advance"} => Count > 0
  /\ pc = "advance" => out = buffer[head]

BufferHoldsRest ==
  /\ Len(sent) = Len(recv) + Count
  /\ \A i \in 0 .. Count - 1 : buffer[SlotAt(i)] = sent[Len(recv) + i + 1]

RingInv == ~overrun => PopCopyCurrent /\ BufferHoldsRest /\ DeliveredInOrder

(* Completing a Pop removes one item from the queue, no more: eru_event_   *)
(* queue.c and byte_queue.c drop only "the oldest item" when they overflow. *)
PopRemovesOne ==
  [][pc = "advance" /\ pc' = "idle" => Count' >= Count - 1]_ringVars

(* Between calls, and while it never overruns, the ring is a plain FIFO    *)
(* buffer of Capacity - 1 places.                                          *)
Contents == [i \in 1 .. Count |-> buffer[SlotAt(i - 1)]]

Abstract == INSTANCE Fifo WITH Room <- Capacity - 1,
                               queue <- Contents, taken <- recv

RefinesFifo == Abstract!Spec

=============================================================================
