-------------------------------- MODULE Fifo --------------------------------
(***************************************************************************)
(* What the interrupt handlers and the main loop of the ECU expect of a    *)
(* receive queue that never fills up: a first-in first-out buffer that     *)
(* neither loses, repeats nor reorders what the interrupt handler put in.  *)
(***************************************************************************)
EXTENDS Naturals, Sequences

CONSTANTS
  Items,   \* what is queued: bytes (ByteQueue) or echo edges (EruEventQueue)
  Room     \* the number of items the buffer can hold

VARIABLES
  queue,   \* the items put in and not yet taken, oldest first
  taken    \* every item taken so far, in order

vars == <<queue, taken>>

Init == queue = <<>> /\ taken = <<>>

Put == \E x \in Items :
         /\ Len(queue) < Room
         /\ queue' = Append(queue, x)
         /\ UNCHANGED taken

Take == /\ queue # <<>>
        /\ taken' = Append(taken, Head(queue))
        /\ queue' = Tail(queue)

Next == Put \/ Take

Spec == Init /\ [][Next]_vars

=============================================================================
