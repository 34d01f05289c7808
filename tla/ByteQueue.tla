------------------------------ MODULE ByteQueue ------------------------------
(***************************************************************************)
(* What CircularBuffer promises: a bounded queue of bytes.                 *)
(***************************************************************************)
EXTENDS Integers, Sequences

CONSTANTS Capacity, Bytes

VARIABLE queue

Init == queue = <<>>

\* Bytes go in at the end, in the order they are given.
Put ==
  \E n \in 0 .. Capacity - Len(queue) : \E data \in [1 .. n -> Bytes] :
    queue' = [i \in 1 .. Len(queue) + n |->
                IF i <= Len(queue) THEN queue[i] ELSE data[i - Len(queue)]]

\* They leave from the front.
Discard ==
  \E n \in 0 .. Len(queue) :
    queue' = [i \in 1 .. Len(queue) - n |-> queue[i + n]]

Clear == queue' = <<>>

Next == Put \/ Discard \/ Clear

Spec == Init /\ [][Next]_queue
=============================================================================
