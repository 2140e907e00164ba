------------------------------- MODULE ByteFifo -------------------------------
(***************************************************************************)
(* What both directions of the serial port promise: a bounded queue of     *)
(* bytes.  A block of bytes enters as a whole or not at all, bytes leave   *)
(* one at a time in the order they entered, none is lost inside, doubled   *)
(* or overwritten.                                                         *)
(***************************************************************************)
EXTENDS Sequences, Naturals

CONSTANTS Blocks,    \* the blocks that may be written
          Capacity   \* bytes that fit

VARIABLE queue

Init == queue = <<>>

Enter == \E b \in Blocks :
  /\ Len(queue) + Len(b) <= Capacity
  /\ queue' = queue \o b

Leave == queue # <<>> /\ queue' = Tail(queue)

Spec == Init /\ [][Enter \/ Leave]_queue
=============================================================================
