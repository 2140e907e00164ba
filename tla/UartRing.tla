------------------------------- MODULE UartRing -------------------------------
(***************************************************************************)
(* What the two ring buffers of hal/uart.c share: bytes in slots, a head   *)
(* index the producer moves and a tail index the consumer moves, both cut  *)
(* to the ring's size, a power of two, by a mask.                          *)
(***************************************************************************)
EXTENDS Integers, Sequences

CONSTANT Byte   \* byte values

\* The value of a slot before anything was written to it.
Blank == CHOOSE b \in Byte : TRUE

\* (uint8_t)((index + 1U) & MASK)
Advance(index, size) == (index + 1) % size

\* (uint8_t)(head - tail) & MASK
Used(head, tail, size) == (head - tail) % size

\* The bytes between tail and head, oldest first.
Contents(buffer, head, tail, size) ==
  [i \in 1..Used(head, tail, size) |-> buffer[(tail + i - 1) % size]]
=============================================================================
