-------------------------------- MODULE UartRx --------------------------------
(***************************************************************************)
(* The receive side of hal/uart.c.  The receive interrupt owns rx_head and *)
(* drops the newest byte when the ring is full, counting it; the           *)
(* foreground reads with uart_read_byte(), whose steps the interrupt may   *)
(* separate: it finds the ring not empty, takes the byte from its slot, and *)
(* only then gives the slot back.                                          *)
(***************************************************************************)
EXTENDS UartRing

CONSTANTS RxSize,       \* UART_RX_BUFFER_SIZE
          MaxOverflow   \* UINT8_MAX, where the overflow count saturates

ASSUME UartRxAssumption ==
  /\ RxSize \in Nat \ {0}
  /\ Byte # {}
  /\ MaxOverflow \in Nat

VARIABLES rxHead,     \* rx_head
          rxTail,     \* rx_tail
          rxBuffer,   \* rx_buffer
          overflows,  \* rx_overflow_count
          rxPc,       \* uart_read_byte(): "idle", "found", "taken"
          slot,       \* its local "tail"
          taken       \* *byte

readerVars == <<rxPc, slot, taken>>
rxVars == <<rxHead, rxTail, rxBuffer, overflows, readerVars>>

RxIndex == 0..(RxSize - 1)

RxUsed == Used(rxHead, rxTail, RxSize)

RxTypeOK ==
  /\ rxHead \in RxIndex /\ rxTail \in RxIndex /\ slot \in RxIndex
  /\ rxBuffer \in [RxIndex -> Byte]
  /\ overflows \in 0..MaxOverflow
  /\ rxPc \in {"idle", "found", "taken"}
  /\ taken \in Byte

-----------------------------------------------------------------------------
\* uart_init()
RxInit ==
  /\ rxHead = 0 /\ rxTail = 0 /\ rxBuffer = [i \in RxIndex |-> Blank]
  /\ overflows = 0
  /\ rxPc = "idle" /\ slot = 0 /\ taken = Blank

\* Mutation: the ring is used to the last slot.
FullLast == FALSE

Full == Advance(rxHead, RxSize) = rxTail

\* USART_RX_vect
Store(b) ==
  /\ ~Full
  /\ rxBuffer' = [rxBuffer EXCEPT ![rxHead] = b]
  /\ rxHead' = Advance(rxHead, RxSize)
  /\ UNCHANGED <<rxTail, overflows, readerVars>>

\* Mutation: the overflow count wraps.
DropWrapping ==
  /\ Full
  /\ overflows' = (overflows + 1) % (MaxOverflow + 1)
  /\ UNCHANGED <<rxHead, rxTail, rxBuffer, readerVars>>

\* USART_RX_vect with no room: the byte is lost and counted.
Drop ==
  /\ Full
  /\ overflows' = IF overflows = MaxOverflow THEN overflows ELSE overflows + 1
  /\ UNCHANGED <<rxHead, rxTail, rxBuffer, readerVars>>

\* uart_read_byte() finds a byte.
Find ==
  /\ rxPc = "idle" /\ rxHead # rxTail
  /\ rxPc' = "found" /\ slot' = rxTail
  /\ UNCHANGED <<rxHead, rxTail, rxBuffer, overflows, taken>>

Take ==
  /\ rxPc = "found"
  /\ rxPc' = "taken" /\ taken' = rxBuffer[slot]
  /\ UNCHANGED <<rxHead, rxTail, rxBuffer, overflows, slot>>

Release ==
  /\ rxPc = "taken"
  /\ rxPc' = "idle" /\ rxTail' = Advance(slot, RxSize)
  /\ UNCHANGED <<rxHead, rxBuffer, overflows, slot, taken>>

Receive == (\E b \in Byte : Store(b)) \/ Drop
Reader == Find \/ Take \/ Release

-----------------------------------------------------------------------------
\* What the foreground will still read, oldest first.
Waiting == Contents(rxBuffer, rxHead, rxTail, RxSize)

RxFifo == INSTANCE ByteFifo
  WITH Blocks <- {<<b>> : b \in Byte}, Capacity <- RxSize - 1, queue <- Waiting

(* What was received is read in order and without loss from the middle:     *)
(* a byte that finds no room is the only one that disappears.               *)
RxImplementsFifo == RxFifo!Spec

(* The overflow count is a record of loss: it never goes back to a smaller  *)
(* value, and it moves only on a byte that found every usable slot taken,   *)
(* leaving what waits in the ring as it was.                                *)
LossIsRecorded ==
  [][/\ overflows' >= overflows
     /\ overflows' # overflows => RxUsed = RxSize - 1 /\ Waiting' = Waiting]_rxVars
=============================================================================
