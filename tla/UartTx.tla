-------------------------------- MODULE UartTx --------------------------------
(***************************************************************************)
(* The transmit side of hal/uart.c: uart_tx_write() in the foreground and  *)
(* the data-register-empty interrupt share a ring buffer.  The foreground  *)
(* owns tx_head, the interrupt owns tx_tail; each reads the other's index  *)
(* while it may be moving.  The interrupt switches itself off when the     *)
(* ring is empty, the foreground switches it on after publishing.          *)
(***************************************************************************)
EXTENDS UartRing

CONSTANTS TxSize,  \* UART_TX_BUFFER_SIZE
          Blocks   \* the blocks of bytes the foreground writes

ASSUME UartTxAssumption ==
  /\ TxSize \in Nat \ {0}
  /\ Blocks \subseteq Seq(Byte)

VARIABLES txHead,    \* tx_head
          txTail,    \* tx_tail
          txBuffer,  \* tx_buffer
          udrie,     \* UDRIE0: the interrupt is enabled
          udrEmpty,  \* UDRE0: the data register takes a byte
          txPc,      \* where uart_tx_write() is: "idle", "copy", "enable"
          newHead,   \* its local "head"
          rest       \* bytes of the block not yet copied

txIndices == <<txHead, txTail>>
writerVars == <<txPc, newHead, rest>>
txVars == <<txHead, txTail, txBuffer, udrie, udrEmpty, writerVars>>

TxIndex == 0..(TxSize - 1)

TxUsed == Used(txHead, txTail, TxSize)

FreeSpace == TxSize - 1 - TxUsed

TxTypeOK ==
  /\ txHead \in TxIndex /\ txTail \in TxIndex /\ newHead \in TxIndex
  /\ txBuffer \in [TxIndex -> Byte]
  /\ udrie \in BOOLEAN /\ udrEmpty \in BOOLEAN
  /\ txPc \in {"idle", "copy", "enable"}
  /\ rest \in Seq(Byte)

-----------------------------------------------------------------------------
\* uart_init()
TxInit ==
  /\ txHead = 0 /\ txTail = 0 /\ txBuffer = [i \in TxIndex |-> Blank]
  /\ udrie = FALSE /\ udrEmpty = TRUE
  /\ txPc = "idle" /\ newHead = 0 /\ rest = <<>>

\* Nothing to write: the call returns 1 at once.
Fits(b) == Len(b) > 0 /\ Len(b) <= FreeSpace

\* The indices are read and the block fits.
Accept ==
  /\ txPc = "idle"
  /\ \E b \in Blocks : Fits(b) /\ rest' = b
  /\ txPc' = "copy"
  /\ newHead' = txHead
  /\ UNCHANGED <<txIndices, txBuffer, udrie, udrEmpty>>

\* Mutation: the index moves with every byte.
CopyPublishing ==
  /\ txPc = "copy" /\ rest # <<>>
  /\ txBuffer' = [txBuffer EXCEPT ![newHead] = Head(rest)]
  /\ newHead' = Advance(newHead, TxSize) /\ txHead' = Advance(newHead, TxSize)
  /\ rest' = Tail(rest)
  /\ UNCHANGED <<txTail, udrie, udrEmpty, txPc>>

\* One byte into its slot; the interrupt may run between any two.
Copy ==
  /\ txPc = "copy" /\ rest # <<>>
  /\ txBuffer' = [txBuffer EXCEPT ![newHead] = Head(rest)]
  /\ newHead' = Advance(newHead, TxSize)
  /\ rest' = Tail(rest)
  /\ UNCHANGED <<txIndices, udrie, udrEmpty, txPc>>

\* The whole block becomes visible to the interrupt.
Publish ==
  /\ txPc = "copy" /\ rest = <<>>
  /\ txHead' = newHead
  /\ txPc' = "enable"
  /\ UNCHANGED <<txTail, txBuffer, udrie, udrEmpty, newHead, rest>>

\* UCSR0B |= UDRIE0.  The register is not in reach of a single-instruction bit
\* set, but whatever the interrupt did to the bit since it was loaded, the store
\* leaves it set.
Enable ==
  /\ txPc = "enable"
  /\ udrie' = TRUE
  /\ txPc' = "idle"
  /\ UNCHANGED <<txIndices, txBuffer, udrEmpty, newHead, rest>>

\* USART_UDRE_vect with a byte to send ...
IsrSend ==
  /\ udrie /\ udrEmpty
  /\ txHead # txTail
  /\ txTail' = Advance(txTail, TxSize)
  /\ udrEmpty' = FALSE
  /\ UNCHANGED <<txHead, txBuffer, udrie, writerVars>>

\* ... and with none.
IsrStop ==
  /\ udrie /\ udrEmpty
  /\ txHead = txTail
  /\ udrie' = FALSE
  /\ UNCHANGED <<txIndices, txBuffer, udrEmpty, writerVars>>

\* The shift register takes the byte.
Shift ==
  /\ ~udrEmpty
  /\ udrEmpty' = TRUE
  /\ UNCHANGED <<txIndices, txBuffer, udrie, writerVars>>

\* Mutation: the interrupt is enabled before the block is published.
WriterEnablesFirst ==
  \/ Accept \/ Copy
  \/ /\ txPc = "copy" /\ rest = <<>>
     /\ txPc' = "enable" /\ udrie' = TRUE
     /\ UNCHANGED <<txIndices, txBuffer, udrEmpty, newHead, rest>>
  \/ /\ txPc = "enable"
     /\ txPc' = "idle" /\ txHead' = newHead
     /\ UNCHANGED <<txTail, txBuffer, udrie, udrEmpty, newHead, rest>>

Writer == Accept \/ Copy \/ Publish \/ Enable
Isr == IsrSend \/ IsrStop

-----------------------------------------------------------------------------
\* What the interrupt will still send, oldest first.
Pending == Contents(txBuffer, txHead, txTail, TxSize)

TxFifo == INSTANCE ByteFifo WITH Capacity <- TxSize - 1, queue <- Pending

(* The ring is a queue of whole blocks: a block appears complete or not at  *)
(* all, and no byte is overwritten between publication and transmission,    *)
(* although the foreground decides on an index the interrupt is moving.     *)
TxImplementsFifo == TxFifo!Spec

(* No lost wake-up: bytes waiting while the foreground is elsewhere always  *)
(* find the interrupt enabled, although it switches itself off whenever it  *)
(* meets an empty ring.                                                     *)
NoLostWakeup == txPc = "idle" /\ txHead # txTail => udrie
=============================================================================
