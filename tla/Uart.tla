--------------------------------- MODULE Uart ---------------------------------
(***************************************************************************)
(* hal/uart.c as the program runs it: one foreground that calls            *)
(* uart_tx_write() and uart_read_byte(), one call at a time, and two       *)
(* interrupts, each of which may run between any two steps of a call.      *)
(***************************************************************************)
EXTENDS UartTx, UartRx

vars == <<txVars, rxVars>>

Init == TxInit /\ RxInit

\* The foreground is inside one call at most.
Foreground ==
  \/ rxPc = "idle" /\ Writer /\ UNCHANGED rxVars
  \/ txPc = "idle" /\ Reader /\ UNCHANGED txVars

\* The receive interrupt, the data-register-empty interrupt and the hardware.
Interrupts ==
  \/ Receive /\ UNCHANGED txVars
  \/ (Isr \/ Shift) /\ UNCHANGED rxVars

Next == Foreground \/ Interrupts

Spec == Init /\ [][Next]_vars
=============================================================================
