------------------------------ MODULE Mailboxes ------------------------------
(***************************************************************************)
(* What the firmware promises about requests: each slot holds at most one  *)
(* request, what was accepted is answered once and with its own sequence   *)
(* number, and answers leave whole and in the order they were given.  A    *)
(* cell that was told to block gives no further answer.                    *)
(***************************************************************************)
EXTENDS Sequences

CONSTANTS Slot,    \* places for a request
          Answer,  \* what a request is answered with
          Empty    \* no request

VARIABLES box,     \* the answer each slot owes
          outbox,  \* answers given and not yet transmitted
          silent   \* told to block

Init == box = [s \in Slot |-> Empty] /\ outbox = <<>> /\ silent = FALSE

Post(s, a) ==
  /\ ~silent /\ box[s] = Empty
  /\ box' = [box EXCEPT ![s] = a]
  /\ UNCHANGED <<outbox, silent>>

Give(s) ==
  /\ ~silent /\ box[s] # Empty
  /\ box' = [box EXCEPT ![s] = Empty]
  /\ outbox' = Append(outbox, box[s])
  /\ UNCHANGED silent

Leave ==
  /\ outbox # <<>>
  /\ outbox' = Tail(outbox)
  /\ UNCHANGED <<box, silent>>

Block == ~silent /\ silent' = TRUE /\ UNCHANGED <<box, outbox>>

Next ==
  \/ \E s \in Slot : Give(s) \/ \E a \in Answer : Post(s, a)
  \/ Leave \/ Block

Spec == Init /\ [][Next]_<<box, outbox, silent>>
=============================================================================
