------------------------------- MODULE Responder -------------------------------
(***************************************************************************)
(* The answering half of protocol/protocol.c and communication_task(): a   *)
(* frame that passed the parser fills a slot, PING, ECHO and every NACK    *)
(* sharing one, each status request having its own; when the receive ring  *)
(* is drained the task tries the slots in a fixed order, and a slot whose  *)
(* answer does not fit the transmit ring stays filled for the next run.    *)
(* The transmit interrupt empties the ring meanwhile.                      *)
(***************************************************************************)
EXTENDS Integers, FiniteSets, SequencesExt

CONSTANTS Order,       \* the status requests, as communication_task() tries them
          SeqNo,       \* sequence numbers
          Size,        \* bytes of each answer's frame
          TxCapacity,  \* bytes the transmit ring holds
          Windows      \* how many requests a host may have outstanding

Status == {Order[i] : i \in DOMAIN Order}
ReplyKind == {"PONG", "ACK", "NACK_LENGTH", "NACK_TYPE"}

ASSUME ResponderAssumption ==
  /\ Order \in Seq(STRING)
  /\ \A i, j \in DOMAIN Order : i # j => Order[i] # Order[j]
  /\ Status \cap (ReplyKind \cup {"PING", "ECHO", "BLOCK", "UNKNOWN", "reply"}) = {}
  /\ Size \in [ReplyKind \cup Status -> 1..TxCapacity]
  /\ TxCapacity \in Nat /\ Windows \subseteq Nat

VARIABLES reply,    \* response_pending, pending_frame; None when not pending
          request,  \* the pending flag and sequence of each status request
          block,    \* watchdog_block_request_pending
          pc,       \* communication_task(): "idle", "drain", "answer", "blocked"
          slot,     \* the slot the task tries next, 0 for reply
          tx,       \* frames in the transmit ring, oldest first
          gone,     \* bytes of the oldest frame already transmitted
          window    \* requests this host has outstanding at most

slotVars == <<reply, request, block>>
txVars == <<tx, gone>>
vars == <<slotVars, pc, slot, txVars, window>>

None == [kind |-> "none", sequence |-> 0]
Answer == [kind : ReplyKind \cup Status, sequence : SeqNo]
Request == [type : Status \cup {"PING", "ECHO", "BLOCK", "UNKNOWN"},
            sequence : SeqNo, valid : BOOLEAN]

\* The length of the frames together, and the bytes in the transmit ring.
Bytes(frames) ==
  LET upto[n \in 0..Len(frames)] == IF n = 0 THEN 0 ELSE upto[n - 1] + Size[frames[n].kind]
  IN  upto[Len(frames)]
Used == Bytes(tx) - gone

TypeOK ==
  /\ reply \in {None} \cup [kind : ReplyKind, sequence : SeqNo]
  /\ request \in [Status -> {None} \cup Answer]
  /\ block \in BOOLEAN
  /\ pc \in {"idle", "drain", "answer", "blocked"}
  /\ slot \in 0..(Len(Order) + 1)
  /\ tx \in Seq(Answer)
  /\ window \in Windows
  /\ gone \in 0..TxCapacity /\ Used \in 0..TxCapacity

-----------------------------------------------------------------------------
\* protocol_init()
Init ==
  /\ reply = None /\ request = [k \in Status |-> None] /\ block = FALSE
  /\ pc = "idle" /\ slot = 0
  /\ tx = <<>> /\ gone = 0
  /\ window \in Windows

\* What the shared slot is filled with; "valid" is a length the type allows.
ReplyTo(f) ==
  [kind |-> CASE f.type = "UNKNOWN"           -> "NACK_TYPE"
              [] ~f.valid                     -> "NACK_LENGTH"
              [] f.valid /\ f.type = "PING"   -> "PONG"
              [] f.valid /\ f.type = "ECHO"   -> "ACK",
   sequence |-> f.sequence]

\* A status request or the block command of the right length has a place of its
\* own; everything else needs the shared slot and is dropped if it is taken.
OwnSlot(f) == f.valid /\ f.type \in Status \cup {"BLOCK"}

\* Mutation: a repeated status request renews the sequence number.
PostStatusRenews(f) ==
  /\ f.type \in Status
  /\ request' = [request EXCEPT ![f.type] = [kind |-> f.type, sequence |-> f.sequence]]
  /\ UNCHANGED <<reply, block>>

PostStatus(f) ==
  /\ f.type \in Status
  /\ request' = IF request[f.type] = None
                THEN [request EXCEPT ![f.type] = [kind |-> f.type, sequence |-> f.sequence]]
                ELSE request
  /\ UNCHANGED <<reply, block>>

PostBlock(f) == f.type = "BLOCK" /\ block' = TRUE /\ UNCHANGED <<reply, request>>

PostReply(f) ==
  /\ reply' = IF reply = None THEN ReplyTo(f) ELSE reply
  /\ UNCHANGED <<request, block>>

\* protocol_handle_frame()
HandleFrame(f) == IF OwnSlot(f) THEN PostStatus(f) \/ PostBlock(f) ELSE PostReply(f)

\* Requests not yet answered completely, as the host counts them.
Outstanding ==
  Len(tx) + Cardinality({k \in Status : request[k] # None}) + (IF reply = None THEN 0 ELSE 1)

-----------------------------------------------------------------------------
TaskStarts ==
  /\ pc = "idle"
  /\ pc' = "drain"
  /\ UNCHANGED <<slotVars, slot, txVars>>

\* The drain loop completes a frame.
Drain(f) ==
  /\ pc = "drain" /\ Outstanding < window
  /\ HandleFrame(f)
  /\ UNCHANGED <<pc, slot, txVars>>

\* Mutation: the task goes on where it stopped.
DrainedResumes ==
  /\ pc = "drain"
  /\ pc' = IF block THEN "blocked" ELSE "answer"
  /\ UNCHANGED <<slotVars, slot, txVars>>

\* The ring is empty: the answers follow, or the task blocks for good.
Drained ==
  /\ pc = "drain"
  /\ pc' = IF block THEN "blocked" ELSE "answer"
  /\ slot' = 0
  /\ UNCHANGED <<slotVars, txVars>>

Fits(a) == Used + Size[a.kind] <= TxCapacity

\* protocol_send_frame()
Send(a) == tx' = Append(tx, a) /\ UNCHANGED gone

Skip == UNCHANGED txVars /\ UNCHANGED <<reply, request>>

\* The shared slot: sent and cleared, or left as it is.
TryReply ==
  /\ pc = "answer" /\ slot = 0
  /\ IF reply # None /\ Fits(reply)
     THEN Send(reply) /\ reply' = None /\ UNCHANGED request
     ELSE Skip
  /\ slot' = 1
  /\ UNCHANGED <<block, pc>>

Owed == request[Order[slot]]

\* Mutation: the slot is left filled although the answer was sent.
TryStatusKeeps ==
  /\ pc = "answer" /\ slot \in DOMAIN Order
  /\ IF Owed # None /\ Fits(Owed) THEN Send(Owed) ELSE UNCHANGED txVars
  /\ slot' = slot + 1
  /\ UNCHANGED <<reply, request, block, pc>>

\* A status slot: its answer is built and sent, or it stays filled.
TryStatus ==
  /\ pc = "answer" /\ slot \in DOMAIN Order
  /\ IF Owed # None /\ Fits(Owed)
     THEN Send(Owed) /\ request' = [request EXCEPT ![Order[slot]] = None] /\ UNCHANGED reply
     ELSE Skip
  /\ slot' = slot + 1
  /\ UNCHANGED <<block, pc>>

TaskReturns ==
  /\ pc = "answer" /\ slot = Len(Order) + 1
  /\ pc' = "idle"
  /\ UNCHANGED <<slotVars, slot, txVars>>

\* USART_UDRE_vect: a byte leaves, and with its last byte the oldest frame.
Transmit ==
  /\ tx # <<>>
  /\ IF gone + 1 = Size[Head(tx).kind]
     THEN tx' = Tail(tx) /\ gone' = 0
     ELSE gone' = gone + 1 /\ UNCHANGED tx
  /\ UNCHANGED <<slotVars, pc, slot>>

Task == TaskStarts \/ Drained \/ TryReply \/ TryStatus \/ TaskReturns
Next ==
  /\ (\E f \in Request : Drain(f)) \/ Task \/ Transmit
  /\ UNCHANGED window

\* The scheduler runs the task for ever, the drain loop ends, and the interrupt
\* transmits.
Spec == Init /\ [][Next]_vars /\ WF_vars(Task /\ UNCHANGED window) /\ WF_vars(Transmit /\ UNCHANGED window)

-----------------------------------------------------------------------------
Boxes ==
  INSTANCE Mailboxes WITH
    Slot <- {"reply"} \cup Status, Empty <- None,
    box <- [s \in {"reply"} \cup Status |-> IF s = "reply" THEN reply ELSE request[s]],
    outbox <- tx, silent <- pc = "blocked"

(* Every accepted request is answered once, whole and with its own sequence *)
(* number, although the answer may have to be tried again while the ring is *)
(* full; none is answered once the cell blocks.                             *)
AnsweredOnce == Boxes!Spec

\* Hosts with so few requests outstanding that the answers fit the ring together,
\* whatever was asked.
PoliteWindows == {w \in Windows : \A k \in ReplyKind \cup Status : w * Size[k] <= TxCapacity}
Polite == window \in PoliteWindows

(* For a polite host the task leaves no slot filled when it returns: an     *)
(* accepted request is answered by the run that read it.                    *)
AnsweredSameRun ==
  Polite /\ pc = "idle" => reply = None /\ \A k \in Status : request[k] = None

(* A polite host waits for no answer for ever, unless the cell blocks.  (A    *)
(* host that keeps the ring filled with short answers can starve a long one.) *)
NoRequestStarves ==
  \A k \in Status :
    Polite /\ request[k] # None ~> request[k] = None \/ pc = "blocked"
=============================================================================
