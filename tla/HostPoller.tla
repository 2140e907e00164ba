------------------------------ MODULE HostPoller ------------------------------
(***************************************************************************)
(* The dashboard's poller (supervisor/dashboard.py) on its serial link     *)
(* (supervisor/serial_link.py): in every cycle it asks the cell one        *)
(* question after the other and publishes the answers together.  A read    *)
(* that times out ends the cycle, lets late bytes arrive and discards      *)
(* them; every other failure ends the cycle and discards nothing, so the   *)
(* next cycle begins by reading what is left.                              *)
(*                                                                         *)
(* A byte of an answer carries, besides its place in the frame, whether it *)
(* answers the question now open; only properties look at that mark.       *)
(***************************************************************************)
EXTENDS Integers, SequencesExt

CONSTANTS Cycle,       \* the questions of a cycle, in order
          Header,      \* bytes read before the length is known
          Body,        \* Body[k]: payload and CRC of the answer to k
          SeqWord,     \* modulus of the sequence number
          BufferSize,  \* bytes the host's receive buffer holds
          LineSize,    \* bytes of answers in flight
          MaxTroubles  \* losses, made-up bytes, failing writes and flushes, all told

Kind == {Cycle[i] : i \in DOMAIN Cycle}
Longest == CHOOSE n \in {Body[k] : k \in Kind} : \A k \in Kind : Body[k] <= n

\* The last is a bound: a byte is read or discarded before the sequence numbers
\* come round, as every read takes a header at least and all but MaxTroubles
\* requests are followed by a read.
ASSUME HostPollerAssumption ==
  /\ Cycle \in Seq(STRING) /\ Cycle # <<>>
  /\ Header \in Nat \ {0} /\ Body \in [Kind -> Nat \ {0}]
  /\ {SeqWord, BufferSize, LineSize} \subseteq Nat \ {0} /\ MaxTroubles \in Nat
  /\ BufferSize \div Header + 2 + MaxTroubles < SeqWord

VARIABLES pc,          \* "rest", "send", "header", "body" or "settle"
          step,        \* the question of the cycle now open
          seq,         \* _sequence: the number of the next request
          header,      \* the header read, while the body is awaited
          troubles,    \* bytes lost or made up, writes and flushes that failed
          rx,          \* bytes in the host's receive buffer
          line,        \* bytes the cell has still to deliver
          cell,        \* "up", "slow" (answers late) or "down"
          connection,  \* the connection the dashboard shows
          aged         \* the last snapshot is older than stale_after_seconds

pollVars == <<pc, step, seq, header>>
storeVars == <<connection, aged>>
vars == <<pollVars, rx, line, cell, storeVars, troubles>>

Junk == [kind |-> "junk", seq |-> 0, pos |-> 0, own |-> FALSE]
Answer(k, s) ==
  [i \in 1..(Header + Body[k]) |-> [kind |-> k, seq |-> s, pos |-> i, own |-> TRUE]]
Byte == {Junk} \cup [kind : Kind, seq : 0..(SeqWord - 1), pos : 1..(Header + Longest), own : BOOLEAN]

TypeOK ==
  /\ pc \in {"rest", "send", "header", "body", "settle"}
  /\ step \in DOMAIN Cycle /\ seq \in 0..(SeqWord - 1)
  /\ rx \in Seq(Byte) /\ Len(rx) <= BufferSize
  /\ line \in Seq(Byte) /\ Len(line) <= LineSize
  /\ header = <<>> <=> pc # "body"
  /\ troubles \in 0..MaxTroubles
  /\ cell \in {"up", "slow", "down"}
  /\ connection \in {"CONNECTED", "DEGRADED", "DISCONNECTED"}
  /\ aged \in BOOLEAN

\* No snapshot yet counts as an old one: both show DISCONNECTED on a failure.
Init ==
  /\ pc = "rest" /\ step = 1 /\ seq = 0 /\ header = <<>> /\ troubles = 0
  /\ rx = <<>> /\ line = <<>> /\ cell = "up"
  /\ connection = "DISCONNECTED" /\ aged = TRUE

Asked == (seq - 1) % SeqWord
Without(s) == [i \in DOMAIN s |-> [s[i] EXCEPT !.own = FALSE]]

\* The length field of a header: the frame's own if the header is one, else
\* whatever the byte in that place happens to be.
IsHeader(h) == h[1] # Junk /\ h = [i \in 1..Header |-> [h[1] EXCEPT !.pos = i]]
Lengths(h) == IF IsHeader(h) THEN {Body[h[1].kind]} ELSE 1..Longest

\* decode_frame(): start, version, length and CRC are right.
Decodes(f) == f[1] # Junk /\ f = [i \in 1..(Header + Body[f[1].kind]) |-> [f[1] EXCEPT !.pos = i]]

-----------------------------------------------------------------------------
\* Mutation: a failure never gives the cell up.
RecordFailureSoft == connection' = "DEGRADED" /\ UNCHANGED aged

\* record_failure()
RecordFailure == connection' = (IF aged THEN "DISCONNECTED" ELSE "DEGRADED") /\ UNCHANGED aged

\* record_success(): all answers of the cycle become the snapshot at once.
RecordSuccess == connection' = "CONNECTED" /\ aged' = FALSE

\* What the line, the port or the driver may do only so often.
Trouble == troubles < MaxTroubles /\ troubles' = troubles + 1

\* A failure other than a timeout: the cycle is over, the buffer stays.
Abandon == pc' = "rest" /\ header' = <<>> /\ RecordFailure

Begin ==
  /\ pc = "rest"
  /\ pc' = "send" /\ step' = 1
  /\ UNCHANGED <<seq, header, rx, line, cell, storeVars, troubles>>

\* The request reaches a cell that answers, or is lost.  The guard on the line is
\* the bound: no answer is later than the question after the next.
Ask ==
  /\ pc = "send" /\ \A i \in DOMAIN line : line[i].own
  /\ pc' = "header" /\ seq' = (seq + 1) % SeqWord
  /\ rx' = Without(rx)
  /\ \/ /\ cell # "down" /\ Len(line) + Header + Body[Cycle[step]] <= LineSize
        /\ line' = Without(line) \o Answer(Cycle[step], seq) /\ UNCHANGED troubles
     \/ /\ IF cell = "down" THEN UNCHANGED troubles ELSE Trouble
        /\ line' = Without(line)
  /\ UNCHANGED <<step, header, cell, storeVars>>

\* write() raises: the number is used up and nothing was asked.
AskFails ==
  /\ pc = "send" /\ Trouble
  /\ seq' = (seq + 1) % SeqWord
  /\ rx' = Without(rx) /\ line' = Without(line)
  /\ Abandon
  /\ UNCHANGED <<step, cell>>

ReadHeader ==
  /\ pc = "header" /\ Len(rx) >= Header
  /\ rx' = SubSeq(rx, Header + 1, Len(rx))
  /\ \/ pc' = "body" /\ header' = SubSeq(rx, 1, Header) /\ UNCHANGED storeVars
     \/ ~IsHeader(SubSeq(rx, 1, Header)) /\ Abandon   \* LENGTH exceeds the maximum
  /\ UNCHANGED <<step, seq, line, cell, troubles>>

Frame(n) == header \o SubSeq(rx, 1, n)

\* Mutation: the sequence number is not compared.
ExpectedType(f) == Decodes(f) /\ f[1].kind = Cycle[step]

\* The frame decodes and has the type and the number of the open question.
Expected(f) == Decodes(f) /\ f[1].kind = Cycle[step] /\ f[1].seq = Asked

Accept(n) ==
  /\ Expected(Frame(n))
  /\ header' = <<>>
  /\ IF step = Len(Cycle)
     THEN pc' = "rest" /\ RecordSuccess /\ UNCHANGED step
     ELSE pc' = "send" /\ step' = step + 1 /\ UNCHANGED storeVars

Reject(n) == ~Expected(Frame(n)) /\ Abandon /\ UNCHANGED step

ReadBody ==
  /\ pc = "body"
  /\ \E n \in Lengths(header) :
       /\ Len(rx) >= n
       /\ rx' = SubSeq(rx, n + 1, Len(rx))
       /\ Accept(n) \/ Reject(n)
  /\ UNCHANGED <<seq, line, cell, troubles>>

\* read_exact() gives up on a cell that keeps silent, or is late.
Timeout ==
  /\ \/ pc = "header" /\ Len(rx) < Header
     \/ pc = "body" /\ \E n \in Lengths(header) : Len(rx) < n
  /\ line = <<>> \/ cell = "slow"
  /\ pc' = "settle" /\ header' = <<>>
  /\ RecordFailure
  /\ UNCHANGED <<step, seq, rx, line, cell, troubles>>

\* Mutation: the buffer is left as it is.
RecoverKeeps ==
  /\ pc = "settle" /\ line = <<>>
  /\ pc' = "rest"
  /\ UNCHANGED <<step, seq, header, rx, line, cell, storeVars, troubles>>

\* recover_rx_after_timeout().  The guard is the bound: what the cell was late
\* with arrives within the timeout and the time to settle.
Recover ==
  /\ pc = "settle" /\ line = <<>>
  /\ pc' = "rest" /\ rx' = <<>>
  /\ UNCHANGED <<step, seq, header, line, cell, storeVars, troubles>>

\* tcflush() raises: a second failure is recorded.
RecoverFails ==
  /\ pc = "settle" /\ Trouble
  /\ Abandon
  /\ UNCHANGED <<step, seq, rx, line, cell>>

Poller == Begin \/ Ask \/ AskFails \/ ReadHeader \/ ReadBody \/ Timeout \/ Recover \/ RecoverFails

-----------------------------------------------------------------------------
\* A byte reaches the receive buffer, or finds it full.
Buffered(b) == IF Len(rx) < BufferSize THEN Append(rx, b) ELSE rx

Deliver ==
  /\ line # <<>>
  /\ rx' = Buffered(Head(line)) /\ line' = Tail(line)
  /\ UNCHANGED <<pollVars, cell, storeVars, troubles>>

\* A byte is lost, altered or made up.
Disturb ==
  /\ Trouble
  /\ \/ line # <<>> /\ line' = Tail(line) /\ rx' \in {rx, Buffered(Junk)}
     \/ rx' = Buffered(Junk) /\ UNCHANGED line
  /\ UNCHANGED <<pollVars, cell, storeVars>>

\* The cell is reset in the middle of an answer, comes back, slows down.
CellChanges ==
  /\ \E c \in {"up", "slow", "down"} \ {cell} :
       /\ cell' = c
       /\ line' = IF c = "down" THEN <<>> ELSE line
  /\ UNCHANGED <<pollVars, rx, storeVars, troubles>>

Age ==
  /\ ~aged /\ aged' = TRUE
  /\ UNCHANGED <<pollVars, rx, line, cell, connection, troubles>>

Next == Poller \/ Deliver \/ Disturb \/ CellChanges \/ Age

\* The poller's thread runs, a byte sent is delivered, time passes.
Spec == Init /\ [][Next]_vars /\ WF_vars(Poller) /\ WF_vars(Deliver) /\ WF_vars(Age)

-----------------------------------------------------------------------------
(* Only the answer to the question just asked is accepted, never one left   *)
(* over from an earlier question, whatever the line did and although stale  *)
(* answers may pile up: type and sequence number tell them apart.           *)
OnlyCurrentAnswers ==
  [][pc = "body" /\ (pc' = "send" \/ (pc' = "rest" /\ connection' = "CONNECTED"))
       => header[1].own]_vars

(* Once the cell stays up, cycles succeed again, whatever answer a reset    *)
(* cut short or delayed before.  (A failing flush or write can leave a whole *)
(* answer behind, and then every question meets the answer to the one       *)
(* before: for such a line the code does not promise it.)                   *)
PollerRecovers ==
  <>[](cell = "up" /\ troubles = 0) => []<>(pc = "rest" /\ connection = "CONNECTED")

(* A cell that stays silent is shown as disconnected, and not only as       *)
(* degraded, however often the poller retries.                              *)
SilenceIsShown == <>[](cell = "down") => <>[](connection = "DISCONNECTED")
=============================================================================
