------------------------------ MODULE FrameParser ------------------------------
(***************************************************************************)
(* The receiving half of protocol/protocol.c together with the drain loop  *)
(* of communication_task(): bytes wait in the receive ring until the task  *)
(* runs, the task first lets a stale partial frame time out, then feeds    *)
(* the parser every byte of the ring.  SOF has meaning only between        *)
(* frames, so garbage that looks like a header swallows what follows it.   *)
(***************************************************************************)
EXTENDS Integers, Sequences

CONSTANTS Byte,         \* byte values
          Sof,          \* PROTOCOL_SOF
          Version,      \* PROTOCOL_VERSION
          MaxPayload,   \* PROTOCOL_MAX_PAYLOAD
          Crc(_, _, _), \* checksum of type, sequence and payload
          Timeout,      \* PROTOCOL_INTERBYTE_TIMEOUT_MS
          Word,         \* the millisecond clock counts modulo this
          Capacity,     \* bytes the receive ring holds
          MaxCount      \* UINT8_MAX, where the error counters saturate

Payload == UNION {[1..n -> Byte] : n \in 0..MaxPayload}

ASSUME FrameParserAssumption ==
  /\ Byte \subseteq Nat
  /\ {0, Sof, Version} \subseteq Byte /\ Sof # Version
  /\ MaxPayload \in Nat
  /\ \A t, s \in Byte, p \in Payload : Crc(t, s, p) \in Byte
  /\ Word \in Nat \ {0} /\ Timeout \in 1..(Word - 1)
  /\ Capacity \in Nat /\ MaxCount \in Nat

VARIABLES ring,       \* bytes received and not yet read
          parser,     \* parser_state, received_frame, payload_index, last_byte_ms
          crcErrors,  \* crc_error_count
          timeouts,   \* parser_timeout_count
          accepted,   \* the frame handed to protocol_handle_frame(), in that step
          draining,   \* communication_task() is in its drain loop
          now         \* system_time_ms()

vars == <<ring, parser, crcErrors, timeouts, accepted, draining, now>>

None == [type |-> -1]
State == {"sof", "version", "type", "sequence", "length", "payload", "crc"}

TypeOK ==
  /\ ring \in Seq(Byte) /\ Len(ring) <= Capacity
  /\ parser.state \in State
  /\ parser.type \in Byte /\ parser.sequence \in Byte
  /\ parser.length \in 0..MaxPayload
  /\ parser.payload \in Payload /\ Len(parser.payload) <= parser.length
  /\ parser.last \in 0..(Word - 1)
  /\ crcErrors \in 0..MaxCount /\ timeouts \in 0..MaxCount
  /\ accepted = None \/
       (accepted.type \in Byte /\ accepted.sequence \in Byte /\ accepted.payload \in Payload)
  /\ draining \in BOOLEAN
  /\ now \in 0..(Word - 1)

Saturated(n) == IF n = MaxCount THEN n ELSE n + 1

-----------------------------------------------------------------------------
\* protocol_reset_parser()
Reset ==
  [state |-> "sof", type |-> 0, sequence |-> 0, length |-> 0, payload |-> <<>>, last |-> 0]

\* The length byte decides what follows; one that is too long ends the frame.
AfterLength(p, b) ==
  CASE b > MaxPayload -> Reset
    [] b = 0          -> [p EXCEPT !.length = b, !.payload = <<>>, !.state = "crc"]
    [] OTHER          -> [p EXCEPT !.length = b, !.payload = <<>>, !.state = "payload"]

AfterPayload(p, b) ==
  [p EXCEPT !.payload = Append(@, b),
            !.state = IF Len(p.payload) + 1 = p.length THEN "crc" ELSE "payload"]

\* The parser after a byte that found it between frames, and inside one.
Between(p, b, t) == IF b = Sof THEN [Reset EXCEPT !.state = "version", !.last = t] ELSE p

Inside(p, b) ==
  CASE p.state = "version"  -> IF b = Version THEN [p EXCEPT !.state = "type"] ELSE Reset
    [] p.state = "type"     -> [p EXCEPT !.type = b, !.state = "sequence"]
    [] p.state = "sequence" -> [p EXCEPT !.sequence = b, !.state = "length"]
    [] p.state = "length"   -> AfterLength(p, b)
    [] p.state = "payload"  -> AfterPayload(p, b)
    [] p.state = "crc"      -> Reset

\* Mutations: only SOF starts the inter-byte clock; SOF starts a new frame in
\* any state.
ConsumeSofStamp(p, b, t) == IF p.state = "sof" THEN Between(p, b, t) ELSE Inside(p, b)
ConsumeResync(p, b, t) ==
  IF p.state = "sof" \/ b = Sof THEN Between(p, b, t) ELSE Inside([p EXCEPT !.last = t], b)

\* protocol_process_byte(): the parser after byte b read at time t.
Consume(p, b, t) ==
  IF p.state = "sof" THEN Between(p, b, t) ELSE Inside([p EXCEPT !.last = t], b)

Matches(p, b) == b = Crc(p.type, p.sequence, p.payload)
Frame(p) == [type |-> p.type, sequence |-> p.sequence, payload |-> p.payload]

\* Mutation: the clocks are compared, not subtracted.
StaleAbsolute(p, t) == p.state # "sof" /\ t >= p.last + Timeout

Stale(p, t) == p.state # "sof" /\ (t - p.last) % Word >= Timeout

-----------------------------------------------------------------------------
\* protocol_init()
Init ==
  /\ ring = <<>> /\ parser = Reset
  /\ crcErrors = 0 /\ timeouts = 0 /\ accepted = None
  /\ draining = FALSE /\ now = 0

\* USART_RX_vect: a byte of a full ring is dropped.
Receive(b) ==
  /\ ring' = IF Len(ring) < Capacity THEN Append(ring, b) ELSE ring
  /\ accepted' = None
  /\ UNCHANGED <<parser, crcErrors, timeouts, draining, now>>

\* communication_task() starts: protocol_check_timeout().
CheckTimeout ==
  /\ ~draining
  /\ draining' = TRUE
  /\ parser' = IF Stale(parser, now) THEN Reset ELSE parser
  /\ timeouts' = IF Stale(parser, now) THEN Saturated(timeouts) ELSE timeouts
  /\ accepted' = None
  /\ UNCHANGED <<ring, crcErrors, now>>

\* One turn of the drain loop.
ProcessByte ==
  /\ draining /\ ring # <<>>
  /\ ring' = Tail(ring)
  /\ parser' = Consume(parser, Head(ring), now)
  /\ LET checked == parser.state = "crc"
         good == Matches(parser, Head(ring))
     IN  /\ accepted' = IF checked /\ good THEN Frame(parser) ELSE None
         /\ crcErrors' = IF checked /\ ~good THEN Saturated(crcErrors) ELSE crcErrors
  /\ UNCHANGED <<timeouts, draining, now>>

\* Mutation: the task reads what it finds time for.
DrainedEarly ==
  /\ draining
  /\ draining' = FALSE
  /\ accepted' = None
  /\ UNCHANGED <<ring, parser, crcErrors, timeouts, now>>

\* uart_read_byte() finds the ring empty; the task goes on to its answers.
Drained ==
  /\ draining /\ ring = <<>>
  /\ draining' = FALSE
  /\ accepted' = None
  /\ UNCHANGED <<ring, parser, crcErrors, timeouts, now>>

\* TIMER2_COMPA_vect
Tick ==
  /\ now' = (now + 1) % Word
  /\ accepted' = None
  /\ UNCHANGED <<ring, parser, crcErrors, timeouts, draining>>

Task == CheckTimeout \/ ProcessByte \/ Drained
Next == (\E b \in Byte : Receive(b)) \/ Task \/ Tick
Spec == Init /\ [][Next]_vars
=============================================================================
