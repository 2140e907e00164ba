----------------------------- MODULE FrameGrammar -----------------------------
(***************************************************************************)
(* What the parser should make of a byte stream, stated without its state  *)
(* machine: scan the stream from the left, at a SOF take the candidate     *)
(* frame that starts there, accept it or drop it as a whole, and go on     *)
(* behind it.  The parser of FrameParser is run on every short stream,     *)
(* with pauses long enough to time out, and compared with the scan.        *)
(***************************************************************************)
EXTENDS FrameParser, FiniteSets

CONSTANTS MaxInput   \* length of the longest stream

\* A pause of the inter-byte timeout, seen by protocol_check_timeout().
Pause == -1

VARIABLES input,     \* bytes parsed and pauses seen so far
          output     \* frames accepted so far

gvars == <<vars, input, output>>

GInit == Init /\ input = <<>> /\ output = <<>>

\* A byte arrives while the task waits for it in its drain loop.
Feed(b) ==
  /\ Len(input) < MaxInput
  /\ draining /\ ring = <<>>
  /\ Receive(b)
  /\ UNCHANGED <<input, output>>

Parse ==
  /\ ProcessByte
  /\ input' = Append(input, Head(ring))
  /\ output' = IF accepted' = None THEN output ELSE Append(output, accepted')

\* The task runs for the first time.
First ==
  /\ input = <<>>
  /\ CheckTimeout
  /\ UNCHANGED <<input, output>>

\* The task ends, nothing is heard for the timeout, the task starts again.
Silence ==
  /\ Len(input) < MaxInput
  /\ input # <<>> /\ input[Len(input)] # Pause
  /\ draining /\ ring = <<>>
  /\ now' = (now + Timeout) % Word
  /\ parser' = IF Stale(parser, now') THEN Reset ELSE parser
  /\ timeouts' = IF Stale(parser, now') THEN Saturated(timeouts) ELSE timeouts
  /\ accepted' = None
  /\ input' = Append(input, Pause)
  /\ UNCHANGED <<ring, crcErrors, draining, output>>

GNext == First \/ (\E b \in Byte : Feed(b)) \/ Parse \/ Silence
GSpec == GInit /\ [][GNext]_gvars

-----------------------------------------------------------------------------
\* Where the candidate frame at position i ends if it runs its full length.
LastOf(i) ==
  CASE Len(input) > i /\ input[i + 1] # Version        -> i + 1
    [] Len(input) >= i + 4 /\ input[i + 4] > MaxPayload -> i + 4
    [] Len(input) >= i + 4                              -> i + 5 + input[i + 4]
    [] OTHER                                            -> i + 4

\* The positions of the candidate that are in the stream, and its first pause.
Covered(i) == i..(IF LastOf(i) < Len(input) THEN LastOf(i) ELSE Len(input))
Pauses(i) == {j \in Covered(i) : input[j] = Pause}
FirstOf(S) == CHOOSE j \in S : \A k \in S : j <= k

Interrupted(i) == Pauses(i) # {}
Complete(i) == LastOf(i) <= Len(input) /\ ~Interrupted(i)
WellFormed(i) == Complete(i) /\ LastOf(i) > i + 4
PayloadOf(i) == SubSeq(input, i + 5, LastOf(i) - 1)
Checks(i) == input[LastOf(i)] = Crc(input[i + 2], input[i + 3], PayloadOf(i))

\* Where the scan goes on behind the candidate at i.
Behind(i) == IF Interrupted(i) THEN FirstOf(Pauses(i)) + 1 ELSE LastOf(i) + 1

\* The positions where the scan stands at i and finds a SOF there.
Reached ==
  LET at[i \in 1..(Len(input) + 1)] ==
        \/ i = 1
        \/ at[i - 1] /\ input[i - 1] # Sof
        \/ \E j \in 1..(i - 1) : at[j] /\ input[j] = Sof /\ Behind(j) = i
  IN  {i \in 1..Len(input) : at[i] /\ input[i] = Sof}

Good == {i \in Reached : WellFormed(i) /\ Checks(i)}
Bad == {i \in Reached : WellFormed(i) /\ ~Checks(i)}
TimedOut == {i \in Reached : Interrupted(i)}

Capped(n) == IF n < MaxCount THEN n ELSE MaxCount
Nth(S, n) == CHOOSE i \in S : Cardinality({j \in S : j <= i}) = n

(* The frames handed to protocol_handle_frame() are exactly those the scan  *)
(* accepts, in order and with their fields: no byte of a dropped candidate  *)
(* leaks into a later frame, and no good frame behind garbage is missed.    *)
ParsesByGrammar ==
  output = [n \in 1..Cardinality(Good) |->
             LET i == Nth(Good, n)
             IN  [type |-> input[i + 2], sequence |-> input[i + 3], payload |-> PayloadOf(i)]]

(* Every loss is told: the CRC and timeout counters count the candidates    *)
(* dropped for those reasons, up to where they saturate, and nothing else.  *)
CountersTellLosses ==
  crcErrors = Capped(Cardinality(Bad)) /\ timeouts = Capped(Cardinality(TimedOut))
=============================================================================
