--------------------------- MODULE FrameTimingProofs ---------------------------
(***************************************************************************)
(* The receive ring does not overflow, and a frame sent after a silence    *)
(* with bounded pauses is accepted, for every latency of the task, length  *)
(* of its drain and timeout, whatever noise precedes or follows the frame. *)
(***************************************************************************)
EXTENDS FrameTiming, SequenceTheorems, TLAPS

Parsers ==
  [state : State, type : Byte, sequence : Byte, length : Nat, payload : Seq(Byte),
   last : 0..(Word - 1)]

Shape ==
  /\ ring \in Seq(Byte) /\ left \in Seq(Byte)
  /\ parser \in Parsers
  /\ draining \in BOOLEAN /\ got \in BOOLEAN
  /\ now \in 0..(Word - 1)
  /\ quiet \in 0..Silence /\ wait \in 0..Latency
  /\ got \/ want \in Frames

\* One byte arrives per tick, and the task empties the ring once per Latency.
Late == IF quiet = 0 THEN 1 ELSE 0
SinceDrain == IF draining THEN Latency + wait ELSE wait

RingInv ==
  /\ draining => wait <= Busy
  /\ Len(ring) <= SinceDrain + Late
  /\ ring # <<>> => quiet <= SinceDrain

\* How long ago the parser read the last byte of the frame it is in: the clock
\* has not gone round, and the byte was not long in the ring.
Partial == parser.state # "sof"
Age == (now - parser.last) % Word

AgeInv ==
  Partial =>
    /\ Age < Timeout + wait
    /\ quiet <= Age + Latency + Busy
    /\ ring = <<>> => Age <= quiet \/ quiet = Silence

\* The bytes of the frame after the first pos are in the ring, in front of any
\* noise, or still to be sent.
Coming(pos, bytes) ==
  /\ Len(left) <= Len(bytes) - pos
  /\ \A i \in 1..Len(left) : left[i] = bytes[Len(bytes) - Len(left) + i]
  /\ Len(bytes) - Len(left) - pos <= Len(ring)
  /\ \A i \in 1..(Len(bytes) - Len(left) - pos) : ring[i] = bytes[pos + i]
  /\ left # <<>> => Len(bytes) - Len(left) - pos = Len(ring)

\* The parser after the first pos bytes of f.
Taken(p, f, pos) ==
  /\ pos = 1 => p.state = "version"
  /\ pos = 2 => p.state = "type"
  /\ pos = 3 => p.state = "sequence"
  /\ pos = 4 => p.state = "length"
  /\ pos >= 3 => p.type = f.type
  /\ pos >= 4 => p.sequence = f.sequence
  /\ pos >= 5 =>
       /\ p.state = IF pos = 5 + Len(f.payload) THEN "crc" ELSE "payload"
       /\ p.length = Len(f.payload)
       /\ Len(p.payload) = pos - 5
       /\ \A i \in 1..(pos - 5) : p.payload[i] = f.payload[i]

\* Before the frame the parser is idle, or due to time out when the task
\* starts; inside it, it does not time out.
InFrame(pos) ==
  /\ pos = 0 => ~Partial \/ (~draining /\ Age >= Timeout)
  /\ pos > 0 => Taken(parser, want, pos) /\ (~draining => Age <= Gap + wait)

FrameInv ==
  /\ left # <<>> => quiet <= Gap
  /\ ~got => \E pos \in 0..(5 + Len(want.payload)) : Coming(pos, Encoded(want)) /\ InFrame(pos)

TimingInv == Shape /\ RingInv /\ AgeInv /\ FrameInv

-----------------------------------------------------------------------------
\* What the constants say of each other.
LEMMA Bounds ==
  /\ Word \in Nat /\ Timeout \in Nat /\ Capacity \in Nat /\ Latency \in Nat /\ Busy \in Nat
  /\ 1 <= Timeout /\ Latency + Busy < Timeout /\ Timeout + Latency <= Word
  /\ Latency + Busy < Capacity
  /\ Silence \in Nat /\ Silence = Timeout + Latency + 2 * Busy
  /\ Gap \in Nat /\ Gap = Timeout - Latency - 1
<1>1. /\ Word \in Nat /\ Timeout \in Nat /\ Capacity \in Nat /\ Latency \in Nat /\ Busy \in Nat
      /\ 1 <= Timeout /\ Latency + Busy < Timeout /\ Timeout + Latency <= Word
      /\ Latency + Busy < Capacity
  BY FrameParserAssumption, FrameTimingAssumption
<1>2. QED
  BY <1>1 DEF Silence, Gap

\* The millisecond clock's differences.
LEMMA AgeFacts ==
  ASSUME NEW n \in 0..(Word - 1), NEW l \in 0..(Word - 1)
  PROVE  /\ (n - l) % Word \in Nat
         /\ (n - n) % Word = 0
         /\ (n + 1) % Word \in 0..(Word - 1)
         /\ ((n - l) % Word) + 1 < Word => (((n + 1) % Word) - l) % Word = ((n - l) % Word) + 1
<1> Word \in Nat
  BY Bounds
<1>1. /\ (n - l) % Word = IF l <= n THEN n - l ELSE n - l + Word
      /\ (n + 1) % Word = IF n + 1 = Word THEN 0 ELSE n + 1
  OBVIOUS
<1>2. ASSUME NEW m \in 0..(Word - 1)
      PROVE  (m - l) % Word = IF l <= m THEN m - l ELSE m - l + Word
  OBVIOUS
<1>3. (n - n) % Word = 0
  OBVIOUS
<1>4. (n + 1) % Word \in 0..(Word - 1)
  BY <1>1
<1>5. QED
  BY <1>1, <1>2, <1>3, <1>4

\* The bytes of a frame.
LEMMA FrameFacts ==
  ASSUME NEW f \in Frames
  PROVE  /\ f = [type |-> f.type, sequence |-> f.sequence, payload |-> f.payload]
         /\ f.type \in Byte /\ f.sequence \in Byte
         /\ f.payload \in Payload /\ f.payload \in Seq(Byte)
         /\ Len(f.payload) \in Byte /\ Len(f.payload) \in 0..MaxPayload
         /\ Crc(f.type, f.sequence, f.payload) \in Byte
<1>1. f \in [type : Byte, sequence : Byte, payload : Payload]
  BY FrameTimingAssumption
<1>2. f = [type |-> f.type, sequence |-> f.sequence, payload |-> f.payload]
  BY <1>1
<1>3. f.type \in Byte /\ f.sequence \in Byte /\ f.payload \in Payload
  BY <1>1
<1>4. PICK n \in 0..MaxPayload : f.payload \in [1..n -> Byte]
  BY <1>3 DEF Payload
<1>5. n \in Nat
  BY FrameParserAssumption
<1>6. f.payload \in Seq(Byte) /\ Len(f.payload) = n
  BY <1>4, <1>5
<1>7. n \in Byte
  BY FrameTimingAssumption
<1>8. Crc(f.type, f.sequence, f.payload) \in Byte
  BY <1>3, FrameParserAssumption
<1>9. QED
  BY <1>2, <1>3, <1>6, <1>7, <1>8

LEMMA EncodedFacts ==
  ASSUME NEW f \in Frames
  PROVE  /\ Encoded(f) \in Seq(Byte)
         /\ Len(Encoded(f)) = 6 + Len(f.payload)
         /\ Encoded(f)[1] = Sof /\ Encoded(f)[2] = Version
         /\ Encoded(f)[3] = f.type /\ Encoded(f)[4] = f.sequence
         /\ Encoded(f)[5] = Len(f.payload)
         /\ \A i \in 1..Len(f.payload) : Encoded(f)[5 + i] = f.payload[i]
         /\ Encoded(f)[6 + Len(f.payload)] = Crc(f.type, f.sequence, f.payload)
<1> DEFINE head == <<Sof, Version, f.type, f.sequence, Len(f.payload)>>
           body == f.payload
           tail == <<Crc(f.type, f.sequence, f.payload)>>
           n == Len(f.payload)
<1>1. /\ head \in Seq(Byte) /\ Len(head) = 5
      /\ head[1] = Sof /\ head[2] = Version /\ head[3] = f.type /\ head[4] = f.sequence /\ head[5] = n
  BY FrameFacts, FrameParserAssumption
<1>2. tail \in Seq(Byte) /\ Len(tail) = 1 /\ tail[1] = Crc(f.type, f.sequence, f.payload)
  BY FrameFacts
<1>3. body \in Seq(Byte) /\ Len(body) = n /\ n \in Nat
  BY FrameFacts
<1> HIDE DEF head, body, tail, n
<1>4. /\ head \o body \in Seq(Byte) /\ Len(head \o body) = 5 + n
      /\ \A i \in 1..(5 + n) : (head \o body)[i] = IF i <= 5 THEN head[i] ELSE body[i - 5]
  <2>1. head \in Seq(Byte) /\ body \in Seq(Byte) /\ Len(head) = 5 /\ Len(body) = n
    BY <1>1, <1>3
  <2>2. /\ head \o body \in Seq(Byte)
        /\ Len(head \o body) = Len(head) + Len(body)
        /\ \A i \in 1..(Len(head) + Len(body)) :
              (head \o body)[i] = IF i <= Len(head) THEN head[i] ELSE body[i - Len(head)]
    <3>1. head \in Seq(Byte) /\ body \in Seq(Byte)
      BY <2>1
    <3>2. QED
      BY <3>1, ConcatProperties
  <2>3. QED
    BY <2>1, <2>2, Zenon
<1> DEFINE all == (head \o body) \o tail
<1>5. /\ all \in Seq(Byte) /\ Len(all) = 5 + n + 1
      /\ \A i \in 1..(5 + n + 1) : all[i] = IF i <= 5 + n THEN (head \o body)[i] ELSE tail[i - (5 + n)]
  <2>1. (head \o body) \in Seq(Byte) /\ tail \in Seq(Byte) /\ Len(head \o body) = 5 + n /\ Len(tail) = 1
    BY <1>2, <1>4
  <2>2. /\ (head \o body) \o tail \in Seq(Byte)
        /\ Len((head \o body) \o tail) = Len((head \o body)) + Len(tail)
        /\ \A i \in 1..(Len((head \o body)) + Len(tail)) :
              ((head \o body) \o tail)[i] = IF i <= Len((head \o body)) THEN (head \o body)[i] ELSE tail[i - Len((head \o body))]
    <3>1. (head \o body) \in Seq(Byte) /\ tail \in Seq(Byte)
      BY <2>1
    <3>2. QED
      BY <3>1, ConcatProperties
  <2>3. QED
    BY <2>1, <2>2, Zenon
<1> HIDE DEF all
<1>6. \A i \in 1..5 : all[i] = head[i]
  BY <1>3, <1>4, <1>5
<1>7. \A i \in 1..n : all[5 + i] = body[i]
  <2> TAKE i \in 1..n
  <2>1. 5 + i \in 1..(5 + n) /\ 5 + i \in 1..(5 + n + 1) /\ ~(5 + i <= 5) /\ (5 + i) - 5 = i
    BY <1>3
  <2>2. all[5 + i] = (head \o body)[5 + i]
    <3>1. 5 + i <= 5 + n
      BY <1>3
    <3>2. QED
      BY <1>5, <2>1, <3>1, Zenon
  <2>3. QED
    BY <1>4, <2>1, <2>2
<1>8. all[6 + n] = tail[1]
  <2>1. 6 + n \in 1..(5 + n + 1) /\ ~(6 + n <= 5 + n) /\ (6 + n) - (5 + n) = 1
    BY <1>3
  <2>2. QED
    BY <1>5, <2>1
<1>9. Encoded(f) = all
  BY DEF Encoded, all, head, body, tail
<1>10. Len(all) = 6 + n
  BY <1>3, <1>5
<1>11. QED
  BY <1>1, <1>2, <1>5, <1>6, <1>7, <1>8, <1>9, <1>10 DEF n, body

\* What a byte leaves: a parser, and one that is inside a frame has its stamp.
LEMMA ConsumeFacts ==
  ASSUME NEW p \in Parsers, NEW b \in Byte, NEW t \in 0..(Word - 1)
  PROVE  /\ Consume(p, b, t) \in Parsers
         /\ Consume(p, b, t).state # "sof" => Consume(p, b, t).last = t
<1>1. b \in Nat /\ 0 \in Byte /\ 0 \in 0..(Word - 1)
  BY FrameParserAssumption, Bounds
<1>2. Reset \in Parsers /\ Reset.state = "sof"
  BY <1>1 DEF Reset, Parsers, State
<1>3. CASE p.state = "sof"
  <2>1. [Reset EXCEPT !.state = "version", !.last = t] \in Parsers
    <3>1. <<>> \in Seq(Byte)
      OBVIOUS
    <3>2. QED
      BY <1>1, <3>1 DEF Reset, Parsers, State
  <2>2. [Reset EXCEPT !.state = "version", !.last = t].last = t
    BY DEF Reset
  <2>3. QED
    BY <1>2, <1>3, <2>1, <2>2 DEF Consume, Between
<1>4. CASE p.state # "sof"
  <2> DEFINE q == [p EXCEPT !.last = t]
  <2>1. q \in Parsers /\ q.state = p.state /\ q.last = t /\ Consume(p, b, t) = Inside(q, b)
    BY <1>4 DEF Parsers, Consume
  <2> HIDE DEF q
  <2>2. q.state \in State \ {"sof"}
    BY <1>4, <2>1 DEF Parsers
  <2>3. CASE q.state = "version"
    BY <1>2, <2>1, <2>3 DEF Inside, Parsers, State
  <2>4. CASE q.state = "type"
    BY <2>1, <2>4 DEF Inside, Parsers, State
  <2>5. CASE q.state = "sequence"
    BY <2>1, <2>5 DEF Inside, Parsers, State
  <2>6. CASE q.state = "length"
    <3>1. Inside(q, b) = AfterLength(q, b)
      BY <2>6 DEF Inside
    <3>2. ASSUME NEW new \in State
          PROVE  /\ [q EXCEPT !.length = b, !.payload = <<>>, !.state = new] \in Parsers
                 /\ [q EXCEPT !.length = b, !.payload = <<>>, !.state = new].last = t
      <4>1. [q EXCEPT !.length = b] \in Parsers
        BY <1>1, <2>1 DEF Parsers
      <4>2. [q EXCEPT !.length = b, !.payload = <<>>] \in Parsers
        <5>1. <<>> \in Seq(Byte)
          OBVIOUS
        <5>2. QED
          BY <4>1, <5>1 DEF Parsers
      <4>3. [q EXCEPT !.length = b, !.payload = <<>>, !.state = new].last = q.last
        BY <2>1 DEF Parsers
      <4>4. QED
        BY <2>1, <4>2, <4>3 DEF Parsers
    <3>3. CASE b > MaxPayload
      <4>1. Inside(q, b) = Reset
        BY <1>1, <3>1, <3>3, FrameParserAssumption DEF AfterLength
      <4>2. QED
        BY <1>2, <2>1, <4>1
    <3>4. CASE ~(b > MaxPayload) /\ b = 0
      <4>1. Inside(q, b) = [q EXCEPT !.length = b, !.payload = <<>>, !.state = "crc"]
        BY <3>1, <3>4 DEF AfterLength
      <4>2. "crc" \in State
        BY DEF State
      <4>3. Consume(p, b, t) = [q EXCEPT !.length = b, !.payload = <<>>, !.state = "crc"]
        BY <2>1, <4>1
      <4>4. QED
        BY <3>2, <4>2, <4>3, Zenon
    <3>5. CASE ~(b > MaxPayload) /\ b # 0
      <4>1. Inside(q, b) = [q EXCEPT !.length = b, !.payload = <<>>, !.state = "payload"]
        BY <3>1, <3>5 DEF AfterLength
      <4>2. "payload" \in State
        BY DEF State
      <4>3. Consume(p, b, t) = [q EXCEPT !.length = b, !.payload = <<>>, !.state = "payload"]
        BY <2>1, <4>1
      <4>4. QED
        BY <3>2, <4>2, <4>3, Zenon
    <3>6. QED
      BY <3>3, <3>4, <3>5
  <2>7. CASE q.state = "payload"
    <3>1. Inside(q, b) = AfterPayload(q, b)
      BY <2>7 DEF Inside
    <3>2. Append(q.payload, b) \in Seq(Byte)
      BY <2>1 DEF Parsers
    <3>3. QED
      <4>1. PICK new \in State : Inside(q, b) = [q EXCEPT !.payload = Append(q.payload, b), !.state = new]
        BY <3>1 DEF AfterPayload, State
      <4>2. QED
        BY <2>1, <3>2, <4>1 DEF Parsers
  <2>8. CASE q.state = "crc"
    BY <1>2, <2>1, <2>8 DEF Inside
  <2>9. QED
    BY <2>2, <2>3, <2>4, <2>5, <2>6, <2>7, <2>8 DEF State
<1>5. QED
  BY <1>3, <1>4

-----------------------------------------------------------------------------
\* The initial state: nothing received, nothing sent.
LEMMA InitTiming == FInit => TimingInv
<1> SUFFICES ASSUME FInit PROVE TimingInv
  OBVIOUS
<1>1. 0 \in 0..(Word - 1) /\ 0 \in 0..Latency /\ Silence \in 0..Silence /\ 0 \in Nat /\ 0 \in Byte
  BY Bounds, FrameParserAssumption
<1>2. <<>> \in Seq(Byte) /\ Len(<<>>) = 0
  OBVIOUS
<1>3. Reset \in Parsers /\ Reset.state = "sof"
  BY <1>1, <1>2 DEF Reset, Parsers, State
<1>4. Shape
  BY <1>1, <1>2, <1>3 DEF FInit, Init, Shape
<1>5. RingInv
  BY <1>1, <1>2, Bounds DEF FInit, Init, RingInv, SinceDrain, Late
<1>6. AgeInv /\ FrameInv
  BY <1>3 DEF FInit, Init, AgeInv, FrameInv, Partial
<1>7. QED
  BY <1>4, <1>5, <1>6 DEF TimingInv

\* A byte arrives: there is room for it.
LEMMA ByteArrives ==
  ASSUME TimingInv, LineFree, NEW b \in Byte, Receive(b), quiet' = 0, wait' = wait
  PROVE  /\ Len(ring) < Capacity
         /\ ring' \in Seq(Byte) /\ ring' # <<>> /\ Len(ring') = Len(ring) + 1
         /\ \A i \in 1..Len(ring) : ring'[i] = ring[i]
         /\ ring'[Len(ring) + 1] = b
         /\ UNCHANGED <<parser, draining, now>>
         /\ quiet' \in 0..Silence
         /\ RingInv' /\ AgeInv'
<1>1. ring \in Seq(Byte) /\ quiet \in Nat /\ wait \in 0..Latency /\ wait \in Nat /\ draining \in BOOLEAN
  BY Bounds DEF TimingInv, Shape
<1>2. Len(ring) \in Nat /\ Len(ring) <= SinceDrain /\ SinceDrain \in Nat /\ SinceDrain <= Latency + Busy
  BY <1>1, Bounds DEF TimingInv, RingInv, SinceDrain, Late, LineFree
<1>3. Len(ring) < Capacity
  BY <1>2, Bounds
<1>4. ring' = Append(ring, b)
  BY <1>3 DEF Receive
<1>5. /\ ring' \in Seq(Byte) /\ ring' # <<>> /\ Len(ring') = Len(ring) + 1
      /\ \A i \in 1..Len(ring) : ring'[i] = ring[i]
      /\ ring'[Len(ring) + 1] = b
  BY <1>1, <1>4, AppendProperties
<1>6. parser' = parser /\ draining' = draining /\ now' = now
  BY DEF Receive
<1>7. SinceDrain' = SinceDrain /\ Late' = 1
  BY <1>6 DEF SinceDrain, Late
<1>8. RingInv'
  <2>1. Len(ring') <= SinceDrain' + Late' /\ quiet' <= SinceDrain'
    BY <1>2, <1>5, <1>7
  <2>2. draining => wait <= Busy
    BY DEF TimingInv, RingInv
  <2>3. QED
    BY <1>6, <2>1, <2>2 DEF RingInv
<1>9. AgeInv'
  <2>1. Partial' = Partial /\ Age' = Age
    BY <1>6 DEF Partial, Age
  <2>2. Partial => Age < Timeout + wait /\ Age \in Nat
    BY Bounds, AgeFacts DEF TimingInv, AgeInv, Age, Shape, Parsers
  <2>3. Partial => quiet' <= Age + Latency + Busy
    BY <2>2, Bounds
  <2>4. QED
    BY <1>5, <2>1, <2>2, <2>3 DEF AgeInv
<1>10. quiet' \in 0..Silence
  BY Bounds
<1>11. QED
  BY <1>3, <1>5, <1>6, <1>8, <1>9, <1>10

LEMMA NoiseKeepsTiming ==
  ASSUME TimingInv, NEW b \in Byte, Noise(b)
  PROVE  TimingInv'
<1>1. LineFree /\ Receive(b) /\ quiet' = 0 /\ left = <<>> /\ UNCHANGED <<left, want, wait, got>>
  BY DEF Noise
<1>2. /\ ring' \in Seq(Byte) /\ Len(ring') = Len(ring) + 1
      /\ \A i \in 1..Len(ring) : ring'[i] = ring[i]
      /\ UNCHANGED <<parser, draining, now>>
      /\ quiet' \in 0..Silence /\ RingInv' /\ AgeInv'
  BY <1>1, ByteArrives
<1>3. Shape'
  BY <1>1, <1>2 DEF TimingInv, Shape
<1>4. ~got' => \E pos \in 0..(5 + Len(want'.payload)) : Coming(pos, Encoded(want))' /\ InFrame(pos)'
  <2> SUFFICES ASSUME ~got
               PROVE  \E pos \in 0..(5 + Len(want.payload)) : Coming(pos, Encoded(want))' /\ InFrame(pos)'
    BY <1>1
  <2>1. want \in Frames
    BY DEF TimingInv, Shape
  <2>2. PICK pos \in 0..(5 + Len(want.payload)) : Coming(pos, Encoded(want)) /\ InFrame(pos)
    BY DEF TimingInv, FrameInv
  <2>3. PICK bytes : bytes = Encoded(want) /\ bytes = Encoded(want)'
    BY <1>1
  <2>4. Len(bytes) \in Nat /\ Len(want.payload) \in Nat /\ pos \in Nat /\ Len(left) = 0 /\ Len(ring) \in Nat
    BY <1>1, <2>1, <2>3, EncodedFacts, FrameFacts DEF TimingInv, Shape
  <2>5. Coming(pos, bytes)'
    BY <1>1, <1>2, <2>2, <2>3, <2>4 DEF Coming
  <2>6. InFrame(pos)'
    BY <1>1, <1>2, <2>2 DEF InFrame, Partial, Age
  <2>7. QED
    BY <2>2, <2>3, <2>5, <2>6
<1>5. FrameInv'
  BY <1>1, <1>4 DEF FrameInv
<1>6. QED
  BY <1>2, <1>3, <1>5 DEF TimingInv

\* The next byte of the frame.
LEMMA ContinueKeepsTiming ==
  ASSUME TimingInv, Continue
  PROVE  TimingInv'
<1>1. LineFree /\ Receive(Head(left)) /\ quiet' = 0 /\ left # <<>> /\ left' = Tail(left) /\ UNCHANGED <<want, wait, got>>
  BY DEF Continue
<1>2. left \in Seq(Byte)
  BY DEF TimingInv, Shape
<1>3. /\ Head(left) \in Byte /\ Head(left) = left[1]
      /\ left' \in Seq(Byte) /\ Len(left') = Len(left) - 1 /\ Len(left) \in Nat
      /\ \A i \in 1..Len(left') : left'[i] = left[i + 1]
  BY <1>1, <1>2, HeadTailProperties
<1>4. /\ ring' \in Seq(Byte) /\ Len(ring') = Len(ring) + 1
      /\ \A i \in 1..Len(ring) : ring'[i] = ring[i]
      /\ ring'[Len(ring) + 1] = left[1]
      /\ UNCHANGED <<parser, draining, now>>
      /\ quiet' \in 0..Silence /\ RingInv' /\ AgeInv'
  BY <1>1, <1>3, ByteArrives
<1>5. Shape'
  BY <1>1, <1>3, <1>4 DEF TimingInv, Shape
<1>6. ~got' => \E pos \in 0..(5 + Len(want'.payload)) : Coming(pos, Encoded(want))' /\ InFrame(pos)'
  <2> SUFFICES ASSUME ~got
               PROVE  \E pos \in 0..(5 + Len(want.payload)) : Coming(pos, Encoded(want))' /\ InFrame(pos)'
    BY <1>1
  <2>1. want \in Frames
    BY DEF TimingInv, Shape
  <2>2. PICK pos \in 0..(5 + Len(want.payload)) : Coming(pos, Encoded(want)) /\ InFrame(pos)
    BY DEF TimingInv, FrameInv
  <2>3. PICK bytes : bytes = Encoded(want) /\ bytes = Encoded(want)'
    BY <1>1
  <2>4. PICK n : n = Len(bytes)
    OBVIOUS
  <2>5. n \in Nat /\ Len(want.payload) \in Nat /\ pos \in Nat /\ Len(ring) \in Nat
    BY <2>1, <2>3, <2>4, EncodedFacts, FrameFacts DEF TimingInv, Shape
  <2>6. PICK k, r : k = Len(left) /\ r = Len(ring)
    OBVIOUS
  <2>7. k \in Nat /\ k >= 1 /\ r \in Nat
    BY <1>1, <1>2, <2>5, <2>6
  <2>8. /\ k <= n - pos /\ n - k - pos = r
        /\ \A i \in 1..k : left[i] = bytes[n - k + i]
        /\ \A i \in 1..r : ring[i] = bytes[pos + i]
    BY <1>1, <2>2, <2>3, <2>4, <2>6 DEF Coming
  <2>9. n - (k - 1) - pos = r + 1
    BY <2>5, <2>7, <2>8
  <2>10. \A i \in 1..(k - 1) : left'[i] = bytes[n - (k - 1) + i]
    <3> TAKE i \in 1..(k - 1)
    <3>1. i + 1 \in 1..k /\ n - k + (i + 1) = n - (k - 1) + i
      BY <2>5, <2>7
    <3>2. left'[i] = left[i + 1]
      BY <1>3, <2>6
    <3>3. QED
      BY <2>8, <3>1, <3>2
  <2>11. \A i \in 1..(r + 1) : ring'[i] = bytes[pos + i]
    <3> TAKE i \in 1..(r + 1)
    <3>1. CASE i \in 1..r
      BY <1>4, <2>6, <2>8, <3>1
    <3>2. CASE i = r + 1
      <4>1. ring'[i] = left[1] /\ left[1] = bytes[n - k + 1] /\ n - k + 1 = pos + i
        BY <1>4, <2>5, <2>6, <2>7, <2>8, <3>2
      <4>2. QED
        BY <4>1
    <3>3. QED
      BY <2>7, <3>1, <3>2
  <2>12. Len(left') = k - 1 /\ Len(ring') = r + 1 /\ k - 1 <= n - pos
    BY <1>3, <1>4, <2>5, <2>6, <2>7, <2>8
  <2>13. Coming(pos, bytes)'
    BY <2>4, <2>7, <2>9, <2>10, <2>11, <2>12 DEF Coming
  <2>14. InFrame(pos)'
    BY <1>1, <1>4, <2>2 DEF InFrame, Partial, Age
  <2>15. QED
    BY <2>2, <2>3, <2>13, <2>14
<1>7. FrameInv'
  BY <1>1, <1>6, Bounds DEF FrameInv
<1>8. QED
  BY <1>4, <1>5, <1>7 DEF TimingInv

\* The first byte of a frame, after the silence: the ring is empty, and a
\* partial frame is older than the timeout, so that the task is not in its
\* drain and the next thing it does is to drop it.
LEMMA AfterSilence ==
  ASSUME TimingInv, quiet >= Silence
  PROVE  ring = <<>> /\ (~Partial \/ (~draining /\ Age >= Timeout))
<1>1. quiet \in Nat /\ quiet = Silence /\ wait \in Nat /\ wait <= Latency /\ draining \in BOOLEAN
  BY Bounds DEF TimingInv, Shape
<1>2. SinceDrain <= Latency + Busy /\ SinceDrain \in Nat /\ (draining => wait <= Busy)
  BY <1>1, Bounds DEF TimingInv, RingInv, SinceDrain
<1>3. ring = <<>>
  BY <1>1, <1>2, Bounds DEF TimingInv, RingInv
<1>4. Partial => Age \in Nat /\ Age < Timeout + wait /\ quiet <= Age + Latency + Busy
  BY Bounds, AgeFacts DEF TimingInv, AgeInv, Age, Shape, Parsers
<1>5. Partial => Age >= Timeout /\ ~draining
  BY <1>1, <1>2, <1>4, Bounds
<1>6. QED
  BY <1>3, <1>5

LEMMA StartKeepsTiming ==
  ASSUME TimingInv, NEW f \in Frames, Start(f)
  PROVE  TimingInv'
<1> DEFINE bytes == Encoded(f)
<1>1. /\ LineFree /\ Receive(Head(bytes)) /\ quiet' = 0 /\ left' = Tail(bytes) /\ want' = f
      /\ got' = FALSE /\ wait' = wait /\ quiet >= Silence
  BY DEF Start
<1>2. bytes \in Seq(Byte) /\ Len(bytes) = 6 + Len(f.payload) /\ Len(f.payload) \in Nat
  BY EncodedFacts, FrameFacts
<1> HIDE DEF bytes
<1>3. PICK n : n = Len(bytes)
  OBVIOUS
<1>4. n \in Nat /\ n >= 6 /\ bytes # <<>>
  BY <1>2, <1>3
<1>5. /\ Head(bytes) \in Byte /\ Head(bytes) = bytes[1]
      /\ left' \in Seq(Byte) /\ Len(left') = n - 1
      /\ \A i \in 1..(n - 1) : left'[i] = bytes[i + 1]
  BY <1>1, <1>2, <1>3, <1>4, HeadTailProperties
<1>6. ring = <<>> /\ (~Partial \/ (~draining /\ Age >= Timeout))
  BY <1>1, AfterSilence
<1>7. Len(ring) = 0
  BY <1>6
<1>8. /\ ring' \in Seq(Byte) /\ Len(ring') = 1
      /\ ring'[1] = bytes[1]
      /\ UNCHANGED <<parser, draining, now>>
      /\ quiet' \in 0..Silence /\ RingInv' /\ AgeInv'
  BY <1>1, <1>5, <1>7, ByteArrives
<1>9. Shape'
  BY <1>1, <1>5, <1>8 DEF TimingInv, Shape
<1>10. Coming(0, bytes)'
  <2>1. n - (n - 1) - 0 = 1 /\ n - 1 <= n - 0
    BY <1>4
  <2>2. \A i \in 1..(n - 1) : left'[i] = bytes[n - (n - 1) + i]
    BY <1>4, <1>5
  <2>3. \A i \in 1..1 : ring'[i] = bytes[0 + i]
    BY <1>8
  <2>4. bytes' = bytes
    BY <1>1 DEF bytes
  <2>5. Len(left') <= n - 0 /\ n - Len(left') - 0 = 1
    BY <1>5, <2>1
  <2>6. QED
    BY <1>3, <1>4, <1>5, <1>8, <2>1, <2>2, <2>3, <2>4, <2>5 DEF Coming
<1>11. InFrame(0)'
  BY <1>6, <1>8 DEF InFrame, Partial, Age
<1>12. FrameInv'
  <2>1. 0 \in 0..(5 + Len(want'.payload)) /\ bytes' = Encoded(want')
    BY <1>1, <1>2 DEF bytes
  <2>2. quiet' <= Gap
    BY <1>1, Bounds
  <2>3. QED
    BY <1>10, <1>11, <2>1, <2>2 DEF FrameInv
<1>13. QED
  BY <1>8, <1>9, <1>12 DEF TimingInv

\* The task starts.  A partial frame is dropped when it is due, and only then.
LEMMA TaskStartsKeepsTiming ==
  ASSUME TimingInv, TaskStarts
  PROVE  TimingInv'
<1>1. /\ ~draining /\ draining' = TRUE /\ wait' = 0
      /\ parser' = IF Stale(parser, now) THEN Reset ELSE parser
      /\ UNCHANGED <<ring, now, quiet, left, want, got>>
  BY DEF TaskStarts, CheckTimeout, senderVars
<1>2. Stale(parser, now) <=> Partial /\ Age >= Timeout
  BY DEF Stale, Partial, Age
<1>3. Reset \in Parsers /\ Reset.state = "sof"
  <2>1. 0 \in 0..(Word - 1) /\ 0 \in Nat /\ 0 \in Byte /\ <<>> \in Seq(Byte)
    BY Bounds, FrameParserAssumption
  <2>2. QED
    BY <2>1 DEF Reset, Parsers, State
<1>4. Partial' => Partial /\ Age' = Age /\ Age < Timeout /\ parser' = parser
  <2>1. Partial => Age \in Nat
    BY AgeFacts DEF TimingInv, Shape, Parsers, Age
  <2>2. Partial' => ~Stale(parser, now)
    BY <1>1, <1>3 DEF Partial
  <2>3. Partial' => parser' = parser
    BY <1>1, <2>2
  <2>4. QED
    BY <1>1, <1>2, <2>1, <2>2, <2>3, Bounds DEF Partial, Age
<1>5. 0 \in 0..Latency /\ parser' \in Parsers
  BY <1>1, <1>3, Bounds DEF TimingInv, Shape
<1>6. Shape'
  BY <1>1, <1>5 DEF TimingInv, Shape
<1>7. RingInv'
  <2>1. SinceDrain' = Latency /\ Late' = Late /\ SinceDrain = wait /\ wait <= Latency /\ wait \in Nat
    BY <1>1, Bounds DEF SinceDrain, Late, TimingInv, Shape
  <2>2. Len(ring) \in Nat /\ Late \in Nat /\ quiet \in Nat
    BY Bounds DEF TimingInv, Shape, Late
  <2>3. QED
    BY <1>1, <2>1, <2>2, Bounds DEF TimingInv, RingInv
<1>8. AgeInv'
  <2>1. Partial' => Age' < Timeout + wait'
    <3>1. Partial' => Age \in Nat
      BY <1>4, AgeFacts DEF TimingInv, Shape, Parsers, Age
    <3>2. QED
      BY <1>1, <1>4, <3>1, Bounds
  <2>2. QED
    BY <1>1, <1>4, <2>1 DEF TimingInv, AgeInv
<1>9. FrameInv'
  <2>1. ~got' => \E pos \in 0..(5 + Len(want'.payload)) : Coming(pos, Encoded(want))' /\ InFrame(pos)'
    <3> SUFFICES ASSUME ~got
                 PROVE  \E pos \in 0..(5 + Len(want.payload)) : Coming(pos, Encoded(want))' /\ InFrame(pos)'
      BY <1>1
    <3>1. PICK pos \in 0..(5 + Len(want.payload)) : Coming(pos, Encoded(want)) /\ InFrame(pos)
      BY DEF TimingInv, FrameInv
    <3>2. Coming(pos, Encoded(want))'
      BY <1>1, <3>1 DEF Coming, Encoded
    <3>3. pos = 0 => ~Partial'
      BY <1>4, <3>1, Bounds, AgeFacts DEF InFrame, TimingInv, Shape, Parsers, Age
    <3>4. pos > 0 => Age <= Gap + wait /\ Taken(parser, want, pos)
      BY <1>1, <3>1 DEF InFrame
    <3>5. pos > 0 => ~Stale(parser, now)
      <4>1. wait \in Nat /\ wait <= Latency /\ Age \in Nat
        BY Bounds, AgeFacts DEF TimingInv, Shape, Parsers, Age
      <4>2. Age <= Gap + wait => ~(Age >= Timeout)
        BY <4>1, Bounds
      <4>3. QED
        BY <1>2, <3>4, <4>2
    <3>6. InFrame(pos)'
      BY <1>1, <3>3, <3>4, <3>5 DEF InFrame
    <3>7. QED
      BY <3>1, <3>2, <3>6
  <2>2. QED
    BY <1>1, <2>1 DEF TimingInv, FrameInv
<1>10. QED
  BY <1>6, <1>7, <1>8, <1>9 DEF TimingInv

\* The ring was found empty: what the frame still needs is not yet sent.
LEMMA DrainedKeepsTiming ==
  ASSUME TimingInv, TaskDrained
  PROVE  TimingInv'
<1>1. /\ draining /\ draining' = FALSE /\ ring = <<>>
      /\ UNCHANGED <<ring, parser, now, quiet, wait, left, want, got>>
  BY DEF TaskDrained, Drained, senderVars
<1>2. Shape' /\ AgeInv'
  BY <1>1 DEF TimingInv, Shape, AgeInv, Partial, Age
<1>3. Len(ring) = 0 /\ wait \in Nat
  BY <1>1, Bounds DEF TimingInv, Shape
<1>4. RingInv'
  <2>1. Late' \in {0, 1} /\ SinceDrain' = wait /\ ring' = <<>> /\ ~draining'
    BY <1>1 DEF Late, SinceDrain
  <2>2. Len(ring') = 0
    BY <2>1
  <2>3. Len(ring') <= SinceDrain' + Late'
    <3>1. (Late' = 0 \/ Late' = 1) /\ SinceDrain' = wait
      BY <2>1
    <3>2. 0 <= SinceDrain' + Late'
      BY <1>3, <3>1
    <3>3. QED
      BY <2>2, <3>2
  <2>4. QED
    BY <2>1, <2>3 DEF RingInv
<1>5. ~got' => \E pos \in 0..(5 + Len(want'.payload)) : Coming(pos, Encoded(want))' /\ InFrame(pos)'
  <2> SUFFICES ASSUME ~got
               PROVE  \E pos \in 0..(5 + Len(want.payload)) : Coming(pos, Encoded(want))' /\ InFrame(pos)'
    BY <1>1
  <2>1. PICK pos \in 0..(5 + Len(want.payload)) : Coming(pos, Encoded(want)) /\ InFrame(pos)
    BY DEF TimingInv, FrameInv
  <2>2. Coming(pos, Encoded(want))'
    BY <1>1, <2>1 DEF Coming, Encoded
  <2>3. PICK n : n = Len(Encoded(want))
    OBVIOUS
  <2>4. n = 6 + Len(want.payload) /\ Len(want.payload) \in Nat
    BY <2>3, EncodedFacts, FrameFacts DEF TimingInv, Shape
  <2>5. left # <<>>
    <3>1. left = <<>> => Len(left) = 0
      OBVIOUS
    <3>2. n - Len(left) - pos <= 0
      BY <1>3, <2>1, <2>3 DEF Coming
    <3>3. QED
      BY <2>4, <3>1, <3>2
  <2>6. quiet <= Gap /\ Gap < Silence /\ quiet \in Nat /\ wait \in Nat
    BY <2>5, Bounds DEF TimingInv, FrameInv, Shape
  <2>7. Partial => Age <= Gap + wait
    <3>1. Partial => Age <= quiet
      BY <1>1, <2>6, Bounds DEF TimingInv, AgeInv
    <3>2. Age \in Nat
      BY AgeFacts DEF TimingInv, Age, Shape, Parsers
    <3>3. QED
      BY <2>6, <3>1, <3>2, Bounds
  <2>8. pos > 0 => Partial
    BY <2>1, <2>4 DEF InFrame, Taken, Partial
  <2>9. InFrame(pos)'
    BY <1>1, <2>1, <2>7, <2>8 DEF InFrame, Partial, Age
  <2>10. QED
    BY <2>1, <2>2, <2>9
<1>6. FrameInv'
  BY <1>1, <1>5 DEF TimingInv, FrameInv
<1>7. QED
  BY <1>2, <1>4, <1>6 DEF TimingInv

\* Byte pos + 1 of a frame takes a parser that has taken the first pos there.
LEMMA TakesNext ==
  ASSUME NEW f \in Frames, NEW p \in Parsers, NEW t \in 0..(Word - 1),
         NEW pos \in 0..(4 + Len(f.payload)),
         pos = 0 => p.state = "sof",
         pos > 0 => Taken(p, f, pos)
  PROVE  Taken(Consume(p, Encoded(f)[pos + 1], t), f, pos + 1)
<1> DEFINE b == Encoded(f)[pos + 1]
           q == [p EXCEPT !.last = t]
<1>1. PICK L : L = Len(f.payload)
  OBVIOUS
<1>2. L \in Nat /\ pos \in Nat /\ pos <= 4 + L /\ L <= MaxPayload /\ MaxPayload \in Nat
  BY <1>1, FrameFacts, FrameParserAssumption
<1>3. pos > 0 => p.state # "sof"
  BY <1>1, <1>2 DEF Taken
<1>4. pos > 0 => Consume(p, b, t) = Inside(q, b)
  BY <1>3 DEF Consume
<1>5. /\ q.state = p.state /\ q.type = p.type /\ q.sequence = p.sequence /\ q.length = p.length
      /\ q.payload = p.payload /\ q \in Parsers
  BY DEF Parsers
<1> HIDE DEF q, b
<1>6. CASE pos = 0
  <2>1. b = Sof
    BY <1>6, EncodedFacts DEF b
  <2>2. Consume(p, b, t).state = "version"
    BY <1>6, <2>1 DEF Consume, Between, Reset
  <2>3. QED
    BY <1>6, <2>2 DEF Taken, b
<1>7. CASE pos = 1
  <2>1. b = Version /\ q.state = "version"
    BY <1>5, <1>7, EncodedFacts DEF b, Taken
  <2>2. Inside(q, b).state = "type"
    BY <1>5, <2>1 DEF Inside, Parsers
  <2>3. QED
    BY <1>4, <1>7, <2>2 DEF Taken, b
<1>8. CASE pos = 2
  <2>1. b = f.type /\ q.state = "type"
    BY <1>5, <1>8, EncodedFacts DEF b, Taken
  <2>2. Inside(q, b).state = "sequence" /\ Inside(q, b).type = f.type
    BY <1>5, <2>1 DEF Inside, Parsers
  <2>3. QED
    BY <1>4, <1>8, <2>2 DEF Taken, b
<1>9. CASE pos = 3
  <2>1. b = f.sequence /\ q.state = "sequence" /\ q.type = f.type
    BY <1>5, <1>9, EncodedFacts DEF b, Taken
  <2>2. Inside(q, b).state = "length" /\ Inside(q, b).type = f.type /\ Inside(q, b).sequence = f.sequence
    BY <1>5, <2>1 DEF Inside, Parsers
  <2>3. QED
    BY <1>4, <1>9, <2>2 DEF Taken, b
<1>10. CASE pos = 4
  <2>1. b = L /\ q.state = "length" /\ q.type = f.type /\ q.sequence = f.sequence
    BY <1>1, <1>5, <1>10, EncodedFacts DEF b, Taken
  <2>2. Inside(q, b) = AfterLength(q, b)
    BY <2>1 DEF Inside
  <2>3. ~(b > MaxPayload)
    BY <1>2, <2>1
  <2>4. PICK new : new = (IF L = 0 THEN "crc" ELSE "payload")
    OBVIOUS
  <2>5. AfterLength(q, b) = [q EXCEPT !.length = b, !.payload = <<>>, !.state = new]
    BY <2>1, <2>3, <2>4 DEF AfterLength
  <2>6. PICK c : c = Consume(p, b, t)
    OBVIOUS
  <2>7. /\ c.state = new /\ c.length = L /\ c.payload = <<>> /\ c.type = f.type /\ c.sequence = f.sequence
    <3>1. c = [q EXCEPT !.length = b, !.payload = <<>>, !.state = new]
      BY <1>4, <1>10, <2>2, <2>5, <2>6
    <3>2. QED
      BY <1>5, <2>1, <3>1 DEF Parsers
  <2>8. Len(c.payload) = 0
    BY <2>7
  <2>9. new = IF 5 = 5 + L THEN "crc" ELSE "payload"
    BY <1>2, <2>4
  <2>10. Taken(c, f, 5)
    BY <1>1, <2>7, <2>8, <2>9 DEF Taken
  <2>11. QED
    BY <1>10, <2>6, <2>10 DEF b
<1>11. CASE pos >= 5
  <2>1. PICK k : k = pos - 5
    OBVIOUS
  <2>2. k \in Nat /\ k < L /\ pos = 5 + k /\ k + 1 \in 1..L
    BY <1>2, <1>11, <2>1
  <2>3. b = f.payload[k + 1]
    <3>1. \A i \in 1..L : Encoded(f)[5 + i] = f.payload[i]
      BY <1>1, EncodedFacts
    <3>2. pos + 1 = 5 + (k + 1)
      BY <2>2
    <3>3. QED
      BY <2>2, <3>1, <3>2 DEF b
  <2>4. b \in Byte
    BY <1>1, <2>2, <2>3, FrameFacts
  <2>5. /\ q.state = "payload" /\ q.type = f.type /\ q.sequence = f.sequence /\ q.length = L
        /\ Len(q.payload) = k /\ \A i \in 1..k : q.payload[i] = f.payload[i]
    <3>1. pos >= 3 /\ pos >= 4 /\ pos > 0 /\ pos # 5 + L
      BY <1>2, <1>11, <2>2
    <3>2. QED
      BY <1>1, <1>5, <1>11, <2>1, <3>1 DEF Taken
  <2>6. Inside(q, b) = AfterPayload(q, b)
    BY <2>5 DEF Inside
  <2>7. PICK new : new = (IF k + 1 = L THEN "crc" ELSE "payload")
    OBVIOUS
  <2>8. PICK all : all = Append(q.payload, b)
    OBVIOUS
  <2>9. AfterPayload(q, b) = [q EXCEPT !.payload = all, !.state = new]
    BY <2>5, <2>7, <2>8 DEF AfterPayload
  <2>10. Len(all) = k + 1 /\ \A i \in 1..(k + 1) : all[i] = f.payload[i]
    <3>1. q.payload \in Seq(Byte)
      BY <1>5 DEF Parsers
    <3>2. /\ Len(all) = Len(q.payload) + 1 /\ all[Len(q.payload) + 1] = b
          /\ \A i \in 1..Len(q.payload) : all[i] = q.payload[i]
      BY <2>4, <2>8, <3>1, AppendProperties
    <3>3. Len(all) = k + 1 /\ all[k + 1] = b /\ \A i \in 1..k : all[i] = q.payload[i]
      BY <2>5, <3>2, Zenon
    <3>4. QED
      BY <2>2, <2>3, <2>5, <3>3
  <2>11. PICK c : c = Consume(p, b, t)
    OBVIOUS
  <2>12. c.state = new /\ c.length = L /\ c.payload = all /\ c.type = f.type /\ c.sequence = f.sequence
    <3>1. c = [q EXCEPT !.payload = all, !.state = new]
      BY <1>2, <1>4, <1>11, <2>6, <2>9, <2>11
    <3>2. QED
      BY <1>5, <2>5, <3>1 DEF Parsers
  <2>13. new = IF pos + 1 = 5 + L THEN "crc" ELSE "payload"
    BY <1>2, <2>2, <2>7
  <2>14. Taken(c, f, pos + 1)
    <3>1. pos + 1 # 1 /\ pos + 1 # 2 /\ pos + 1 # 3 /\ pos + 1 # 4 /\ (pos + 1) - 5 = k + 1
      BY <2>2
    <3>2. Len(c.payload) = (pos + 1) - 5 /\ \A i \in 1..((pos + 1) - 5) : c.payload[i] = f.payload[i]
      BY <2>10, <2>12, <3>1, Zenon
    <3>3. QED
      BY <1>1, <2>12, <2>13, <3>1, <3>2 DEF Taken
  <2>15. QED
    BY <2>11, <2>14 DEF b
<1>12. QED
  BY <1>2, <1>6, <1>7, <1>8, <1>9, <1>10, <1>11

\* The last byte finds its checksum right, and the parser holds the frame.
LEMMA TakesLast ==
  ASSUME NEW f \in Frames, NEW p \in Parsers, Taken(p, f, 5 + Len(f.payload))
  PROVE  p.state = "crc" /\ Matches(p, Encoded(f)[6 + Len(f.payload)]) /\ Frame(p) = f
<1>1. PICK L : L = Len(f.payload)
  OBVIOUS
<1>2. L \in Nat /\ f.payload \in Seq(Byte) /\ p.payload \in Seq(Byte)
  BY <1>1, FrameFacts DEF Parsers
<1>3. 5 + L >= 5 /\ 5 + L >= 4 /\ 5 + L >= 3 /\ (5 + L) - 5 = L
  BY <1>2
<1>4. /\ p.state = "crc" /\ p.type = f.type /\ p.sequence = f.sequence
      /\ Len(p.payload) = L /\ \A i \in 1..L : p.payload[i] = f.payload[i]
  BY <1>1, <1>3 DEF Taken
<1>5. p.payload = f.payload
  <2>1. Len(p.payload) = Len(f.payload) /\ \A i \in 1..Len(p.payload) : p.payload[i] = f.payload[i]
    BY <1>1, <1>4, Zenon
  <2>2. QED
    BY <1>2, <2>1, SeqEqual
<1>6. Matches(p, Encoded(f)[6 + Len(f.payload)])
  BY <1>4, <1>5, EncodedFacts DEF Matches
<1>7. Frame(p) = f
  BY <1>4, <1>5, FrameFacts DEF Frame
<1>8. QED
  BY <1>4, <1>6, <1>7

\* The parser takes the byte the ring was filled with first.
LEMMA ParseKeepsTiming ==
  ASSUME TimingInv, Parse
  PROVE  TimingInv'
<1> DEFINE b == Head(ring)
<1>1. /\ draining /\ ring # <<>> /\ ring' = Tail(ring)
      /\ parser' = Consume(parser, b, now)
      /\ UNCHANGED <<draining, now, quiet, wait, left, want>>
      /\ got' = (got \/ accepted' = want)
      /\ accepted' = IF parser.state = "crc" /\ Matches(parser, b) THEN Frame(parser) ELSE None
  BY DEF Parse, ProcessByte, senderVars
<1>2. ring \in Seq(Byte) /\ parser \in Parsers /\ now \in 0..(Word - 1) /\ got \in BOOLEAN
  BY DEF TimingInv, Shape
<1>3. PICK r : r = Len(ring)
  OBVIOUS
<1>4. /\ b \in Byte /\ b = ring[1] /\ r \in Nat /\ r >= 1
      /\ ring' \in Seq(Byte) /\ Len(ring') = r - 1
      /\ \A i \in 1..(r - 1) : ring'[i] = ring[i + 1]
  <2>1. /\ b \in Byte /\ b = ring[1] /\ Tail(ring) \in Seq(Byte) /\ Len(Tail(ring)) = Len(ring) - 1
        /\ \A i \in 1..Len(Tail(ring)) : Tail(ring)[i] = ring[i + 1]
    BY <1>1, <1>2, HeadTailProperties
  <2>2. Len(ring) \in Nat /\ Len(ring) >= 1
    BY <1>1, <1>2
  <2>3. r \in Nat /\ r >= 1
    BY <1>3, <2>2
  <2>4. Len(ring') = r - 1 /\ \A i \in 1..(r - 1) : ring'[i] = ring[i + 1]
    BY <1>1, <1>3, <2>1, Zenon
  <2>5. QED
    BY <1>1, <2>1, <2>3, <2>4
<1>5. parser' \in Parsers /\ (Partial' => parser'.last = now)
  BY <1>1, <1>2, <1>4, ConsumeFacts DEF Partial
<1> HIDE DEF b
<1>6. Shape'
  BY <1>1, <1>4, <1>5 DEF TimingInv, Shape
<1>7. RingInv'
  <2>1. SinceDrain' = SinceDrain /\ Late' = Late
    BY <1>1 DEF SinceDrain, Late
  <2>2. r <= SinceDrain + Late /\ SinceDrain + Late \in Nat
    BY <1>3, Bounds DEF TimingInv, RingInv, SinceDrain, Late, Shape
  <2>3. Len(ring') <= SinceDrain' + Late'
    BY <1>4, <2>1, <2>2
  <2>4. QED
    BY <1>1, <2>1, <2>3 DEF TimingInv, RingInv
<1>8. AgeInv'
  <2>1. Partial' => Age' = 0
    BY <1>1, <1>2, <1>5, AgeFacts DEF Age
  <2>2. quiet <= Latency + Busy /\ quiet \in Nat /\ wait \in Nat
    BY <1>1, Bounds DEF TimingInv, RingInv, SinceDrain, Shape
  <2>3. QED
    BY <1>1, <2>1, <2>2, Bounds DEF AgeInv
<1>9. ~got' => \E pos \in 0..(5 + Len(want'.payload)) : Coming(pos, Encoded(want))' /\ InFrame(pos)'
  <2> SUFFICES ASSUME ~got, accepted' # want
               PROVE  \E pos \in 0..(5 + Len(want.payload)) : Coming(pos, Encoded(want))' /\ InFrame(pos)'
    BY <1>1, <1>2
  <2>1. want \in Frames
    BY DEF TimingInv, Shape
  <2>2. PICK pos \in 0..(5 + Len(want.payload)) : Coming(pos, Encoded(want)) /\ InFrame(pos)
    BY DEF TimingInv, FrameInv
  <2>3. PICK bytes : bytes = Encoded(want) /\ bytes = Encoded(want)'
    BY <1>1
  <2>4. PICK n, k, L : n = Len(bytes) /\ k = Len(left) /\ L = Len(want.payload)
    OBVIOUS
  <2>5. n = 6 + L /\ L \in Nat /\ pos \in 0..(5 + L) /\ pos \in Nat /\ n \in Nat
    <3>1. L \in Nat
      BY <2>1, <2>4, FrameFacts
    <3>2. n = 6 + L
      BY <2>1, <2>3, <2>4, EncodedFacts
    <3>3. QED
      BY <2>2, <2>4, <3>1, <3>2
  <2>6. k \in Nat /\ (k = 0 => left = <<>>)
    BY <2>4 DEF TimingInv, Shape
  <2>7. /\ k <= n - pos /\ n - k - pos <= r
        /\ \A i \in 1..k : left[i] = bytes[n - k + i]
        /\ \A i \in 1..(n - k - pos) : ring[i] = bytes[pos + i]
        /\ left # <<>> => n - k - pos = r
    BY <1>3, <2>2, <2>3, <2>4 DEF Coming
  <2>8. n - k - pos >= 1
    <3>1. CASE k = 0
      BY <2>5, <3>1
    <3>2. CASE k # 0
      <4>1. left # <<>>
        BY <2>4, <3>2
      <4>2. QED
        BY <1>4, <2>7, <4>1
    <3>3. QED
      BY <3>1, <3>2
  <2>9. b = bytes[pos + 1]
    BY <1>4, <2>5, <2>6, <2>7, <2>8
  <2>10. (pos = 0 => parser.state = "sof") /\ (pos > 0 => Taken(parser, want, pos))
    BY <1>1, <2>2 DEF InFrame, Partial
  <2>11. CASE pos = 5 + L
    <3>1. Taken(parser, want, 5 + L) /\ bytes[6 + L] = b
      BY <2>5, <2>9, <2>10, <2>11
    <3>2. parser.state = "crc" /\ Matches(parser, b) /\ Frame(parser) = want
      BY <1>2, <2>1, <2>3, <2>4, <3>1, TakesLast
    <3>3. QED
      BY <1>1, <3>2
  <2>12. CASE pos # 5 + L
    <3>1. pos + 1 \in 0..(5 + L) /\ pos \in 0..(4 + L)
      BY <2>5, <2>12
    <3>2. Taken(parser', want, pos + 1)
      BY <1>1, <1>2, <2>1, <2>3, <2>4, <2>9, <2>10, <3>1, TakesNext
    <3>3. InFrame(pos + 1)'
      BY <1>1, <2>5, <3>2 DEF InFrame
    <3>4. Len(left') = k /\ left' = left
      BY <1>1, <2>4
    <3>5. k <= n - (pos + 1) /\ n - k - (pos + 1) <= r - 1 /\ (left # <<>> => n - k - (pos + 1) = r - 1)
      BY <1>4, <2>5, <2>6, <2>7, <2>8
    <3>6. \A i \in 1..(n - k - (pos + 1)) : ring'[i] = bytes[(pos + 1) + i]
      <4> TAKE i \in 1..(n - k - (pos + 1))
      <4>1. i \in 1..(r - 1) /\ i + 1 \in 1..(n - k - pos) /\ pos + (i + 1) = (pos + 1) + i
        BY <1>4, <2>5, <2>6, <3>5
      <4>2. QED
        BY <1>4, <2>7, <4>1
    <3>7. Coming(pos + 1, bytes)'
      <4>1. bytes' = bytes /\ pos' = pos
        OBVIOUS
      <4>2. QED
        BY <1>4, <2>4, <2>7, <3>4, <3>5, <3>6 DEF Coming
    <3>8. QED
      BY <2>3, <2>4, <3>1, <3>3, <3>7
  <2>13. QED
    BY <2>11, <2>12
<1>10. FrameInv'
  BY <1>1, <1>9 DEF TimingInv, FrameInv
<1>11. QED
  BY <1>6, <1>7, <1>8, <1>10 DEF TimingInv

\* A millisecond passes, for every clock.
LEMMA PassKeepsTiming ==
  ASSUME TimingInv, Pass
  PROVE  TimingInv'
<1>1. /\ wait < Latency /\ (draining => wait < Busy) /\ (left # <<>> => quiet < Gap)
      /\ now' = (now + 1) % Word
      /\ quiet' = IF quiet < Silence THEN quiet + 1 ELSE quiet
      /\ wait' = wait + 1
      /\ UNCHANGED <<ring, parser, draining, left, want, got>>
  BY DEF Pass, Tick
<1>2. /\ quiet \in Nat /\ quiet <= Silence /\ wait \in Nat /\ now \in 0..(Word - 1) /\ ring \in Seq(Byte)
      /\ parser.last \in 0..(Word - 1)
  BY Bounds DEF TimingInv, Shape, Parsers
<1>3. /\ quiet' \in 0..Silence /\ quiet' >= 1 /\ quiet' <= quiet + 1 /\ quiet' \in Nat
      /\ quiet' = quiet + 1 \/ quiet' = Silence
      /\ wait' \in 0..Latency /\ now' \in 0..(Word - 1)
  BY <1>1, <1>2, Bounds, AgeFacts
<1>4. Shape'
  BY <1>1, <1>3 DEF TimingInv, Shape
<1>5. RingInv'
  <2>1. SinceDrain' = SinceDrain + 1 /\ SinceDrain \in Nat /\ Late' = 0 /\ Late \in {0, 1}
    BY <1>1, <1>2, <1>3, Bounds DEF SinceDrain, Late
  <2>2. Len(ring) \in Nat /\ Len(ring) <= SinceDrain + Late
    BY <1>2 DEF TimingInv, RingInv
  <2>3. Len(ring) <= SinceDrain' + Late'
    BY <2>1, <2>2
  <2>4. ring # <<>> => quiet' <= SinceDrain'
    BY <1>2, <1>3, <2>1 DEF TimingInv, RingInv
  <2>5. draining => wait' <= Busy
    BY <1>1, <1>2, Bounds
  <2>6. QED
    BY <1>1, <2>3, <2>4, <2>5 DEF RingInv
<1>6. Partial' = Partial /\ (Partial => Age \in Nat /\ Age' = Age + 1)
  <2>1. Partial' = Partial
    BY <1>1 DEF Partial
  <2>2. ASSUME Partial PROVE Age \in Nat /\ Age' = Age + 1
    <3>1. Age \in Nat /\ Age < Timeout + wait
      BY <1>2, <2>2, AgeFacts DEF TimingInv, AgeInv, Age
    <3>2. Age + 1 < Word
      BY <1>1, <1>2, <3>1, Bounds
    <3>3. QED
      BY <1>1, <1>2, <3>1, <3>2, AgeFacts DEF Age
  <2>3. QED
    BY <2>1, <2>2
<1>7. AgeInv'
  <2> SUFFICES ASSUME Partial PROVE AgeInv'
    BY <1>6 DEF AgeInv
  <2>1. /\ Age < Timeout + wait /\ quiet <= Age + Latency + Busy
        /\ ring = <<>> => Age <= quiet \/ quiet = Silence
    BY DEF TimingInv, AgeInv
  <2>2. Age' < Timeout + wait' /\ quiet' <= Age' + Latency + Busy
    BY <1>1, <1>2, <1>3, <1>6, <2>1, Bounds
  <2>3. ring = <<>> => Age' <= quiet' \/ quiet' = Silence
    BY <1>1, <1>2, <1>3, <1>6, <2>1, Bounds
  <2>4. QED
    BY <1>1, <2>2, <2>3 DEF AgeInv
<1>8. ~got' => \E pos \in 0..(5 + Len(want'.payload)) : Coming(pos, Encoded(want))' /\ InFrame(pos)'
  <2> SUFFICES ASSUME ~got
               PROVE  \E pos \in 0..(5 + Len(want.payload)) : Coming(pos, Encoded(want))' /\ InFrame(pos)'
    BY <1>1
  <2>1. PICK pos \in 0..(5 + Len(want.payload)) : Coming(pos, Encoded(want)) /\ InFrame(pos)
    BY DEF TimingInv, FrameInv
  <2>2. Coming(pos, Encoded(want))'
    BY <1>1, <2>1 DEF Coming, Encoded
  <2>3. pos > 0 => Partial
    <3>1. Len(want.payload) \in Nat
      BY FrameFacts DEF TimingInv, Shape
    <3>2. QED
      BY <2>1, <3>1 DEF InFrame, Taken, Partial
  <2>4. pos = 0 => ~Partial' \/ (~draining' /\ Age' >= Timeout)
    BY <1>1, <1>6, <2>1, Bounds DEF InFrame
  <2>5. pos > 0 => (~draining' => Age' <= Gap + wait')
    BY <1>1, <1>2, <1>6, <2>1, <2>3, Bounds DEF InFrame
  <2>6. pos > 0 => Taken(parser', want', pos)
    BY <1>1, <2>1 DEF InFrame
  <2>7. InFrame(pos)'
    BY <2>4, <2>5, <2>6 DEF InFrame
  <2>8. QED
    BY <2>1, <2>2, <2>7
<1>9. FrameInv'
  <2>1. left # <<>> => quiet' <= Gap
    BY <1>1, <1>2, <1>3, Bounds
  <2>2. QED
    BY <1>1, <1>8, <2>1 DEF FrameInv
<1>10. QED
  BY <1>4, <1>5, <1>7, <1>9 DEF TimingInv

LEMMA StepKeepsTiming == TimingInv /\ [FNext]_fvars => TimingInv'
<1> SUFFICES ASSUME TimingInv, [FNext]_fvars PROVE TimingInv'
  OBVIOUS
<1>1. CASE UNCHANGED fvars
  BY <1>1 DEF fvars, vars, senderVars, TimingInv, Shape, RingInv, SinceDrain, Late, AgeInv, Partial, Age,
              FrameInv, Coming, InFrame
<1>2. QED
  BY <1>1, NoiseKeepsTiming, StartKeepsTiming, ContinueKeepsTiming, TaskStartsKeepsTiming,
     ParseKeepsTiming, DrainedKeepsTiming, PassKeepsTiming DEF FNext

THEOREM FrameTimingIsInStep == FSpec => []TimingInv
  BY InitTiming, StepKeepsTiming, PTL DEF FSpec

(* USART_RX_vect never drops a byte at the line's speed, as long as         *)
(* communication_task() starts and drains in time.                          *)
THEOREM RingHasRoom == FSpec => []RingNeverOverflows
<1>1. TimingInv => RingNeverOverflows
  <2> SUFFICES ASSUME TimingInv, LineFree PROVE Len(ring) < Capacity
    BY DEF RingNeverOverflows
  <2>1. ring \in Seq(Byte) /\ quiet \in Nat /\ wait \in Nat /\ wait <= Latency /\ draining \in BOOLEAN
    BY Bounds DEF TimingInv, Shape
  <2>2. Len(ring) \in Nat /\ Len(ring) <= SinceDrain /\ SinceDrain \in Nat /\ SinceDrain <= Latency + Busy
    BY <2>1, Bounds DEF TimingInv, RingInv, SinceDrain, Late, LineFree
  <2>3. QED
    BY <2>2, Bounds
<1>2. QED
  BY <1>1, FrameTimingIsInStep, PTL

(* protocol_check_timeout() and protocol_process_byte(): a good frame after *)
(* Silence, with pauses up to Gap, is accepted once its bytes are read.     *)
THEOREM FrameIsAccepted == FSpec => []FrameAfterSilenceAccepted
<1>1. TimingInv => FrameAfterSilenceAccepted
  <2> SUFFICES ASSUME TimingInv, left = <<>>, ring = <<>>, ~got PROVE FALSE
    BY DEF FrameAfterSilenceAccepted, TimingInv, Shape
  <2>1. want \in Frames
    BY DEF TimingInv, Shape
  <2>2. PICK pos \in 0..(5 + Len(want.payload)) : Coming(pos, Encoded(want))
    BY DEF TimingInv, FrameInv
  <2>3. Len(Encoded(want)) = 6 + Len(want.payload) /\ Len(want.payload) \in Nat
    BY <2>1, EncodedFacts, FrameFacts
  <2>4. Len(left) = 0 /\ Len(ring) = 0
    OBVIOUS
  <2>5. Len(Encoded(want)) - Len(left) - pos <= Len(ring)
    BY <2>2 DEF Coming
  <2>6. QED
    BY <2>2, <2>3, <2>4, <2>5
<1>2. QED
  BY <1>1, FrameTimingIsInStep, PTL
=============================================================================
