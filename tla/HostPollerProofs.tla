--------------------------- MODULE HostPollerProofs ---------------------------
(***************************************************************************)
(* The poller accepts current answers only, for every list of questions,   *)
(* length of the answers, size of the buffers and range of the sequence    *)
(* number that HostPollerAssumption allows.                                *)
(***************************************************************************)
EXTENDS HostPoller, SequenceTheorems, WellFoundedInduction, TLAPS

Octet == {Junk} \cup [kind : Kind, seq : 0..(SeqWord - 1), pos : Nat \ {0}, own : BOOLEAN]

Shape ==
  /\ pc \in {"rest", "send", "header", "body", "settle"}
  /\ step \in DOMAIN Cycle /\ seq \in 0..(SeqWord - 1) /\ troubles \in 0..MaxTroubles
  /\ rx \in Seq(Octet) /\ Len(rx) <= BufferSize
  /\ line \in Seq(Octet) /\ header \in Seq(Octet)
  /\ IF pc = "body" THEN Len(header) = Header ELSE header = <<>>

\* How many questions were asked since the one that b is about; modulo the
\* range of the sequence number it is what the poller can see.
Gone(b) == (Asked - b.seq) % SeqWord

\* A byte is current exactly if its sequence number is.
Marked(b) == b # Junk => (b.own <=> Gone(b) = 0)

\* A byte in flight is late by one question, and by those that failed.
InFlight(b) == b # Junk => Marked(b) /\ Gone(b) <= 1 + troubles

\* All questions but those a trouble met, and the one whose header is not read
\* yet, have taken a header from the buffer, in front of any byte that is in it.
Unread == IF pc \in {"header", "settle"} THEN 1 ELSE 0
Spent == troubles + Unread
Waiting(b, i) == b # Junk => Marked(b) /\ Header * (Gone(b) - 1 - Spent) <= BufferSize - i

LineInv == \A i \in 1..Len(line) : InFlight(line[i])
BacklogInv == \A i \in 1..Len(rx) : Waiting(rx[i], i)
HeaderInv == \A i \in 1..Len(header) : Marked(header[i])

PollInv == Shape /\ LineInv /\ BacklogInv /\ HeaderInv

-----------------------------------------------------------------------------
\* What the constants say of each other.
LEMMA Sizes ==
  /\ Header \in Nat /\ Header >= 1 /\ BufferSize \in Nat /\ MaxTroubles \in Nat
  /\ SeqWord \in Nat /\ SeqWord >= 1
  /\ Body \in [Kind -> Nat \ {0}]
  /\ BufferSize \div Header \in Nat
  /\ BufferSize \div Header + 2 + MaxTroubles < SeqWord
<1>1. /\ Header \in Nat /\ Header >= 1 /\ BufferSize \in Nat /\ MaxTroubles \in Nat
      /\ SeqWord \in Nat /\ SeqWord >= 1
      /\ Body \in [Kind -> Nat \ {0}]
      /\ BufferSize \div Header + 2 + MaxTroubles < SeqWord
  BY HostPollerAssumption
<1>2. BufferSize \div Header \in Nat
  BY <1>1
<1>3. QED
  BY <1>1, <1>2

\* Multiples of a header's length.
LEMMA Headers ==
  ASSUME NEW x \in Int, NEW y \in Int
  PROVE  /\ Header * x \in Int
         /\ x <= y => Header * x <= Header * y
         /\ Header * (x + 1) = Header * x + Header
<1> Header \in Nat /\ Header >= 1
  BY Sizes
<1>1. Header * x \in Int /\ Header * y \in Int /\ Header * (y - x) = Header * y - Header * x
  OBVIOUS
<1>2. ASSUME x <= y PROVE Header * x <= Header * y
  <2>1. y - x \in Nat
    BY <1>2
  <2>2. Header * (y - x) >= 0
    BY <2>1
  <2>3. QED
    BY <1>1, <2>2
<1>3. Header * (x + 1) = Header * x + Header
  OBVIOUS
<1>4. QED
  BY <1>1, <1>2, <1>3

\* So many headers fit the buffer.
LEMMA HeadersFit ==
  ASSUME NEW x \in Int, Header * x <= BufferSize
  PROVE  x <= BufferSize \div Header
<1>1. Header \in Nat /\ Header >= 1 /\ BufferSize \in Nat
  BY Sizes
<1> DEFINE q == BufferSize \div Header
<1>2. q \in Nat /\ BufferSize < Header * (q + 1)
  BY <1>1
<1> HIDE DEF q
<1>3. SUFFICES ASSUME q + 1 <= x PROVE FALSE
  BY <1>2 DEF q
<1>4. Header * (q + 1) <= Header * x
  BY <1>2, <1>3, Headers
<1>5. Header * (q + 1) \in Int /\ Header * x \in Int
  BY <1>2, Headers
<1>6. QED
  BY <1>1, <1>2, <1>4, <1>5

\* The sequence numbers, without the modulus.
LEMMA Numbers ==
  ASSUME NEW s \in 0..(SeqWord - 1), NEW q \in 0..(SeqWord - 1)
  PROVE  /\ (((s - 1) % SeqWord) - q) % SeqWord \in Nat
         /\ (s + 1) % SeqWord \in 0..(SeqWord - 1)
         /\ (((s + 1) % SeqWord) - 1) % SeqWord = s
         /\ (s - s) % SeqWord = 0
         /\ (s - 1) % SeqWord \in 0..(SeqWord - 1)
         /\ ((((s - 1) % SeqWord) - q) % SeqWord) + 1 < SeqWord
              => (s - q) % SeqWord = ((((s - 1) % SeqWord) - q) % SeqWord) + 1
<1>1. SeqWord \in Nat /\ SeqWord >= 1
  BY Sizes
<1>2. ASSUME NEW m \in 0..(SeqWord - 1)
      PROVE  (m - q) % SeqWord = IF q <= m THEN m - q ELSE m - q + SeqWord
  BY <1>1
<1>3. (s - 1) % SeqWord = IF s = 0 THEN SeqWord - 1 ELSE s - 1
  BY <1>1
<1>4. (s + 1) % SeqWord = IF s + 1 = SeqWord THEN 0 ELSE s + 1
  BY <1>1
<1>5. (s - 1) % SeqWord \in 0..(SeqWord - 1) /\ (s + 1) % SeqWord \in 0..(SeqWord - 1)
  BY <1>1, <1>3, <1>4
<1>6. (((s + 1) % SeqWord) - 1) % SeqWord = s
  <2>1. CASE s + 1 = SeqWord
    <3>1. (s + 1) % SeqWord = 0 /\ (0 - 1) % SeqWord = SeqWord - 1
      BY <1>1, <1>4, <2>1
    <3>2. QED
      BY <1>1, <2>1, <3>1
  <2>2. CASE s + 1 # SeqWord
    <3>1. (s + 1) % SeqWord = s + 1 /\ (s + 1) - 1 = s /\ s % SeqWord = s
      BY <1>1, <1>4, <2>2
    <3>2. QED
      BY <3>1
  <2>3. QED
    BY <2>1, <2>2
<1>7. (s - s) % SeqWord = 0
  BY <1>1
<1>9. /\ (((s - 1) % SeqWord) - q) % SeqWord =
           IF q <= (s - 1) % SeqWord THEN ((s - 1) % SeqWord) - q ELSE ((s - 1) % SeqWord) - q + SeqWord
      /\ (s - q) % SeqWord = IF q <= s THEN s - q ELSE s - q + SeqWord
  BY <1>2, <1>5
<1>10. (((s - 1) % SeqWord) - q) % SeqWord \in Nat
  BY <1>1, <1>5, <1>9
<1>11. ((((s - 1) % SeqWord) - q) % SeqWord) + 1 < SeqWord
         => (s - q) % SeqWord = ((((s - 1) % SeqWord) - q) % SeqWord) + 1
  BY <1>1, <1>3, <1>9
<1>12. QED
  BY <1>4, <1>5, <1>6, <1>7, <1>10, <1>11


\* A byte is the made-up one, or one of an answer.
LEMMA Octets ==
  /\ Junk \in Octet
  /\ \A b \in Octet : b # Junk =>
       /\ b \in [kind : Kind, seq : 0..(SeqWord - 1), pos : Nat \ {0}, own : BOOLEAN]
       /\ b.seq \in 0..(SeqWord - 1) /\ b.kind \in Kind /\ b.own \in BOOLEAN
       /\ [b EXCEPT !.own = FALSE] \in Octet
       /\ [b EXCEPT !.own = FALSE].seq = b.seq
       /\ [b EXCEPT !.own = FALSE].own = FALSE
       /\ [b EXCEPT !.own = FALSE] # Junk
  /\ [Junk EXCEPT !.own = FALSE] = Junk
<1>1. Junk \in Octet
  BY DEF Octet
<1>2. [Junk EXCEPT !.own = FALSE] = Junk
  <2>1. Junk \in [kind : {"junk"}, seq : {0}, pos : {0}, own : {FALSE}]
    BY DEF Junk
  <2>2. [Junk EXCEPT !.own = FALSE] \in [kind : {"junk"}, seq : {0}, pos : {0}, own : {FALSE}]
    BY <2>1
  <2>3. QED
    BY <2>1, <2>2
<1>3. ASSUME NEW b \in Octet, b # Junk
      PROVE  /\ b \in [kind : Kind, seq : 0..(SeqWord - 1), pos : Nat \ {0}, own : BOOLEAN]
             /\ b.seq \in 0..(SeqWord - 1) /\ b.kind \in Kind /\ b.own \in BOOLEAN
             /\ [b EXCEPT !.own = FALSE] \in Octet
             /\ [b EXCEPT !.own = FALSE].seq = b.seq
             /\ [b EXCEPT !.own = FALSE].own = FALSE
             /\ [b EXCEPT !.own = FALSE] # Junk
  <2>1. b \in [kind : Kind, seq : 0..(SeqWord - 1), pos : Nat \ {0}, own : BOOLEAN]
    BY <1>3 DEF Octet
  <2>2. [b EXCEPT !.own = FALSE] \in [kind : Kind, seq : 0..(SeqWord - 1), pos : Nat \ {0}, own : BOOLEAN]
    BY <2>1
  <2>3. [b EXCEPT !.own = FALSE].pos # 0
    BY <2>2
  <2>4. [b EXCEPT !.own = FALSE] # Junk
    BY <2>3 DEF Junk
  <2>5. [b EXCEPT !.own = FALSE] \in Octet
    BY <2>2 DEF Octet
  <2>6. QED
    BY <2>1, <2>4, <2>5
<1>4. QED
  BY <1>1, <1>2, <1>3

\* The mark of a sequence of bytes is reset byte by byte.
LEMMA WithoutFacts ==
  ASSUME NEW s \in Seq(Octet)
  PROVE  /\ Without(s) \in Seq(Octet) /\ Len(Without(s)) = Len(s)
         /\ \A i \in 1..Len(s) : Without(s)[i] = [s[i] EXCEPT !.own = FALSE]
<1>1. Len(s) \in Nat /\ DOMAIN s = 1..Len(s) /\ \A i \in 1..Len(s) : s[i] \in Octet
  OBVIOUS
<1>2. \A i \in 1..Len(s) : [s[i] EXCEPT !.own = FALSE] \in Octet
  BY <1>1, Octets
<1>3. Without(s) = [i \in 1..Len(s) |-> [s[i] EXCEPT !.own = FALSE]]
  BY <1>1 DEF Without
<1>4. Without(s) \in [1..Len(s) -> Octet]
  BY <1>2, <1>3
<1>5. Without(s) \in Seq(Octet) /\ Len(Without(s)) = Len(s)
  BY <1>1, <1>4
<1>6. QED
  BY <1>3, <1>5

\* An answer's bytes.
LEMMA AnswerFacts ==
  ASSUME NEW k \in Kind, NEW s \in 0..(SeqWord - 1)
  PROVE  /\ Answer(k, s) \in Seq(Octet)
         /\ \A i \in 1..Len(Answer(k, s)) : Answer(k, s)[i].seq = s /\ Answer(k, s)[i].own = TRUE
<1>1. Header + Body[k] \in Nat
  BY Sizes
<1> DEFINE n == Header + Body[k]
<1>2. \A i \in 1..n : [kind |-> k, seq |-> s, pos |-> i, own |-> TRUE] \in Octet
  BY <1>1 DEF Octet
<1>3. Answer(k, s) = [i \in 1..n |-> [kind |-> k, seq |-> s, pos |-> i, own |-> TRUE]]
  BY DEF Answer
<1> HIDE DEF n
<1>4. Answer(k, s) \in [1..n -> Octet] /\ n \in Nat
  BY <1>1, <1>2, <1>3 DEF n
<1>5. Answer(k, s) \in Seq(Octet) /\ Len(Answer(k, s)) = n
  BY <1>4
<1>6. ASSUME NEW i \in 1..n PROVE Answer(k, s)[i].seq = s /\ Answer(k, s)[i].own = TRUE
  <2>1. Answer(k, s)[i] = [kind |-> k, seq |-> s, pos |-> i, own |-> TRUE]
    BY <1>3
  <2>2. QED
    BY <2>1
<1>7. QED
  BY <1>5, <1>6

-----------------------------------------------------------------------------
(***************************************************************************)
(* What a step does to a byte.                                             *)
(***************************************************************************)
\* The length of time since a question is a number.
LEMMA GoneNumber ==
  ASSUME Shape, NEW b \in Octet, b # Junk
  PROVE  Gone(b) \in Nat
<1>1. seq \in 0..(SeqWord - 1) /\ b.seq \in 0..(SeqWord - 1)
  BY Octets DEF Shape
<1>2. QED
  BY <1>1, Numbers DEF Gone, Asked

\* With the next question a byte that is not too old is older by one, and none
\* is current.
LEMMA NextQuestion ==
  ASSUME Shape, seq' = (seq + 1) % SeqWord,
         NEW b \in Octet, b # Junk, Gone(b) + 1 < SeqWord,
         NEW c, c = [b EXCEPT !.own = FALSE]
  PROVE  /\ Gone(c)' = Gone(b) + 1
         /\ Marked(c)'
<1>1. seq \in 0..(SeqWord - 1) /\ b.seq \in 0..(SeqWord - 1) /\ c.seq = b.seq /\ c.own = FALSE
  BY Octets DEF Shape
<1>2. Asked' = seq
  BY <1>1, Numbers DEF Asked
<1>3. (seq - b.seq) % SeqWord = Gone(b) + 1
  BY <1>1, Numbers DEF Gone, Asked
<1>4. Gone(c)' = Gone(b) + 1
  BY <1>1, <1>2, <1>3 DEF Gone
<1>5. Gone(b) + 1 # 0
  BY GoneNumber
<1>6. QED
  BY <1>1, <1>4, <1>5 DEF Marked

\* No byte that waits is too old for the next question.
LEMMA WaitingIsRecent ==
  ASSUME Shape, pc = "send", NEW b \in Octet, b # Junk, NEW i \in 1..BufferSize, Waiting(b, i)
  PROVE  Gone(b) + 1 < SeqWord
<1>1. Gone(b) \in Nat /\ troubles \in 0..MaxTroubles /\ Spent = troubles
  BY GoneNumber DEF Shape, Spent, Unread
<1>2. Header * (Gone(b) - 1 - troubles) <= BufferSize - i
  BY <1>1 DEF Waiting
<1>3. Gone(b) - 1 - troubles \in Int
  BY <1>1, Sizes
<1>4. Header * (Gone(b) - 1 - troubles) <= BufferSize
  BY <1>2, <1>3, Headers, Sizes
<1>5. Gone(b) - 1 - troubles <= BufferSize \div Header
  BY <1>3, <1>4, HeadersFit
<1>6. QED
  BY <1>1, <1>5, Sizes


\* Between two questions a byte keeps its age and its mark.
LEMMA SameQuestion ==
  ASSUME seq' = seq, NEW b
  PROVE  Gone(b)' = Gone(b) /\ (Marked(b) => Marked(b)')
  BY DEF Gone, Asked, Marked

\* What has been spent is a number.
LEMMA SpentNumber == Shape => Spent \in Nat /\ troubles \in Nat
  BY DEF Shape, Spent, Unread

\* A byte in flight, and one that arrives.
LEMMA StaysInFlight ==
  ASSUME Shape, seq' = seq, troubles' \in Nat, troubles <= troubles',
         NEW b \in Octet, InFlight(b)
  PROVE  InFlight(b)'
<1>1. CASE b = Junk
  BY <1>1 DEF InFlight, Junk
<1>2. CASE b # Junk
  <2>1. Gone(b) \in Nat /\ Gone(b)' = Gone(b) /\ Gone(b) <= 1 + troubles
    BY <1>2, GoneNumber, SameQuestion DEF InFlight
  <2>2. Gone(b)' <= 1 + troubles'
    BY <2>1, SpentNumber
  <2>3. Marked(b)'
    BY <1>2, SameQuestion DEF InFlight
  <2>4. QED
    BY <2>2, <2>3 DEF InFlight
<1>3. QED
  BY <1>1, <1>2

LEMMA Arrives ==
  ASSUME Shape, NEW b \in Octet, InFlight(b), NEW i \in 1..BufferSize
  PROVE  Waiting(b, i)
<1>1. SUFFICES ASSUME b # Junk PROVE Header * (Gone(b) - 1 - Spent) <= BufferSize - i
  BY DEF InFlight, Waiting
<1>2. Gone(b) \in Nat /\ Gone(b) <= 1 + troubles /\ troubles \in Nat /\ Spent \in Nat /\ troubles <= Spent
  BY <1>1, GoneNumber, SpentNumber DEF InFlight, Spent, Unread
<1>3. Gone(b) - 1 - Spent \in Int /\ Gone(b) - 1 - Spent <= 0
  BY <1>2
<1>4. Header * (Gone(b) - 1 - Spent) \in Int /\ Header * (Gone(b) - 1 - Spent) <= Header * 0
  BY <1>3, Headers
<1>5. Header * 0 = 0 /\ BufferSize \in Nat
  BY Sizes
<1>6. QED
  BY <1>4, <1>5

\* A byte keeps waiting, at its place or nearer the front.
LEMMA KeepsWaiting ==
  ASSUME Shape, seq' = seq, Spent' \in Nat, Spent <= Spent',
         NEW b \in Octet, NEW i \in Nat, NEW j \in Nat, j <= i, Waiting(b, i)
  PROVE  Waiting(b, j)'
<1>1. CASE b = Junk
  BY <1>1 DEF Waiting, Junk
<1>2. CASE b # Junk
  <2>1. Gone(b) \in Nat /\ Gone(b)' = Gone(b) /\ Spent \in Nat
    BY <1>2, GoneNumber, SameQuestion, SpentNumber
  <2>2. Header * (Gone(b) - 1 - Spent) <= BufferSize - i
    BY <1>2 DEF Waiting
  <2>3. /\ Gone(b) - 1 - Spent \in Int /\ Gone(b) - 1 - Spent' \in Int
        /\ Gone(b) - 1 - Spent' <= Gone(b) - 1 - Spent
    BY <2>1
  <2>4. /\ Header * (Gone(b) - 1 - Spent') \in Int /\ Header * (Gone(b) - 1 - Spent) \in Int
        /\ Header * (Gone(b) - 1 - Spent') <= Header * (Gone(b) - 1 - Spent)
    BY <2>3, Headers
  <2>5. Header * (Gone(b) - 1 - Spent') <= BufferSize - j
    BY <2>2, <2>4, Sizes
  <2>6. Header * (Gone(b)' - 1 - Spent') <= BufferSize - j
    BY <2>1, <2>5
  <2>7. Marked(b)'
    BY <1>2, SameQuestion DEF Waiting
  <2>8. QED
    BY <2>6, <2>7 DEF Waiting
<1>3. QED
  BY <1>1, <1>2

\* A header is read in front of it.
LEMMA HeaderIsRead ==
  ASSUME Shape, seq' = seq, Spent' \in Nat, Spent = Spent' + 1,
         NEW b \in Octet, NEW i \in Nat, Waiting(b, i + Header)
  PROVE  Waiting(b, i)'
<1>1. CASE b = Junk
  BY <1>1 DEF Waiting, Junk
<1>2. CASE b # Junk
  <2>1. Gone(b) \in Nat /\ Gone(b)' = Gone(b) /\ Spent \in Nat
    BY <1>2, GoneNumber, SameQuestion, SpentNumber
  <2>2. Header * (Gone(b) - 1 - Spent) <= BufferSize - (i + Header)
    BY <1>2 DEF Waiting
  <2>3. Gone(b) - 1 - Spent \in Int /\ Gone(b) - 1 - Spent' = (Gone(b) - 1 - Spent) + 1
    BY <2>1
  <2>4. /\ Header * (Gone(b) - 1 - Spent) \in Int
        /\ Header * ((Gone(b) - 1 - Spent) + 1) = Header * (Gone(b) - 1 - Spent) + Header
    BY <2>3, Headers
  <2>5. Header * (Gone(b) - 1 - Spent) + Header <= BufferSize - i
    BY <2>2, <2>4, Sizes
  <2>6. Header * (Gone(b)' - 1 - Spent') <= BufferSize - i
    BY <2>1, <2>3, <2>4, <2>5
  <2>7. Marked(b)'
    BY <1>2, SameQuestion DEF Waiting
  <2>8. QED
    BY <2>6, <2>7 DEF Waiting
<1>3. QED
  BY <1>1, <1>2

\* Another question is asked, and either fails or leaves its header to read.
LEMMA WaitsOn ==
  ASSUME Shape, pc = "send", seq' = (seq + 1) % SeqWord, Spent' \in Nat, Spent + 1 <= Spent',
         NEW b \in Octet, NEW i \in 1..BufferSize, Waiting(b, i)
  PROVE  Waiting([b EXCEPT !.own = FALSE], i)'
<1> DEFINE c == [b EXCEPT !.own = FALSE]
<1>1. CASE b = Junk
  <2>1. [b EXCEPT !.own = FALSE] = Junk
    BY <1>1, Octets
  <2>2. Waiting(Junk, i)'
    BY DEF Waiting, Junk
  <2>3. QED
    BY <2>1, <2>2
<1>2. CASE b # Junk
  <2>1. Gone(b) + 1 < SeqWord
    BY <1>2, WaitingIsRecent
  <2>2. Gone(c)' = Gone(b) + 1 /\ Marked(c)'
    BY <1>2, <2>1, NextQuestion
  <2>3. Header * (Gone(b) - 1 - Spent) <= BufferSize - i
    BY <1>2 DEF Waiting
  <2>4. Gone(b) \in Nat /\ Spent \in Nat
    BY <1>2, GoneNumber, SpentNumber
  <2>5. /\ Gone(b) - 1 - Spent \in Int /\ Gone(c)' - 1 - Spent' \in Int
        /\ Gone(c)' - 1 - Spent' <= Gone(b) - 1 - Spent
    BY <2>2, <2>4
  <2>6. Header * (Gone(c)' - 1 - Spent') <= BufferSize - i
    <3>1. /\ Header * (Gone(c)' - 1 - Spent') \in Int /\ Header * (Gone(b) - 1 - Spent) \in Int
          /\ Header * (Gone(c)' - 1 - Spent') <= Header * (Gone(b) - 1 - Spent)
      BY <2>5, Headers
    <3>2. QED
      BY <2>3, <3>1, Sizes
  <2>7. QED
    BY <2>2, <2>6 DEF Waiting
<1>3. QED
  BY <1>1, <1>2


-----------------------------------------------------------------------------
(***************************************************************************)
(* What a step does to the line and to the buffer.                         *)
(***************************************************************************)
\* The front of the line arrives, or all of it is dropped.
LEMMA LineShrinks ==
  ASSUME Shape, LineInv, seq' = seq, troubles' \in Nat, troubles <= troubles',
         \/ line' = line
         \/ line # <<>> /\ line' = Tail(line)
         \/ line' = <<>>
  PROVE  line' \in Seq(Octet) /\ LineInv'
<1>1. line \in Seq(Octet) /\ Len(line) \in Nat /\ \A i \in 1..Len(line) : line[i] \in Octet
  BY DEF Shape
<1>2. ASSUME NEW i \in 1..Len(line), NEW b, b = line[i] PROVE InFlight(b)'
  <2>1. b \in Octet /\ InFlight(b)
    BY <1>1, <1>2 DEF LineInv
  <2>2. QED
    BY <2>1, StaysInFlight
<1>3. CASE line' = line
  <2>1. ASSUME NEW i \in 1..Len(line') PROVE InFlight(line[i])'
    <3>1. PICK b : b = line[i] /\ b = line'[i]
      BY <1>3
    <3>2. InFlight(b)'
      BY <1>2, <1>3, <3>1
    <3>3. QED
      BY <3>1, <3>2
  <2>2. QED
    BY <1>1, <1>3, <2>1 DEF LineInv
<1>4. CASE line # <<>> /\ line' = Tail(line)
  <2>1. line' \in Seq(Octet) /\ Len(line') = Len(line) - 1 /\ \A i \in 1..Len(line') : line'[i] = line[i + 1]
    BY <1>1, <1>4
  <2>2. ASSUME NEW i \in 1..Len(line') PROVE InFlight(line[i])'
    <3>1. i + 1 \in 1..Len(line) /\ line'[i] = line[i + 1]
      BY <1>1, <2>1
    <3>2. PICK b : b = line[i + 1] /\ b = line'[i]
      BY <3>1
    <3>3. InFlight(b)'
      BY <1>2, <3>1, <3>2
    <3>4. QED
      BY <3>2, <3>3
  <2>3. QED
    BY <2>1, <2>2 DEF LineInv
<1>5. CASE line' = <<>>
  BY <1>5 DEF LineInv
<1>6. QED
  BY <1>3, <1>4, <1>5

\* Some of the front of the buffer is read.
LEMMA BufferIsRead ==
  ASSUME Shape, NEW n \in Nat, n <= Len(rx), rx' = SubSeq(rx, n + 1, Len(rx))
  PROVE  /\ rx' \in Seq(Octet) /\ Len(rx') = Len(rx) - n /\ Len(rx') <= BufferSize
         /\ \A i \in 1..Len(rx') : i + n \in 1..Len(rx) /\ rx'[i] = rx[i + n] /\ rx'[i] \in Octet
<1>1. rx \in Seq(Octet) /\ Len(rx) \in Nat /\ Len(rx) <= BufferSize
  BY DEF Shape
<1>2. rx' \in Seq(Octet) /\ Len(rx') = Len(rx) - n
  BY <1>1
<1>3. ASSUME NEW i \in 1..Len(rx')
      PROVE  i + n \in 1..Len(rx) /\ rx'[i] = rx[i + n] /\ rx'[i] \in Octet
  BY <1>1, <1>2
<1>4. Len(rx') <= BufferSize
  BY <1>1, <1>2, Sizes
<1>5. QED
  BY <1>2, <1>3, <1>4

\* A byte arrives that is made up or comes from the line, or finds no place.
LEMMA BufferGrows ==
  ASSUME Shape, BacklogInv, seq' = seq, Spent' \in Nat, Spent <= Spent',
         NEW b \in Octet, InFlight(b), rx' = rx \/ rx' = Buffered(b)
  PROVE  rx' \in Seq(Octet) /\ Len(rx') <= BufferSize /\ BacklogInv'
<1>1. /\ rx \in Seq(Octet) /\ Len(rx) \in Nat /\ Len(rx) <= BufferSize /\ BufferSize \in Nat
      /\ \A i \in 1..Len(rx) : rx[i] \in Octet
  BY Sizes DEF Shape
<1>2. ASSUME NEW i \in 1..Len(rx), NEW c, c = rx[i] PROVE Waiting(c, i)'
  <2>1. c \in Octet /\ Waiting(c, i) /\ i \in Nat /\ i <= i
    BY <1>1, <1>2 DEF BacklogInv
  <2>2. QED
    BY <2>1, KeepsWaiting
<1>3. CASE rx' = rx
  <2>1. ASSUME NEW i \in 1..Len(rx') PROVE Waiting(rx[i], i)'
    <3>1. PICK c : c = rx[i] /\ c = rx'[i]
      BY <1>3
    <3>2. Waiting(c, i)'
      BY <1>2, <1>3, <3>1
    <3>3. QED
      BY <3>1, <3>2
  <2>2. QED
    BY <1>1, <1>3, <2>1 DEF BacklogInv
<1>4. CASE rx' = Append(rx, b) /\ Len(rx) < BufferSize
  <2>1. /\ rx' \in Seq(Octet) /\ Len(rx') = Len(rx) + 1
        /\ \A i \in 1..Len(rx) : rx'[i] = rx[i]
        /\ rx'[Len(rx) + 1] = b
    BY <1>1, <1>4
  <2>2. ASSUME NEW i \in 1..Len(rx') PROVE Waiting(rx[i], i)'
    <3>1. CASE i \in 1..Len(rx)
      <4>1. PICK c : c = rx[i] /\ c = rx'[i]
        BY <2>1, <3>1
      <4>2. Waiting(c, i)'
        BY <1>2, <3>1, <4>1
      <4>3. QED
        BY <4>1, <4>2
    <3>2. CASE i = Len(rx) + 1
      <4>1. i \in 1..BufferSize /\ i \in Nat /\ i <= i
        BY <1>1, <1>4, <3>2
      <4>2. Waiting(b, i)'
        BY <4>1, Arrives, KeepsWaiting
      <4>3. b = rx'[i]
        BY <2>1, <3>2
      <4>4. QED
        BY <4>2, <4>3
    <3>3. QED
      BY <1>1, <2>1, <3>1, <3>2
  <2>3. QED
    BY <1>1, <1>4, <2>1, <2>2 DEF BacklogInv
<1>5. QED
  BY <1>3, <1>4 DEF Buffered

\* A question makes every byte in the buffer one of an earlier question.
LEMMA BufferAges ==
  ASSUME Shape, BacklogInv, pc = "send", seq' = (seq + 1) % SeqWord, Spent' \in Nat, Spent + 1 <= Spent',
         rx' = Without(rx)
  PROVE  rx' \in Seq(Octet) /\ Len(rx') <= BufferSize /\ BacklogInv'
<1>1. /\ rx \in Seq(Octet) /\ Len(rx) \in Nat /\ Len(rx) <= BufferSize /\ BufferSize \in Nat
      /\ \A i \in 1..Len(rx) : rx[i] \in Octet
  BY Sizes DEF Shape
<1>2. /\ rx' \in Seq(Octet) /\ Len(rx') = Len(rx)
      /\ \A i \in 1..Len(rx) : rx'[i] = [rx[i] EXCEPT !.own = FALSE]
  BY <1>1, WithoutFacts
<1>3. ASSUME NEW i \in 1..Len(rx') PROVE Waiting(rx[i], i)'
  <2>1. PICK b : b = rx[i]
    OBVIOUS
  <2>2. b \in Octet /\ Waiting(b, i) /\ i \in 1..BufferSize
    BY <1>1, <1>2, <2>1 DEF BacklogInv
  <2>3. Waiting([b EXCEPT !.own = FALSE], i)'
    BY <2>2, WaitsOn
  <2>4. rx'[i] = [b EXCEPT !.own = FALSE]
    BY <1>2, <2>1
  <2>5. QED
    BY <2>3, <2>4
<1>4. QED
  BY <1>1, <1>2, <1>3 DEF BacklogInv


\* With the next question a byte in flight is late.
LEMMA FliesOn ==
  ASSUME Shape, seq' = (seq + 1) % SeqWord, troubles' \in Nat, troubles' <= MaxTroubles,
         NEW b \in Octet, InFlight(b), b # Junk => Gone(b) <= troubles',
         NEW c, c = [b EXCEPT !.own = FALSE]
  PROVE  InFlight(c)'
<1>1. CASE b = Junk
  <2>1. c = Junk
    BY <1>1, Octets
  <2>2. QED
    BY <2>1 DEF InFlight, Junk
<1>2. CASE b # Junk
  <2>1. Gone(b) \in Nat /\ Gone(b) <= troubles'
    BY <1>2, GoneNumber
  <2>2. Gone(b) + 1 < SeqWord
    BY <2>1, Sizes
  <2>3. Gone(c)' = Gone(b) + 1 /\ Marked(c)'
    BY <1>2, <2>2, NextQuestion
  <2>4. Gone(c)' <= 1 + troubles'
    BY <2>1, <2>3
  <2>5. QED
    BY <2>3, <2>4 DEF InFlight
<1>3. QED
  BY <1>1, <1>2

\* A question asked, or one that fails, leaves what is in flight late.
LEMMA LineAges ==
  ASSUME Shape, LineInv, seq' = (seq + 1) % SeqWord, troubles' \in Nat, troubles' <= MaxTroubles,
         troubles <= troubles',
         (\A i \in DOMAIN line : line[i].own) \/ troubles' = troubles + 1
  PROVE  \A i \in 1..Len(line) : \A c : c = Without(line)[i] => InFlight(c)'
<1>1. line \in Seq(Octet) /\ Len(line) \in Nat /\ DOMAIN line = 1..Len(line)
  BY DEF Shape
<1>2. SUFFICES ASSUME NEW i \in 1..Len(line), NEW c, c = Without(line)[i] PROVE InFlight(c)'
  OBVIOUS
<1>3. PICK b : b = line[i]
  OBVIOUS
<1>4. b \in Octet /\ InFlight(b) /\ c = [b EXCEPT !.own = FALSE]
  BY <1>1, <1>2, <1>3, WithoutFacts DEF LineInv
<1>5. ASSUME b # Junk PROVE Gone(b) <= troubles'
  <2>1. CASE troubles' = troubles + 1
    BY <1>4, <1>5, <2>1, SpentNumber, GoneNumber DEF InFlight
  <2>2. CASE \A j \in DOMAIN line : line[j].own
    <3>1. b.own
      BY <1>1, <1>3, <2>2
    <3>2. Gone(b) = 0
      BY <1>4, <1>5, <3>1 DEF InFlight, Marked
    <3>3. QED
      BY <3>2
  <2>3. QED
    BY <2>1, <2>2
<1>6. QED
  BY <1>4, <1>5, FliesOn

\* The answer to the question now asked is current.
LEMMA AnswerFlies ==
  ASSUME Shape, seq' = (seq + 1) % SeqWord, troubles' \in Nat, NEW k \in Kind
  PROVE  \A i \in 1..Len(Answer(k, seq)) : \A c : c = Answer(k, seq)[i] => InFlight(c)'
<1> \A t \in Nat : 0 <= 1 + t
  OBVIOUS
<1>1. seq \in 0..(SeqWord - 1) /\ 0 <= 1 + troubles'
  BY Zenon DEF Shape
<1>2. SUFFICES ASSUME NEW i \in 1..Len(Answer(k, seq)), NEW c, c = Answer(k, seq)[i]
               PROVE  InFlight(c)'
  OBVIOUS
<1>3. c.seq = seq /\ c.own = TRUE
  BY <1>1, <1>2, AnswerFacts
<1>4. Asked' = seq
  BY <1>1, Numbers DEF Asked
<1>5. (seq - seq) % SeqWord = 0
  BY <1>1, Numbers
<1>6. Gone(c)' = 0
  BY <1>3, <1>4, <1>5 DEF Gone
<1>7. Marked(c)'
  BY <1>3, <1>6 DEF Marked
<1>8. Gone(c)' <= 1 + troubles'
  BY <1>1, <1>6
<1>9. QED
  BY <1>7, <1>8 DEF InFlight

LEMMA LineIsAsked ==
  ASSUME Shape, LineInv, seq' = (seq + 1) % SeqWord, troubles' \in Nat, troubles' <= MaxTroubles,
         troubles <= troubles',
         (\A i \in DOMAIN line : line[i].own) \/ troubles' = troubles + 1,
         NEW k \in Kind,
         line' = Without(line) \/ line' = Without(line) \o Answer(k, seq)
  PROVE  line' \in Seq(Octet) /\ LineInv'
<1> DEFINE old == Without(line)
           new == Answer(k, seq)
<1>1. old \in Seq(Octet) /\ Len(old) = Len(line) /\ Len(old) \in Nat
  BY WithoutFacts DEF Shape
<1>2. new \in Seq(Octet) /\ Len(new) \in Nat
  <2>1. seq \in 0..(SeqWord - 1)
    BY DEF Shape
  <2>2. new \in Seq(Octet)
    BY <2>1, AnswerFacts
  <2> HIDE DEF new
  <2>3. QED
    BY <2>2
<1>3. \A i \in 1..Len(old) : \A c : c = old[i] => InFlight(c)'
  BY <1>1, LineAges
<1>4. \A i \in 1..Len(new) : \A c : c = new[i] => InFlight(c)'
  BY AnswerFlies
<1> HIDE DEF old, new
<1>5. CASE line' = old
  <2>1. ASSUME NEW i \in 1..Len(line') PROVE InFlight(line[i])'
    <3>1. PICK c : c = old[i] /\ c = line'[i]
      BY <1>5
    <3>2. InFlight(c)'
      BY <1>3, <1>5, <3>1
    <3>3. QED
      BY <3>1, <3>2
  <2>2. QED
    BY <1>1, <1>5, <2>1 DEF LineInv
<1>6. CASE line' = old \o new
  <2>1. /\ line' \in Seq(Octet) /\ Len(line') = Len(old) + Len(new)
        /\ \A i \in 1..Len(line') : line'[i] = IF i <= Len(old) THEN old[i] ELSE new[i - Len(old)]
    BY <1>1, <1>2, <1>6
  <2>2. ASSUME NEW i \in 1..Len(line') PROVE InFlight(line[i])'
    <3>1. PICK c : c = line'[i]
      OBVIOUS
    <3>2. CASE i <= Len(old)
      <4>1. i \in 1..Len(old) /\ c = old[i]
        BY <1>1, <2>1, <3>1, <3>2
      <4>2. InFlight(c)'
        BY <1>3, <4>1
      <4>3. QED
        BY <3>1, <4>2
    <3>3. CASE ~(i <= Len(old))
      <4>1. i - Len(old) \in 1..Len(new) /\ c = new[i - Len(old)]
        BY <1>1, <1>2, <2>1, <3>1, <3>3
      <4>2. InFlight(c)'
        BY <1>4, <4>1
      <4>3. QED
        BY <3>1, <4>2
    <3>4. QED
      BY <3>2, <3>3
  <2>3. QED
    BY <2>1, <2>2 DEF LineInv
<1>7. QED
  BY <1>5, <1>6 DEF old, new


-----------------------------------------------------------------------------
(***************************************************************************)
(* There is a longest answer, and every length read from a header is a     *)
(* number.                                                                 *)
(***************************************************************************)
\* Every set of numbers has a least one.
LEMMA LeastNumber ==
  ASSUME NEW S \in SUBSET Nat, S # {}
  PROVE  \E m \in S : \A n \in S : m <= n
<1> DEFINE Less == {ss \in Nat \X Nat : ss[1] < ss[2]}
<1>1. IsWellFoundedOn(Less, Nat)
  BY NatLessThanWellFounded DEF OpToRel
<1> HIDE DEF Less
<1>2. PICK m \in S : \A n \in S : <<n, m>> \notin Less
  BY <1>1, WFMin
<1>3. ASSUME NEW n \in S PROVE m <= n
  <2>1. m \in Nat /\ n \in Nat /\ <<n, m>> \in Nat \X Nat
    OBVIOUS
  <2>2. ~(<<n, m>>[1] < <<n, m>>[2])
    BY <1>2, <2>1 DEF Less
  <2>3. QED
    BY <2>1, <2>2
<1>4. QED
  BY <1>3

\* Two numbers have a common bound, and bounds are passed on.
LEMMA CommonBound ==
  /\ \A x, y \in Nat : \E u \in Nat : x <= u /\ y <= u
  /\ \A x, y, z \in Nat : x <= y /\ y <= z => x <= z
<1>1. ASSUME NEW x \in Nat, NEW y \in Nat PROVE \E u \in Nat : x <= u /\ y <= u
  <2>1. x + y \in Nat /\ x <= x + y /\ y <= x + y
    OBVIOUS
  <2>2. QED
    BY <2>1
<1>2. QED
  BY <1>1

LEMMA LongestIsNumber == Longest \in Nat
<1> DEFINE Bound(j, m) == \A i \in 1..j : Body[Cycle[i]] <= m
           Bad == {j \in 0..Len(Cycle) : ~\E m \in Nat : Bound(j, m)}
           Upper == {m \in Nat : \A k \in Kind : Body[k] <= m}
<1>1. /\ Cycle \in Seq(STRING) /\ Cycle # <<>> /\ Len(Cycle) \in Nat
      /\ DOMAIN Cycle = 1..Len(Cycle) /\ 1 \in DOMAIN Cycle
  BY HostPollerAssumption
<1>2. \A i \in 1..Len(Cycle) : Cycle[i] \in Kind
  BY <1>1 DEF Kind
<1>3. \A k \in Kind : Body[k] \in Nat /\ Body[k] >= 1
  BY Sizes
<1>4. Bad = {}
  <2> SUFFICES ASSUME Bad # {} PROVE FALSE
    OBVIOUS
  <2>1. Bad \in SUBSET Nat
    BY <1>1
  <2>2. PICK j \in Bad : \A i \in Bad : j <= i
    BY <2>1, LeastNumber
  <2>3. j \in 0..Len(Cycle) /\ ~\E m \in Nat : Bound(j, m)
    OBVIOUS
  <2>4. CASE j = 0
    <3>1. Bound(0, 0)
      OBVIOUS
    <3>2. QED
      BY <2>3, <2>4, <3>1
  <2>5. CASE j # 0
    <3>1. j - 1 \in 0..Len(Cycle) /\ j \in 1..Len(Cycle) /\ ~(j <= j - 1) /\ j \in Nat
      BY <1>1, <2>3, <2>5
    <3>2. j - 1 \notin Bad
      BY <2>2, <3>1
    <3>3. PICK m \in Nat : Bound(j - 1, m)
      BY <3>1, <3>2
    <3>4. Body[Cycle[j]] \in Nat
      BY <1>2, <1>3, <3>1
    <3>5. PICK b \in Nat : b = Body[Cycle[j]]
      BY <3>4
    <3>6. PICK u \in Nat : m <= u /\ b <= u
      BY CommonBound
    <3>7. ASSUME NEW i \in 1..j PROVE Body[Cycle[i]] <= u
      <4>1. CASE i = j
        BY <3>5, <3>6, <4>1
      <4>2. CASE i # j
        <5>1. i \in 1..(j - 1) /\ i \in 1..Len(Cycle)
          BY <3>1, <4>2
        <5>2. Body[Cycle[i]] \in Nat /\ Body[Cycle[i]] <= m
          BY <1>2, <1>3, <3>3, <5>1
        <5>3. PICK c \in Nat : c = Body[Cycle[i]] /\ c <= m
          BY <5>2
        <5>4. c <= u
          BY <3>6, <5>3, CommonBound
        <5>5. QED
          BY <5>3, <5>4
      <4>3. QED
        BY <4>1, <4>2
    <3>8. Bound(j, u)
      BY <3>7
    <3>9. QED
      BY <2>3, <3>8
  <2>6. QED
    BY <2>4, <2>5
<1>5. Upper # {}
  <2>1. Len(Cycle) \in 0..Len(Cycle)
    BY <1>1
  <2>2. PICK m \in Nat : Bound(Len(Cycle), m)
    BY <1>4, <2>1
  <2>3. \A k \in Kind : Body[k] <= m
    BY <1>1, <2>2 DEF Kind
  <2>4. m \in Upper
    BY <2>3
  <2>5. QED
    BY <2>4
<1>6. PICK m \in Upper : \A n \in Upper : m <= n
  BY <1>5, LeastNumber
<1>7. m \in Nat /\ \A k \in Kind : Body[k] <= m
  OBVIOUS
<1>8. m \in {Body[k] : k \in Kind}
  <2> SUFFICES ASSUME m \notin {Body[k] : k \in Kind} PROVE FALSE
    OBVIOUS
  <2>1. \A k \in Kind : Body[k] # m
    OBVIOUS
  <2>2. m >= 1
    <3>1. Cycle[1] \in Kind
      BY <1>1, <1>2
    <3>2. Body[Cycle[1]] \in Nat /\ Body[Cycle[1]] >= 1 /\ Body[Cycle[1]] <= m
      BY <1>3, <1>7, <3>1
    <3>3. QED
      BY <1>7, <3>2
  <2>3. m - 1 \in Nat /\ ~(m <= m - 1)
    BY <1>7, <2>2
  <2>4. ASSUME NEW k \in Kind PROVE Body[k] <= m - 1
    <3>1. Body[k] \in Nat /\ Body[k] <= m /\ Body[k] # m
      BY <1>3, <1>7, <2>1
    <3>2. QED
      BY <1>7, <3>1
  <2>5. m - 1 \in Upper
    BY <2>3, <2>4
  <2>6. QED
    BY <1>6, <2>3, <2>5
<1>9. Longest \in {Body[k] : k \in Kind}
  <2>1. \E n \in {Body[k] : k \in Kind} : \A k \in Kind : Body[k] <= n
    BY <1>7, <1>8
  <2>2. QED
    BY <2>1 DEF Longest
<1>10. QED
  BY <1>3, <1>9

\* The length of the rest of a frame is a number, whatever the header is.
LEMMA LengthIsNumber ==
  ASSUME Shape, pc = "body", NEW n \in Lengths(header)
  PROVE  n \in Nat
<1>1. header \in Seq(Octet) /\ Len(header) = Header /\ Header >= 1
  BY Sizes DEF Shape
<1>2. header[1] \in Octet
  BY <1>1
<1>3. CASE IsHeader(header)
  <2>1. header[1] # Junk /\ n = Body[header[1].kind]
    BY <1>3 DEF IsHeader, Lengths
  <2>2. header[1].kind \in Kind
    BY <1>2, <2>1, Octets
  <2>3. QED
    BY <2>1, <2>2, Sizes
<1>4. CASE ~IsHeader(header)
  BY <1>4, LongestIsNumber DEF Lengths
<1>5. QED
  BY <1>3, <1>4


-----------------------------------------------------------------------------
(***************************************************************************)
(* The steps.                                                              *)
(***************************************************************************)
LEMMA PollInit == Init => PollInv
<1> SUFFICES ASSUME Init PROVE PollInv
  OBVIOUS
<1>1. 1 \in DOMAIN Cycle /\ 0 \in 0..(SeqWord - 1) /\ 0 \in 0..MaxTroubles /\ 0 <= BufferSize
  BY HostPollerAssumption
<1>2. <<>> \in Seq(Octet) /\ Len(<<>>) = 0
  OBVIOUS
<1>3. Shape
  BY <1>1, <1>2 DEF Init, Shape
<1>4. LineInv /\ BacklogInv /\ HeaderInv
  BY <1>2 DEF Init, LineInv, BacklogInv, HeaderInv
<1>5. QED
  BY <1>3, <1>4 DEF PollInv

\* A header that is kept, or dropped.
LEMMA HeaderKept ==
  ASSUME Shape, HeaderInv, seq' = seq, header' = header \/ header' = <<>>
  PROVE  header' \in Seq(Octet) /\ HeaderInv'
<1>1. CASE header' = <<>>
  BY <1>1 DEF HeaderInv
<1>2. CASE header' = header
  <2>1. ASSUME NEW i \in 1..Len(header') PROVE Marked(header[i])'
    <3>1. PICK b : b = header[i] /\ b = header'[i]
      BY <1>2
    <3>2. Marked(b)'
      BY <1>2, <3>1, SameQuestion DEF HeaderInv
    <3>3. QED
      BY <3>1, <3>2
  <2>2. QED
    BY <1>2, <2>1 DEF HeaderInv, Shape
<1>3. QED
  BY <1>1, <1>2

\* The numbers a step may change.
Control ==
  /\ pc' \in {"rest", "send", "header", "body", "settle"}
  /\ step' \in DOMAIN Cycle /\ seq' \in 0..(SeqWord - 1) /\ troubles' \in 0..MaxTroubles
  /\ IF pc' = "body" THEN Len(header') = Header ELSE header' = <<>>

LEMMA NextNumbers ==
  /\ \A x \in Nat : x + 1 \in Nat /\ x + 0 \in Nat
  /\ \A x, y \in Nat : x <= y => x + 1 <= y + 1
  OBVIOUS

LEMMA NextSpent == Control => troubles' \in Nat /\ Spent' \in Nat
<1> SUFFICES ASSUME Control PROVE troubles' \in Nat /\ Spent' \in Nat
  OBVIOUS
<1>1. troubles' \in Nat
  BY Sizes DEF Control
<1>2. Unread' = 1 \/ Unread' = 0
  BY DEF Unread
<1>3. Spent' = troubles' + 1 \/ Spent' = troubles' + 0
  BY <1>2 DEF Spent
<1>4. QED
  BY <1>1, <1>3, NextNumbers, Zenon

\* A step without a question that takes nothing from the buffer.
LEMMA QuietStep ==
  ASSUME PollInv, Control, seq' = seq, troubles <= troubles', Spent <= Spent',
         NEW b \in Octet, InFlight(b), rx' = rx \/ rx' = Buffered(b),
         line' = line \/ (line # <<>> /\ line' = Tail(line)) \/ line' = <<>>,
         header' = header \/ header' = <<>>
  PROVE  PollInv'
<1>1. Shape /\ LineInv /\ BacklogInv /\ HeaderInv
  BY DEF PollInv
<1>2. troubles' \in Nat /\ Spent' \in Nat
  BY NextSpent
<1>3. line' \in Seq(Octet) /\ LineInv'
  BY <1>1, <1>2, LineShrinks
<1>4. rx' \in Seq(Octet) /\ Len(rx') <= BufferSize /\ BacklogInv'
  BY <1>1, <1>2, BufferGrows
<1>5. header' \in Seq(Octet) /\ HeaderInv'
  BY <1>1, HeaderKept
<1>6. QED
  BY <1>3, <1>4, <1>5 DEF Control, Shape, PollInv

\* A question, answered or not.
LEMMA QuestionStep ==
  ASSUME PollInv, Control, pc = "send", seq' = (seq + 1) % SeqWord,
         header' = <<>>, rx' = Without(rx), Spent + 1 <= Spent', troubles <= troubles',
         (\A i \in DOMAIN line : line[i].own) \/ troubles' = troubles + 1,
         NEW k \in Kind,
         line' = Without(line) \/ line' = Without(line) \o Answer(k, seq)
  PROVE  PollInv'
<1>1. Shape /\ LineInv /\ BacklogInv
  BY DEF PollInv
<1>2. troubles' \in Nat /\ troubles' <= MaxTroubles /\ Spent' \in Nat
  BY Sizes, NextSpent DEF Control
<1>3. line' \in Seq(Octet) /\ LineInv'
  BY <1>1, <1>2, LineIsAsked
<1>4. rx' \in Seq(Octet) /\ Len(rx') <= BufferSize /\ BacklogInv'
  BY <1>1, <1>2, BufferAges
<1>5. header' \in Seq(Octet) /\ HeaderInv'
  BY DEF HeaderInv
<1>6. QED
  BY <1>3, <1>4, <1>5 DEF Control, Shape, PollInv

\* The kind of a question, and a byte that may always arrive.
LEMMA Questions ==
  /\ \A i \in DOMAIN Cycle : Cycle[i] \in Kind
  /\ 1 \in DOMAIN Cycle /\ DOMAIN Cycle = 1..Len(Cycle) /\ Len(Cycle) \in Nat
  /\ Junk \in Octet /\ InFlight(Junk)
<1>1. \A i \in DOMAIN Cycle : Cycle[i] \in Kind
  BY DEF Kind
<1>2. 1 \in DOMAIN Cycle /\ DOMAIN Cycle = 1..Len(Cycle) /\ Len(Cycle) \in Nat
  BY HostPollerAssumption
<1>3. Junk \in Octet /\ InFlight(Junk)
  BY Octets DEF InFlight
<1>4. QED
  BY <1>1, <1>2, <1>3

LEMMA BeginStep == PollInv /\ Begin => PollInv'
<1> SUFFICES ASSUME PollInv, Begin PROVE PollInv'
  OBVIOUS
<1>1. Control /\ Spent <= Spent' /\ troubles <= troubles'
  BY Questions, SpentNumber DEF Begin, Control, PollInv, Shape, Spent, Unread
<1>2. QED
  BY <1>1, Questions, QuietStep DEF Begin

LEMMA AskStep == PollInv /\ Ask => PollInv'
<1> SUFFICES ASSUME PollInv, Ask PROVE PollInv'
  OBVIOUS
<1>1. PICK k \in Kind : k = Cycle[step]
  BY Questions DEF PollInv, Shape
<1>2. seq' = (seq + 1) % SeqWord /\ seq' \in 0..(SeqWord - 1)
  BY Numbers DEF Ask, PollInv, Shape
<1>3. troubles \in 0..MaxTroubles /\ troubles' \in 0..MaxTroubles /\ troubles <= troubles'
  BY Sizes DEF Ask, Trouble, PollInv, Shape
<1>4. Control
  BY <1>2, <1>3 DEF Ask, Control, PollInv, Shape
<1>5. Spent = troubles /\ Spent' = troubles' + 1
  BY <1>3, Sizes DEF Ask, Spent, Unread
<1>6. Spent + 1 <= Spent'
  <2>1. troubles \in Nat /\ troubles' \in Nat
    BY <1>3, Sizes
  <2>2. QED
    BY <1>3, <1>5, <2>1, NextNumbers, Zenon
<1>7. /\ pc = "send" /\ header' = <<>> /\ rx' = Without(rx)
      /\ \A i \in DOMAIN line : line[i].own
      /\ line' = Without(line) \/ line' = Without(line) \o Answer(k, seq)
  BY <1>1 DEF Ask, PollInv, Shape
<1>8. QED
  BY <1>2, <1>3, <1>4, <1>6, <1>7, QuestionStep

LEMMA AskFailsStep == PollInv /\ AskFails => PollInv'
<1> SUFFICES ASSUME PollInv, AskFails PROVE PollInv'
  OBVIOUS
<1>1. PICK k \in Kind : k = Cycle[step]
  BY Questions DEF PollInv, Shape
<1>2. seq' = (seq + 1) % SeqWord /\ seq' \in 0..(SeqWord - 1)
  BY Numbers DEF AskFails, PollInv, Shape
<1>3. troubles \in 0..MaxTroubles /\ troubles' \in 0..MaxTroubles /\ troubles' = troubles + 1
  BY Sizes DEF AskFails, Trouble, PollInv, Shape
<1>4. Control
  BY <1>2, <1>3 DEF AskFails, Abandon, Control, PollInv, Shape
<1>5. Spent = troubles /\ Spent' = troubles'
  BY <1>3, Sizes DEF AskFails, Abandon, Spent, Unread
<1>6. Spent + 1 <= Spent' /\ troubles <= troubles'
  BY <1>3, <1>5, Sizes
<1>7. pc = "send" /\ header' = <<>> /\ rx' = Without(rx) /\ line' = Without(line)
  BY DEF AskFails, Abandon
<1>8. QED
  BY <1>2, <1>3, <1>4, <1>6, <1>7, QuestionStep

\* What is read from the buffer lets the rest of it move up.
LEMMA ReadStep ==
  ASSUME PollInv, Control, seq' = seq, UNCHANGED <<line, troubles>>,
         NEW n \in Nat, n <= Len(rx), rx' = SubSeq(rx, n + 1, Len(rx)),
         Spent' = Spent \/ (n = Header /\ Spent = Spent' + 1),
         header' \in Seq(Octet), HeaderInv'
  PROVE  PollInv'
<1>1. Shape /\ LineInv /\ BacklogInv
  BY DEF PollInv
<1>2. troubles \in Nat /\ troubles <= troubles' /\ troubles' \in Nat /\ Spent \in Nat /\ Spent' \in Nat
  BY <1>1, SpentNumber, NextSpent
<1>3. line' \in Seq(Octet) /\ LineInv'
  BY <1>1, <1>2, LineShrinks
<1>4. /\ rx' \in Seq(Octet) /\ Len(rx') <= BufferSize
      /\ \A i \in 1..Len(rx') : i + n \in 1..Len(rx) /\ rx'[i] = rx[i + n] /\ rx'[i] \in Octet
  BY <1>1, BufferIsRead
<1>5. ASSUME NEW i \in 1..Len(rx') PROVE Waiting(rx[i], i)'
  <2>1. PICK b \in Octet : b = rx[i + n] /\ b = rx'[i]
    BY <1>4
  <2>2. i + n \in 1..Len(rx) /\ i \in Nat /\ i + n \in Nat /\ i <= i + n
    BY <1>4
  <2>3. Waiting(b, i + n)
    BY <1>1, <2>1, <2>2 DEF BacklogInv
  <2>4. CASE Spent' = Spent
    <3>1. Spent <= Spent'
      BY <1>2, <2>4
    <3>2. PICK j \in Nat : j = i + n /\ i <= j
      BY <2>2
    <3>3. Waiting(b, i)'
      BY <1>1, <1>2, <2>2, <2>3, <3>1, <3>2, KeepsWaiting
    <3>4. QED
      BY <2>1, <3>3
  <2>5. CASE n = Header /\ Spent = Spent' + 1
    <3>1. Waiting(b, i)'
      BY <1>1, <1>2, <2>2, <2>3, <2>5, HeaderIsRead
    <3>2. QED
      BY <2>1, <3>1
  <2>6. QED
    BY <2>4, <2>5
<1>6. BacklogInv'
  BY <1>5 DEF BacklogInv
<1>7. QED
  BY <1>3, <1>4, <1>6 DEF Control, Shape, PollInv


LEMMA ReadHeaderStep == PollInv /\ ReadHeader => PollInv'
<1> SUFFICES ASSUME PollInv, ReadHeader PROVE PollInv'
  OBVIOUS
<1>1. /\ rx \in Seq(Octet) /\ Len(rx) \in Nat /\ Header \in Nat /\ Header >= 1 /\ Header <= Len(rx)
      /\ \A i \in 1..Len(rx) : rx[i] \in Octet
  BY Sizes DEF ReadHeader, PollInv, Shape
<1>2. seq' = seq /\ UNCHANGED <<line, troubles>> /\ rx' = SubSeq(rx, Header + 1, Len(rx))
  BY DEF ReadHeader
<1> DEFINE h == SubSeq(rx, 1, Header)
<1>3. /\ h \in Seq(Octet) /\ Len(h) = Header
      /\ \A i \in 1..Header : h[i] = rx[i] /\ i \in 1..Len(rx)
  BY <1>1
<1> HIDE DEF h
<1>4. (pc' = "body" /\ header' = h) \/ (pc' = "rest" /\ header' = <<>>)
  BY DEF ReadHeader, Abandon, h
<1>5. header' \in Seq(Octet) /\ HeaderInv'
  <2>1. CASE header' = <<>>
    BY <2>1 DEF HeaderInv
  <2>2. CASE header' = h
    <3>1. ASSUME NEW i \in 1..Len(header') PROVE Marked(header[i])'
      <4>1. PICK b : b = rx[i] /\ b = header'[i]
        BY <1>3, <2>2
      <4>2. i \in 1..Len(rx)
        BY <1>3, <2>2
      <4>3. b = Junk \/ Marked(b)
        BY <4>1, <4>2 DEF PollInv, BacklogInv, Waiting
      <4>4. Marked(b)'
        BY <1>2, <4>3, SameQuestion DEF Marked, Junk
      <4>5. QED
        BY <4>1, <4>4
    <3>2. QED
      BY <1>3, <2>2, <3>1 DEF HeaderInv
  <2>3. QED
    BY <1>4, <2>1, <2>2
<1>6. Control
  <2>1. pc' = "body" => Len(header') = Header
    BY <1>3, <1>4
  <2>2. QED
    BY <1>2, <1>4, <2>1 DEF Control, ReadHeader, PollInv, Shape
<1>7. Spent = Spent' + 1
  <2>1. Unread = 1 /\ Unread' = 0 /\ troubles' = troubles /\ troubles \in Nat
    BY <1>4, SpentNumber DEF ReadHeader, Unread, PollInv
  <2>2. Spent = troubles + 1 /\ Spent' = troubles + 0
    BY <2>1 DEF Spent
  <2>3. QED
    BY <2>1, <2>2
<1>8. QED
  BY <1>1, <1>2, <1>5, <1>6, <1>7, ReadStep

LEMMA ReadBodyStep == PollInv /\ ReadBody => PollInv'
<1> SUFFICES ASSUME PollInv, ReadBody PROVE PollInv'
  OBVIOUS
<1>1. PICK n \in Lengths(header) :
        /\ Len(rx) >= n
        /\ rx' = SubSeq(rx, n + 1, Len(rx))
        /\ Accept(n) \/ Reject(n)
  BY DEF ReadBody
<1>2. n \in Nat /\ Len(rx) \in Nat /\ n <= Len(rx)
  <2>1. n \in Nat /\ Len(rx) \in Nat
    BY LengthIsNumber DEF ReadBody, PollInv, Shape
  <2>2. QED
    BY <1>1, <2>1
<1>3. seq' = seq /\ UNCHANGED <<line, troubles>> /\ pc = "body"
  BY DEF ReadBody
<1>4. header' = <<>> /\ pc' \in {"rest", "send"}
  BY <1>1 DEF Accept, Reject, Abandon
<1>5. step' \in DOMAIN Cycle
  <2>1. step \in DOMAIN Cycle
    BY DEF PollInv, Shape
  <2>2. step # Len(Cycle) => step + 1 \in DOMAIN Cycle
    BY <2>1, Questions
  <2>3. step' = step \/ (step # Len(Cycle) /\ step' = step + 1)
    BY <1>1 DEF Accept, Reject
  <2>4. QED
    BY <2>1, <2>2, <2>3
<1>6. Control
  BY <1>3, <1>4, <1>5 DEF Control, PollInv, Shape
<1>7. Spent' = Spent
  BY <1>3, <1>4 DEF Spent, Unread
<1>8. header' \in Seq(Octet) /\ HeaderInv'
  BY <1>4 DEF HeaderInv
<1>9. QED
  BY <1>1, <1>2, <1>3, <1>6, <1>7, <1>8, ReadStep

LEMMA TimeoutStep == PollInv /\ Timeout => PollInv'
<1> SUFFICES ASSUME PollInv, Timeout PROVE PollInv'
  OBVIOUS
<1>1. Control
  BY DEF Timeout, Control, PollInv, Shape
<1>2. Spent <= Spent' /\ troubles <= troubles'
  <2>1. troubles \in Nat /\ troubles' = troubles
    BY SpentNumber DEF PollInv, Timeout
  <2>2. (Spent = troubles + 1 \/ Spent = troubles + 0) /\ Spent' = troubles + 1
    BY DEF Timeout, Spent, Unread
  <2>3. QED
    BY <2>1, <2>2
<1>3. QED
  BY <1>1, <1>2, Questions, QuietStep DEF Timeout

LEMMA RecoverStep == PollInv /\ Recover => PollInv'
<1> SUFFICES ASSUME PollInv, Recover PROVE PollInv'
  OBVIOUS
<1>1. Shape /\ LineInv /\ HeaderInv /\ seq' = seq /\ line' = line /\ header' = header /\ rx' = <<>>
  BY DEF PollInv, Recover
<1>2. troubles \in Nat /\ troubles <= troubles' /\ troubles' \in Nat
  BY <1>1, SpentNumber DEF Recover
<1>3. line' \in Seq(Octet) /\ LineInv' /\ header' \in Seq(Octet) /\ HeaderInv'
  BY <1>1, <1>2, LineShrinks, HeaderKept
<1>4. Control
  BY DEF Recover, Control, PollInv, Shape
<1>5. rx' \in Seq(Octet) /\ Len(rx') <= BufferSize /\ BacklogInv'
  BY <1>1, Sizes DEF BacklogInv
<1>6. QED
  BY <1>3, <1>4, <1>5 DEF Control, PollInv, Shape

LEMMA RecoverFailsStep == PollInv /\ RecoverFails => PollInv'
<1> SUFFICES ASSUME PollInv, RecoverFails PROVE PollInv'
  OBVIOUS
<1>1. troubles \in Nat /\ troubles' = troubles + 1 /\ troubles' \in 0..MaxTroubles
  BY SpentNumber, Sizes DEF RecoverFails, Trouble, PollInv, Shape
<1>2. Control
  BY <1>1 DEF RecoverFails, Abandon, Control, PollInv, Shape
<1>3. Spent <= Spent' /\ troubles <= troubles'
  <2>1. Spent = troubles + 1 /\ Spent' = troubles' + 0
    BY DEF RecoverFails, Abandon, Spent, Unread
  <2>2. QED
    BY <1>1, <2>1
<1>4. QED
  BY <1>2, <1>3, Questions, QuietStep DEF RecoverFails, Abandon


\* The poller's control does not move.
LEMMA ControlStays ==
  ASSUME PollInv, UNCHANGED pollVars, troubles' \in 0..MaxTroubles, troubles <= troubles'
  PROVE  /\ Control /\ Spent <= Spent'
         /\ seq' = seq /\ header' = header
<1>1. pc' = pc /\ step' = step /\ seq' = seq /\ header' = header
  BY DEF pollVars
<1>2. Control
  BY <1>1 DEF Control, PollInv, Shape
<1>3. Unread \in Nat /\ Unread' = Unread
  BY <1>1 DEF Unread
<1>4. troubles \in Nat /\ troubles' \in Nat
  BY <1>2, SpentNumber, NextSpent DEF PollInv
<1>5. \A x, y, z \in Nat : x <= y => x + z <= y + z
  OBVIOUS
<1>6. Spent <= Spent'
  <2>1. Spent = troubles + Unread /\ Spent' = troubles' + Unread
    BY <1>3 DEF Spent
  <2>2. QED
    BY <1>3, <1>4, <1>5, <2>1, Zenon
<1>7. QED
  BY <1>1, <1>2, <1>6

\* A number is not above itself, nor above the next one.
LEMMA TroublesGrow ==
  ASSUME PollInv, UNCHANGED troubles \/ Trouble
  PROVE  troubles' \in 0..MaxTroubles /\ troubles <= troubles'
  BY Sizes DEF PollInv, Shape, Trouble

LEMMA DeliverStep == PollInv /\ Deliver => PollInv'
<1> SUFFICES ASSUME PollInv, Deliver PROVE PollInv'
  OBVIOUS
<1>1. Control /\ Spent <= Spent' /\ seq' = seq /\ header' = header /\ troubles <= troubles'
  BY ControlStays, TroublesGrow DEF Deliver
<1>2. PICK b : b = Head(line)
  OBVIOUS
<1>3. b \in Octet /\ InFlight(b)
  <2>1. line \in Seq(Octet) /\ line # <<>>
    BY DEF Deliver, PollInv, Shape
  <2>2. 1 \in 1..Len(line) /\ line[1] \in Octet /\ b = line[1]
    BY <1>2, <2>1
  <2>3. QED
    BY <2>2 DEF PollInv, LineInv
<1>4. rx' = Buffered(b) /\ line # <<>> /\ line' = Tail(line)
  BY <1>2 DEF Deliver
<1>5. QED
  BY <1>1, <1>3, <1>4, QuietStep

LEMMA DisturbStep == PollInv /\ Disturb => PollInv'
<1> SUFFICES ASSUME PollInv, Disturb PROVE PollInv'
  OBVIOUS
<1>1. Control /\ Spent <= Spent' /\ seq' = seq /\ header' = header /\ troubles <= troubles'
  BY ControlStays, TroublesGrow DEF Disturb
<1>2. /\ rx' = rx \/ rx' = Buffered(Junk)
      /\ line' = line \/ (line # <<>> /\ line' = Tail(line))
  BY DEF Disturb
<1>3. QED
  BY <1>1, <1>2, Questions, QuietStep

LEMMA CellChangesStep == PollInv /\ CellChanges => PollInv'
<1> SUFFICES ASSUME PollInv, CellChanges PROVE PollInv'
  OBVIOUS
<1>1. Control /\ Spent <= Spent' /\ seq' = seq /\ header' = header /\ troubles <= troubles'
  BY ControlStays, TroublesGrow DEF CellChanges
<1>2. rx' = rx /\ (line' = line \/ line' = <<>>)
  BY DEF CellChanges
<1>3. QED
  BY <1>1, <1>2, Questions, QuietStep

LEMMA RestStep == PollInv /\ (Age \/ UNCHANGED vars) => PollInv'
<1> SUFFICES ASSUME PollInv, Age \/ UNCHANGED vars PROVE PollInv'
  OBVIOUS
<1>1. UNCHANGED pollVars /\ UNCHANGED troubles /\ rx' = rx /\ line' = line
  BY DEF Age, vars
<1>2. Control /\ Spent <= Spent' /\ seq' = seq /\ header' = header /\ troubles <= troubles'
  BY <1>1, ControlStays, TroublesGrow
<1>3. QED
  BY <1>1, <1>2, Questions, QuietStep

(***************************************************************************)
(* What waits in the buffer is younger than the range of the sequence      *)
(* number, and marked as current exactly if its number is the one now      *)
(* expected.                                                               *)
(***************************************************************************)
THEOREM StaleBytesAreTold == Spec => []PollInv
<1>1. PollInv /\ [Next]_vars => PollInv'
  <2> SUFFICES ASSUME PollInv, [Next]_vars PROVE PollInv'
    OBVIOUS
  <2>1. CASE Begin
    BY <2>1, BeginStep
  <2>2. CASE Ask
    BY <2>2, AskStep
  <2>3. CASE AskFails
    BY <2>3, AskFailsStep
  <2>4. CASE ReadHeader
    BY <2>4, ReadHeaderStep
  <2>5. CASE ReadBody
    BY <2>5, ReadBodyStep
  <2>6. CASE Timeout
    BY <2>6, TimeoutStep
  <2>7. CASE Recover
    BY <2>7, RecoverStep
  <2>8. CASE RecoverFails
    BY <2>8, RecoverFailsStep
  <2>9. CASE Deliver
    BY <2>9, DeliverStep
  <2>10. CASE Disturb
    BY <2>10, DisturbStep
  <2>11. CASE CellChanges
    BY <2>11, CellChangesStep
  <2>12. CASE Age \/ UNCHANGED vars
    BY <2>12, RestStep
  <2>13. QED
    BY <2>1, <2>2, <2>3, <2>4, <2>5, <2>6, <2>7, <2>8, <2>9, <2>10, <2>11, <2>12
       DEF Next, Poller
<1>2. QED
  BY <1>1, PollInit, PTL DEF Spec

-----------------------------------------------------------------------------
\* A frame of the expected number is the current one.
LEMMA ExpectedIsCurrent ==
  ASSUME Shape, HeaderInv, pc = "body", NEW n \in Nat, Expected(Frame(n))
  PROVE  header[1].own
<1>1. header \in Seq(Octet) /\ Len(header) = Header /\ Header \in Nat /\ Header >= 1
  BY Sizes DEF Shape
<1>2. 1 \in 1..Len(header) /\ header[1] \in Octet
  BY <1>1
<1>3. Frame(n)[1] = header[1]
  <2>1. rx \in Seq(Octet) /\ Len(rx) \in Nat
    BY DEF Shape
  <2> DEFINE s == SubSeq(rx, 1, n)
  <2>2. DOMAIN s = 1..n /\ Len(s) = n
    BY <2>1
  <2> HIDE DEF s
  <2>3. (header \o s)[1] = header[1]
    BY <1>1, <2>2
  <2>4. QED
    BY <2>3 DEF Frame, s
<1>4. header[1] # Junk /\ header[1].seq = Asked
  BY <1>3 DEF Expected, Decodes
<1>5. Asked \in 0..(SeqWord - 1)
  BY Numbers DEF Asked, Shape
<1>6. Gone(header[1]) = 0
  <2>1. \A a \in 0..(SeqWord - 1) : (a - a) % SeqWord = 0
    BY Numbers
  <2>2. QED
    BY <1>4, <1>5, <2>1 DEF Gone
<1>7. QED
  BY <1>2, <1>4, <1>6 DEF HeaderInv, Marked

(* Only the answer to the question just asked is accepted, never one left   *)
(* over from an earlier question, whatever the line did and although stale  *)
(* answers may pile up.                                                     *)
THEOREM AnswersAreCurrent == Spec => OnlyCurrentAnswers
<1> DEFINE Accepts == pc = "body" /\ (pc' = "send" \/ (pc' = "rest" /\ connection' = "CONNECTED"))
<1>1. PollInv /\ [Next]_vars => [Accepts => header[1].own]_vars
  <2> SUFFICES ASSUME PollInv, Next, Accepts PROVE header[1].own
    OBVIOUS
  <2>1. pc = "body" /\ pc' \in {"send", "rest"} /\ (pc' = "rest" => connection' = "CONNECTED")
    OBVIOUS
  <2>2. ReadBody
    <3>1. ~Begin /\ ~Ask /\ ~AskFails /\ ~ReadHeader /\ ~Recover /\ ~RecoverFails
      BY <2>1 DEF Begin, Ask, AskFails, ReadHeader, Recover, RecoverFails
    <3>2. ~Timeout
      BY <2>1 DEF Timeout
    <3>3. ~Deliver /\ ~Disturb /\ ~CellChanges /\ ~Age
      BY <2>1 DEF Deliver, Disturb, CellChanges, Age, pollVars
    <3>4. QED
      BY <3>1, <3>2, <3>3 DEF Next, Poller
  <2>3. PICK n \in Lengths(header) : Accept(n) \/ Reject(n)
    BY <2>2 DEF ReadBody
  <2>4. n \in Nat
    BY <2>1, LengthIsNumber DEF PollInv
  <2>5. ~Reject(n)
    BY <2>1 DEF Reject, Abandon, RecordFailure
  <2>6. Expected(Frame(n))
    BY <2>3, <2>5 DEF Accept
  <2>7. QED
    BY <2>1, <2>4, <2>6, ExpectedIsCurrent DEF PollInv
<1>2. QED
  BY <1>1, StaleBytesAreTold, PTL DEF Spec, OnlyCurrentAnswers
=============================================================================
