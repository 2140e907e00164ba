---------------------------- MODULE ProtocolProofs ----------------------------
(***************************************************************************)
(* Two parts of protocol/ that meet in every frame.  The checksum: one     *)
(* turn of the shift register of Crc8 is linear and, when the polynomial   *)
(* ends in 1, can be undone; what a flipped bit adds to the checksum does  *)
(* not depend on the frame, and no turn makes it disappear.  The answers:  *)
(* the request slots of Responder keep the promise of Mailboxes.           *)
(***************************************************************************)
EXTENDS Crc8, Responder, FiniteSetTheorems, WellFoundedInduction, TLAPS

(* A shift moves every bit by one place.                                    *)
LEMMA ShiftedXor ==
  ASSUME NEW a \in SUBSET Positions, NEW b \in SUBSET Positions
  PROVE  Shifted(Xor(a, b)) = Xor(Shifted(a), Shifted(b))
<1>1. ASSUME NEW n PROVE n \in Shifted(Xor(a, b)) <=> n \in Xor(Shifted(a), Shifted(b))
  <2>1. \A i, j \in Positions : i + 1 = j + 1 => i = j
    BY Crc8Assumption DEF Positions
  <2> QED
    BY <2>1 DEF Shifted, Xor
<1> QED
  BY <1>1

(* A turn of crc8_compute()'s inner loop distributes over exclusive or:     *)
(* what damage adds to the register does not depend on what it damages.     *)
THEOREM ShiftBitAdds ==
  ASSUME NEW a \in SUBSET Positions, NEW b \in SUBSET Positions
  PROVE  ShiftBit(Xor(a, b)) = Xor(ShiftBit(a), ShiftBit(b))
<1>1. Width - 1 \in Xor(a, b) <=> ~(Width - 1 \in a <=> Width - 1 \in b)
  BY DEF Xor
<1>2. Shifted(Xor(a, b)) = Xor(Shifted(a), Shifted(b))
  BY ShiftedXor
<1>3. CASE Width - 1 \in a /\ Width - 1 \in b
  <2>1. Xor(Xor(Shifted(a), Polynomial), Xor(Shifted(b), Polynomial)) = Xor(Shifted(a), Shifted(b))
    BY DEF Xor
  <2> QED
    BY <1>1, <1>2, <1>3, <2>1 DEF ShiftBit
<1>4. CASE Width - 1 \in a /\ Width - 1 \notin b
  <2>1. Xor(Xor(Shifted(a), Shifted(b)), Polynomial) = Xor(Xor(Shifted(a), Polynomial), Shifted(b))
    BY DEF Xor
  <2> QED
    BY <1>1, <1>2, <1>4, <2>1 DEF ShiftBit
<1>5. CASE Width - 1 \notin a /\ Width - 1 \in b
  <2>1. Xor(Xor(Shifted(a), Shifted(b)), Polynomial) = Xor(Shifted(a), Xor(Shifted(b), Polynomial))
    BY DEF Xor
  <2> QED
    BY <1>1, <1>2, <1>5, <2>1 DEF ShiftBit
<1>6. CASE Width - 1 \notin a /\ Width - 1 \notin b
  BY <1>1, <1>2, <1>6 DEF ShiftBit
<1> QED
  BY <1>3, <1>4, <1>5, <1>6

(* A difference in the register does not disappear in a turn: turn by turn, *)
(* damage confined to one byte of the data reaches the checksum.            *)
THEOREM DifferencesStay ==
  ASSUME 0 \in Polynomial, NEW c \in SUBSET Positions, c # {}
  PROVE  ShiftBit(c) # {}
<1>1. CASE Width - 1 \in c
  <2>1. 0 \notin Shifted(c)
    BY DEF Shifted, Positions
  <2>2. 0 \in Xor(Shifted(c), Polynomial)
    BY <2>1 DEF Xor
  <2> QED
    BY <1>1, <2>2 DEF ShiftBit
<1>2. CASE Width - 1 \notin c
  <2>1. PICK i \in c : i \in Positions
    OBVIOUS
  <2>2. i + 1 # Width
    BY <1>2, <2>1, Crc8Assumption DEF Positions
  <2>3. i + 1 \in Shifted(c)
    BY <2>1, <2>2 DEF Shifted
  <2> QED
    BY <1>2, <2>3 DEF ShiftBit
<1> QED
  BY <1>1, <1>2

-----------------------------------------------------------------------------
\* What the slots hold and where the task is.
SlotInv ==
  /\ reply \in {None} \cup [kind : ReplyKind, sequence : SeqNo]
  /\ request \in [Status -> {None} \cup Answer]
  /\ pc \in {"idle", "drain", "answer", "blocked"}
  /\ slot \in Nat

\* The slots as one function, the shared one and those of the status requests.
Box == [s \in {"reply"} \cup Status |-> IF s = "reply" THEN reply ELSE request[s]]

LEMMA BoxCases ==
  /\ Box["reply"] = reply /\ Box'["reply"] = reply'
  /\ \A k \in Status : k # "reply" /\ Box[k] = request[k] /\ Box'[k] = request'[k]
  BY ResponderAssumption DEF Box

\* Changing one slot changes one place of the function.
LEMMA ReplyMoves ==
  ASSUME NEW a, reply' = a, request' = request
  PROVE  Box' = [Box EXCEPT !["reply"] = a]
  BY DEF Box

LEMMA RequestMoves ==
  ASSUME SlotInv, NEW k \in Status, NEW a, reply' = reply, request' = [request EXCEPT ![k] = a]
  PROVE  Box' = [Box EXCEPT ![k] = a]
<1>1. k # "reply"
  BY BoxCases
<1>2. \A s \in Status : request'[s] = IF s = k THEN a ELSE request[s]
  BY DEF SlotInv
<1>3. QED
  BY <1>1, <1>2 DEF Box

LEMMA BoxRests ==
  ASSUME reply' = reply, request' = request
  PROVE  Box' = Box
  BY DEF Box

\* A frame without a slot of its own is answered through the shared one.
LEMMA ReplyIsAnswer ==
  ASSUME NEW f \in Request, ~OwnSlot(f)
  PROVE  ReplyTo(f) \in [kind : ReplyKind, sequence : SeqNo]
  BY DEF Request, OwnSlot, ReplyTo, ReplyKind


-----------------------------------------------------------------------------
LEMMA InitSlots == Init => SlotInv
  BY DEF Init, SlotInv

LEMMA FrameKeepsSlots ==
  ASSUME SlotInv, NEW f \in Request, Drain(f)
  PROVE  SlotInv'
<1>1. CASE OwnSlot(f) /\ PostStatus(f)
  <2>1. [kind |-> f.type, sequence |-> f.sequence] \in Answer
    BY <1>1 DEF PostStatus, Answer, Request
  <2>2. request' \in [Status -> {None} \cup Answer]
    BY <1>1, <2>1 DEF PostStatus, SlotInv
  <2>3. QED
    BY <1>1, <2>2 DEF PostStatus, Drain, SlotInv
<1>2. CASE OwnSlot(f) /\ PostBlock(f)
  BY <1>2 DEF PostBlock, Drain, SlotInv
<1>3. CASE ~OwnSlot(f)
  <2>1. reply' \in {None} \cup [kind : ReplyKind, sequence : SeqNo]
    BY <1>3, ReplyIsAnswer DEF Drain, HandleFrame, PostReply, SlotInv
  <2>2. QED
    BY <1>3, <2>1 DEF Drain, HandleFrame, PostReply, SlotInv
<1>4. QED
  BY <1>1, <1>2, <1>3 DEF Drain, HandleFrame

LEMMA StepKeepsSlots == SlotInv /\ [Next]_vars => SlotInv'
<1> SUFFICES ASSUME SlotInv, [Next]_vars PROVE SlotInv'
  OBVIOUS
<1>1. CASE TaskStarts
  BY <1>1 DEF TaskStarts, slotVars, SlotInv
<1>2. CASE Drained
  BY <1>2 DEF Drained, slotVars, SlotInv
<1>3. CASE TryReply
  BY <1>3 DEF TryReply, Skip, SlotInv
<1>4. CASE TryStatus
  <2>1. request' \in [Status -> {None} \cup Answer]
    BY <1>4 DEF TryStatus, Skip, SlotInv
  <2>2. reply' = reply /\ pc' = pc /\ slot' = slot + 1
    BY <1>4 DEF TryStatus, Skip
  <2>3. QED
    BY <2>1, <2>2 DEF SlotInv
<1>5. CASE TaskReturns
  BY <1>5 DEF TaskReturns, slotVars, SlotInv
<1>6. CASE Transmit
  BY <1>6 DEF Transmit, slotVars, SlotInv
<1>7. CASE UNCHANGED vars
  BY <1>7 DEF vars, slotVars, SlotInv
<1>8. CASE \E f \in Request : Drain(f)
  BY <1>8, FrameKeepsSlots
<1>9. QED
  BY <1>1, <1>2, <1>3, <1>4, <1>5, <1>6, <1>7, <1>8 DEF Next, Task

THEOREM SlotsAreFilledRight == Spec => []SlotInv
  BY InitSlots, StepKeepsSlots, PTL DEF Spec

-----------------------------------------------------------------------------

\* protocol_handle_frame() fills an empty slot or drops the frame.
LEMMA FrameIsPosted ==
  ASSUME SlotInv, NEW f \in Request, Drain(f)
  PROVE  [Boxes!Next]_<<Box, tx, pc = "blocked">>
<1>1. pc = "drain" /\ pc' = pc /\ tx' = tx
  BY DEF Drain, txVars
<1>2. CASE OwnSlot(f) /\ PostStatus(f) /\ request[f.type] = None
  <2>1. [kind |-> f.type, sequence |-> f.sequence] \in Answer
    BY <1>2 DEF PostStatus, Answer, Request
  <2>2. Box' = [Box EXCEPT ![f.type] = [kind |-> f.type, sequence |-> f.sequence]]
    BY <1>2, RequestMoves DEF PostStatus
  <2>3. Box[f.type] = None /\ f.type \in Status
    BY <1>2, BoxCases DEF PostStatus
  <2>4. Boxes!Post(f.type, [kind |-> f.type, sequence |-> f.sequence])
    BY <1>1, <2>2, <2>3 DEF Boxes!Post, Box
  <2>5. QED
    BY <2>1, <2>3, <2>4 DEF Boxes!Next
<1>3. CASE OwnSlot(f) /\ PostStatus(f) /\ request[f.type] # None
  BY <1>1, <1>3, BoxRests DEF PostStatus
<1>4. CASE OwnSlot(f) /\ PostBlock(f)
  BY <1>1, <1>4, BoxRests DEF PostBlock
<1>5. CASE ~OwnSlot(f) /\ reply = None
  <2>1. ReplyTo(f) \in Answer
    BY <1>5, ReplyIsAnswer DEF Answer
  <2>2. Box' = [Box EXCEPT !["reply"] = ReplyTo(f)]
    BY <1>5, ReplyMoves DEF Drain, HandleFrame, PostReply
  <2>3. Boxes!Post("reply", ReplyTo(f))
    BY <1>1, <1>5, <2>2, BoxCases DEF Boxes!Post, Box
  <2>4. QED
    BY <2>1, <2>3 DEF Boxes!Next
<1>6. CASE ~OwnSlot(f) /\ reply # None
  BY <1>1, <1>6, BoxRests DEF Drain, HandleFrame, PostReply
<1>7. QED
  BY <1>2, <1>3, <1>4, <1>5, <1>6 DEF Drain, HandleFrame

\* communication_task() sends the answer of a slot and empties it.
LEMMA AnswerIsGiven ==
  ASSUME SlotInv, TryReply \/ TryStatus
  PROVE  [Boxes!Next]_<<Box, tx, pc = "blocked">>
<1>1. pc = "answer" /\ pc' = pc
  BY DEF TryReply, TryStatus
<1>2. CASE TryReply /\ reply # None /\ Fits(reply)
  <2>1. Box' = [Box EXCEPT !["reply"] = None]
    BY <1>2, ReplyMoves DEF TryReply
  <2>2. Boxes!Give("reply")
    BY <1>1, <1>2, <2>1, BoxCases DEF TryReply, Send, Boxes!Give, Box
  <2>3. QED
    BY <2>2 DEF Boxes!Next
<1>3. CASE TryStatus /\ Owed # None /\ Fits(Owed)
  <2>1. PICK k \in Status : k = Order[slot]
    BY <1>3 DEF TryStatus, Status
  <2>2. Box' = [Box EXCEPT ![k] = None]
    BY <1>3, <2>1, RequestMoves DEF TryStatus
  <2>3. Box[k] = Owed
    BY <2>1, BoxCases DEF Owed
  <2>4. Boxes!Give(k)
    BY <1>1, <1>3, <2>2, <2>3 DEF TryStatus, Send, Boxes!Give, Box
  <2>5. QED
    BY <2>4 DEF Boxes!Next
<1>4. CASE TryReply /\ ~(reply # None /\ Fits(reply))
  BY <1>1, <1>4, BoxRests DEF TryReply, Skip, txVars
<1>5. CASE TryStatus /\ ~(Owed # None /\ Fits(Owed))
  BY <1>1, <1>5, BoxRests DEF TryStatus, Skip, txVars
<1>6. QED
  BY <1>2, <1>3, <1>4, <1>5

LEMMA StepIsMail ==
  ASSUME SlotInv, [Next]_vars
  PROVE  [Boxes!Next]_<<Box, tx, pc = "blocked">>
<1>1. CASE TaskStarts \/ TaskReturns
  BY <1>1, BoxRests DEF TaskStarts, TaskReturns, slotVars, txVars
<1>2. CASE Drained
  <2>1. Box' = Box /\ tx' = tx /\ pc = "drain"
    BY <1>2, BoxRests DEF Drained, slotVars, txVars
  <2>2. CASE block
    BY <1>2, <2>1, <2>2 DEF Drained, Boxes!Next, Boxes!Block, Box
  <2>3. CASE ~block
    BY <1>2, <2>1, <2>3 DEF Drained
  <2>4. QED
    BY <2>2, <2>3
<1>3. CASE Transmit
  <2>1. Box' = Box /\ pc' = pc
    BY <1>3, BoxRests DEF Transmit, slotVars
  <2>2. CASE gone + 1 = Size[Head(tx).kind]
    BY <1>3, <2>1, <2>2 DEF Transmit, Boxes!Next, Boxes!Leave, Box
  <2>3. CASE gone + 1 # Size[Head(tx).kind]
    BY <1>3, <2>1, <2>3 DEF Transmit
  <2>4. QED
    BY <2>2, <2>3
<1>4. CASE UNCHANGED vars
  BY <1>4, BoxRests DEF vars, slotVars, txVars
<1>5. QED
  BY <1>1, <1>2, <1>3, <1>4, FrameIsPosted, AnswerIsGiven DEF Next, Task

(* Every request protocol_handle_frame() accepts is answered once, whole    *)
(* and with its own sequence number, in spite of retries while the transmit *)
(* ring is full; none is answered once the cell blocks.                     *)
THEOREM EachIsAnsweredOnce == Spec => AnsweredOnce
<1>1. Init => Boxes!Init
  BY DEF Init, Boxes!Init
<1>2. SlotInv /\ [Next]_vars => [Boxes!Next]_<<Box, tx, pc = "blocked">>
  BY StepIsMail
<1>3. QED
  BY <1>1, <1>2, SlotsAreFilledRight, PTL DEF Spec, AnsweredOnce, Boxes!Spec, Box


-----------------------------------------------------------------------------
(***************************************************************************)
(* How much of the ring is taken.  A running sum of the frames exists and  *)
(* is unique, so the length of the frames together can be reasoned about.  *)
(***************************************************************************)
RunningSum(f, frames) ==
  /\ f \in [0..Len(frames) -> Int]
  /\ f[0] = 0
  /\ \A n \in 1..Len(frames) : f[n] = f[n - 1] + Size[frames[n].kind]

\* Every set of numbers has a least one.
LEMMA LeastNumber ==
  ASSUME NEW S \in SUBSET Nat, S # {}
  PROVE  \E m \in S : \A n \in S : m <= n
<1> DEFINE Less == {ss \in Nat \X Nat : ss[1] < ss[2]}
<1>1. IsWellFoundedOn(Less, Nat)
  BY NatLessThanWellFounded DEF OpToRel
<1> HIDE DEF Less
<1>2. PICK m \in S : \A n \in S : <<n, m>> \notin Less
  BY <1>1, WFMin
<1>3. ASSUME NEW n \in S PROVE m <= n
  <2>1. m \in Nat /\ n \in Nat /\ <<n, m>> \in Nat \X Nat
    OBVIOUS
  <2>2. ~(<<n, m>>[1] < <<n, m>>[2])
    BY <1>2, <2>1 DEF Less
  <2>3. QED
    BY <2>1, <2>2
<1>4. QED
  BY <1>3

\* The length of the frames together is where their running sum ends.
LEMMA BytesEndTheSum ==
  ASSUME NEW frames \in Seq(Answer), NEW f, RunningSum(f, frames)
  PROVE  Bytes(frames) = f[Len(frames)]
<1> DEFINE Sums(g) == g = [n \in 0..Len(frames) |->
                             IF n = 0 THEN 0 ELSE g[n - 1] + Size[frames[n].kind]]
<1>1. Len(frames) \in Nat
  OBVIOUS
<1>2. Sums(f)
  BY <1>1 DEF RunningSum
<1>3. PICK g : Sums(g) /\ Bytes(frames) = g[Len(frames)]
  BY <1>2 DEF Bytes
<1>4. ASSUME NEW n \in 0..Len(frames) PROVE g[n] = f[n]
  <2> DEFINE Wrong == {i \in 0..Len(frames) : g[i] # f[i]}
  <2> SUFFICES ASSUME Wrong # {} PROVE FALSE
    OBVIOUS
  <2>1. Wrong \in SUBSET Nat
    BY <1>1
  <2>2. PICK m \in Wrong : \A i \in Wrong : m <= i
    BY <2>1, LeastNumber
  <2>3. m \in 0..Len(frames) /\ g[m] # f[m]
    OBVIOUS
  <2>4. CASE m = 0
    BY <1>1, <1>3, <2>3, <2>4 DEF RunningSum
  <2>5. CASE m # 0
    <3>1. m \in 1..Len(frames) /\ m - 1 \in 0..Len(frames) /\ ~(m <= m - 1)
      BY <1>1, <2>3, <2>5
    <3>2. g[m - 1] = f[m - 1]
      BY <2>2, <3>1
    <3>3. g[m] = g[m - 1] + Size[frames[m].kind]
      BY <1>3, <2>3, <2>5
    <3>4. f[m] = f[m - 1] + Size[frames[m].kind]
      BY <3>1 DEF RunningSum
    <3>5. QED
      BY <2>3, <3>2, <3>3, <3>4
  <2>6. QED
    BY <2>4, <2>5
<1>5. QED
  BY <1>1, <1>3, <1>4


LEMMA SizeIsNat ==
  /\ \A a \in Answer : Size[a.kind] \in Nat /\ Size[a.kind] >= 1
  /\ TxCapacity \in Nat
  BY ResponderAssumption DEF Answer

\* A frame more ...
LEMMA SumOfAppended ==
  ASSUME NEW frames \in Seq(Answer), NEW a \in Answer, NEW f, RunningSum(f, frames)
  PROVE  \E h : RunningSum(h, Append(frames, a))
<1> DEFINE m == Len(frames)
           more == Append(frames, a)
           h == [n \in 0..(m + 1) |-> IF n = m + 1 THEN f[m] + Size[a.kind] ELSE f[n]]
<1>1. m \in Nat /\ Len(more) = m + 1 /\ more[m + 1] = a
  OBVIOUS
<1>2. \A n \in 1..m : more[n] = frames[n]
  OBVIOUS
<1>3. f[m] \in Int /\ Size[a.kind] \in Int
  BY <1>1, SizeIsNat DEF RunningSum
<1> HIDE DEF m, more
<1>4. h \in [0..(m + 1) -> Int]
  <2>1. ASSUME NEW n \in 0..(m + 1), n # m + 1 PROVE f[n] \in Int
    <3>1. n \in 0..m
      BY <1>1, <2>1
    <3>2. QED
      BY <3>1 DEF RunningSum, m
  <2>2. f[m] + Size[a.kind] \in Int
    BY <1>3
  <2>3. QED
    BY <2>1, <2>2
<1>5. h[0] = 0
  BY <1>1 DEF RunningSum
<1>6. ASSUME NEW n \in 1..(m + 1) PROVE h[n] = h[n - 1] + Size[more[n].kind]
  <2>1. n - 1 \in 0..m /\ n - 1 \in 0..(m + 1) /\ n - 1 # m + 1 /\ n \in 0..(m + 1)
    BY <1>1
  <2>2. h[n - 1] = f[n - 1]
    BY <2>1
  <2>3. CASE n = m + 1
    BY <1>1, <2>1, <2>2, <2>3
  <2>4. CASE n # m + 1
    <3>1. n \in 1..m
      BY <1>1, <2>4
    <3>2. h[n] = f[n]
      BY <2>1, <2>4
    <3>3. f[n] = f[n - 1] + Size[frames[n].kind]
      BY <3>1 DEF RunningSum, m
    <3>4. QED
      BY <1>2, <2>2, <3>1, <3>2, <3>3
  <2>5. QED
    BY <2>3, <2>4
<1>7. RunningSum(h, more)
  BY <1>1, <1>4, <1>5, <1>6 DEF RunningSum
<1>8. QED
  BY <1>7 DEF more

\* ... and the oldest gone.
LEMMA SumOfTail ==
  ASSUME NEW frames \in Seq(Answer), frames # <<>>, NEW f, RunningSum(f, frames)
  PROVE  \E h : RunningSum(h, Tail(frames))
<1> DEFINE m == Len(frames)
           rest == Tail(frames)
           h == [n \in 0..(m - 1) |-> f[n + 1] - f[1]]
<1>1. m \in Nat /\ m >= 1 /\ Len(rest) = m - 1
  OBVIOUS
<1>2. \A n \in 1..(m - 1) : rest[n] = frames[n + 1]
  OBVIOUS
<1> HIDE DEF m, rest
<1>3. ASSUME NEW n \in 0..(m - 1) PROVE f[n + 1] \in Int /\ f[1] \in Int
  <2>1. n + 1 \in 0..m /\ 1 \in 0..m
    BY <1>1
  <2>2. QED
    BY <2>1 DEF RunningSum, m
<1>4. h \in [0..(m - 1) -> Int]
  BY <1>3
<1>5. h[0] = 0
  <2>1. 0 \in 0..(m - 1) /\ 0 + 1 = 1
    BY <1>1
  <2>2. f[1] \in Int
    BY <1>3, <2>1
  <2>3. QED
    BY <2>1, <2>2
<1>6. ASSUME NEW n \in 1..(m - 1) PROVE h[n] = h[n - 1] + Size[rest[n].kind]
  <2>1. n \in 0..(m - 1) /\ n - 1 \in 0..(m - 1) /\ n + 1 \in 1..m /\ (n + 1) - 1 = n /\ (n - 1) + 1 = n
    BY <1>1
  <2>2. h[n] = f[n + 1] - f[1] /\ h[n - 1] = f[n] - f[1]
    BY <2>1
  <2>3. f[n + 1] = f[n] + Size[rest[n].kind]
    BY <1>2, <2>1 DEF RunningSum, m
  <2>4. f[n] \in Int /\ f[1] \in Int /\ f[n + 1] \in Int
    BY <1>3, <2>1
  <2>5. Size[rest[n].kind] \in Int
    <3>1. rest[n] \in Answer
      BY <1>2, <2>1 DEF m
    <3>2. QED
      BY <3>1, SizeIsNat
  <2>6. QED
    BY <2>2, <2>3, <2>4, <2>5
<1>7. RunningSum(h, rest)
  BY <1>1, <1>4, <1>5, <1>6 DEF RunningSum
<1>8. QED
  BY <1>7 DEF rest

\* Sums of what is bounded, with the products kept as they are.
LEMMA BoundsAdd ==
  ASSUME NEW x \in Int, NEW y \in Int, NEW n \in Nat, NEW most \in Nat, x <= y, n <= most
  PROVE  x + n <= y + most
  OBVIOUS

\* Frames of at most most bytes each.
LEMMA SumIsBounded ==
  ASSUME NEW frames \in Seq(Answer), NEW f, RunningSum(f, frames),
         NEW most \in Nat, \A a \in Answer : Size[a.kind] <= most
  PROVE  f[Len(frames)] <= Len(frames) * most
<1> DEFINE m == Len(frames)
           Wrong == {i \in 0..m : ~(f[i] <= i * most)}
<1>1. m \in Nat
  OBVIOUS
<1> SUFFICES ASSUME Wrong # {} PROVE FALSE
  BY <1>1
<1>2. Wrong \in SUBSET Nat
  BY <1>1
<1>3. PICK n \in Wrong : \A i \in Wrong : n <= i
  BY <1>2, LeastNumber
<1>4. n \in 0..m /\ ~(f[n] <= n * most)
  OBVIOUS
<1>5. CASE n = 0
  BY <1>4, <1>5 DEF RunningSum
<1>6. CASE n # 0
  <2>1. n \in 1..m /\ n - 1 \in 0..m /\ ~(n <= n - 1)
    BY <1>1, <1>4, <1>6
  <2>2. f[n - 1] <= (n - 1) * most
    BY <1>3, <2>1
  <2>3. f[n] = f[n - 1] + Size[frames[n].kind]
    BY <2>1 DEF RunningSum
  <2>4. frames[n] \in Answer
    BY <2>1
  <2>5. Size[frames[n].kind] \in Nat /\ Size[frames[n].kind] <= most
    BY <2>4, SizeIsNat
  <2>6. f[n - 1] \in Int
    BY <2>1 DEF RunningSum
  <2>7. (n - 1) * most + most = n * most /\ (n - 1) * most \in Int
    BY <2>1
  <2>8. f[n - 1] + Size[frames[n].kind] <= (n - 1) * most + most
    BY <2>2, <2>5, <2>6, <2>7, BoundsAdd
  <2>9. QED
    BY <1>4, <2>3, <2>7, <2>8
<1>7. QED
  BY <1>5, <1>6


-----------------------------------------------------------------------------
(***************************************************************************)
(* How many requests are open.  No request is counted twice on its way     *)
(* from its slot into the ring, so what the host may have outstanding      *)
(* bounds what the ring ever holds.                                        *)
(***************************************************************************)
Open == {k \in Status : request[k] # None}

RingInv ==
  /\ tx \in Seq(Answer) /\ gone \in Nat
  /\ \E f : RunningSum(f, tx)
  /\ window \in Windows
  /\ Outstanding <= window

LEMMA StatusIsFinite == IsFiniteSet(Status)
<1>1. Len(Order) \in Nat /\ DOMAIN Order = 1..Len(Order)
  BY ResponderAssumption
<1>2. IsFiniteSet(1..Len(Order))
  BY <1>1, FS_Interval
<1>3. Order \in Surjection(1..Len(Order), Status)
  BY <1>1, ResponderAssumption DEF Surjection, Status
<1>4. QED
  BY <1>2, <1>3, FS_Surjection

LEMMA OpenIsCounted ==
  /\ IsFiniteSet(Open) /\ Cardinality(Open) \in Nat
  /\ Outstanding = Len(tx) + Cardinality(Open) + (IF reply = None THEN 0 ELSE 1)
<1>1. Open \in SUBSET Status
  BY DEF Open
<1>2. IsFiniteSet(Open)
  BY <1>1, StatusIsFinite, FS_Subset
<1>3. Cardinality(Open) \in Nat
  BY <1>2, FS_CardinalityType
<1>4. QED
  BY <1>2, <1>3 DEF Outstanding, Open

LEMMA OpenIsCountedNext ==
  /\ IsFiniteSet(Open') /\ Cardinality(Open') \in Nat
  /\ Outstanding' = Len(tx') + Cardinality(Open') + (IF reply' = None THEN 0 ELSE 1)
<1>1. Open' \in SUBSET Status
  BY DEF Open
<1>2. IsFiniteSet(Open')
  BY <1>1, StatusIsFinite, FS_Subset
<1>3. Cardinality(Open') \in Nat
  BY <1>2, FS_CardinalityType
<1>4. QED
  BY <1>2, <1>3 DEF Outstanding, Open

LEMMA InitRing == Init => RingInv
<1> SUFFICES ASSUME Init PROVE RingInv
  OBVIOUS
<1>1. tx = <<>> /\ gone = 0 /\ reply = None /\ request = [k \in Status |-> None] /\ window \in Windows
  BY DEF Init
<1>2. Open = {}
  BY <1>1 DEF Open
<1>3. Outstanding = 0
  BY <1>1, <1>2, OpenIsCounted, FS_EmptySet
<1>4. RunningSum([n \in 0..0 |-> 0], <<>>)
  BY DEF RunningSum
<1>5. window \in Nat
  BY <1>1, ResponderAssumption
<1>6. QED
  BY <1>1, <1>3, <1>4, <1>5 DEF RingInv

\* The ring rests: only the number of open requests matters.
LEMMA RingRests ==
  ASSUME RingInv, UNCHANGED txVars, window' = window, Outstanding' <= window
  PROVE  RingInv'
  BY DEF RingInv, txVars

LEMMA CountRests ==
  ASSUME reply' = reply, request' = request, tx' = tx
  PROVE  Outstanding' = Outstanding
  BY DEF Outstanding

LEMMA FrameKeepsRing ==
  ASSUME SlotInv, RingInv, NEW f \in Request, Drain(f), window' = window
  PROVE  RingInv'
<1>1. Outstanding < window /\ UNCHANGED txVars /\ tx' = tx
  BY DEF Drain, txVars
<1>2. Len(tx) \in Nat /\ window \in Nat
  BY ResponderAssumption DEF RingInv
<1>3. CASE OwnSlot(f) /\ PostStatus(f)
  <2>1. reply' = reply /\ f.type \in Status
    BY <1>3 DEF PostStatus
  <2>2. Open' \in SUBSET (Open \cup {f.type})
    BY <1>3 DEF PostStatus, Open, SlotInv
  <2>3. /\ IsFiniteSet(Open \cup {f.type})
        /\ Cardinality(Open \cup {f.type}) <= Cardinality(Open) + 1
    <3>1. IsFiniteSet(Open)
      BY OpenIsCounted
    <3>2. /\ IsFiniteSet(Open \cup {f.type})
          /\ Cardinality(Open \cup {f.type}) =
                IF f.type \in Open THEN Cardinality(Open) ELSE Cardinality(Open) + 1
      BY <3>1, FS_AddElement
    <3>3. QED
      BY <3>2, OpenIsCounted
  <2>4. Cardinality(Open') <= Cardinality(Open \cup {f.type})
    BY <2>2, <2>3, FS_Subset
  <2>5. Cardinality(Open \cup {f.type}) \in Nat
    BY <2>3, FS_CardinalityType
  <2>6. Cardinality(Open') <= Cardinality(Open) + 1
    BY <2>3, <2>4, <2>5, OpenIsCounted, OpenIsCountedNext
  <2>7. Outstanding' <= Outstanding + 1
    BY <1>1, <1>2, <2>1, <2>6, OpenIsCounted, OpenIsCountedNext
  <2>8. Outstanding \in Nat /\ Outstanding' \in Nat
    BY <1>1, <1>2, OpenIsCounted, OpenIsCountedNext
  <2>9. Outstanding' <= window
    BY <1>1, <1>2, <2>7, <2>8
  <2>10. QED
    BY <1>1, <2>9, RingRests
<1>4. CASE OwnSlot(f) /\ PostBlock(f)
  <2>1. Outstanding' = Outstanding
    BY <1>1, <1>4, CountRests DEF PostBlock
  <2>2. QED
    BY <1>1, <2>1, RingRests DEF RingInv
<1>5. CASE ~OwnSlot(f)
  <2>1. request' = request
    BY <1>5 DEF Drain, HandleFrame, PostReply
  <2>2. Open' = Open
    BY <2>1 DEF Open
  <2>3. Outstanding' <= Outstanding + 1 /\ Outstanding \in Nat /\ Outstanding' \in Nat
    BY <1>1, <1>2, <2>2, OpenIsCounted, OpenIsCountedNext
  <2>4. Outstanding' <= window
    BY <1>1, <1>2, <2>3
  <2>5. QED
    BY <1>1, <2>4, RingRests
<1>6. QED
  BY <1>3, <1>4, <1>5 DEF Drain, HandleFrame


\* An answer moves from its slot into the ring.
LEMMA AnswerMoves ==
  ASSUME SlotInv, RingInv, NEW a \in Answer, Send(a), window' = window, Outstanding' = Outstanding
  PROVE  RingInv'
<1>1. tx' = Append(tx, a) /\ gone' = gone
  BY DEF Send
<1>2. tx' \in Seq(Answer)
  BY <1>1 DEF RingInv
<1>3. \E h : RunningSum(h, tx')
  BY <1>1, SumOfAppended DEF RingInv
<1>4. QED
  BY <1>1, <1>2, <1>3 DEF RingInv

LEMMA AnswerKeepsRing ==
  ASSUME SlotInv, RingInv, TryReply \/ TryStatus, window' = window
  PROVE  RingInv'
<1>1. Len(tx) \in Nat /\ window \in Nat /\ tx \in Seq(Answer)
  BY ResponderAssumption DEF RingInv
<1>2. CASE TryReply /\ reply # None /\ Fits(reply)
  <2>1. reply \in Answer
    BY <1>2 DEF SlotInv, Answer
  <2>2. Send(reply) /\ reply' = None /\ Open' = Open
    BY <1>2 DEF TryReply, Open
  <2>3. Len(tx') = Len(tx) + 1
    BY <1>1, <2>1, <2>2 DEF Send
  <2>4. Outstanding' = Outstanding
    BY <1>1, <1>2, <2>2, <2>3, OpenIsCounted, OpenIsCountedNext
  <2>5. QED
    BY <2>1, <2>2, <2>4, AnswerMoves
<1>3. CASE TryStatus /\ Owed # None /\ Fits(Owed)
  <2>1. PICK k \in Status : k = Order[slot]
    BY <1>3 DEF TryStatus, Status
  <2>2. PICK a : a = Owed /\ a = request[k] /\ a # None /\ Send(a)
    BY <1>3, <2>1 DEF TryStatus, Owed
  <2>3. a \in Answer
    BY <2>2 DEF SlotInv
  <2>4. request' = [request EXCEPT ![k] = None] /\ reply' = reply
    BY <1>3, <2>1 DEF TryStatus
  <2>5. Open' = Open \ {k} /\ k \in Open
    BY <2>2, <2>4 DEF Open, SlotInv
  <2>6. IsFiniteSet(Open)
    BY OpenIsCounted
  <2>7. Cardinality(Open \ {k}) = Cardinality(Open) - 1
    BY <2>5, <2>6, FS_RemoveElement
  <2>8. Cardinality(Open') = Cardinality(Open) - 1
    BY <2>5, <2>7
  <2>9. Len(tx') = Len(tx) + 1
    BY <1>1, <2>2, <2>3 DEF Send
  <2>10. Outstanding' = Outstanding
    BY <1>1, <2>4, <2>8, <2>9, OpenIsCounted, OpenIsCountedNext
  <2>11. QED
    BY <2>2, <2>3, <2>10, AnswerMoves
<1>4. CASE TryReply /\ ~(reply # None /\ Fits(reply))
  <2>1. reply' = reply /\ request' = request /\ UNCHANGED txVars
    BY <1>4 DEF TryReply, Skip
  <2>2. QED
    BY <2>1, CountRests, RingRests DEF RingInv, txVars
<1>5. CASE TryStatus /\ ~(Owed # None /\ Fits(Owed))
  <2>1. reply' = reply /\ request' = request /\ UNCHANGED txVars
    BY <1>5 DEF TryStatus, Skip
  <2>2. QED
    BY <2>1, CountRests, RingRests DEF RingInv, txVars
<1>6. QED
  BY <1>2, <1>3, <1>4, <1>5

LEMMA TransmitKeepsRing ==
  ASSUME SlotInv, RingInv, Transmit, window' = window
  PROVE  RingInv'
<1>1. tx \in Seq(Answer) /\ tx # <<>> /\ gone \in Nat /\ window \in Nat /\ Outstanding <= window
  BY ResponderAssumption DEF RingInv, Transmit
<1>2. reply' = reply /\ request' = request /\ Open' = Open
  BY DEF Transmit, slotVars, Open
<1>3. CASE gone + 1 = Size[Head(tx).kind]
  <2>1. tx' = Tail(tx) /\ gone' = 0
    BY <1>3 DEF Transmit
  <2>2. tx' \in Seq(Answer) /\ Len(tx') = Len(tx) - 1 /\ Len(tx) \in Nat /\ Len(tx') \in Nat
    BY <1>1, <2>1
  <2>3. \E h : RunningSum(h, tx')
    BY <1>1, <2>1, SumOfTail DEF RingInv
  <2>4. Outstanding' = Outstanding - 1 /\ Outstanding \in Int
    BY <1>2, <2>2, OpenIsCounted, OpenIsCountedNext
  <2>5. Outstanding' <= window
    BY <1>1, <2>4
  <2>6. QED
    BY <2>1, <2>2, <2>3, <2>5 DEF RingInv
<1>4. CASE gone + 1 # Size[Head(tx).kind]
  <2>1. tx' = tx /\ gone' = gone + 1
    BY <1>4 DEF Transmit
  <2>2. Outstanding' = Outstanding
    BY <1>2, <2>1, CountRests
  <2>3. QED
    BY <1>1, <2>1, <2>2 DEF RingInv
<1>5. QED
  BY <1>3, <1>4

LEMMA StepKeepsRing == SlotInv /\ RingInv /\ [Next]_vars => RingInv'
<1> SUFFICES ASSUME SlotInv, RingInv, [Next]_vars PROVE RingInv'
  OBVIOUS
<1>1. window' = window
  BY DEF Next, vars
<1>2. CASE TaskStarts \/ Drained \/ TaskReturns \/ UNCHANGED vars
  <2>1. reply' = reply /\ request' = request /\ UNCHANGED txVars
    BY <1>2 DEF TaskStarts, Drained, TaskReturns, vars, slotVars, txVars
  <2>2. QED
    BY <1>1, <2>1, CountRests, RingRests DEF RingInv, txVars
<1>3. QED
  BY <1>1, <1>2, FrameKeepsRing, AnswerKeepsRing, TransmitKeepsRing DEF Next, Task

\* The most a host of this window can fill the ring with.
LEMMA PoliteFits ==
  ASSUME RingInv, Polite, NEW a \in Answer, Len(tx) + 1 <= window
  PROVE  Fits(a)
<1>1. TxCapacity \in Nat /\ \A k \in ReplyKind \cup Status : Size[k] \in Nat /\ Size[k] <= TxCapacity
  BY ResponderAssumption
<1> DEFINE Bounds == {m \in Nat : \A k \in ReplyKind \cup Status : Size[k] <= m}
<1>2. TxCapacity \in Bounds /\ Bounds \in SUBSET Nat
  BY <1>1
<1>3. PICK most \in Bounds : \A m \in Bounds : most <= m
  BY <1>2, LeastNumber
<1>4. most \in Nat /\ \A k \in ReplyKind \cup Status : Size[k] <= most
  OBVIOUS
<1>5. \A b \in Answer : Size[b.kind] <= most
  BY <1>4 DEF Answer
<1>6. most >= 1
  BY <1>4, <1>5, SizeIsNat
<1>7. PICK k \in ReplyKind \cup Status : Size[k] = most
  <2>1. ~(most <= most - 1) /\ most - 1 \in Nat
    BY <1>4, <1>6
  <2>2. most - 1 \notin Bounds
    BY <1>3, <2>1
  <2>3. PICK k \in ReplyKind \cup Status : ~(Size[k] <= most - 1)
    BY <2>1, <2>2
  <2>4. Size[k] = most
    BY <1>1, <1>4, <2>3
  <2>5. QED
    BY <2>4
<1>8. window * most <= TxCapacity
  BY <1>7 DEF Polite, PoliteWindows
<1>9. PICK f : RunningSum(f, tx)
  BY DEF RingInv
<1>10. tx \in Seq(Answer) /\ Len(tx) \in Nat /\ gone \in Nat /\ window \in Nat
  BY ResponderAssumption DEF RingInv
<1>11. Used = f[Len(tx)] - gone
  BY <1>9, <1>10, BytesEndTheSum DEF Used
<1>12. f[Len(tx)] <= Len(tx) * most
  BY <1>4, <1>5, <1>9, <1>10, SumIsBounded
<1>13. f[Len(tx)] \in Int
  BY <1>9, <1>10 DEF RunningSum
<1>14. Len(tx) * most + most <= window * most /\ Len(tx) * most \in Int /\ window * most \in Int
  <2>1. ASSUME NEW n \in Nat, NEW w \in Nat, n + 1 <= w PROVE n * most + most <= w * most
    BY <1>4, <2>1
  <2>2. QED
    BY <1>4, <1>10, <2>1
<1>15. Size[a.kind] \in Nat /\ Size[a.kind] <= most
  BY <1>5, SizeIsNat
<1>16. Used + Size[a.kind] <= TxCapacity
  <2>1. f[Len(tx)] + Size[a.kind] <= Len(tx) * most + most
    BY <1>4, <1>12, <1>13, <1>14, <1>15, BoundsAdd
  <2>2. f[Len(tx)] + Size[a.kind] \in Int /\ Len(tx) * most + most \in Int
    BY <1>4, <1>13, <1>14, <1>15
  <2>3. f[Len(tx)] + Size[a.kind] <= TxCapacity
    <3>1. Len(tx) * most + most <= TxCapacity
      BY <1>1, <1>8, <1>14, <2>2
    <3>2. QED
      BY <1>1, <2>1, <2>2, <3>1
  <2>4. QED
    BY <1>1, <1>10, <1>11, <1>13, <1>15, <2>3
<1>17. QED
  BY <1>16 DEF Fits


-----------------------------------------------------------------------------
\* The slots a run of the task has passed are empty for a polite host, and all
\* are when it has returned.
PassedInv ==
  Polite =>
    /\ pc = "idle" => reply = None /\ \A k \in Status : request[k] = None
    /\ pc = "answer" =>
         /\ slot \in 0..(Len(Order) + 1)
         /\ slot >= 1 => reply = None
         /\ \A i \in DOMAIN Order : i < slot => request[Order[i]] = None

AnswerInv == SlotInv /\ RingInv /\ PassedInv

LEMMA ReplyFits ==
  ASSUME RingInv, SlotInv, Polite, reply # None
  PROVE  Fits(reply)
<1>1. reply \in Answer
  BY DEF SlotInv, Answer
<1>2. Len(tx) + 1 <= window
  BY OpenIsCounted, ResponderAssumption DEF RingInv
<1>3. QED
  BY <1>1, <1>2, PoliteFits

LEMMA StatusFits ==
  ASSUME RingInv, SlotInv, Polite, NEW k \in Status, request[k] # None
  PROVE  Fits(request[k])
<1>1. request[k] \in Answer
  BY DEF SlotInv
<1>2. k \in Open /\ IsFiniteSet(Open)
  BY OpenIsCounted DEF Open
<1>3. Cardinality(Open) # 0
  BY <1>2, FS_EmptySet
<1>4. Len(tx) + 1 <= window
  BY <1>3, OpenIsCounted, ResponderAssumption DEF RingInv
<1>5. QED
  BY <1>1, <1>4, PoliteFits

LEMMA PassReply ==
  ASSUME AnswerInv, TryReply, window' = window
  PROVE  PassedInv'
<1> SUFFICES ASSUME Polite PROVE PassedInv'
  BY DEF PassedInv, Polite
<1>1. reply' = None
  BY ReplyFits DEF AnswerInv, TryReply, Skip
<1>2. request' = request /\ slot' = 1 /\ pc' = "answer" /\ pc = "answer" /\ slot = 0
  BY DEF TryReply, Skip
<1>3. DOMAIN Order = 1..Len(Order) /\ Len(Order) \in Nat
  BY ResponderAssumption
<1>4. QED
  BY <1>1, <1>2, <1>3 DEF PassedInv

LEMMA PassStatus ==
  ASSUME AnswerInv, TryStatus, window' = window
  PROVE  PassedInv'
<1> SUFFICES ASSUME Polite PROVE PassedInv'
  BY DEF PassedInv, Polite
<1>1. DOMAIN Order = 1..Len(Order) /\ Len(Order) \in Nat
  BY ResponderAssumption
<1>2. pc = "answer" /\ pc' = pc /\ slot' = slot + 1 /\ slot \in 1..Len(Order) /\ reply' = reply
  BY <1>1 DEF TryStatus, Skip
<1>3. reply' = None
  BY <1>2 DEF AnswerInv, PassedInv
<1>4. PICK k \in Status : k = Order[slot]
  BY <1>1, <1>2 DEF Status
<1>5. request'[k] = None /\ \A j \in Status : request[j] = None => request'[j] = None
  <2>1. CASE request[k] = None
    <3>1. request' = request
      BY <1>4, <2>1 DEF TryStatus, Owed, Skip
    <3>2. QED
      BY <2>1, <3>1
  <2>2. CASE request[k] # None
    <3>1. Fits(request[k])
      BY <2>2, StatusFits DEF AnswerInv
    <3>2. request' = [request EXCEPT ![k] = None]
      BY <1>4, <2>2, <3>1 DEF TryStatus, Owed
    <3>3. QED
      BY <3>2 DEF AnswerInv, SlotInv
  <2>3. QED
    BY <2>1, <2>2
<1>6. ASSUME NEW i \in DOMAIN Order, i < slot + 1
      PROVE  request'[Order[i]] = None
  <2>1. Order[i] \in Status
    BY DEF Status
  <2>2. CASE i = slot
    BY <1>4, <1>5, <2>2
  <2>3. CASE i < slot
    <3>1. request[Order[i]] = None
      BY <1>2, <2>3 DEF AnswerInv, PassedInv
    <3>2. QED
      BY <1>5, <2>1, <3>1
  <2>4. QED
    BY <1>1, <1>2, <1>6, <2>2, <2>3
<1>7. slot' \in 0..(Len(Order) + 1)
  BY <1>1, <1>2
<1>8. QED
  BY <1>2, <1>3, <1>6, <1>7 DEF PassedInv

LEMMA StepKeepsPassed == AnswerInv /\ [Next]_vars => PassedInv'
<1> SUFFICES ASSUME AnswerInv, [Next]_vars PROVE PassedInv'
  OBVIOUS
<1>1. window' = window
  BY DEF Next, vars
<1>2. CASE TaskStarts
  BY <1>2 DEF TaskStarts, PassedInv
<1>3. CASE Drained
  <2>1. pc' # "idle" /\ slot' = 0 /\ DOMAIN Order = 1..Len(Order) /\ Len(Order) \in Nat
    BY <1>3, ResponderAssumption DEF Drained
  <2>2. QED
    BY <2>1 DEF PassedInv
<1>4. CASE TaskReturns
  <2>1. slot = Len(Order) + 1 /\ Len(Order) \in Nat /\ DOMAIN Order = 1..Len(Order)
    BY <1>4, ResponderAssumption DEF TaskReturns
  <2>2. pc = "answer" /\ pc' = "idle" /\ reply' = reply /\ request' = request
    BY <1>4 DEF TaskReturns, slotVars
  <2>3. ASSUME Polite, NEW k \in Status PROVE request[k] = None /\ reply = None
    <3>1. PICK i \in DOMAIN Order : k = Order[i]
      BY DEF Status
    <3>2. i < slot /\ slot >= 1
      BY <2>1
    <3>3. QED
      BY <2>2, <2>3, <3>1, <3>2 DEF AnswerInv, PassedInv
  <2>4. Polite => reply = None
    BY <2>1, <2>2 DEF AnswerInv, PassedInv
  <2>5. QED
    BY <1>1, <2>2, <2>3, <2>4 DEF PassedInv, Polite
<1>5. CASE Transmit \/ UNCHANGED vars
  BY <1>1, <1>5 DEF Transmit, vars, slotVars, AnswerInv, PassedInv, Polite
<1>6. CASE \E f \in Request : Drain(f)
  BY <1>6 DEF Drain, PassedInv
<1>7. QED
  BY <1>1, <1>2, <1>3, <1>4, <1>5, <1>6, PassReply, PassStatus DEF Next, Task

THEOREM AnswersAreInStep == Spec => []AnswerInv
<1>1. Init => PassedInv
  BY DEF Init, PassedInv
<1>2. AnswerInv /\ [Next]_vars => AnswerInv'
  BY StepKeepsSlots, StepKeepsRing, StepKeepsPassed DEF AnswerInv
<1>3. QED
  BY <1>1, <1>2, InitSlots, InitRing, PTL DEF Spec, AnswerInv

(* For a host whose outstanding answers fit the ring together,              *)
(* communication_task() leaves no slot filled when it returns: an accepted  *)
(* request is answered by the run that read it.                             *)
THEOREM RunAnswersItsRequests == Spec => []AnsweredSameRun
<1>1. AnswerInv => AnsweredSameRun
  BY DEF AnswerInv, PassedInv, AnsweredSameRun
<1>2. QED
  BY <1>1, AnswersAreInStep, PTL
=============================================================================
