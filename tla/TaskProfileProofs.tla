--------------------------- MODULE TaskProfileProofs ---------------------------
(***************************************************************************)
(* The servo's pulses fit and do not drift, and the profiles of a task are *)
(* exact unless a reading of the timer is torn: for every width of the     *)
(* timer, latency of the interrupts and length of the pulses.              *)
(***************************************************************************)
EXTENDS TaskProfile, TLAPS

\* The timer's value n ticks after it showed t.
After(t, n) == IF t + n < TickWord THEN t + n ELSE t + n - TickWord

\* Where in its frame the signal's next edge lies.
Goal == IF high THEN Width(active) ELSE FrameTicks

\* Before the first match the signal is low and the match is near.
FirstMatch ==
  grid = -1 => ~high /\ ~ocf /\ \E d \in 1..InitialDelay : ocr = After(tcnt, d)

\* The compare register shows the ideal time of the next edge; a flagged match
\* was the ideal time of the edge now due.
OnGrid ==
  grid # -1 =>
    /\ ~ocf => grid < Goal /\ ocr = After(tcnt, Goal - grid)
    /\ ocf => tcnt = After(ocr, lag) /\ grid = (IF high THEN Width(active) ELSE 0) + lag

\* The pulse started at most one latency after its ideal time.
PulseInv == high => grid - age \in 0..MaxLag

ServoInv == STypeOK /\ FirstMatch /\ OnGrid /\ PulseInv

\* A first reading that is not torn is the timer's value then; a second one is
\* the value it had when the body ended.
ReadingInv ==
  ~torn =>
    /\ pc = "start" => Reading \in Ticks /\ tcnt = After(Reading, real)
    /\ pc = "body" => tcnt = After(start, real)
    /\ pc = "end" => Reading = After(start, real)

ProfileInv == PTypeOK /\ ServoInv /\ ReadingInv /\ ProfileIsExact

-----------------------------------------------------------------------------
\* The timer's arithmetic, without the modulus.
LEMMA WordFacts == TickWord \in Nat /\ FrameTicks \in Nat /\ FrameTicks < TickWord
  BY ServoAssumption

LEMMA AfterFacts ==
  ASSUME NEW t \in Ticks, NEW n \in Nat, n < TickWord
  PROVE  /\ After(t, n) \in Ticks
         /\ After(t, 0) = t
         /\ (t + n) % TickWord = After(t, n)
         /\ (After(t, n) - t) % TickWord = n
  BY WordFacts DEF After, Ticks

\* One more tick, later and earlier.
LEMMA TickLater ==
  ASSUME NEW t \in Ticks, NEW n \in Nat, n + 1 < TickWord
  PROVE  (After(t, n) + 1) % TickWord = After(t, n + 1)
<1>1. After(t, n) \in Ticks
  <2>1. n < TickWord
    BY WordFacts
  <2>2. QED
    BY <2>1, AfterFacts
<1>2. (After(t, n) + 1) % TickWord = After(After(t, n), 1)
  BY <1>1, AfterFacts, WordFacts
<1>3. QED
  BY <1>2, WordFacts DEF After, Ticks

LEMMA TickNearer ==
  ASSUME NEW t \in Ticks, NEW n \in Nat \ {0}, n < TickWord
  PROVE  /\ After(t, n) = After((t + 1) % TickWord, n - 1)
         /\ (t + 1) % TickWord = After(t, n) <=> n = 1
<1>1. (t + 1) % TickWord = After(t, 1)
  BY AfterFacts, WordFacts
<1>2. After(t, n) = After(After(t, 1), n - 1)
  BY WordFacts DEF After, Ticks
<1>3. After(t, 1) = After(t, n) <=> n = 1
  BY WordFacts DEF After, Ticks
<1>4. QED
  BY <1>1, <1>2, <1>3

\* What lies k ticks after the match is n - k ticks after now.
LEMMA AfterMatch ==
  ASSUME NEW t \in Ticks, NEW n \in Nat, NEW k \in 0..n, n < TickWord
  PROVE  After(t, n) = After(After(t, k), n - k)
  BY WordFacts DEF After, Ticks

\* The lengths of a pulse and of the latency, against those of the frame.
LEMMA WidthFacts ==
  \A ms \in {1, 2} : Width(ms) \in Nat /\ OneMs <= Width(ms) /\ Width(ms) <= 2 * OneMs
  BY ServoAssumption DEF Width

LEMMA LagFacts ==
  /\ MaxLag \in Nat /\ OneMs \in Nat /\ InitialDelay \in Nat
  /\ MaxLag < OneMs /\ 3 * OneMs <= FrameTicks
  /\ 1 <= InitialDelay /\ InitialDelay <= FrameTicks
  BY ServoAssumption

\* A frame has gone by: the next ideal pulse start.
LEMMA FrameWraps ==
  ASSUME NEW g \in 0..(FrameTicks - 1)
  PROVE  (g + 1) % FrameTicks = IF g + 1 = FrameTicks THEN 0 ELSE g + 1
  BY WordFacts

-----------------------------------------------------------------------------
\* The signal.
LEMMA InitServo == SInit => ServoInv
<1> SUFFICES ASSUME SInit PROVE ServoInv
  OBVIOUS
<1>1. tcnt \in Ticks /\ InitialDelay \in Nat /\ InitialDelay < TickWord
  BY LagFacts, WordFacts DEF SInit, Init
<1>2. ocr = After(tcnt, InitialDelay) /\ ocr \in Ticks
  BY <1>1, AfterFacts DEF SInit, Init
<1>3. 0 \in 0..MaxLag /\ 0 \in 0..Cap /\ -1 \in -1..(FrameTicks - 1) /\ InitialDelay \in 1..InitialDelay
  BY LagFacts, WordFacts DEF Cap
<1>4. STypeOK
  BY <1>1, <1>2, <1>3 DEF SInit, Init, STypeOK, TypeOK
<1>5. FirstMatch /\ OnGrid /\ PulseInv
  BY <1>2, <1>3 DEF SInit, Init, FirstMatch, OnGrid, PulseInv
<1>6. QED
  BY <1>4, <1>5 DEF ServoInv

\* The tick that raises the flag, and those it then waits.
LEMMA TickKeepsServo ==
  ASSUME ServoInv, STick
  PROVE  ServoInv'
<1> USE DEF ServoInv
<1>1. /\ tcnt \in Ticks /\ ocr \in Ticks /\ lag \in 0..MaxLag /\ age \in 0..Cap
      /\ grid \in -1..(FrameTicks - 1) /\ active \in {1, 2} /\ ocf \in BOOLEAN /\ high \in BOOLEAN
  BY DEF STypeOK, TypeOK
<1>2. /\ tcnt' = (tcnt + 1) % TickWord /\ lag' = IF ocf THEN lag + 1 ELSE 0
      /\ ocf' = (ocf \/ tcnt' = ocr) /\ ocr' = ocr /\ high' = high /\ active' = active
      /\ ocf => lag < MaxLag
  BY DEF STick, Tick
<1>3. tcnt' \in Ticks
  BY <1>1, <1>2, WordFacts DEF Ticks
<1>4. lag' \in 0..MaxLag
  BY <1>1, <1>2, LagFacts
<1>5. ocf' \in BOOLEAN
  BY <1>1, <1>2
<1>6. age' \in 0..Cap /\ (age < Cap => age' = age + 1)
  BY <1>1, LagFacts, WordFacts DEF STick, Capped, Cap
<1>7. /\ grid # -1 => grid' = IF grid + 1 = FrameTicks THEN 0 ELSE grid + 1
      /\ grid = -1 => grid' = IF ocf' THEN 0 ELSE -1
  BY <1>1, FrameWraps DEF STick
<1>8. grid' \in -1..(FrameTicks - 1)
  <2>1. FrameTicks \in Nat /\ FrameTicks > 0
    BY LagFacts, WordFacts
  <2>2. grid = -1 => grid' \in {-1, 0}
    BY <1>7
  <2>3. grid # -1 => grid' \in 0..(FrameTicks - 1)
    BY <1>1, <1>7, <2>1
  <2>4. QED
    BY <2>1, <2>2, <2>3
<1>9. STypeOK'
  BY <1>3, <1>4, <1>5, <1>6, <1>8 DEF STypeOK, STick, Tick, TypeOK
<1>10. /\ Goal \in Nat /\ Goal <= FrameTicks
       /\ high => Goal = Width(active) /\ Goal < FrameTicks
       /\ ~high => Goal = FrameTicks
  <2>1. Width(active) \in Nat /\ Width(active) <= 2 * OneMs
    BY <1>1, WidthFacts
  <2>2. Width(active) < FrameTicks
    BY <2>1, LagFacts, WordFacts
  <2>3. QED
    BY <2>1, <2>2, WordFacts DEF Goal
<1>11. Goal' = Goal
  BY <1>2 DEF Goal
<1>12. CASE grid = -1
  <2>1. ~high /\ ~ocf
    BY <1>12 DEF FirstMatch
  <2>2. PICK d \in 1..InitialDelay : ocr = After(tcnt, d)
    BY <1>12 DEF FirstMatch
  <2>3. d \in Nat \ {0} /\ d < TickWord /\ d <= InitialDelay
    BY LagFacts, WordFacts
  <2>4. ocr = After(tcnt', d - 1) /\ (tcnt' = ocr <=> d = 1)
    BY <1>1, <1>2, <2>2, <2>3, TickNearer
  <2>5. CASE d = 1
    <3>1. ocf' /\ grid' = 0 /\ lag' = 0 /\ ~high'
      BY <1>2, <1>7, <1>12, <2>1, <2>4, <2>5
    <3>2. tcnt' = After(ocr', lag')
      BY <1>1, <1>2, <2>4, <2>5, <3>1, AfterFacts, WordFacts
    <3>3. QED
      BY <1>9, <3>1, <3>2 DEF FirstMatch, OnGrid, PulseInv
  <2>6. CASE d # 1
    <3>1. ~ocf' /\ grid' = -1 /\ ~high'
      BY <1>2, <1>7, <1>12, <2>1, <2>4, <2>6
    <3>2. d - 1 \in 1..InitialDelay /\ ocr' = After(tcnt', d - 1)
      BY <1>2, <2>3, <2>4, <2>6, LagFacts
    <3>3. QED
      BY <1>9, <3>1, <3>2 DEF FirstMatch, OnGrid, PulseInv
  <2>7. QED
    BY <2>5, <2>6
<1>13. CASE grid # -1 /\ ocf
  <2>1. lag \in Nat /\ lag < MaxLag /\ lag + 1 < TickWord
    BY <1>1, <1>2, <1>13, LagFacts, WordFacts
  <2>2. tcnt = After(ocr, lag) /\ grid = (IF high THEN Width(active) ELSE 0) + lag
    BY <1>13 DEF OnGrid
  <2>3. tcnt' = After(ocr', lag')
    BY <1>1, <1>2, <1>13, <2>1, <2>2, TickLater
  <2>4. grid' = (IF high THEN Width(active) ELSE 0) + lag' /\ grid' = grid + 1 /\ grid \in Nat
    BY <1>1, <1>2, <1>7, <1>13, <2>1, <2>2, WidthFacts, LagFacts
  <2>5. ocf' /\ grid' # -1
    <3>1. grid' # -1
      BY <2>4
    <3>2. QED
      BY <1>2, <1>13, <3>1
  <2>6. FirstMatch' /\ OnGrid'
    BY <1>2, <2>3, <2>4, <2>5 DEF FirstMatch, OnGrid
  <2>7. PulseInv'
    <3>1. high => age < Cap
      BY <1>1, LagFacts, WordFacts DEF PulseInv, Cap
    <3>2. QED
      BY <1>1, <1>2, <1>6, <2>4, <3>1 DEF PulseInv
  <2>8. QED
    BY <1>9, <2>6, <2>7
<1>14. CASE grid # -1 /\ ~ocf
  <2>1. grid \in Nat /\ grid < Goal /\ ocr = After(tcnt, Goal - grid)
    BY <1>1, <1>14 DEF OnGrid
  <2>3. Goal - grid \in Nat \ {0} /\ Goal - grid < TickWord
    BY <1>10, <2>1, WordFacts
  <2>4. ocr = After(tcnt', (Goal - grid) - 1) /\ (tcnt' = ocr <=> Goal - grid = 1)
    BY <1>1, <1>2, <2>1, <2>3, TickNearer
  <2>5. CASE Goal - grid = 1
    <3>1. ocf' /\ lag' = 0
      BY <1>2, <1>14, <2>4, <2>5
    <3>2. tcnt' = After(ocr', lag')
      BY <1>1, <1>2, <2>4, <2>5, <3>1, AfterFacts, WordFacts
    <3>3. CASE high
      <4>1. grid' = Width(active) /\ grid' = grid + 1 /\ grid' \in Nat
        <5>1. Goal = grid + 1 /\ grid + 1 # FrameTicks
          BY <1>10, <2>1, <2>5, <3>3, WordFacts
        <5>2. QED
          BY <1>7, <1>10, <1>14, <2>1, <3>3, <5>1
      <4>2. age < Cap
        BY <1>1, <3>3, LagFacts, WordFacts DEF PulseInv, Cap
      <4>3. PulseInv'
        BY <1>1, <1>6, <3>3, <4>1, <4>2 DEF PulseInv
      <4>4. FirstMatch' /\ OnGrid'
        BY <1>2, <3>1, <3>2, <3>3, <4>1 DEF FirstMatch, OnGrid
      <4>5. QED
        BY <1>9, <4>3, <4>4
    <3>4. CASE ~high
      <4>1. grid' = 0
        BY <1>7, <1>10, <1>14, <2>1, <2>5, <3>4
      <4>2. FirstMatch' /\ OnGrid' /\ PulseInv'
        BY <1>2, <3>1, <3>2, <3>4, <4>1 DEF FirstMatch, OnGrid, PulseInv
      <4>3. QED
        BY <1>9, <4>2
    <3>5. QED
      BY <3>3, <3>4
  <2>6. CASE Goal - grid # 1
    <3>1. ~ocf' /\ grid' = grid + 1 /\ grid' < Goal' /\ grid' \in Nat
      BY <1>1, <1>2, <1>7, <1>10, <1>11, <1>14, <2>1, <2>3, <2>4, <2>6
    <3>2. ocr' = After(tcnt', Goal' - grid')
      <4>1. Goal' - grid' = (Goal - grid) - 1
        BY <1>10, <1>11, <2>1, <3>1
      <4>2. QED
        BY <1>2, <2>4, <4>1
    <3>3. high => age < Cap
      BY <1>1, LagFacts, WordFacts DEF PulseInv, Cap
    <3>4. PulseInv'
      BY <1>1, <1>2, <1>6, <2>1, <3>1, <3>3 DEF PulseInv
    <3>5. FirstMatch' /\ OnGrid'
      BY <3>1, <3>2 DEF FirstMatch, OnGrid
    <3>6. QED
      BY <1>9, <3>4, <3>5
  <2>7. QED
    BY <2>5, <2>6
<1>15. QED
  BY <1>1, <1>12, <1>13, <1>14

\* The interrupt sets the next match on the grid, from the match it serves.
LEMMA EdgeKeepsServo ==
  ASSUME ServoInv, SEdge
  PROVE  /\ ServoInv'
         /\ Rise => grid \in 0..MaxLag
         /\ Fall => age \in (Width(active) - MaxLag)..(Width(active) + MaxLag)
<1> USE DEF ServoInv
<1>1. /\ tcnt \in Ticks /\ ocr \in Ticks /\ lag \in 0..MaxLag /\ age \in 0..Cap
      /\ grid \in -1..(FrameTicks - 1) /\ active \in {1, 2} /\ pulse \in {1, 2}
  BY DEF STypeOK, TypeOK
<1>2. /\ tcnt' = tcnt /\ grid' = grid /\ age' = 0 /\ lag' = 0 /\ ~ocf' /\ pulse' = pulse /\ enabled' = enabled
      /\ ocf /\ ocf' = FALSE
  BY DEF SEdge, Rise, Fall
<1>3. grid # -1 /\ tcnt = After(ocr, lag) /\ grid = (IF high THEN Width(active) ELSE 0) + lag
  BY <1>2 DEF FirstMatch, OnGrid
<1>4. 0 \in 0..MaxLag /\ 0 \in 0..Cap
  BY LagFacts, WordFacts DEF Cap
<1>5. CASE Rise
  <2>1. ~high /\ high' /\ high' = TRUE /\ active' = pulse /\ ocr' = (ocr + Width(active')) % TickWord
    BY <1>5 DEF Rise
  <2>2. PICK w : w = Width(active')
    OBVIOUS
  <2>3. w \in Nat /\ OneMs <= w /\ w <= 2 * OneMs
    BY <1>1, <2>1, <2>2, WidthFacts
  <2>4. lag \in 0..w /\ lag < w /\ w < TickWord /\ w - lag \in Nat
    BY <1>1, <2>3, LagFacts, WordFacts
  <2>5. ocr' = After(ocr, w) /\ ocr' \in Ticks
    BY <1>1, <2>1, <2>2, <2>3, <2>4, AfterFacts
  <2>6. ocr' = After(tcnt, w - lag)
    BY <1>1, <1>3, <2>3, <2>4, <2>5, AfterMatch
  <2>7. grid = lag
    BY <1>1, <1>3, <2>1
  <2>8. STypeOK'
    BY <1>1, <1>2, <1>4, <2>1, <2>5 DEF STypeOK, TypeOK
  <2>9. OnGrid'
    BY <1>2, <2>1, <2>2, <2>4, <2>6, <2>7 DEF OnGrid, Goal
  <2>10. PulseInv'
    BY <1>1, <1>2, <2>7 DEF PulseInv
  <2>11. FirstMatch'
    BY <1>2, <1>3 DEF FirstMatch
  <2>12. ~Fall
    BY <2>1 DEF Fall
  <2>13. QED
    BY <1>1, <2>7, <2>8, <2>9, <2>10, <2>11, <2>12
<1>6. CASE Fall
  <2>1. high /\ ~high' /\ high' = FALSE /\ active' = active /\ ocr' = (ocr + FrameTicks - Width(active)) % TickWord
    BY <1>6 DEF Fall
  <2>2. PICK w : w = Width(active)
    OBVIOUS
  <2>3. w \in Nat /\ OneMs <= w /\ w <= 2 * OneMs
    BY <1>1, <2>2, WidthFacts
  <2>4. PICK n : n = FrameTicks - w
    OBVIOUS
  <2>5. n \in Nat /\ lag \in 0..n /\ n < TickWord /\ n - lag \in Nat
    BY <1>1, <2>3, <2>4, LagFacts, WordFacts
  <2>6. ocr + FrameTicks - Width(active) = ocr + n
    BY <1>1, <2>2, <2>3, <2>4, WordFacts DEF Ticks
  <2>7. ocr' = After(ocr, n) /\ ocr' \in Ticks
    BY <1>1, <2>1, <2>5, <2>6, AfterFacts
  <2>8. ocr' = After(tcnt, n - lag)
    BY <1>1, <1>3, <2>5, <2>7, AfterMatch
  <2>9. grid = w + lag /\ n - lag = FrameTicks - grid /\ grid < FrameTicks
    BY <1>1, <1>3, <2>1, <2>2, <2>3, <2>4, LagFacts, WordFacts
  <2>10. STypeOK'
    BY <1>1, <1>2, <1>4, <2>1, <2>7 DEF STypeOK, TypeOK
  <2>11. OnGrid'
    BY <1>2, <2>1, <2>8, <2>9 DEF OnGrid, Goal
  <2>12. FirstMatch' /\ PulseInv'
    BY <1>2, <1>3, <2>1 DEF FirstMatch, PulseInv
  <2>13. age \in (w - MaxLag)..(w + MaxLag)
    BY <1>1, <2>1, <2>3, <2>9, LagFacts DEF PulseInv, Cap
  <2>14. ~Rise
    BY <2>1 DEF Rise
  <2>15. QED
    BY <2>2, <2>10, <2>11, <2>12, <2>13, <2>14
<1>7. QED
  BY <1>5, <1>6 DEF SEdge

LEMMA OtherKeepsServo ==
  ASSUME ServoInv, SOther
  PROVE  ServoInv'
<1>1. UNCHANGED <<tcnt, ocr, ocf, high, active, lag, age, grid>> /\ STypeOK'
  BY DEF SOther, SetPulse, EnableInterrupts, ServoInv, STypeOK, TypeOK
<1>2. FirstMatch' /\ OnGrid' /\ PulseInv'
  BY <1>1 DEF ServoInv, FirstMatch, OnGrid, Goal, PulseInv
<1>3. QED
  BY <1>1, <1>2 DEF ServoInv

LEMMA StutterKeepsServo ==
  ASSUME ServoInv, UNCHANGED svars
  PROVE  ServoInv'
  BY DEF svars, vars, ServoInv, STypeOK, TypeOK, FirstMatch, OnGrid, Goal, PulseInv

LEMMA StepKeepsServo == ServoInv /\ [SNext]_svars => ServoInv'
  BY TickKeepsServo, EdgeKeepsServo, OtherKeepsServo, StutterKeepsServo DEF SNext

\* Only the interrupt makes an edge.
LEMMA EdgeOfSignal ==
  ASSUME [SNext]_svars, high' # high
  PROVE  SEdge /\ (~high => Rise) /\ (high => Fall)
  BY DEF SNext, STick, Tick, SEdge, Rise, Fall, SOther, SetPulse, EnableInterrupts, svars, vars

\* Every step of the task, the timer and the interrupts is one of the signal.
LEMMA SignalSteps == [PNext]_pvars => [SNext]_svars
  BY DEF PNext, StartLow, StartHigh, EndLow, Record, PTick, CompareInterrupt, CaptureInterrupt, Command,
         SNext, pvars

THEOREM SignalIsOnGrid == PSpec => []ServoInv
<1>1. PInit => ServoInv
  BY InitServo DEF PInit
<1>2. ServoInv /\ [PNext]_pvars => ServoInv'
  BY SignalSteps, StepKeepsServo
<1>3. QED
  BY <1>1, <1>2, PTL DEF PSpec

(* ISR(TIMER1_COMPA_vect) advances OCR1A from the rising match by the       *)
(* latched length: every pulse is that long, up to the interrupt's latency. *)
THEOREM PulsesFit == PSpec => PulseFits
<1>1. ServoInv /\ [SNext]_svars =>
        [high /\ ~high' => age \in (Width(active) - MaxLag)..(Width(active) + MaxLag)]_svars
  BY EdgeOfSignal, EdgeKeepsServo
<1>2. ServoInv /\ [PNext]_pvars =>
        [high /\ ~high' => age \in (Width(active) - MaxLag)..(Width(active) + MaxLag)]_svars
  BY <1>1, SignalSteps
<1>3. QED
  BY <1>2, SignalIsOnGrid, PTL DEF PSpec, PulseFits

(* OCR1A is advanced from its own value, never from the counter: pulse n    *)
(* starts n frames after the first match, up to one latency.                *)
THEOREM FramesDoNotDrift == PSpec => NoDrift
<1>1. ServoInv /\ [SNext]_svars => [~high /\ high' => grid \in 0..MaxLag]_svars
  BY EdgeOfSignal, EdgeKeepsServo
<1>2. ServoInv /\ [PNext]_pvars => [~high /\ high' => grid \in 0..MaxLag]_svars
  BY <1>1, SignalSteps
<1>3. QED
  BY <1>2, SignalIsOnGrid, PTL DEF PSpec, NoDrift

-----------------------------------------------------------------------------
\* The profile.  A value of the timer is what its two bytes make, and two bytes
\* make a value of the timer.
LEMMA ByteFacts == ByteWord \in Nat \ {0} /\ TickWord = ByteWord * ByteWord
  BY ProfileAssumption

LEMMA BytesOfTicks ==
  ASSUME NEW t \in Ticks
  PROVE  /\ High(t) \in 0..(ByteWord - 1) /\ Low(t) \in 0..(ByteWord - 1)
         /\ ByteWord * High(t) + Low(t) = t
<1>1. t \in Nat /\ t < ByteWord * ByteWord
  BY ByteFacts, WordFacts DEF Ticks
<1>2. Low(t) \in 0..(ByteWord - 1)
  BY <1>1, ByteFacts DEF Low
<1>3. High(t) \in Nat /\ ByteWord * High(t) + Low(t) = t
  BY <1>1, ByteFacts DEF Low, High
<1>4. High(t) < ByteWord
  <2>1. ASSUME NEW h \in Nat, NEW l \in Nat, NEW b \in Nat, b * h + l < b * b
        PROVE  h < b
    <3>1. ASSUME h >= b PROVE b * h >= b * b
      BY <3>1
    <3>2. b * h \in Nat /\ b * b \in Nat
      OBVIOUS
    <3>3. QED
      BY <2>1, <3>1, <3>2
  <2>2. QED
    BY <1>1, <1>2, <1>3, <2>1, ByteFacts
<1>5. High(t) \in 0..(ByteWord - 1)
  BY <1>3, <1>4, ByteFacts
<1>6. QED
  BY <1>2, <1>3, <1>5

LEMMA TicksOfBytes ==
  ASSUME NEW h \in 0..(ByteWord - 1), NEW l \in 0..(ByteWord - 1)
  PROVE  ByteWord * h + l \in Ticks
<1>1. ASSUME NEW b \in Nat, NEW x \in 0..(b - 1), NEW y \in 0..(b - 1)
      PROVE  b * x + y \in Nat /\ b * x + y < b * b
  <2>1. b * x <= b * (b - 1)
    OBVIOUS
  <2>2. b * (b - 1) = b * b - b
    OBVIOUS
  <2>3. b * x \in Nat /\ b * b \in Nat
    OBVIOUS
  <2>4. QED
    BY <2>1, <2>2, <2>3
<1>2. ByteWord * h + l \in Nat /\ ByteWord * h + l < ByteWord * ByteWord
  BY <1>1, ByteFacts
<1>3. QED
  BY <1>2, ByteFacts DEF Ticks

LEMMA ReadingFacts ==
  ASSUME PTypeOK
  PROVE  Reading \in Ticks /\ Elapsed \in Ticks
<1>1. Reading \in Ticks
  BY TicksOfBytes DEF PTypeOK, Reading
<1>2. Elapsed \in Ticks
  BY <1>1, WordFacts DEF PTypeOK, Elapsed, Ticks
<1>3. QED
  BY <1>1, <1>2

\* What the profilers make of a duration is a profile again.
LEMMA RecordedFacts ==
  ASSUME NEW r \in Results, NEW d \in Ticks
  PROVE  Recorded(r, d) \in Results
<1>1. r.max \in Ticks /\ r.overruns \in 0..MaxOverruns /\ r.busy \in 0..MaxBusy
  BY DEF Results
<1>2. MaxOverruns \in Nat /\ MaxBusy \in Nat /\ d \in Nat
  BY ProfileAssumption, WordFacts DEF Ticks
<1>3. Larger(r.max, d) \in Ticks
  BY <1>1 DEF Larger
<1>4. \A n \in 0..1 : Smaller(r.overruns + n, MaxOverruns) \in 0..MaxOverruns
  BY <1>1, <1>2 DEF Smaller
<1>5. Smaller(r.busy + d, MaxBusy) \in 0..MaxBusy
  BY <1>1, <1>2 DEF Smaller
<1>6. Smaller(r.overruns + (IF d > PeriodTicks THEN 1 ELSE 0), MaxOverruns) \in 0..MaxOverruns
  BY <1>4
<1>7. QED
  BY <1>3, <1>5, <1>6 DEF Recorded, Results

\* An execution is shorter than one turn of the timer.
LEMMA BodyFacts == MaxBody \in Nat /\ MaxBody < TickWord /\ MaxBody \in Ticks
  BY ProfileAssumption, WordFacts DEF Ticks

LEMMA InitProfile == PInit => ProfileInv
<1> SUFFICES ASSUME PInit PROVE ProfileInv
  OBVIOUS
<1>1. ServoInv
  BY InitServo DEF PInit
<1>2. temp \in 0..(ByteWord - 1)
  BY <1>1, BytesOfTicks DEF PInit, ServoInv, STypeOK, TypeOK
<1>3. 0 \in Ticks /\ 0 \in 0..(ByteWord - 1) /\ 0 \in 0..MaxBody /\ 0 \in 0..MaxOverruns /\ 0 \in 0..MaxBusy
  BY LagFacts, WordFacts, ByteFacts, ProfileAssumption, BodyFacts DEF Ticks
<1>4. NoResults \in Results
  BY <1>3 DEF NoResults, Results
<1>5. PTypeOK
  BY <1>1, <1>2, <1>3, <1>4 DEF PInit, PTypeOK, ServoInv
<1>6. ReadingInv /\ ProfileIsExact
  BY DEF PInit, ReadingInv, ProfileIsExact
<1>7. QED
  BY <1>1, <1>5, <1>6 DEF ProfileInv

\* The first reading and the second, byte by byte.
LEMMA ReadKeepsProfile ==
  ASSUME ProfileInv, StartLow \/ StartHigh \/ EndLow
  PROVE  PTypeOK' /\ ReadingInv' /\ ProfileIsExact'
<1> USE DEF ProfileInv
<1>1. /\ UNCHANGED svars /\ tcnt \in Ticks /\ tcnt' = tcnt
      /\ real \in 0..MaxBody /\ start \in Ticks /\ profile' = profile /\ truth' = truth
  BY DEF PTypeOK, STypeOK, TypeOK, StartLow, StartHigh, EndLow, svars, vars
<1>2. STypeOK'
  BY <1>1 DEF PTypeOK, STypeOK, TypeOK, svars, vars
<1>3. ProfileIsExact'
  BY <1>1 DEF ProfileIsExact
<1>4. CASE StartLow
  <2>1. temp' \in 0..(ByteWord - 1) /\ low' \in 0..(ByteWord - 1) /\ Reading' = tcnt
    BY <1>1, <1>4, BytesOfTicks DEF StartLow, ReadLow, Reading
  <2>2. real' = 0 /\ 0 \in 0..MaxBody /\ pc' = "start"
    BY <1>4, BodyFacts DEF StartLow
  <2>3. tcnt' = After(Reading', real')
    BY <1>1, <2>1, <2>2, AfterFacts, BodyFacts
  <2>4. PTypeOK'
    BY <1>2, <1>4, <2>1, <2>2 DEF StartLow, PTypeOK
  <2>5. ReadingInv'
    BY <1>1, <2>1, <2>2, <2>3 DEF ReadingInv
  <2>6. QED
    BY <1>3, <2>4, <2>5
<1>5. CASE StartHigh
  <2>1. PTypeOK'
    BY <1>2, <1>5, ReadingFacts DEF StartHigh, PTypeOK
  <2>2. ReadingInv'
    BY <1>1, <1>5 DEF StartHigh, ReadingInv
  <2>3. QED
    BY <1>3, <2>1, <2>2
<1>6. CASE EndLow
  <2>1. temp' \in 0..(ByteWord - 1) /\ low' \in 0..(ByteWord - 1) /\ Reading' = tcnt
    BY <1>1, <1>6, BytesOfTicks DEF EndLow, ReadLow, Reading
  <2>2. PTypeOK'
    BY <1>2, <1>6, <2>1 DEF EndLow, PTypeOK
  <2>3. ReadingInv'
    BY <1>6, <2>1 DEF EndLow, ReadingInv
  <2>4. QED
    BY <1>3, <2>2, <2>3
<1>7. QED
  BY <1>4, <1>5, <1>6

\* The difference of two good readings is the true duration.
LEMMA RecordKeepsProfile ==
  ASSUME ProfileInv, Record
  PROVE  PTypeOK' /\ ReadingInv' /\ ProfileIsExact'
<1> USE DEF ProfileInv
<1>1. real \in Nat /\ real < TickWord /\ real \in Ticks /\ real \in 0..MaxBody /\ start \in Ticks
  <2>1. real \in 0..MaxBody /\ start \in Ticks
    BY DEF PTypeOK
  <2>2. real \in Nat /\ real < TickWord
    BY <2>1, BodyFacts, WordFacts
  <2>3. QED
    BY <2>1, <2>2, WordFacts DEF Ticks
<1>2. ~torn => Elapsed = real
  BY <1>1, AfterFacts DEF Record, ReadingInv, Elapsed
<1>3. profile' = Recorded(profile, Elapsed) /\ truth' = Recorded(truth, Elapsed)
  BY <1>2 DEF Record
<1>4. profile' \in Results /\ truth' = profile'
  BY <1>3, ReadingFacts, RecordedFacts DEF PTypeOK, ProfileIsExact
<1>5. longest' \in 0..MaxBody
  BY <1>1 DEF Record, Larger, PTypeOK
<1>6. 0 \in Ticks /\ 0 \in 0..(ByteWord - 1) /\ 0 \in 0..MaxBody
  BY WordFacts, ByteFacts, BodyFacts DEF Ticks
<1>7. STypeOK'
  BY DEF Record, PTypeOK, STypeOK, TypeOK, svars, vars
<1>8. PTypeOK'
  BY <1>4, <1>5, <1>6, <1>7 DEF Record, PTypeOK
<1>9. ReadingInv' /\ ProfileIsExact'
  BY <1>4 DEF Record, ReadingInv, ProfileIsExact
<1>10. QED
  BY <1>8, <1>9

\* The timer counts; in an execution its distance from the first reading does.
LEMMA TickKeepsProfile ==
  ASSUME ProfileInv, ServoInv', PTick
  PROVE  PTypeOK' /\ ReadingInv' /\ ProfileIsExact'
<1> USE DEF ProfileInv
<1>1. tcnt' = (tcnt + 1) % TickWord /\ real \in 0..MaxBody /\ start \in Ticks /\ UNCHANGED <<temp, taskVars, torn>>
  BY DEF PTick, STick, Tick, PTypeOK
<1>2. pc' = pc /\ low' = low /\ start' = start /\ profile' = profile /\ truth' = truth /\ longest' = longest
      /\ temp' = temp /\ torn' = torn
  BY <1>1 DEF taskVars
<1>3. real' \in 0..MaxBody
  BY <1>1, BodyFacts DEF PTick
<1>4. PTypeOK'
  BY <1>2, <1>3 DEF PTypeOK, ServoInv
<1>5. ASSUME NEW t \in Ticks, pc \in {"start", "body"}, tcnt = After(t, real)
      PROVE  tcnt' = After(t, real')
  <2>1. real' = real + 1 /\ real \in Nat /\ real + 1 < TickWord
    <3>1. real' = real + 1 /\ real < MaxBody
      BY <1>5 DEF PTick
    <3>2. QED
      BY <1>1, <3>1, BodyFacts, WordFacts
  <2>2. QED
    BY <1>1, <1>5, <2>1, TickLater
<1>6. Reading' = Reading
  BY <1>2 DEF Reading
<1>7. pc = "end" => real' = real
  BY DEF PTick
<1>8. ReadingInv'
  BY <1>1, <1>2, <1>5, <1>6, <1>7 DEF ReadingInv
<1>9. QED
  BY <1>2, <1>4, <1>8 DEF ProfileIsExact

\* An interrupt, or the command; one that changes TEMP in a reading tears it.
LEMMA InterruptKeepsProfile ==
  ASSUME ProfileInv, ServoInv', CompareInterrupt \/ CaptureInterrupt \/ Command \/ UNCHANGED pvars
  PROVE  PTypeOK' /\ ReadingInv' /\ ProfileIsExact'
<1> USE DEF ProfileInv
<1>1. tcnt' = tcnt /\ UNCHANGED <<taskVars, real>>
  BY DEF CompareInterrupt, SEdge, Rise, Fall, CaptureInterrupt, Through, Command, SOther, SetPulse,
         EnableInterrupts, pvars, svars, vars
<1>2. pc' = pc /\ low' = low /\ start' = start /\ profile' = profile /\ truth' = truth /\ longest' = longest
      /\ real' = real
  BY <1>1 DEF taskVars
<1>3. /\ temp' \in 0..(ByteWord - 1) /\ torn' \in BOOLEAN
      /\ ~torn' => ~torn /\ (InReading => temp' = temp)
  <2>1. temp \in 0..(ByteWord - 1) /\ torn \in BOOLEAN
    BY DEF PTypeOK
  <2>2. CASE CompareInterrupt
    <3>1. High(ocr') \in 0..(ByteWord - 1)
      BY BytesOfTicks DEF ServoInv, STypeOK, TypeOK
    <3>2. QED
      BY <2>1, <2>2, <3>1 DEF CompareInterrupt, Through
  <2>3. CASE CaptureInterrupt
    <3>1. PICK late \in 0..MaxLag : Through(High((tcnt - late) % TickWord))
      BY <2>3 DEF CaptureInterrupt
    <3>2. (tcnt - late) % TickWord \in Ticks
      BY LagFacts, WordFacts DEF PTypeOK, STypeOK, TypeOK, Ticks
    <3>3. High((tcnt - late) % TickWord) \in 0..(ByteWord - 1)
      BY <3>2, BytesOfTicks
    <3>4. QED
      BY <2>1, <3>1, <3>3 DEF Through
  <2>4. CASE Command \/ UNCHANGED pvars
    BY <2>1, <2>4 DEF Command, pvars
  <2>5. QED
    BY <2>2, <2>3, <2>4
<1>4. PTypeOK'
  BY <1>2, <1>3 DEF PTypeOK, ServoInv
<1>5. ~torn' /\ InReading => Reading' = Reading
  BY <1>2, <1>3 DEF Reading
<1>6. ReadingInv'
  BY <1>1, <1>2, <1>3, <1>5 DEF ReadingInv, InReading
<1>7. QED
  BY <1>2, <1>4, <1>6 DEF ProfileIsExact

THEOREM ProfileIsInStep == PSpec => []ProfileInv
<1>1. ProfileInv /\ [PNext]_pvars => ProfileInv'
  <2> SUFFICES ASSUME ProfileInv, [PNext]_pvars PROVE ProfileInv'
    OBVIOUS
  <2>1. ServoInv'
    BY SignalSteps, StepKeepsServo DEF ProfileInv
  <2>2. PTypeOK' /\ ReadingInv' /\ ProfileIsExact'
    BY <2>1, ReadKeepsProfile, RecordKeepsProfile, TickKeepsProfile, InterruptKeepsProfile DEF PNext
  <2>3. QED
    BY <2>1, <2>2 DEF ProfileInv
<1>2. QED
  BY <1>1, InitProfile, PTL DEF PSpec

(* main() around every task body: an execution in whose two readings of     *)
(* TCNT1 no interrupt changed TEMP contributes its true duration to         *)
(* g_max_ticks, g_overrun_count and g_busy_ticks, over every wrap.          *)
THEOREM ProfilesAreExact == PSpec => []ProfileIsExact
<1>1. ProfileInv => ProfileIsExact
  BY DEF ProfileInv
<1>2. QED
  BY <1>1, ProfileIsInStep, PTL
=============================================================================
