----------------------------- MODULE DriverProofs -----------------------------
(***************************************************************************)
(* The drivers whose interrupts share registers with the foreground.       *)
(*                                                                         *)
(* The ultrasonic driver (drivers/hcsr04.c) measures the echo that         *)
(* followed its trigger and keeps the ranging promise, for every width of  *)
(* the timer, latency of the capture interrupt and length of the echo.     *)
(*                                                                         *)
(* The two rings of hal/uart.c, whatever their sizes and the blocks        *)
(* written: the transmit ring never strands a byte, both rings implement a *)
(* queue of bytes, and the overflow count is a record of loss.             *)
(***************************************************************************)
EXTENDS HcSr04, Uart, TLAPS

\* The timer's value n ticks after it showed t.
After(t, n) == IF t + n < TickWord THEN t + n ELSE t + n - TickWord

\* What interrupt, task and echo know of each other: the interrupt is enabled
\* while a capture is awaited, and one is awaited for a measurement only.
UnitInv ==
  /\ icie <=> capture # "IDLE"
  /\ capture # "IDLE" => measuring
  /\ aborting => measuring
  /\ ready => capture = "IDLE"
  /\ capture = "WAIT_RISING" => ices = "up"
  /\ capture = "WAIT_FALLING" => ices = "down" /\ burst # "sent"
  /\ echo <=> burst = "heard"

\* The echo began in this measurement, when the timer showed t, and lasts.
Timed(t) == width <= sinceStart /\ tcnt = After(t, width)

\* A captured rise is that of an echo which began in this measurement; what was
\* captured after it is the end of the same echo.
EchoInv ==
  /\ capture = "WAIT_RISING" /\ icf => burst # "sent" /\ (burst = "heard" => Timed(icr))
  /\ capture = "WAIT_FALLING" /\ burst = "heard" => ~icf /\ Timed(startTick)
  /\ capture = "WAIT_FALLING" /\ icf => width < TickWord /\ icr = After(startTick, width)
  /\ ready => burst = "none" /\ pulseTicks = width

DriverInv == TypeOK /\ UnitInv /\ EchoInv


-----------------------------------------------------------------------------
\* The timer's arithmetic, without the modulus.
LEMMA AfterFacts ==
  ASSUME NEW t \in Ticks, NEW n \in Nat, n < TickWord
  PROVE  /\ After(t, n) \in Ticks
         /\ After(t, 0) = t
         /\ (After(t, n) - t) % TickWord = n
  BY HcSr04Assumption DEF After, Ticks

LEMMA NextTick ==
  ASSUME NEW t \in Ticks
  PROVE  /\ (t + 1) % TickWord = After(t, 1)
         /\ (t + 1) % TickWord \in Ticks
  BY HcSr04Assumption DEF After, Ticks

LEMMA TickLater ==
  ASSUME NEW t \in Ticks, NEW n \in Nat, n + 1 < TickWord
  PROVE  (After(t, n) + 1) % TickWord = After(t, n + 1)
<1>1. After(t, n) \in Ticks
  <2>1. n < TickWord
    BY HcSr04Assumption
  <2>2. QED
    BY <2>1, AfterFacts
<1>2. (After(t, n) + 1) % TickWord = After(After(t, n), 1)
  BY <1>1, NextTick
<1>3. QED
  BY <1>2, HcSr04Assumption DEF After, Ticks

\* The smallest readings.
LEMMA ZeroTicks == 0 \in Ticks /\ 0 \in 0..MaxWidth /\ 0 \in 0..WindowTicks
  BY HcSr04Assumption DEF Ticks, MaxWidth

LEMMA InitDriver == HInit => DriverInv
<1> SUFFICES ASSUME HInit PROVE DriverInv
  OBVIOUS
<1>1. TypeOK
  BY ZeroTicks DEF HInit, TypeOK
<1>2. UnitInv /\ EchoInv
  BY DEF HInit, UnitInv, EchoInv
<1>3. QED
  BY <1>1, <1>2 DEF DriverInv

\* What the task does.
LEMMA TaskKeepsDriver ==
  ASSUME DriverInv, Start \/ Evaluate \/ NotReady \/ Abort
  PROVE  DriverInv'
<1>1. CASE Start
  <2>1. CASE capture = "IDLE"
    <3>1. TypeOK'
      BY <1>1, <2>1, ZeroTicks DEF Start, DriverInv, TypeOK
    <3>2. UnitInv' /\ EchoInv'
      BY <1>1, <2>1 DEF Start, DriverInv, TypeOK, UnitInv, EchoInv
    <3>3. QED
      BY <3>1, <3>2 DEF DriverInv
  <2>2. CASE capture # "IDLE"
    BY <1>1, <2>2 DEF Start, DriverInv, UnitInv
  <2>3. QED
    BY <2>1, <2>2
<1>2. CASE Evaluate
  BY <1>2 DEF Evaluate, DriverInv, TypeOK, UnitInv, EchoInv, Timed, driverVars, captureUnit, worldVars
<1>3. CASE NotReady
  BY <1>3 DEF NotReady, DriverInv, TypeOK, UnitInv, EchoInv, Timed, driverVars, captureUnit, worldVars
<1>4. CASE Abort
  BY <1>4 DEF Abort, DriverInv, TypeOK, UnitInv, EchoInv, Timed, worldVars
<1>5. QED
  BY <1>1, <1>2, <1>3, <1>4

\* The interrupt: the rise it serves opened the echo, the fall closed it.
LEMMA IsrKeepsDriver ==
  ASSUME DriverInv, CaptureIsr
  PROVE  DriverInv'
<1>1. CASE capture = "WAIT_RISING"
  BY <1>1 DEF CaptureIsr, DriverInv, TypeOK, UnitInv, EchoInv, Timed, taskVars, worldVars
<1>2. CASE capture = "WAIT_FALLING"
  <2>1. width \in Nat /\ width < TickWord /\ icr = After(startTick, width) /\ startTick \in Ticks
    BY <1>2 DEF CaptureIsr, DriverInv, TypeOK, EchoInv
  <2>2. pulseTicks' = width /\ width' = width
    BY <1>2, <2>1, AfterFacts DEF CaptureIsr, worldVars
  <2>3. burst = "none" /\ burst' = burst
    BY <1>2 DEF CaptureIsr, DriverInv, TypeOK, UnitInv, EchoInv, worldVars
  <2>4. pulseTicks' \in Ticks
    BY <2>1, <2>2, HcSr04Assumption DEF Ticks
  <2>5. TypeOK'
    BY <1>2, <2>4 DEF CaptureIsr, DriverInv, TypeOK, taskVars, worldVars
  <2>6. UnitInv'
    BY <1>2 DEF CaptureIsr, DriverInv, UnitInv, taskVars, worldVars
  <2>7. EchoInv'
    BY <1>2, <2>2, <2>3 DEF CaptureIsr, EchoInv
  <2>8. QED
    BY <2>5, <2>6, <2>7 DEF DriverInv
<1>3. CASE capture = "IDLE"
  BY <1>3 DEF CaptureIsr, DriverInv, UnitInv
<1>4. QED
  BY <1>1, <1>2, <1>3 DEF DriverInv, TypeOK

\* The edges of the echo.
LEMMA EdgesKeepDriver ==
  ASSUME DriverInv, EchoUp \/ EchoDown
  PROVE  DriverInv'
<1>1. CASE EchoUp
  <2>1. After(tcnt, 0) = tcnt
    BY AfterFacts, HcSr04Assumption DEF DriverInv, TypeOK
  <2>2. TypeOK'
    BY <1>1, ZeroTicks DEF EchoUp, Latch, DriverInv, TypeOK, driverVars, taskVars, captureUnit
  <2>3. UnitInv'
    BY <1>1 DEF EchoUp, Latch, DriverInv, UnitInv, driverVars, taskVars, captureUnit
  <2>4. EchoInv'
    BY <1>1, <2>1 DEF EchoUp, Latch, DriverInv, TypeOK, UnitInv, EchoInv, Timed, driverVars, taskVars, captureUnit
  <2>5. QED
    BY <2>2, <2>3, <2>4 DEF DriverInv
<1>2. CASE EchoDown
  <2>1. TypeOK'
    BY <1>2 DEF EchoDown, Latch, DriverInv, TypeOK, driverVars, taskVars, captureUnit
  <2>2. UnitInv'
    BY <1>2 DEF EchoDown, Latch, DriverInv, UnitInv, driverVars, taskVars, captureUnit
  <2>3. EchoInv'
    BY <1>2, HcSr04Assumption
    DEF EchoDown, Latch, DriverInv, TypeOK, UnitInv, EchoInv, Timed, driverVars, taskVars, captureUnit
  <2>4. QED
    BY <2>1, <2>2, <2>3 DEF DriverInv
<1>3. QED
  BY <1>1, <1>2

\* A tick: while an echo of this measurement lasts, its width follows the timer.
LEMMA CountKeepsDriver ==
  ASSUME DriverInv, Count
  PROVE  DriverInv'
<1> USE DEF DriverInv
<1>1. sinceStart \in Nat /\ sinceStart <= WindowTicks /\ width \in Nat /\ tcnt \in Ticks
  BY HcSr04Assumption DEF TypeOK
<1>2. tcnt' \in Ticks
  BY <1>1, NextTick DEF Count
<1>3. width' \in 0..MaxWidth /\ sinceStart' \in 0..WindowTicks
  BY <1>1, HcSr04Assumption DEF Count, TypeOK, MaxWidth
<1>4. TypeOK'
  BY <1>2, <1>3 DEF Count, TypeOK, driverVars, captureUnit, taskVars
<1>5. UnitInv'
  BY DEF Count, UnitInv, driverVars, captureUnit, taskVars
<1>6. ASSUME NEW t \in Ticks, measuring, echo, width <= sinceStart, tcnt = After(t, width)
      PROVE  width' <= sinceStart' /\ tcnt' = After(t, width')
  <2>1. width < WindowTicks /\ width + 1 < TickWord /\ width < MaxWidth
    BY <1>1, <1>6, HcSr04Assumption DEF Count, MaxWidth
  <2>2. width' = width + 1 /\ sinceStart' = sinceStart + 1
    BY <1>6, <2>1 DEF Count
  <2>3. tcnt' = After(t, width + 1)
    BY <1>1, <1>6, <2>1, TickLater DEF Count
  <2>4. QED
    BY <1>1, <1>6, <2>2, <2>3
<1>7. ~echo => width' = width
  BY DEF Count
<1>8. EchoInv'
  <2>1. icr \in Ticks /\ startTick \in Ticks
    BY DEF TypeOK
  <2>2. capture = "WAIT_RISING" /\ icf => burst # "sent" /\ (burst = "heard" => Timed(icr)')
    BY <1>6, <2>1 DEF Count, UnitInv, EchoInv, Timed, driverVars, captureUnit
  <2>3. capture = "WAIT_FALLING" /\ burst = "heard" => ~icf /\ Timed(startTick)'
    BY <1>6, <2>1 DEF Count, UnitInv, EchoInv, Timed, driverVars, captureUnit
  <2>4. capture = "WAIT_FALLING" /\ icf => burst = "none"
    BY DEF TypeOK, UnitInv, EchoInv
  <2>5. QED
    BY <1>7, <2>2, <2>3, <2>4 DEF Count, UnitInv, EchoInv, driverVars, captureUnit
<1>9. QED
  BY <1>4, <1>5, <1>8

LEMMA StepKeepsDriver == DriverInv /\ [HNext]_hvars => DriverInv'
<1> SUFFICES ASSUME DriverInv, [HNext]_hvars PROVE DriverInv'
  OBVIOUS
<1>1. CASE UNCHANGED hvars
  BY <1>1 DEF hvars, driverVars, captureUnit, taskVars, worldVars, DriverInv, TypeOK, UnitInv, EchoInv, Timed
<1>2. QED
  BY <1>1, TaskKeepsDriver, IsrKeepsDriver, EdgesKeepDriver, CountKeepsDriver DEF HNext

THEOREM DriverIsInStep == HSpec => []DriverInv
  BY InitDriver, StepKeepsDriver, PTL DEF HSpec

(* hcsr04_get_pulse_ticks() after hcsr04_result_ready(): the 16-bit         *)
(* difference of two captures is the true length of the echo that followed  *)
(* this trigger, however late the interrupt ran and wherever the timer      *)
(* wrapped, since the task gives up before the timer has gone round.        *)
THEOREM ResultIsTrue == HSpec => []ResultIsTrueWidth
<1>1. DriverInv => ResultIsTrueWidth
  BY DEF DriverInv, EchoInv, ResultIsTrueWidth
<1>2. QED
  BY <1>1, DriverIsInStep, PTL


-----------------------------------------------------------------------------
\* The class of a width, and of the width start writes.
LEMMA ClassOfTicks ==
  /\ \A ticks \in Ticks : Class(ticks) \in Ranging!Reading
  /\ Class(0) = "invalid"
<1>1. \A ticks : Class(ticks) \in Ranging!Reading
  BY DEF Class, Ranging!Reading
<1>2. 0 \div TicksPerCm = 0
  BY HcSr04Assumption
<1>3. QED
  BY <1>1, <1>2 DEF Class

\* Every step is one of the promise, or none of its business.
LEMMA StepIsRanging ==
  ASSUME DriverInv, DriverInv', [HNext]_hvars
  PROVE  [Ranging!Next]_<<capture, ready, Class(pulseTicks)>>
<1>1. CASE Start
  BY <1>1, ClassOfTicks DEF Start, Ranging!Next, Ranging!Start
<1>2. CASE Abort
  BY <1>2 DEF Abort, Ranging!Next, Ranging!Abort
<1>3. CASE CaptureIsr
  <2>1. CASE capture = "WAIT_RISING"
    BY <1>3, <2>1 DEF CaptureIsr, Ranging!Next, Ranging!Rise
  <2>2. CASE capture = "WAIT_FALLING"
    <3>1. Class(pulseTicks') \in Ranging!Reading
      BY ClassOfTicks DEF DriverInv, TypeOK
    <3>2. Ranging!Fall(Class(pulseTicks'))
      BY <1>3, <2>2 DEF CaptureIsr, Ranging!Fall
    <3>3. QED
      BY <3>1, <3>2 DEF Ranging!Next
  <2>3. CASE capture = "IDLE"
    BY <1>3, <2>3 DEF CaptureIsr, DriverInv, UnitInv
  <2>4. QED
    BY <2>1, <2>2, <2>3 DEF DriverInv, TypeOK
<1>4. CASE UNCHANGED driverVars
  BY <1>4 DEF driverVars
<1>5. Evaluate \/ NotReady \/ EchoUp \/ EchoDown \/ Count \/ UNCHANGED hvars => UNCHANGED driverVars
  BY DEF Evaluate, NotReady, EchoUp, EchoDown, Count, hvars, driverVars
<1>6. QED
  BY <1>1, <1>2, <1>3, <1>4, <1>5 DEF HNext

(* Registers, flag and interrupt keep the promise the control loop is built *)
(* on: hcsr04_start() is followed by at most one reading, hcsr04_abort() by *)
(* none until the next start.                                               *)
THEOREM DriverImplementsRanging == HSpec => ImplementsRanging
<1>1. HInit => Ranging!Init
  BY ClassOfTicks DEF HInit, Ranging!Init
<1>2. DriverInv /\ DriverInv' /\ [HNext]_hvars => [Ranging!Next]_<<capture, ready, Class(pulseTicks)>>
  BY StepIsRanging
<1>3. QED
  BY <1>1, <1>2, DriverIsInStep, PTL DEF HSpec, ImplementsRanging, Ranging!Spec, Ranging!rangingVars

-----------------------------------------------------------------------------
(* NoLostWakeup speaks of the idle foreground only.  To be inductive it has *)
(* to cover a block being copied behind bytes that still wait, and to allow *)
(* the one window between publishing a block and enabling the interrupt.    *)
Awake == txHead # txTail => udrie \/ txPc = "enable"

(* uart_tx_write() and USART_UDRE_vect keep the interrupt enabled while     *)
(* bytes wait, up to the step that is about to enable it; what the receive  *)
(* side does in between does not matter.                                    *)
THEOREM StaysAwake == Spec => []Awake
<1>1. Init => Awake
  BY DEF Init, TxInit, Awake
<1>2. ASSUME Awake, [Next]_vars
      PROVE  Awake'
  <2>1. CASE Accept
    BY <1>2, <2>1 DEF Awake, Accept, txIndices
  <2>2. CASE Copy
    BY <1>2, <2>2 DEF Awake, Copy, txIndices
  <2>3. CASE Publish
    BY <2>3 DEF Awake, Publish
  <2>4. CASE Enable
    BY <2>4 DEF Awake, Enable
  <2>5. CASE IsrSend
    BY <2>5 DEF Awake, IsrSend
  <2>6. CASE IsrStop
    BY <2>6 DEF Awake, IsrStop, txIndices
  <2>7. CASE Shift
    BY <1>2, <2>7 DEF Awake, Shift, txIndices, writerVars
  <2>8. CASE UNCHANGED txVars
    BY <1>2, <2>8 DEF Awake, txVars, writerVars
  <2>9. UNCHANGED vars => UNCHANGED txVars
    BY DEF vars
  <2>10. QED
    BY <1>2, <2>1, <2>2, <2>3, <2>4, <2>5, <2>6, <2>7, <2>8, <2>9
    DEF Next, Foreground, Interrupts, Writer, Isr
<1>3. QED
  BY <1>1, <1>2, PTL DEF Spec

(* No lost wake-up between the interrupt that switches itself off on an     *)
(* empty ring and the foreground that fills it.                             *)
THEOREM NoWakeupIsLost == Spec => []NoLostWakeup
<1>1. Awake => NoLostWakeup
  BY DEF Awake, NoLostWakeup
<1>2. QED
  BY <1>1, StaysAwake, PTL
-----------------------------------------------------------------------------
(* Ring arithmetic.                                                         *)
Indices(n) == 0..(n - 1)

\* An index moves up, or to the first slot.
LEMMA AdvanceCases ==
  ASSUME NEW n \in Nat \ {0}, NEW h \in Indices(n)
  PROVE  /\ Advance(h, n) = IF h + 1 = n THEN 0 ELSE h + 1
         /\ Advance(h, n) \in Indices(n)
<1>1. Advance(h, n) = IF h + 1 = n THEN 0 ELSE h + 1
  BY DEF Advance, Indices
<1>2. QED
  BY <1>1 DEF Indices

LEMMA UsedCases ==
  ASSUME NEW n \in Nat \ {0}, NEW h \in Indices(n), NEW t \in Indices(n)
  PROVE  /\ Used(h, t, n) = IF h >= t THEN h - t ELSE h - t + n
         /\ Used(h, t, n) \in Nat /\ Used(h, t, n) <= n - 1
<1>1. Used(h, t, n) = IF h >= t THEN h - t ELSE h - t + n
  BY DEF Used, Indices
<1>2. QED
  BY <1>1 DEF Indices

\* The slot of the byte that is k places behind the oldest.
LEMMA SlotCases ==
  ASSUME NEW n \in Nat \ {0}, NEW t \in Indices(n), NEW k \in Indices(n)
  PROVE  /\ (t + k) % n = IF t + k < n THEN t + k ELSE t + k - n
         /\ (t + k) % n \in Indices(n)
<1>1. (t + k) % n = IF t + k < n THEN t + k ELSE t + k - n
  BY DEF Indices
<1>2. QED
  BY <1>1 DEF Indices

\* What a ring holds is a sequence of bytes, as long as its indices say.
LEMMA ContentsSeq ==
  ASSUME NEW n \in Nat \ {0}, NEW f \in [Indices(n) -> Byte], NEW h \in Indices(n), NEW t \in Indices(n)
  PROVE  /\ Contents(f, h, t, n) \in Seq(Byte)
         /\ Len(Contents(f, h, t, n)) = Used(h, t, n)
         /\ \A i \in 1..Used(h, t, n) : Contents(f, h, t, n)[i] = f[(t + i - 1) % n]
<1>1. Used(h, t, n) \in Nat /\ Used(h, t, n) <= n - 1
  BY UsedCases
<1>2. \A i \in 1..Used(h, t, n) : (t + i - 1) % n \in Indices(n)
  <2>1. ASSUME NEW i \in 1..Used(h, t, n)
        PROVE  (t + i - 1) % n \in Indices(n)
    <3>1. i - 1 \in Indices(n) /\ t + (i - 1) = t + i - 1
      BY <1>1 DEF Indices
    <3>2. QED
      BY <3>1, SlotCases
  <2>2. QED
    BY <2>1
<1>3. QED
  BY <1>1, <1>2 DEF Contents

\* Two sequences of bytes are the same that have the same bytes.
LEMMA SameBytes ==
  ASSUME NEW s \in Seq(Byte), NEW u \in Seq(Byte), Len(s) = Len(u),
         \A i \in 1..Len(s) : s[i] = u[i]
  PROVE  s = u
OBVIOUS

\* A slot outside of what the ring holds may be written.
LEMMA WrittenOutside ==
  ASSUME NEW n \in Nat \ {0}, NEW f \in [Indices(n) -> Byte], NEW h \in Indices(n), NEW t \in Indices(n),
         NEW k \in Indices(n), NEW b \in Byte, Used(h, t, n) <= Used(k, t, n)
  PROVE  Contents([f EXCEPT ![k] = b], h, t, n) = Contents(f, h, t, n)
<1>1. Used(h, t, n) \in Nat /\ Used(h, t, n) <= n - 1
  BY UsedCases
<1>2. ASSUME NEW i \in 1..Used(h, t, n)
      PROVE  (t + i - 1) % n \in Indices(n) /\ (t + i - 1) % n # k
  <2>1. i - 1 \in Indices(n) /\ t + (i - 1) = t + i - 1
    BY <1>1 DEF Indices
  <2>2. /\ (t + (i - 1)) % n = IF t + (i - 1) < n THEN t + (i - 1) ELSE t + (i - 1) - n
        /\ (t + (i - 1)) % n \in Indices(n)
    BY <2>1, SlotCases
  <2>3. Used(k, t, n) = IF k >= t THEN k - t ELSE k - t + n
    BY UsedCases
  <2>4. i - 1 < Used(k, t, n)
    BY <1>1, <2>3 DEF Indices
  <2>5. QED
    BY <2>1, <2>2, <2>3, <2>4 DEF Indices
<1>3. \A i \in 1..Used(h, t, n) : [f EXCEPT ![k] = b][(t + i - 1) % n] = f[(t + i - 1) % n]
  BY <1>2
<1>4. QED
  BY <1>3 DEF Contents

\* What a ring holds in two parts.
LEMMA ContentsJoined ==
  ASSUME NEW n \in Nat \ {0}, NEW f \in [Indices(n) -> Byte],
         NEW h \in Indices(n), NEW m \in Indices(n), NEW t \in Indices(n),
         Used(m, t, n) + Used(h, m, n) <= n - 1
  PROVE  /\ Used(h, t, n) = Used(m, t, n) + Used(h, m, n)
         /\ Contents(f, h, t, n) = Contents(f, m, t, n) \o Contents(f, h, m, n)
<1>1. /\ Used(h, t, n) = IF h >= t THEN h - t ELSE h - t + n
      /\ Used(m, t, n) = IF m >= t THEN m - t ELSE m - t + n
      /\ Used(h, m, n) = IF h >= m THEN h - m ELSE h - m + n
  BY UsedCases
<1>2. Used(h, t, n) = Used(m, t, n) + Used(h, m, n)
  BY <1>1 DEF Indices
<1>3. Used(h, t, n) \in Nat /\ Used(m, t, n) \in Nat /\ Used(h, m, n) \in Nat
  BY UsedCases
<1>4. ASSUME NEW i \in 1..Used(h, t, n), i > Used(m, t, n)
      PROVE  (t + i - 1) % n = (m + (i - Used(m, t, n)) - 1) % n
  <2> DEFINE j == i - Used(m, t, n) - 1
  <2>1. i - 1 \in Indices(n) /\ j \in Indices(n) /\ i - 1 = j + Used(m, t, n)
    BY <1>2, <1>3, <1>4 DEF Indices
  <2>2. (t + (i - 1)) % n = IF t + (i - 1) < n THEN t + (i - 1) ELSE t + (i - 1) - n
    BY <2>1, SlotCases
  <2>3. (m + j) % n = IF m + j < n THEN m + j ELSE m + j - n
    BY <2>1, SlotCases
  <2>4. t + i - 1 = t + (i - 1) /\ m + (i - Used(m, t, n)) - 1 = m + j
    BY <1>3 DEF Indices
  <2> HIDE DEF j
  <2>5. Used(m, t, n) = IF m >= t THEN m - t ELSE m - t + n
    BY UsedCases
  <2>6. CASE m >= t
    <3>1. t + (i - 1) = m + j
      BY <2>1, <2>5, <2>6 DEF Indices
    <3>2. QED
      BY <2>4, <3>1
  <2>7. CASE m < t
    <3>1. t + (i - 1) = m + j + n
      BY <2>1, <2>5, <2>7 DEF Indices
    <3>2. m + j < n
      BY <2>1, <2>7, <3>1 DEF Indices
    <3>3. (t + (i - 1)) % n = m + j /\ (m + j) % n = m + j
      BY <2>1, <2>2, <2>3, <3>1, <3>2 DEF Indices
    <3>4. QED
      BY <2>4, <3>3
  <2>8. QED
    BY <2>6, <2>7 DEF Indices
<1>5. /\ Contents(f, h, t, n) \in Seq(Byte) /\ Len(Contents(f, h, t, n)) = Used(h, t, n)
      /\ \A i \in 1..Used(h, t, n) : Contents(f, h, t, n)[i] = f[(t + i - 1) % n]
  BY ContentsSeq
<1>6. /\ Contents(f, m, t, n) \in Seq(Byte) /\ Len(Contents(f, m, t, n)) = Used(m, t, n)
      /\ \A i \in 1..Used(m, t, n) : Contents(f, m, t, n)[i] = f[(t + i - 1) % n]
  BY ContentsSeq
<1>7. /\ Contents(f, h, m, n) \in Seq(Byte) /\ Len(Contents(f, h, m, n)) = Used(h, m, n)
      /\ \A i \in 1..Used(h, m, n) : Contents(f, h, m, n)[i] = f[(m + i - 1) % n]
  BY ContentsSeq
<1>8. ASSUME NEW p \in Seq(Byte), NEW q \in Seq(Byte)
      PROVE  /\ p \o q \in Seq(Byte) /\ Len(p \o q) = Len(p) + Len(q)
             /\ \A i \in 1..(Len(p) + Len(q)) : (p \o q)[i] = IF i <= Len(p) THEN p[i] ELSE q[i - Len(p)]
  OBVIOUS
<1> DEFINE both == Contents(f, m, t, n) \o Contents(f, h, m, n)
<1>9. both \in Seq(Byte) /\ Len(both) = Used(h, t, n)
  BY <1>2, <1>6, <1>7, <1>8
<1>10. ASSUME NEW i \in 1..Used(h, t, n)
       PROVE  Contents(f, h, t, n)[i] = both[i]
  <2>1. both[i] = IF i <= Used(m, t, n) THEN Contents(f, m, t, n)[i]
                                         ELSE Contents(f, h, m, n)[i - Used(m, t, n)]
    BY <1>2, <1>6, <1>7, <1>8
  <2>2. CASE i <= Used(m, t, n)
    BY <1>3, <1>5, <1>6, <2>1, <2>2
  <2>3. CASE i > Used(m, t, n)
    <3>1. i - Used(m, t, n) \in 1..Used(h, m, n)
      BY <1>2, <1>3, <2>3
    <3>2. Contents(f, h, m, n)[i - Used(m, t, n)] = f[(m + (i - Used(m, t, n)) - 1) % n]
      BY <1>7, <3>1
    <3>3. both[i] = Contents(f, h, m, n)[i - Used(m, t, n)]
      BY <1>3, <2>1, <2>3
    <3>4. QED
      BY <1>4, <1>5, <2>3, <3>2, <3>3
  <2>4. i <= Used(m, t, n) \/ i > Used(m, t, n)
    BY <1>3
  <2>5. QED
    BY <2>2, <2>3, <2>4
<1> HIDE DEF both
<1>11. Contents(f, h, t, n) = both
  BY <1>5, <1>9, <1>10, SameBytes
<1>12. QED
  BY <1>2, <1>11 DEF both

\* A byte enters at the head.
LEMMA ContentsPushed ==
  ASSUME NEW n \in Nat \ {0}, NEW f \in [Indices(n) -> Byte], NEW h \in Indices(n), NEW t \in Indices(n),
         NEW b \in Byte, Used(h, t, n) < n - 1
  PROVE  /\ Used(Advance(h, n), t, n) = Used(h, t, n) + 1
         /\ Contents([f EXCEPT ![h] = b], Advance(h, n), t, n) = Contents(f, h, t, n) \o <<b>>
<1> DEFINE g == [f EXCEPT ![h] = b]
           m == Advance(h, n)
<1>1. m = (IF h + 1 = n THEN 0 ELSE h + 1) /\ m \in Indices(n) /\ g \in [Indices(n) -> Byte]
  BY AdvanceCases
<1> HIDE DEF m
<1>2. Used(m, h, n) = 1
  <2>1. Used(m, h, n) = IF m >= h THEN m - h ELSE m - h + n
    BY <1>1, UsedCases
  <2>2. n > 1
    BY UsedCases
  <2>3. QED
    BY <1>1, <2>1, <2>2 DEF Indices
<1>3. /\ Used(m, t, n) = Used(h, t, n) + Used(m, h, n)
      /\ Contents(g, m, t, n) = Contents(g, h, t, n) \o Contents(g, m, h, n)
  <2>1. Used(h, t, n) + Used(m, h, n) <= n - 1
    BY <1>2, UsedCases
  <2>2. m \in Indices(n) /\ g \in [Indices(n) -> Byte]
    BY <1>1
  <2> HIDE DEF g
  <2>3. QED
    BY <2>1, <2>2, ContentsJoined
<1>4. Contents(g, h, t, n) = Contents(f, h, t, n)
  <2>1. Used(h, t, n) <= Used(h, t, n)
    BY UsedCases
  <2>2. QED
    BY <2>1, WrittenOutside
<1>5. Contents(g, m, h, n) = <<b>>
  <2> HIDE DEF g
  <2>1. /\ Contents(g, m, h, n) \in Seq(Byte) /\ Len(Contents(g, m, h, n)) = Used(m, h, n)
        /\ \A i \in 1..Used(m, h, n) : Contents(g, m, h, n)[i] = g[(h + i - 1) % n]
    BY ZenonT(30), <1>1, ContentsSeq
  <2>2. (h + 1 - 1) % n = h
    BY DEF Indices
  <2>3. g[h] = b
    BY DEF g
  <2>4. Contents(g, m, h, n)[1] = b
    BY <1>2, <2>1, <2>2, <2>3
  <2>5. <<b>> \in Seq(Byte) /\ Len(<<b>>) = 1 /\ <<b>>[1] = b
    OBVIOUS
  <2>6. QED
    BY <1>2, <2>1, <2>4, <2>5, SameBytes
<1>6. QED
  BY <1>2, <1>3, <1>4, <1>5 DEF m

\* A byte leaves at the tail.
LEMMA ContentsPopped ==
  ASSUME NEW n \in Nat \ {0}, NEW f \in [Indices(n) -> Byte], NEW h \in Indices(n), NEW t \in Indices(n),
         h # t
  PROVE  /\ Used(h, t, n) = Used(h, Advance(t, n), n) + 1
         /\ Contents(f, h, t, n) # <<>>
         /\ Contents(f, h, Advance(t, n), n) = Tail(Contents(f, h, t, n))
<1> DEFINE m == Advance(t, n)
<1>1. m = (IF t + 1 = n THEN 0 ELSE t + 1) /\ m \in Indices(n)
  BY AdvanceCases
<1> HIDE DEF m
<1>2. /\ Used(m, t, n) = IF m >= t THEN m - t ELSE m - t + n
      /\ Used(h, m, n) = IF h >= m THEN h - m ELSE h - m + n
  BY <1>1, UsedCases
<1>3. Used(m, t, n) = 1 /\ Used(h, m, n) + 1 <= n - 1
  BY <1>1, <1>2 DEF Indices
<1>4. /\ Used(h, t, n) = Used(m, t, n) + Used(h, m, n)
      /\ Contents(f, h, t, n) = Contents(f, m, t, n) \o Contents(f, h, m, n)
  <2>1. Used(m, t, n) + Used(h, m, n) <= n - 1
    BY <1>1, <1>2, <1>3, UsedCases
  <2>2. m \in Indices(n)
    BY <1>1
  <2>3. QED
    BY <2>1, <2>2, ContentsJoined
<1>5. /\ Contents(f, m, t, n) \in Seq(Byte) /\ Len(Contents(f, m, t, n)) = 1
      /\ Contents(f, h, m, n) \in Seq(Byte)
  BY ZenonT(30), <1>1, <1>3, ContentsSeq
<1>6. ASSUME NEW p \in Seq(Byte), NEW q \in Seq(Byte), Len(p) = 1
      PROVE  p \o q # <<>> /\ Tail(p \o q) = q
  <2>1. /\ p \o q \in Seq(Byte) /\ Len(p \o q) = Len(p) + Len(q) /\ Len(q) \in Nat
        /\ \A i \in 1..(Len(p) + Len(q)) : (p \o q)[i] = IF i <= Len(p) THEN p[i] ELSE q[i - Len(p)]
    OBVIOUS
  <2>2. p \o q # <<>>
    BY <1>6, <2>1
  <2> DEFINE s == p \o q
  <2>3. s \in Seq(Byte) /\ s # <<>> /\ Len(s) = 1 + Len(q)
        /\ \A i \in 1..Len(q) : s[i + 1] = q[i]
    BY <1>6, <2>1, <2>2
  <2> HIDE DEF s
  <2>4. /\ Tail(s) \in Seq(Byte) /\ Len(Tail(s)) = Len(s) - 1
        /\ \A i \in 1..(Len(s) - 1) : Tail(s)[i] = s[i + 1]
    BY <2>3
  <2>5. Tail(s) = q
    <3>1. Len(q) \in Nat
      OBVIOUS
    <3>2. Len(Tail(s)) = Len(q) /\ \A i \in 1..Len(q) : Tail(s)[i] = q[i]
      BY <2>3, <2>4, <3>1
    <3>3. Tail(s) \in Seq(Byte)
      BY <2>4
    <3>4. QED
      BY <3>2, <3>3, SameBytes
  <2>6. QED
    BY <2>2, <2>5 DEF s
<1>7. QED
  <2>1. Used(h, t, n) = Used(h, m, n) + 1
    BY <1>1, <1>3, <1>4, UsedCases
  <2>2. QED
    BY <1>4, <1>5, <1>6, <2>1 DEF m

-----------------------------------------------------------------------------
(* The transmit ring is a queue.                                            *)

\* The part of the block that is in its slots, but not visible yet.
Copied == Contents(txBuffer, newHead, txHead, TxSize)

\* The writer decided on a tail that moves: what waits, what is copied and what is
\* still to be copied fit the ring together, so no slot the interrupt has still to
\* send is written.
TxInv ==
  /\ txHead \in Indices(TxSize) /\ txTail \in Indices(TxSize) /\ newHead \in Indices(TxSize)
  /\ txBuffer \in [Indices(TxSize) -> Byte]
  /\ rest \in Seq(Byte)
  /\ txPc = "copy" => TxUsed + Used(newHead, txHead, TxSize) + Len(rest) <= TxSize - 1
  /\ txPc = "copy" => Copied \o rest \in Blocks

LEMMA TxMoves ==
  ASSUME [Next]_vars
  PROVE  \/ Accept \/ Copy \/ Publish \/ Enable \/ IsrSend \/ IsrStop \/ Shift \/ UNCHANGED txVars
BY DEF Next, Foreground, Interrupts, Writer, Isr, vars

LEMMA AcceptStep ==
  ASSUME TxInv, Accept
  PROVE  TxInv' /\ Pending' = Pending
<1>1. /\ rest' \in Blocks /\ Len(rest') <= TxSize - 1 - TxUsed /\ newHead' = txHead
      /\ txHead' = txHead /\ txTail' = txTail /\ txBuffer' = txBuffer
  BY DEF Accept, Fits, FreeSpace, txIndices
<1>2. rest' \in Seq(Byte) /\ Len(rest') \in Nat
  BY <1>1, UartTxAssumption
<1>3. Used(txHead, txHead, TxSize) = 0 /\ TxUsed \in Nat /\ TxSize \in Nat
  <2>1. TxSize \in Nat \ {0} /\ txHead \in Indices(TxSize) /\ txTail \in Indices(TxSize)
    BY UartTxAssumption DEF TxInv
  <2>2. TxUsed \in Nat
    BY <2>1, UsedCases DEF TxUsed
  <2>3. Used(txHead, txHead, TxSize)
          = IF txHead >= txHead THEN txHead - txHead ELSE txHead - txHead + TxSize
    BY <2>1, UsedCases
  <2>4. QED
    BY <2>1, <2>2, <2>3 DEF Indices
<1>4. Contents(txBuffer, txHead, txHead, TxSize) = <<>>
  BY <1>3 DEF Contents
<1>5. Copied' = <<>>
  BY <1>1, <1>4 DEF Copied
<1>6. (Copied \o rest)' \in Blocks
  BY <1>1, <1>2, <1>5
<1>7. TxUsed' + Used(newHead', txHead', TxSize) + Len(rest') <= TxSize - 1
  BY <1>1, <1>2, <1>3 DEF TxUsed
<1>8. QED
  BY <1>1, <1>2, <1>6, <1>7 DEF TxInv, Pending

LEMMA CopyStep ==
  ASSUME TxInv, Copy
  PROVE  TxInv' /\ Pending' = Pending
<1>1. /\ txPc = "copy" /\ txPc' = "copy" /\ rest # <<>> /\ rest' = Tail(rest)
      /\ txBuffer' = [txBuffer EXCEPT ![newHead] = Head(rest)]
      /\ newHead' = Advance(newHead, TxSize)
      /\ txHead' = txHead /\ txTail' = txTail
  BY DEF Copy, txIndices
<1>2. /\ TxSize \in Nat \ {0} /\ rest \in Seq(Byte)
      /\ txHead \in Indices(TxSize) /\ txTail \in Indices(TxSize) /\ newHead \in Indices(TxSize)
      /\ txBuffer \in [Indices(TxSize) -> Byte]
  BY UartTxAssumption DEF TxInv
<1>3. /\ Head(rest) \in Byte /\ Tail(rest) \in Seq(Byte) /\ Len(Tail(rest)) = Len(rest) - 1
      /\ Len(rest) \in Nat /\ Len(rest) > 0 /\ rest = <<Head(rest)>> \o Tail(rest)
  BY <1>1, <1>2
<1>4. /\ TxUsed \in Nat /\ Used(newHead, txHead, TxSize) \in Nat
      /\ Used(newHead, txTail, TxSize) \in Nat
  BY <1>2, UsedCases DEF TxUsed
<1>5. TxUsed + Used(newHead, txHead, TxSize) + Len(rest) <= TxSize - 1
  BY <1>1 DEF TxInv
<1>6. /\ Used(newHead', txHead, TxSize) = Used(newHead, txHead, TxSize) + 1
      /\ Contents(txBuffer', newHead', txHead, TxSize) = Copied \o <<Head(rest)>>
  <2>1. Used(newHead, txHead, TxSize) < TxSize - 1
    BY <1>2, <1>3, <1>4, <1>5
  <2>2. Head(rest) \in Byte
    BY <1>3
  <2>3. QED
    BY <1>1, <1>2, <2>1, <2>2, ContentsPushed DEF Copied
<1>7. Copied' \o rest' = Copied \o rest
  <2>1. Copied \in Seq(Byte)
    BY <1>2, ContentsSeq DEF Copied
  <2>2. ASSUME NEW p \in Seq(Byte), NEW q \in Seq(Byte), NEW r \in Seq(Byte)
        PROVE  (p \o q) \o r = p \o (q \o r)
    OBVIOUS
  <2>3. <<Head(rest)>> \in Seq(Byte)
    BY <1>3
  <2>4. Copied' = Copied \o <<Head(rest)>>
    BY <1>1, <1>6 DEF Copied
  <2>5. QED
    BY <1>1, <1>3, <2>1, <2>2, <2>3, <2>4
<1>8. Contents(txBuffer', txHead, txTail, TxSize) = Contents(txBuffer, txHead, txTail, TxSize)
  <2>1. TxUsed + Used(newHead, txHead, TxSize) <= TxSize - 1
    BY <1>2, <1>3, <1>4, <1>5
  <2>2. Used(newHead, txTail, TxSize) = Used(txHead, txTail, TxSize) + Used(newHead, txHead, TxSize)
    BY <1>2, <2>1, ContentsJoined DEF TxUsed
  <2>3. Used(txHead, txTail, TxSize) <= Used(newHead, txTail, TxSize)
    BY <1>4, <2>2 DEF TxUsed
  <2>4. Head(rest) \in Byte
    BY <1>3
  <2>5. QED
    BY ZenonT(30), <1>1, <1>2, <2>3, <2>4, WrittenOutside
<1>9. newHead' \in Indices(TxSize) /\ txBuffer' \in [Indices(TxSize) -> Byte]
  BY <1>1, <1>2, <1>3, AdvanceCases
<1>10. TxUsed' + Used(newHead', txHead', TxSize) + Len(rest') <= TxSize - 1
  <2>1. TxUsed' = TxUsed /\ Len(rest') = Len(rest) - 1
        /\ Used(newHead', txHead', TxSize) = Used(newHead, txHead, TxSize) + 1
    BY <1>1, <1>3, <1>6 DEF TxUsed
  <2>2. QED
    BY <1>2, <1>3, <1>4, <1>5, <2>1
<1>11. Copied' \o rest' \in Blocks
  BY <1>1, <1>7 DEF TxInv
<1>12. rest' \in Seq(Byte) /\ txHead' \in Indices(TxSize) /\ txTail' \in Indices(TxSize)
  BY <1>1, <1>2, <1>3
<1>13. QED
  BY <1>1, <1>8, <1>9, <1>10, <1>11, <1>12 DEF TxInv, Pending

LEMMA PublishStep ==
  ASSUME TxInv, Publish
  PROVE  TxInv' /\ TxFifo!Enter
<1>1. /\ txPc = "copy" /\ txPc' = "enable" /\ rest = <<>> /\ rest' = rest
      /\ txBuffer' = txBuffer /\ newHead' = newHead /\ txHead' = newHead /\ txTail' = txTail
  BY DEF Publish
<1>2. TxInv'
  BY <1>1 DEF TxInv
<1>3. /\ TxSize \in Nat \ {0}
      /\ txHead \in Indices(TxSize) /\ txTail \in Indices(TxSize) /\ newHead \in Indices(TxSize)
      /\ txBuffer \in [Indices(TxSize) -> Byte]
  BY UartTxAssumption DEF TxInv
<1>4. Used(txHead, txTail, TxSize) + Used(newHead, txHead, TxSize) <= TxSize - 1
  <2>1. /\ Used(txHead, txTail, TxSize) \in Nat /\ Used(newHead, txHead, TxSize) \in Nat
    BY <1>3, UsedCases
  <2>2. Used(txHead, txTail, TxSize) + Used(newHead, txHead, TxSize) + Len(rest) <= TxSize - 1
    BY <1>1 DEF TxInv, TxUsed
  <2>3. Len(rest) = 0
    BY <1>1
  <2>4. QED
    BY <2>1, <2>2, <2>3
<1>5. Copied \in Seq(Byte) /\ Len(Copied) = Used(newHead, txHead, TxSize)
  BY <1>3, ContentsSeq DEF Copied
<1>6. Copied \in Blocks
  <2>1. Copied \o <<>> = Copied
    BY <1>5
  <2>2. QED
    BY <1>1, <2>1 DEF TxInv
<1>7. Len(Pending) = Used(txHead, txTail, TxSize)
  BY <1>3, ContentsSeq DEF Pending
<1>8. Pending' = Pending \o Copied
  <2>1. Contents(txBuffer, newHead, txTail, TxSize)
          = Contents(txBuffer, txHead, txTail, TxSize) \o Contents(txBuffer, newHead, txHead, TxSize)
    BY <1>3, <1>4, ContentsJoined
  <2>2. QED
    BY <1>1, <2>1 DEF Pending, Copied
<1>9. Len(Pending) + Len(Copied) <= TxSize - 1
  BY <1>4, <1>5, <1>7
<1>10. QED
  BY <1>2, <1>6, <1>8, <1>9 DEF TxFifo!Enter

LEMMA SendStep ==
  ASSUME TxInv, IsrSend
  PROVE  TxInv' /\ TxFifo!Leave
<1>1. /\ txHead # txTail /\ txTail' = Advance(txTail, TxSize) /\ txHead' = txHead
      /\ txBuffer' = txBuffer /\ txPc' = txPc /\ newHead' = newHead /\ rest' = rest
  BY DEF IsrSend, writerVars
<1>2. /\ TxSize \in Nat \ {0}
      /\ txHead \in Indices(TxSize) /\ txTail \in Indices(TxSize) /\ newHead \in Indices(TxSize)
      /\ txBuffer \in [Indices(TxSize) -> Byte] /\ rest \in Seq(Byte)
  BY UartTxAssumption DEF TxInv
<1>3. txTail' \in Indices(TxSize)
  BY <1>1, <1>2, AdvanceCases
<1>4. TxUsed = TxUsed' + 1 /\ Pending # <<>> /\ Pending' = Tail(Pending)
  BY <1>1, <1>2, ContentsPopped DEF TxUsed, Pending
<1>5. txPc = "copy" =>
        TxUsed' + Used(newHead', txHead', TxSize) + Len(rest') <= TxSize - 1
  <2>1. TxUsed' \in Nat /\ Used(newHead, txHead, TxSize) \in Nat /\ Len(rest) \in Nat
    <3>1. Used(txHead, txTail', TxSize) \in Nat
      BY <1>2, <1>3, UsedCases
    <3>2. Used(newHead, txHead, TxSize) \in Nat
      BY <1>2, UsedCases
    <3>3. QED
      BY <1>1, <1>2, <3>1, <3>2 DEF TxUsed
  <2>2. txPc = "copy" => TxUsed + Used(newHead, txHead, TxSize) + Len(rest) <= TxSize - 1
    BY DEF TxInv
  <2>3. QED
    BY <1>1, <1>2, <1>4, <2>1, <2>2
<1>6. Copied' = Copied
  BY <1>1 DEF Copied
<1>7. TxInv'
  BY <1>1, <1>2, <1>3, <1>5, <1>6 DEF TxInv
<1>8. QED
  BY <1>4, <1>7 DEF TxFifo!Leave

(* The transmit ring is a queue of whole blocks: uart_tx_write() and        *)
(* USART_UDRE_vect together implement ByteFifo, for rings and blocks of any *)
(* size and every interleaving.                                             *)
THEOREM TxRingIsFifo == Spec => TxImplementsFifo
<1>1. Init => TxInv /\ TxFifo!Init
  <2> SUFFICES ASSUME Init
               PROVE  TxInv /\ TxFifo!Init
    OBVIOUS
  <2>1. Blank \in Byte
    BY UartRxAssumption DEF Blank
  <2>2. TxSize \in Nat \ {0}
    BY UartTxAssumption
  <2>3. /\ txHead = 0 /\ txTail = 0 /\ newHead = 0 /\ txPc = "idle" /\ rest = <<>>
        /\ txBuffer = [i \in TxIndex |-> Blank]
    BY DEF Init, TxInit
  <2>4. 0 \in Indices(TxSize)
    BY <2>2 DEF Indices
  <2>5. TxInv
    BY <2>1, <2>3, <2>4 DEF TxInv, TxIndex, Indices
  <2>6. Used(0, 0, TxSize) = 0
    BY <2>2, <2>4, UsedCases
  <2>7. Pending = <<>>
    BY <2>3, <2>6 DEF Pending, Contents
  <2>8. QED
    BY <2>5, <2>7 DEF TxFifo!Init
<1>2. TxInv /\ [Next]_vars => TxInv' /\ [TxFifo!Enter \/ TxFifo!Leave]_Pending
  <2> SUFFICES ASSUME TxInv, [Next]_vars
               PROVE  TxInv' /\ (TxFifo!Enter \/ TxFifo!Leave \/ Pending' = Pending)
    OBVIOUS
  <2>1. CASE Enable \/ IsrStop \/ Shift \/ UNCHANGED txVars
    <3>1. UNCHANGED <<txHead, txTail, txBuffer, newHead, rest>> /\ (txPc' = "copy" => txPc = "copy")
      BY <2>1 DEF Enable, IsrStop, Shift, txVars, txIndices, writerVars
    <3>2. QED
      BY <3>1 DEF TxInv, TxUsed, Copied, Pending
  <2>2. QED
    BY <2>1, TxMoves, AcceptStep, CopyStep, PublishStep, SendStep
<1>3. QED
  BY <1>1, <1>2, PTL DEF Spec, TxImplementsFifo, TxFifo!Spec

-----------------------------------------------------------------------------
(* The receive ring is a queue.                                             *)

\* The reader's slot is the oldest byte's, and the interrupt does not give it away.
RxInv ==
  /\ rxHead \in Indices(RxSize) /\ rxTail \in Indices(RxSize)
  /\ rxBuffer \in [Indices(RxSize) -> Byte]
  /\ rxPc # "idle" => slot = rxTail /\ rxHead # rxTail
  /\ overflows \in Nat /\ overflows <= MaxOverflow

LEMMA RxMoves ==
  ASSUME [Next]_vars
  PROVE  \/ \E b \in Byte : Store(b)
         \/ Drop \/ Find \/ Take \/ Release \/ UNCHANGED rxVars
BY DEF Next, Foreground, Interrupts, Receive, Reader, vars

\* The ring is full when all slots but one are used.
LEMMA FullIs ==
  ASSUME RxInv
  PROVE  Full <=> RxUsed = RxSize - 1
<1>1. RxSize \in Nat \ {0} /\ rxHead \in Indices(RxSize) /\ rxTail \in Indices(RxSize)
  BY UartRxAssumption DEF RxInv
<1>2. RxUsed = IF rxHead >= rxTail THEN rxHead - rxTail ELSE rxHead - rxTail + RxSize
  BY <1>1, UsedCases DEF RxUsed
<1>3. Advance(rxHead, RxSize) = IF rxHead + 1 = RxSize THEN 0 ELSE rxHead + 1
  BY <1>1, AdvanceCases
<1>4. QED
  BY <1>1, <1>2, <1>3 DEF Full, Indices

LEMMA StoreStep ==
  ASSUME RxInv, NEW b \in Byte, Store(b)
  PROVE  RxInv' /\ RxFifo!Enter
<1>1. /\ ~Full /\ rxBuffer' = [rxBuffer EXCEPT ![rxHead] = b]
      /\ rxHead' = Advance(rxHead, RxSize) /\ rxTail' = rxTail /\ overflows' = overflows
      /\ rxPc' = rxPc /\ slot' = slot
  BY DEF Store, readerVars
<1>2. /\ RxSize \in Nat \ {0} /\ rxHead \in Indices(RxSize) /\ rxTail \in Indices(RxSize)
      /\ rxBuffer \in [Indices(RxSize) -> Byte]
  BY UartRxAssumption DEF RxInv
<1>3. RxUsed \in Nat /\ RxUsed < RxSize - 1 /\ Len(Waiting) = RxUsed
  <2>1. RxUsed \in Nat /\ RxUsed <= RxSize - 1
    BY <1>2, UsedCases DEF RxUsed
  <2>2. RxUsed # RxSize - 1
    BY <1>1, FullIs
  <2>3. Len(Waiting) = RxUsed
    BY <1>2, ContentsSeq DEF Waiting, RxUsed
  <2>4. QED
    BY <1>2, <2>1, <2>2, <2>3
<1>4. Waiting' = Waiting \o <<b>>
  <2>1. Used(rxHead, rxTail, RxSize) < RxSize - 1
    BY <1>3 DEF RxUsed
  <2>2. QED
    BY <1>1, <1>2, <2>1, ContentsPushed DEF Waiting
<1>5. RxInv'
  <2>1. rxHead' \in Indices(RxSize) /\ rxBuffer' \in [Indices(RxSize) -> Byte]
    BY <1>1, <1>2, AdvanceCases
  <2>2. rxHead' # rxTail'
    BY <1>1 DEF Full
  <2>3. QED
    BY <1>1, <2>1, <2>2 DEF RxInv
<1>6. Len(Waiting) + Len(<<b>>) <= RxSize - 1
  BY <1>2, <1>3
<1>7. QED
  BY <1>4, <1>5, <1>6 DEF RxFifo!Enter

LEMMA ReleaseStep ==
  ASSUME RxInv, Release
  PROVE  RxInv' /\ RxFifo!Leave
<1>1. /\ rxPc = "taken" /\ rxPc' = "idle" /\ rxTail' = Advance(slot, RxSize)
      /\ rxHead' = rxHead /\ rxBuffer' = rxBuffer /\ overflows' = overflows
  BY DEF Release
<1>2. /\ RxSize \in Nat \ {0} /\ rxHead \in Indices(RxSize) /\ rxTail \in Indices(RxSize)
      /\ rxBuffer \in [Indices(RxSize) -> Byte] /\ slot = rxTail /\ rxHead # rxTail
  BY <1>1, UartRxAssumption DEF RxInv
<1>3. Waiting # <<>> /\ Waiting' = Tail(Waiting)
  BY <1>1, <1>2, ContentsPopped DEF Waiting
<1>4. rxTail' \in Indices(RxSize)
  BY <1>1, <1>2, AdvanceCases
<1>5. RxInv'
  BY <1>1, <1>2, <1>4 DEF RxInv
<1>6. QED
  BY <1>3, <1>5 DEF RxFifo!Leave

LEMMA RxStep ==
  ASSUME RxInv, [Next]_vars
  PROVE  /\ RxInv'
         /\ RxFifo!Enter \/ RxFifo!Leave \/ Waiting' = Waiting
         /\ overflows' >= overflows
         /\ overflows' # overflows => RxUsed = RxSize - 1 /\ Waiting' = Waiting
<1>1. overflows \in Nat /\ overflows <= MaxOverflow /\ MaxOverflow \in Nat
  BY UartRxAssumption DEF RxInv
<1>2. ASSUME NEW b \in Byte, Store(b)
      PROVE  RxInv' /\ RxFifo!Enter /\ overflows' = overflows
  BY <1>2, StoreStep DEF Store
<1>3. CASE Drop
  <2>1. /\ UNCHANGED <<rxHead, rxTail, rxBuffer, rxPc, slot>> /\ Full
        /\ overflows' = IF overflows = MaxOverflow THEN overflows ELSE overflows + 1
    BY <1>3 DEF Drop, readerVars
  <2>2. overflows' \in Nat /\ overflows' <= MaxOverflow /\ overflows' >= overflows
    BY <1>1, <2>1
  <2>3. QED
    BY <2>1, <2>2, FullIs DEF RxInv, Waiting
<1>4. CASE Release
  BY <1>1, <1>4, ReleaseStep DEF Release
<1>5. CASE Find \/ Take \/ UNCHANGED rxVars
  <2>1. UNCHANGED <<rxHead, rxTail, rxBuffer, overflows>>
    BY <1>5 DEF Find, Take, rxVars
  <2>2. RxInv'
    BY <1>5, <2>1 DEF RxInv, Find, Take, rxVars, readerVars
  <2>3. QED
    BY <1>1, <2>1, <2>2 DEF Waiting
<1>6. QED
  BY <1>1, <1>2, <1>3, <1>4, <1>5, RxMoves

LEMMA RxStart ==
  ASSUME Init
  PROVE  RxInv /\ RxFifo!Init
<1>1. Blank \in Byte
  BY UartRxAssumption DEF Blank
<1>2. RxSize \in Nat \ {0} /\ MaxOverflow \in Nat
  BY UartRxAssumption
<1>3. /\ rxHead = 0 /\ rxTail = 0 /\ rxPc = "idle" /\ overflows = 0
      /\ rxBuffer = [i \in RxIndex |-> Blank]
  BY DEF Init, RxInit
<1>4. 0 \in Indices(RxSize)
  BY <1>2 DEF Indices
<1>5. RxInv
  BY <1>1, <1>2, <1>3, <1>4 DEF RxInv, RxIndex, Indices
<1>6. Used(0, 0, RxSize) = 0
  BY <1>2, <1>4, UsedCases
<1>7. Waiting = <<>>
  BY <1>3, <1>6 DEF Waiting, Contents
<1>8. QED
  BY <1>5, <1>7 DEF RxFifo!Init

(* The receive ring is a queue of bytes: USART_RX_vect and the steps of     *)
(* uart_read_byte() together implement ByteFifo, for every ring size and    *)
(* every interleaving.                                                      *)
THEOREM RxRingIsFifo == Spec => RxImplementsFifo
<1>1. RxInv /\ [Next]_vars => RxInv' /\ [RxFifo!Enter \/ RxFifo!Leave]_Waiting
  BY RxStep
<1>2. QED
  BY RxStart, <1>1, PTL DEF Spec, RxImplementsFifo, RxFifo!Spec

(* The overflow count of USART_RX_vect never falls, and it moves only on a  *)
(* byte that found every usable slot taken, leaving what waits as it was.   *)
THEOREM LossesAreCounted == Spec => LossIsRecorded
<1>1. RxInv /\ [Next]_vars
        => RxInv' /\ [/\ overflows' >= overflows
                      /\ overflows' # overflows => RxUsed = RxSize - 1 /\ Waiting' = Waiting]_rxVars
  BY RxStep
<1>2. QED
  BY RxStart, <1>1, PTL DEF Spec, LossIsRecorded
===============================================================================
