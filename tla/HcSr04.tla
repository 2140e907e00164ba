-------------------------------- MODULE HcSr04 --------------------------------
(***************************************************************************)
(* The ultrasonic driver, drivers/hcsr04.c, at the level of its registers: *)
(* the free-running 16-bit timer, the capture unit with its edge select    *)
(* (ICES1), flag (ICF1) and mask (ICIE1), the interrupt that may run any   *)
(* time after the edge it serves, and the sensor task that starts, reads   *)
(* or aborts a measurement.  It implements Ranging.                        *)
(***************************************************************************)
EXTENDS Integers

CONSTANTS TickWord,       \* modulus of the timer (65536 ticks = 32.768 ms)
          TicksPerCm,     \* HCSR04_TICKS_PER_CENTIMETER
          ThresholdCm,    \* SAFETY_OBSTACLE_THRESHOLD_CM
          WindowTicks     \* bound: the sensor task has read or aborted a
                          \* measurement this long after its start

ASSUME HcSr04Assumption ==
  /\ TickWord \in Nat \ {0}
  /\ TicksPerCm \in Nat \ {0}
  /\ ThresholdCm \in Nat
  /\ WindowTicks \in Nat
  /\ WindowTicks < TickWord

VARIABLES capture,     \* g_capture_state
          startTick,   \* g_start_tick
          pulseTicks,  \* g_pulse_ticks
          ready,       \* g_result_ready
          ices,        \* edge the capture unit waits for: "up" or "down"
          icf,         \* an edge was captured and not yet served
          icie,        \* the capture interrupt is enabled
          icr,         \* timer value of the captured edge
          tcnt,        \* the timer
          measuring,   \* static measurement_active of the sensor task
          aborting,    \* the task saw no result and is about to abort
          sinceStart,  \* true ticks since the measurement was started
          echo,        \* level of the echo pin
          burst,       \* "none", "sent" (no echo yet) or "heard" (pin high)
          width        \* true length of the last echo pulse, in ticks

driverVars == <<capture, startTick, pulseTicks, ready>>
captureUnit == <<ices, icf, icie, icr>>
taskVars == <<measuring, aborting>>
worldVars == <<echo, burst, width>>
hvars == <<driverVars, captureUnit, tcnt, taskVars, sinceStart, worldVars>>

Ticks == 0..(TickWord - 1)

\* An echo pulse is counted up to here: longer than anything the task waits for.
MaxWidth == 2 * TickWord

TypeOK ==
  /\ capture \in {"IDLE", "WAIT_RISING", "WAIT_FALLING"}
  /\ startTick \in Ticks /\ pulseTicks \in Ticks /\ icr \in Ticks /\ tcnt \in Ticks
  /\ ices \in {"up", "down"}
  /\ ready \in BOOLEAN /\ icf \in BOOLEAN /\ icie \in BOOLEAN
  /\ measuring \in BOOLEAN /\ aborting \in BOOLEAN
  /\ sinceStart \in 0..WindowTicks
  /\ echo \in BOOLEAN /\ burst \in {"none", "sent", "heard"}
  /\ width \in 0..MaxWidth

\* The distance in centimetres, and what safety_obstacle_is_critical() and the
\* validity test of the sensor task make of it.
Class(ticks) ==
  LET cm == ticks \div TicksPerCm
  IN  CASE cm = 0 -> "invalid"
        [] cm \in 1..ThresholdCm -> "critical"
        [] OTHER -> "clear"

-----------------------------------------------------------------------------
\* hcsr04_init() before interrupts are enabled; the sensor is at rest.
HInit ==
  /\ capture = "IDLE" /\ startTick = 0 /\ pulseTicks = 0 /\ ready = FALSE
  /\ ices = "up" /\ icf = FALSE /\ icie = FALSE /\ icr = 0
  /\ tcnt = 0
  /\ measuring = FALSE /\ aborting = FALSE /\ sinceStart = 0
  /\ echo = FALSE /\ burst = "none" /\ width = 0

\* Mutations: the flag of an earlier edge, the earlier result is not cleared.
StartKeepsFlag ==
  /\ ~measuring
  /\ IF capture = "IDLE"
       THEN /\ pulseTicks' = 0 /\ ready' = FALSE /\ capture' = "WAIT_RISING"
            /\ ices' = "up" /\ icie' = TRUE
            /\ measuring' = TRUE
            /\ sinceStart' = 0
            /\ burst' = IF burst = "none" THEN "sent" ELSE burst
       ELSE UNCHANGED <<pulseTicks, ready, capture, ices, icie, measuring,
                        sinceStart, burst>>
  /\ UNCHANGED <<startTick, icf, icr, tcnt, aborting, echo, width>>

StartKeepsReady ==
  /\ ~measuring
  /\ IF capture = "IDLE"
       THEN /\ pulseTicks' = 0 /\ capture' = "WAIT_RISING"
            /\ ices' = "up" /\ icf' = FALSE /\ icie' = TRUE
            /\ measuring' = TRUE
            /\ sinceStart' = 0
            /\ burst' = IF burst = "none" THEN "sent" ELSE burst
       ELSE UNCHANGED <<pulseTicks, capture, ices, icf, icie, measuring,
                        sinceStart, burst>>
  /\ UNCHANGED <<startTick, ready, icr, tcnt, aborting, echo, width>>

\* hcsr04_start() from the sensor task: one atomic block, then the trigger pulse.
\* A module that is still busy with an earlier burst ignores the trigger.
Start ==
  /\ ~measuring
  /\ IF capture = "IDLE"
       THEN /\ pulseTicks' = 0 /\ ready' = FALSE /\ capture' = "WAIT_RISING"
            /\ ices' = "up" /\ icf' = FALSE /\ icie' = TRUE
            /\ measuring' = TRUE
            /\ sinceStart' = 0
            /\ burst' = IF burst = "none" THEN "sent" ELSE burst
       ELSE UNCHANGED <<pulseTicks, ready, capture, ices, icf, icie, measuring,
                        sinceStart, burst>>
  /\ UNCHANGED <<startTick, icr, tcnt, aborting, echo, width>>

\* The sensor task finds a result and reads it.
Evaluate ==
  /\ measuring /\ ~aborting /\ ready
  /\ measuring' = FALSE
  /\ UNCHANGED <<driverVars, captureUnit, tcnt, aborting, sinceStart, worldVars>>

\* The sensor task finds none ...
NotReady ==
  /\ measuring /\ ~aborting /\ ~ready
  /\ aborting' = TRUE
  /\ UNCHANGED <<driverVars, captureUnit, tcnt, measuring, sinceStart, worldVars>>

\* ... and calls hcsr04_abort().
Abort ==
  /\ aborting
  /\ icie' = FALSE /\ ices' = "up" /\ icf' = FALSE
  /\ capture' = "IDLE" /\ ready' = FALSE
  /\ measuring' = FALSE /\ aborting' = FALSE
  /\ UNCHANGED <<startTick, pulseTicks, icr, tcnt, sinceStart, worldVars>>

\* TIMER1_CAPT_vect; the processor clears ICF1 when it enters the handler.
CaptureIsr ==
  /\ icf /\ icie
  /\ icf' = FALSE
  /\ IF capture = "WAIT_RISING"
       THEN /\ startTick' = icr
            /\ capture' = "WAIT_FALLING"
            /\ ices' = "down"
            /\ UNCHANGED <<pulseTicks, ready, icie>>
       ELSE IF capture = "WAIT_FALLING"
       THEN /\ pulseTicks' = (icr - startTick) % TickWord
            /\ ready' = TRUE
            /\ capture' = "IDLE"
            /\ icie' = FALSE
            /\ UNCHANGED <<startTick, ices>>
       ELSE /\ icie' = FALSE
            /\ UNCHANGED <<driverVars, ices>>
  /\ UNCHANGED <<icr, tcnt, taskVars, sinceStart, worldVars>>

-----------------------------------------------------------------------------
\* The capture unit latches the timer on the edge it is set to.
Latch(edge) ==
  IF ices = edge
    THEN icf' = TRUE /\ icr' = tcnt /\ UNCHANGED <<ices, icie>>
    ELSE UNCHANGED captureUnit

\* The sensor module answers a burst with one pulse on the echo pin.
EchoUp ==
  /\ burst = "sent"
  /\ burst' = "heard" /\ echo' = TRUE /\ width' = 0
  /\ Latch("up")
  /\ UNCHANGED <<driverVars, tcnt, taskVars, sinceStart>>

EchoDown ==
  /\ burst = "heard"
  /\ burst' = "none" /\ echo' = FALSE
  /\ Latch("down")
  /\ UNCHANGED <<driverVars, tcnt, taskVars, sinceStart, width>>

\* The timer advances.  The guard is the bound: the sensor task comes back
\* before the timer has gone round once.
Count ==
  /\ measuring => sinceStart < WindowTicks
  /\ tcnt' = (tcnt + 1) % TickWord
  /\ sinceStart' = IF measuring THEN sinceStart + 1 ELSE sinceStart
  /\ width' = IF echo /\ width < MaxWidth THEN width + 1 ELSE width
  /\ UNCHANGED <<driverVars, captureUnit, taskVars, echo, burst>>

HNext ==
  \/ Start \/ Evaluate \/ NotReady \/ Abort
  \/ CaptureIsr
  \/ EchoUp \/ EchoDown \/ Count

HSpec == HInit /\ [][HNext]_hvars

-----------------------------------------------------------------------------
(* The 16-bit subtraction gives the true length of the echo, whatever the   *)
(* timer showed when the echo began and however late the interrupt ran.     *)
(* It rests on the abort: an echo longer than the timer's range would look  *)
(* like a near obstacle, but the task has given up by then.                 *)
ResultIsTrueWidth == ready => pulseTicks = width

\* What the sensor task can tell from the outside.
Ranging == INSTANCE Ranging WITH reading <- Class(pulseTicks)

(* The registers and the interrupt implement the ranging promise that the   *)
(* control loop is built on: at most one reading per start, none after an   *)
(* abort until the next start.                                              *)
ImplementsRanging == Ranging!Spec
=============================================================================
