--------------------------------- MODULE Servo --------------------------------
(***************************************************************************)
(* The servo driver, drivers/servo.c: the compare unit of Timer1, whose    *)
(* interrupt toggles the signal and schedules its own next match, and the  *)
(* pulse length that control_task() commands at any moment.                *)
(***************************************************************************)
EXTENDS Integers

CONSTANTS TickWord,      \* modulus of the timer (65536)
          OneMs,         \* SERVO_ONE_MS_TICKS
          FrameTicks,    \* SERVO_FRAME_TICKS
          InitialDelay,  \* SERVO_INITIAL_COMPARE_DELAY_TICKS
          MaxLag         \* bound: a match is served within this many ticks,
                         \* the first one too, which may wait for sei()

ASSUME ServoAssumption ==
  /\ TickWord \in Nat /\ OneMs \in Nat \ {0} /\ FrameTicks \in Nat
  /\ InitialDelay \in 1..FrameTicks
  /\ MaxLag \in 0..(OneMs - 1)
  /\ 3 * OneMs <= FrameTicks
  /\ FrameTicks < TickWord

VARIABLES tcnt,      \* TCNT1
          ocr,       \* OCR1A
          ocf,       \* the match is flagged and not yet served
          enabled,   \* main() has executed sei()
          pulse,     \* g_servo_pulse_ms
          high,      \* g_servo_signal_high, and the signal itself
          active,    \* g_servo_active_pulse_ms
          lag        \* ticks since the flagged match

vars == <<tcnt, ocr, ocf, enabled, pulse, high, active, lag>>

Ticks == 0..(TickWord - 1)

TypeOK ==
  /\ tcnt \in Ticks /\ ocr \in Ticks
  /\ ocf \in BOOLEAN /\ enabled \in BOOLEAN /\ high \in BOOLEAN
  /\ pulse \in {1, 2} /\ active \in {1, 2}
  /\ lag \in 0..MaxLag

Width(ms) == ms * OneMs

-----------------------------------------------------------------------------
\* servo_init(), at any value of the timer.
Init ==
  /\ tcnt \in Ticks
  /\ ocr = (tcnt + InitialDelay) % TickWord
  /\ ocf = FALSE /\ enabled = FALSE
  /\ pulse = 1 /\ high = FALSE /\ active = 1
  /\ lag = 0

\* sei() at the end of the start-up in main().
EnableInterrupts ==
  /\ ~enabled
  /\ enabled' = TRUE
  /\ UNCHANGED <<tcnt, ocr, ocf, pulse, high, active, lag>>

\* The timer counts; a count equal to OCR1A raises the flag.
Tick ==
  /\ ocf => lag < MaxLag
  /\ tcnt' = (tcnt + 1) % TickWord
  /\ ocf' = (ocf \/ tcnt' = ocr)
  /\ lag' = IF ocf THEN lag + 1 ELSE 0
  /\ UNCHANGED <<ocr, enabled, pulse, high, active>>

\* Mutation: the command is latched after it was used.
RiseLatchLate ==
  /\ enabled /\ ocf /\ ~high
  /\ active' = pulse /\ high' = TRUE
  /\ ocr' = (ocr + Width(active)) % TickWord
  /\ ocf' = FALSE /\ lag' = 0
  /\ UNCHANGED <<tcnt, enabled, pulse>>

\* ISR(TIMER1_COMPA_vect) on a low signal: the command is latched for the
\* whole frame.
Rise ==
  /\ enabled /\ ocf /\ ~high
  /\ active' = pulse /\ high' = TRUE
  /\ ocr' = (ocr + Width(active')) % TickWord
  /\ ocf' = FALSE /\ lag' = 0
  /\ UNCHANGED <<tcnt, enabled, pulse>>

\* Mutation: the next match is set relative to the counter.
FallFromCounter ==
  /\ enabled /\ ocf /\ high
  /\ high' = FALSE
  /\ ocr' = (tcnt + FrameTicks - Width(active)) % TickWord
  /\ ocf' = FALSE /\ lag' = 0
  /\ UNCHANGED <<tcnt, enabled, pulse, active>>
\* ISR(TIMER1_COMPA_vect) on a high signal: the rest of the frame.
Fall ==
  /\ enabled /\ ocf /\ high
  /\ high' = FALSE
  /\ ocr' = (ocr + FrameTicks - Width(active)) % TickWord
  /\ ocf' = FALSE /\ lag' = 0
  /\ UNCHANGED <<tcnt, enabled, pulse, active>>

\* servo_set_pulse_ms(), which control_task() calls with 1 and 2; before sei()
\* main() calls it once, with the value it already has.
SetPulse ==
  /\ enabled
  /\ pulse' \in {1, 2}
  /\ UNCHANGED <<tcnt, ocr, ocf, enabled, high, active, lag>>

Next == EnableInterrupts \/ Tick \/ Rise \/ Fall \/ SetPulse
Spec == Init /\ [][Next]_vars

===============================================================================
