------------------------------- MODULE Ranging -------------------------------
(***************************************************************************)
(* What the ultrasonic driver (drivers/hcsr04.c) promises to the sensor    *)
(* task: a measurement that is started ends with at most one reading, the  *)
(* reading belongs to the echo that followed THIS trigger, and abort gives *)
(* the measurement up.  The pulse width appears as its class, what         *)
(* sensor_safety_task() and safety_obstacle_is_critical() tell apart.      *)
(* Module HcSr04 models the registers and the interrupt that implement it. *)
(***************************************************************************)

VARIABLES capture,  \* g_capture_state
          ready,    \* g_result_ready
          reading   \* class of g_pulse_ticks

rangingVars == <<capture, ready, reading>>

\* "invalid": below one centimetre, also the 0 written by start;
\* "critical": 1..SAFETY_OBSTACLE_THRESHOLD_CM; "clear": farther away.
Reading == {"invalid", "critical", "clear"}

Init ==
  /\ capture = "IDLE"
  /\ ready = FALSE
  /\ reading = "invalid"

TypeOK ==
  /\ capture \in {"IDLE", "WAIT_RISING", "WAIT_FALLING"}
  /\ ready \in BOOLEAN
  /\ reading \in Reading

\* Mutation: the result of the previous measurement is not cleared.
StartKeepsReady ==
  /\ capture = "IDLE"
  /\ capture' = "WAIT_RISING"
  /\ UNCHANGED <<ready, reading>>

\* hcsr04_start() that returns 1.
Start ==
  /\ capture = "IDLE"
  /\ capture' = "WAIT_RISING"
  /\ ready' = FALSE
  /\ reading' = "invalid"

\* TIMER1_CAPT_vect on the edge that opens the pulse.
Rise ==
  /\ capture = "WAIT_RISING"
  /\ capture' = "WAIT_FALLING"
  /\ UNCHANGED <<ready, reading>>

\* TIMER1_CAPT_vect on the edge that closes it.
Fall(r) ==
  /\ capture = "WAIT_FALLING"
  /\ capture' = "IDLE"
  /\ ready' = TRUE
  /\ reading' = r

\* Mutation: the state of the interrupt is not reset.
AbortKeepsCapture == ready' = FALSE /\ UNCHANGED <<capture, reading>>

\* hcsr04_abort(): whatever was under way, or just finished, is dropped.
Abort ==
  /\ capture' = "IDLE"
  /\ ready' = FALSE
  /\ UNCHANGED reading

Next == Start \/ Rise \/ (\E r \in Reading : Fall(r)) \/ Abort

Spec == Init /\ [][Next]_rangingVars
=============================================================================
