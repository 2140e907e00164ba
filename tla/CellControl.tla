----------------------------- MODULE CellControl -----------------------------
(***************************************************************************)
(* The control loop of the firmware: main() of firmware/main.c with its    *)
(* four tasks, the state machine (app/system_fsm.c), the obstacle rule     *)
(* (safety/safety.c), the fault record (diagnostics/diagnostics.c), the    *)
(* button and the four actuators.  The tasks are dispatched by Scheduler;  *)
(* between any two of their steps the millisecond timer, the capture       *)
(* interrupt of the ranging driver (Ranging) and the outside world - the   *)
(* button, the obstacle, a reset - may act.                                *)
(***************************************************************************)
EXTENDS Integers

CONSTANTS Period, Word, MaxPassMs,   \* see Scheduler
          StepPeriod,                \* STEPPER_STEP_PERIOD_MS
          NearEchoMs                 \* an obstacle in critical range answers
                                     \* within this time of the sensor slot

\* Slots in registration order.
Actuator == 1
Control == 2
Sensor == 3
Communication == 4
NTasks == 4

VARIABLES now, lastRun, passNow, slot, inTask,   \* Scheduler
          capture, ready, reading,               \* Ranging
          state,         \* g_system_state
          lastFault,     \* g_last_fault
          buttonArmed,   \* static button_armed of control_task()
          lastStep,      \* static last_step_ms of actuator_service_task()
          measuring,     \* static measurement_active of sensor_safety_task()
          aborting,      \* sensor_safety_task() saw no result, abort not yet done
          blocked,       \* communication_task() is in its endless loop
          out,           \* the output pins and the servo set point
          pressed,       \* level of the button, D2
          obstacle,      \* something is inside the critical distance
          target         \* what the last ultrasonic burst met

Sched == INSTANCE Scheduler WITH N <- NTasks
Range == INSTANCE Ranging

controlVars == <<state, lastFault, buttonArmed, lastStep, out>>
sensorVars == <<measuring, aborting>>
worldVars == <<pressed, obstacle, target>>
vars == <<now, lastRun, passNow, slot, inTask, capture, ready, reading,
          controlVars, sensorVars, blocked, worldVars>>

ASSUME CellAssumption ==
  /\ Word \in Nat \ {0}
  /\ MaxPassMs \in Nat \ {0}
  /\ Period \in [1..NTasks -> Nat \ {0}]
  /\ \A t \in 1..NTasks : Period[t] + 2 * MaxPassMs < Word
  /\ StepPeriod \in Nat \ {0}
  /\ NearEchoMs \in Nat
  /\ NearEchoMs < Period[Sensor]

State == {"BOOT", "IDLE", "ACTIVE", "SAFE_STATE"}
Led == {"off", "on", "double_blink", "fallback_blink"}
Output == [relay : BOOLEAN, motor : {"stop", "forward"}, servo : {1, 2},
           stepper : BOOLEAN, led : Led]

TypeOK ==
  /\ Sched!TypeOK
  /\ Range!TypeOK
  /\ state \in State
  /\ lastFault \in {"NONE", "OBSTACLE_CRITICAL"}
  /\ buttonArmed \in BOOLEAN
  /\ lastStep \in Sched!Time
  /\ measuring \in BOOLEAN
  /\ aborting \in BOOLEAN
  /\ blocked \in BOOLEAN
  /\ out \in Output
  /\ pressed \in BOOLEAN
  /\ obstacle \in BOOLEAN
  /\ target \in {"near", "far"}

-----------------------------------------------------------------------------
\* system_fsm_handle_event(): the state after event e in state s.
HandleEvent(s, e) ==
  CASE s = "BOOT" /\ e = "INIT_DONE" -> "IDLE"
    [] s = "IDLE" /\ e = "START_STOP" -> "ACTIVE"
    [] s = "ACTIVE" /\ e = "START_STOP" -> "IDLE"
    [] s = "ACTIVE" /\ e = "CRITICAL_FAULT" -> "SAFE_STATE"
    [] OTHER -> s

\* diagnostics_record_fault(): the fault remembered after f is reported.
RecordFault(f) == IF f = "NONE" THEN lastFault ELSE f

\* set_safe_outputs()
SafeOutputs == [relay |-> FALSE, motor |-> "stop", servo |-> 1,
                stepper |-> FALSE, led |-> "off"]

\* apply_safe_state_led(): the pattern shown for the fault on record.
SafeStateLed ==
  IF lastFault = "OBSTACLE_CRITICAL" THEN "double_blink" ELSE "fallback_blink"

\* Mutation: SAFE_STATE does not stop the motor.
OutputsMotorKept(s) ==
  CASE s = "IDLE" ->
         [out EXCEPT !.relay = FALSE, !.motor = "stop", !.servo = 1, !.led = "off"]
    [] s = "ACTIVE" ->
         [out EXCEPT !.relay = TRUE, !.motor = "forward", !.servo = 2, !.led = "on"]
    [] s = "SAFE_STATE" ->
         [out EXCEPT !.relay = FALSE, !.servo = 1, !.led = SafeStateLed]
    [] OTHER -> SafeOutputs

\* The switch of control_task(): it drives everything but the stepper.
OutputsFor(s) ==
  CASE s = "IDLE" ->
         [out EXCEPT !.relay = FALSE, !.motor = "stop", !.servo = 1, !.led = "off"]
    [] s = "ACTIVE" ->
         [out EXCEPT !.relay = TRUE, !.motor = "forward", !.servo = 2, !.led = "on"]
    [] s = "SAFE_STATE" ->
         [out EXCEPT !.relay = FALSE, !.motor = "stop", !.servo = 1,
                     !.led = SafeStateLed]
    [] OTHER -> SafeOutputs

\* Mutation: an accepted press does not disarm.
ArmedAfterPress ==
  CASE state = "SAFE_STATE" -> FALSE
    [] state # "SAFE_STATE" /\ ~pressed -> TRUE
    [] OTHER -> buttonArmed

\* The arming rule of control_task(): a press counts only after the button was
\* seen released, and SAFE_STATE forgets it.
Armed ==
  CASE state = "SAFE_STATE" -> FALSE
    [] state # "SAFE_STATE" /\ ~pressed -> TRUE
    [] OTHER -> FALSE

\* Mutation: the flag is not consulted.
PressAcceptedUnarmed == state \in {"IDLE", "ACTIVE"} /\ pressed

\* The press that control_task() turns into START_STOP.
PressAccepted ==
  state \in {"IDLE", "ACTIVE"} /\ pressed /\ buttonArmed

-----------------------------------------------------------------------------
\* The state of every static at reset, before main() runs; the world is what
\* it is.
PowerUp ==
  /\ Sched!Init
  /\ Range!Init
  /\ state = "BOOT"
  /\ lastFault = "NONE"
  /\ buttonArmed = FALSE
  /\ lastStep = 0
  /\ measuring = FALSE
  /\ aborting = FALSE
  /\ blocked = FALSE
  /\ out = SafeOutputs

Init ==
  /\ PowerUp
  /\ pressed \in BOOLEAN
  /\ obstacle \in BOOLEAN
  /\ target = "far"

\* Power loss, reset pin, or the watchdog: back to the state of PowerUp.
Reset ==
  /\ state # "BOOT"
  /\ now' = 0 /\ lastRun' = [t \in 1..NTasks |-> 0] /\ passNow' = 0
  /\ slot' = NTasks + 1 /\ inTask' = FALSE
  /\ capture' = "IDLE" /\ ready' = FALSE /\ reading' = "invalid"
  /\ state' = "BOOT" /\ lastFault' = "NONE" /\ buttonArmed' = FALSE
  /\ lastStep' = 0 /\ measuring' = FALSE /\ aborting' = FALSE
  /\ blocked' = FALSE /\ out' = SafeOutputs /\ target' = "far"
  /\ UNCHANGED <<pressed, obstacle>>

\* main() up to sei(): drivers, scheduler, safe outputs, then INIT_DONE.
MainInit ==
  /\ state = "BOOT"
  /\ state' = HandleEvent(state, "INIT_DONE")
  /\ out' = SafeOutputs
  /\ UNCHANGED <<now, lastRun, passNow, slot, inTask, capture, ready, reading,
                 lastFault, buttonArmed, lastStep, sensorVars, blocked, worldVars>>

-----------------------------------------------------------------------------
\* Body of task t and the return to scheduler_run().
InBody(t) == ~blocked /\ Sched!Return(t)

\* Mutation: the state machine is not consulted.
ActuatorTaskUngated ==
  /\ InBody(Actuator)
  /\ IF Sched!Elapsed(now, lastStep) >= StepPeriod
       THEN lastStep' = now /\ out' = [out EXCEPT !.stepper = TRUE]
       ELSE UNCHANGED <<lastStep, out>>
  /\ UNCHANGED <<capture, ready, reading, state, lastFault, buttonArmed,
                 sensorVars, blocked, worldVars>>

ActuatorTask ==
  /\ InBody(Actuator)
  /\ \/ /\ state = "ACTIVE"
        /\ Sched!Elapsed(now, lastStep) >= StepPeriod
        /\ lastStep' = now
        /\ out' = [out EXCEPT !.stepper = TRUE]
     \/ /\ state = "ACTIVE"
        /\ Sched!Elapsed(now, lastStep) < StepPeriod
        /\ UNCHANGED <<lastStep, out>>
     \/ /\ state # "ACTIVE"
        /\ lastStep' = now
        /\ out' = [out EXCEPT !.stepper = FALSE]
  /\ UNCHANGED <<capture, ready, reading, state, lastFault, buttonArmed,
                 sensorVars, blocked, worldVars>>

ControlTask ==
  /\ InBody(Control)
  /\ buttonArmed' = Armed
  /\ state' = IF PressAccepted THEN HandleEvent(state, "START_STOP") ELSE state
  /\ out' = OutputsFor(state')
  /\ UNCHANGED <<capture, ready, reading, lastFault, lastStep,
                 sensorVars, blocked, worldVars>>

\* sensor_safety_task() with no measurement under way: hcsr04_start().  The
\* burst meets what is in front of the sensor now.
SensorStart ==
  /\ InBody(Sensor)
  /\ ~measuring
  /\ IF capture = "IDLE"
       THEN /\ Range!Start
            /\ measuring' = TRUE
            /\ target' = IF obstacle THEN "near" ELSE "far"
       ELSE UNCHANGED <<capture, ready, reading, measuring, target>>
  /\ UNCHANGED <<controlVars, aborting, blocked, pressed, obstacle>>

\* ... with a result: classify it, and in ACTIVE record the fault, then trip.
\* Once ready is set the capture interrupt is off, so nothing can change the
\* reading between the two driver calls.
SensorEvaluate ==
  /\ InBody(Sensor)
  /\ measuring /\ ~aborting /\ ready
  /\ IF state = "ACTIVE" /\ reading = "critical"
       THEN /\ lastFault' = RecordFault("OBSTACLE_CRITICAL")
            /\ state' = HandleEvent(state, "CRITICAL_FAULT")
       ELSE UNCHANGED <<lastFault, state>>
  /\ measuring' = FALSE
  /\ UNCHANGED <<capture, ready, reading, aborting, buttonArmed, lastStep, out,
                 blocked, worldVars>>

\* ... without a result: hcsr04_result_ready() returned 0 ...
SensorNotReady ==
  /\ slot = Sensor /\ inTask
  /\ measuring /\ ~aborting /\ ~ready
  /\ aborting' = TRUE
  /\ UNCHANGED <<now, lastRun, passNow, slot, inTask, capture, ready, reading,
                 controlVars, measuring, blocked, worldVars>>

\* ... and hcsr04_abort() runs some instructions later.
SensorAbort ==
  /\ InBody(Sensor)
  /\ aborting
  /\ Range!Abort
  /\ measuring' = FALSE
  /\ aborting' = FALSE
  /\ UNCHANGED <<controlVars, blocked, worldVars>>

\* communication_task() as the control loop sees it (Responder models the rest).
CommunicationTask ==
  /\ InBody(Communication)
  /\ UNCHANGED <<capture, ready, reading, controlVars, sensorVars, blocked, worldVars>>

\* Mutation: the endless loop is entered with the outputs as they are.
CommunicationBlockHot ==
  /\ slot = Communication /\ inTask /\ ~blocked
  /\ blocked' = TRUE
  /\ UNCHANGED <<now, lastRun, passNow, slot, inTask, capture, ready, reading,
                 controlVars, sensorVars, worldVars>>

\* A watchdog-block command: safe outputs, then an endless loop.
CommunicationBlock ==
  /\ slot = Communication /\ inTask /\ ~blocked
  /\ out' = SafeOutputs
  /\ blocked' = TRUE
  /\ UNCHANGED <<now, lastRun, passNow, slot, inTask, capture, ready, reading,
                 state, lastFault, buttonArmed, lastStep, sensorVars, worldVars>>

\* scheduler_run() itself.
SchedulerStep ==
  /\ state # "BOOT"
  /\ Sched!BeginPass \/ \E t \in 1..NTasks : Sched!Skip(t) \/ Sched!Dispatch(t)
  /\ UNCHANGED <<capture, ready, reading, controlVars, sensorVars, blocked, worldVars>>

Task ==
  \/ ActuatorTask \/ ControlTask
  \/ SensorStart \/ SensorEvaluate \/ SensorNotReady \/ SensorAbort
  \/ CommunicationTask \/ CommunicationBlock

Foreground == MainInit \/ SchedulerStep \/ Task

-----------------------------------------------------------------------------
\* TIMER2_COMPA_vect.  A near echo is over within NearEchoMs of the pass that
\* sent the burst; in the endless loop time is of no further interest.
Tick ==
  /\ state # "BOOT" /\ ~blocked
  /\ target = "near" /\ capture # "IDLE"
       => Sched!Elapsed(now, lastRun[Sensor]) < NearEchoMs
  /\ Sched!Tick
  /\ UNCHANGED <<capture, ready, reading, controlVars, sensorVars, blocked, worldVars>>

\* TIMER1_CAPT_vect: an obstacle in critical range gives a critical width, any
\* other echo a long or an implausibly short one, at any time or never.
EchoRise ==
  /\ Range!Rise
  /\ UNCHANGED <<now, lastRun, passNow, slot, inTask, controlVars, sensorVars,
                 blocked, worldVars>>

EchoFall ==
  /\ \E r \in Range!Reading :
       /\ r = "critical" <=> target = "near"
       /\ Range!Fall(r)
  /\ UNCHANGED <<now, lastRun, passNow, slot, inTask, controlVars, sensorVars,
                 blocked, worldVars>>

Echo == EchoRise \/ EchoFall

\* The operator and the object in front of the cell.
ButtonMoves ==
  /\ pressed' = ~pressed
  /\ UNCHANGED <<now, lastRun, passNow, slot, inTask, capture, ready, reading,
                 controlVars, sensorVars, blocked, obstacle, target>>

ObstacleMoves ==
  /\ obstacle' = ~obstacle
  /\ UNCHANGED <<now, lastRun, passNow, slot, inTask, capture, ready, reading,
                 controlVars, sensorVars, blocked, pressed, target>>

World == ButtonMoves \/ ObstacleMoves

Next == Foreground \/ Tick \/ Echo \/ World \/ Reset

\* The processor runs, the timer interrupts, a near echo comes back.
Fairness ==
  /\ WF_vars(Foreground)
  /\ WF_vars(Tick)
  /\ WF_vars(Echo /\ target = "near")

Spec == Init /\ [][Next]_vars /\ Fairness

-----------------------------------------------------------------------------
\* The actuators that are energised, or away from their rest position.
Hot == {a \in {"relay", "motor", "servo", "stepper"} :
          \/ a = "relay" /\ out.relay = TRUE
          \/ a = "motor" /\ out.motor = "forward"
          \/ a = "servo" /\ out.servo = 2
          \/ a = "stepper" /\ out.stepper = TRUE}

Mode == CASE state = "ACTIVE" -> "driving"
          [] state = "SAFE_STATE" -> "tripped"
          [] OTHER -> "stopped"

Latch == INSTANCE SafetyLatch
           WITH Actuators <- {"relay", "motor", "servo", "stepper"},
                mode <- Mode, hot <- Hot

(* The control loop keeps the promise of SafetyLatch: no interleaving of    *)
(* tasks and interrupts energises an actuator outside ACTIVE, a critical    *)
(* fault is latched until reset, and afterwards nothing is switched on.     *)
LatchSafety == Latch!Safety

(* The fault is on record before SAFE_STATE is visible to control_task(), so *)
(* the LED never shows the fallback pattern, and only a trip records it.    *)
FaultExplainsSafeState ==
  /\ (state = "SAFE_STATE") <=> (lastFault = "OBSTACLE_CRITICAL")
  /\ out.led # "fallback_blink"

(* A trip is justified: the reading that causes it comes from a burst which *)
(* met an obstacle in critical range, never from an aborted or an earlier   *)
(* measurement.                                                             *)
TripIsJustified ==
  [][state = "ACTIVE" /\ state' = "SAFE_STATE" => target = "near"]_vars

(* The sensor task and the driver agree: the driver is busy only while the  *)
(* task has a measurement under way, so the next start is never refused,    *)
(* and a measurement that is under way is still running or has a result, so *)
(* none is waited for in vain.                                              *)
SensorInStep ==
  /\ capture # "IDLE" => measuring
  /\ measuring => (capture = "IDLE" <=> ready)

(* The endless loop of the watchdog-block command is entered cold and stays *)
(* cold, whatever state the cell was in, until the reset.                   *)
BlockedIsCold == blocked => Hot = {} /\ inTask /\ slot = Communication

(* A press that lasts, of a button seen released, is honoured.              *)
PressHonoured ==
  (state = "IDLE" /\ buttonArmed /\ pressed)
     ~> (state # "IDLE" \/ ~pressed \/ blocked)
=============================================================================
