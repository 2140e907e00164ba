--------------------------- MODULE CellControlProofs ---------------------------
(***************************************************************************)
(* Proofs about the control loop for every period, clock width and pass    *)
(* bound: CellControl by itself, then with its histories, the button       *)
(* (CellOperator) and the stopwatches (CellDeadline).  What they use of    *)
(* the scheduler is proved in TimingProofs, whose histories play no part.  *)
(***************************************************************************)
EXTENDS CellOperator, CellDeadline, TLAPS

SP == INSTANCE TimingProofs WITH N <- NTasks, MaxJitter <- 0, age <- 0, watched <- 1,
  recorded <- FALSE, lastStart <- 0, maxJitter <- 0, since <- 0, worst <- 0

(* Every step is one of these actions; the proofs below go through them.    *)
LEMMA StepCases ==
  ASSUME [Next]_vars
  PROVE  \/ MainInit \/ SchedulerStep
         \/ ActuatorTask \/ ControlTask
         \/ SensorStart \/ SensorEvaluate \/ SensorNotReady \/ SensorAbort
         \/ CommunicationTask \/ CommunicationBlock
         \/ Tick \/ EchoRise \/ EchoFall \/ ButtonMoves \/ ObstacleMoves
         \/ Reset
         \/ UNCHANGED vars
  BY DEF Next, Foreground, Task, Echo, World

\* What is visible of the scheduler's and the driver's steps.
USE DEF Actuator, Control, Sensor, Communication, NTasks

LEMMA ZeroIsTime == 0 \in Sched!Time
  BY CellAssumption DEF Sched!Time

LEMMA TickIsTime ==
  ASSUME NEW t \in Sched!Time
  PROVE  (t + 1) % Word \in Sched!Time
  BY CellAssumption DEF Sched!Time

LEMMA ZeroRunsType == [t \in Sched!Slot |-> 0] \in [Sched!Slot -> Sched!Time]
  BY ZeroIsTime

LEMMA SchedReturnType ==
  ASSUME Sched!TypeOK, NEW t \in 1..NTasks, Sched!Return(t)
  PROVE  Sched!TypeOK'
<1>1. slot' \in 1..(NTasks + 1)
  BY DEF Sched!Return
<1>2. QED
  BY <1>1 DEF Sched!Return, Sched!TypeOK

LEMMA SchedInitType ==
  ASSUME Sched!Init
  PROVE  Sched!TypeOK
<1>1. slot \in 1..(NTasks + 1)
  BY DEF Sched!Init
<1>2. QED
  BY <1>1, ZeroIsTime, ZeroRunsType DEF Sched!Init, Sched!TypeOK

LEMMA SchedResetType ==
  ASSUME Reset
  PROVE  Sched!TypeOK'
<1>1. lastRun' \in [Sched!Slot -> Sched!Time]
  BY ZeroRunsType DEF Reset, Sched!Slot
<1>2. slot' \in 1..(NTasks + 1)
  BY DEF Reset
<1>3. QED
  BY <1>1, <1>2, ZeroIsTime DEF Reset, Sched!TypeOK

LEMMA SafeOutputsType == SafeOutputs \in Output
  BY DEF SafeOutputs, Output, Led

LEMMA OutputsForType ==
  ASSUME NEW s, out \in Output
  PROVE  OutputsFor(s) \in Output
  BY SafeOutputsType DEF OutputsFor, Output, SafeStateLed, Led

LEMMA HandleEventType ==
  ASSUME NEW s \in State, NEW e
  PROVE  HandleEvent(s, e) \in State
  BY DEF HandleEvent, State

LEMMA TypeInit == Init => TypeOK
<1> SUFFICES ASSUME Init PROVE TypeOK
  OBVIOUS
<1>1. Sched!TypeOK
  BY SchedInitType DEF Init, PowerUp
<1>2. Range!TypeOK
  BY DEF Init, PowerUp, Range!Init, Range!TypeOK, Range!Reading
<1>3. QED
  BY <1>1, <1>2, ZeroIsTime, SafeOutputsType DEF Init, PowerUp, TypeOK, State

(* No step of a task, an interrupt, the operator or a reset leaves the types. *)
LEMMA TypeStep == TypeOK /\ [Next]_vars => TypeOK'
<1> SUFFICES ASSUME TypeOK, [Next]_vars PROVE TypeOK'
  OBVIOUS
<1> USE DEF TypeOK
<1>1. CASE MainInit
  BY <1>1, HandleEventType, SafeOutputsType
     DEF MainInit, sensorVars, worldVars, Sched!TypeOK, Range!TypeOK
<1>2. CASE SchedulerStep
  <2>1. CASE Sched!BeginPass
    BY <1>2, <2>1
       DEF SchedulerStep, controlVars, sensorVars, worldVars,
           Sched!BeginPass, Sched!TypeOK, Range!TypeOK
  <2>2. ASSUME NEW t \in 1..NTasks, Sched!Skip(t) \/ Sched!Dispatch(t)
        PROVE  Sched!TypeOK'
    <3>1. slot' \in 1..(NTasks + 1)
      BY <2>2 DEF Sched!Skip, Sched!Dispatch
    <3>2. lastRun' \in [Sched!Slot -> Sched!Time]
      BY <2>2 DEF Sched!Skip, Sched!Dispatch, Sched!TypeOK
    <3>3. QED
      BY <2>2, <3>1, <3>2 DEF Sched!Skip, Sched!Dispatch, Sched!TypeOK
  <2>3. QED
    BY <1>2, <2>1, <2>2
       DEF SchedulerStep, controlVars, sensorVars, worldVars, Range!TypeOK
<1>3. CASE ActuatorTask
  <2>1. Sched!TypeOK'
    BY <1>3, SchedReturnType DEF ActuatorTask, InBody
  <2>2. now \in Sched!Time
    BY DEF Sched!TypeOK
  <2>3. lastStep' \in Sched!Time
    BY <1>3, <2>2 DEF ActuatorTask
  <2>4. out' \in Output
    BY <1>3 DEF ActuatorTask, Output
  <2>5. QED
    BY <1>3, <2>1, <2>3, <2>4 DEF ActuatorTask, sensorVars, worldVars, Range!TypeOK
<1>4. CASE ControlTask
  <2>1. Sched!TypeOK'
    BY <1>4, SchedReturnType DEF ControlTask, InBody
  <2>2. state' \in State
    BY <1>4, HandleEventType DEF ControlTask
  <2>3. out' \in Output
    BY <1>4, OutputsForType DEF ControlTask
  <2>4. buttonArmed' \in BOOLEAN
    BY <1>4 DEF ControlTask, Armed
  <2>5. QED
    BY <1>4, <2>1, <2>2, <2>3, <2>4 DEF ControlTask, sensorVars, worldVars, Range!TypeOK
<1>5. CASE SensorStart
  <2>1. Sched!TypeOK'
    BY <1>5, SchedReturnType DEF SensorStart, InBody
  <2>2. Range!TypeOK'
    BY <1>5 DEF SensorStart, Range!TypeOK, Range!Start, Range!Reading
  <2>3. QED
    BY <1>5, <2>1, <2>2 DEF SensorStart, controlVars
<1>6. CASE SensorEvaluate
  <2>1. Sched!TypeOK'
    BY <1>6, SchedReturnType DEF SensorEvaluate, InBody
  <2>2. state' \in State /\ lastFault' \in {"NONE", "OBSTACLE_CRITICAL"}
    BY <1>6, HandleEventType DEF SensorEvaluate, RecordFault
  <2>3. QED
    BY <1>6, <2>1, <2>2 DEF SensorEvaluate, worldVars, Range!TypeOK
<1>7. CASE SensorNotReady
  BY <1>7 DEF SensorNotReady, controlVars, worldVars, Sched!TypeOK, Range!TypeOK
<1>8. CASE SensorAbort
  <2>1. Sched!TypeOK'
    BY <1>8, SchedReturnType DEF SensorAbort, InBody
  <2>2. Range!TypeOK'
    BY <1>8 DEF SensorAbort, Range!TypeOK, Range!Abort
  <2>3. QED
    BY <1>8, <2>1, <2>2 DEF SensorAbort, controlVars, worldVars
<1>9. CASE CommunicationTask
  <2>1. Sched!TypeOK'
    BY <1>9, SchedReturnType DEF CommunicationTask, InBody
  <2>2. QED
    BY <1>9, <2>1 DEF CommunicationTask, controlVars, sensorVars, worldVars, Range!TypeOK
<1>10. CASE CommunicationBlock
  BY <1>10, SafeOutputsType
     DEF CommunicationBlock, sensorVars, worldVars, Sched!TypeOK, Range!TypeOK
<1>11. CASE Tick
  <2>1. Sched!TypeOK'
    BY <1>11, TickIsTime DEF Tick, Sched!Tick, Sched!TypeOK
  <2>2. QED
    BY <1>11, <2>1 DEF Tick, controlVars, sensorVars, worldVars, Range!TypeOK
<1>12. CASE EchoRise
  BY <1>12
     DEF EchoRise, Range!Rise, controlVars, sensorVars, worldVars, Sched!TypeOK, Range!TypeOK
<1>13. CASE EchoFall
  BY <1>13
     DEF EchoFall, Range!Fall, controlVars, sensorVars, worldVars, Sched!TypeOK, Range!TypeOK
<1>14. CASE ButtonMoves
  BY <1>14 DEF ButtonMoves, controlVars, sensorVars, Sched!TypeOK, Range!TypeOK
<1>15. CASE ObstacleMoves
  BY <1>15 DEF ObstacleMoves, controlVars, sensorVars, Sched!TypeOK, Range!TypeOK
<1>16. CASE Reset
  <2>1. Sched!TypeOK'
    BY <1>16, SchedResetType
  <2>2. Range!TypeOK'
    BY <1>16 DEF Reset, Range!TypeOK, Range!Reading
  <2>3. QED
    BY <1>16, <2>1, <2>2, ZeroIsTime, SafeOutputsType DEF Reset, State
<1>17. CASE UNCHANGED vars
  BY <1>17 DEF vars, controlVars, sensorVars, worldVars, Sched!TypeOK, Range!TypeOK
<1>18. QED
  BY StepCases, <1>1, <1>2, <1>3, <1>4, <1>5, <1>6, <1>7, <1>8, <1>9, <1>10,
     <1>11, <1>12, <1>13, <1>14, <1>15, <1>16, <1>17

(* Type correctness of the control loop: every variable keeps its range, in *)
(* particular the wrapped clock readings and the slot of the scheduler.     *)
THEOREM TypeCorrect == Spec => []TypeOK
  BY TypeInit, TypeStep, PTL DEF Spec

-----------------------------------------------------------------------------
(***************************************************************************)
(* The refinement of SafetyLatch.  One lemma says what the steps of the    *)
(* firmware do to Mode and Hot; no invariant beyond the types is needed:   *)
(* each guard reads the state machine in the same step that drives.        *)
(***************************************************************************)

\* Outputs that switch nothing on leave the energised set no larger.
LEMMA SafeOutputsCold ==
  ASSUME out' = SafeOutputs
  PROVE  Hot' = {}
  BY DEF Hot, SafeOutputs

LEMMA HotIsActuators == Hot \in SUBSET {"relay", "motor", "servo", "stepper"}
  BY DEF Hot

LEMMA HotIsActuatorsNext == Hot' \in SUBSET {"relay", "motor", "servo", "stepper"}
  BY DEF Hot

\* Steps that touch neither the state machine nor the outputs.
LEMMA QuietStep ==
  ASSUME UNCHANGED <<state, out>>
  PROVE  UNCHANGED Latch!latchVars
  BY DEF Latch!latchVars, Mode, Hot

LEMMA ActuatorLatch ==
  ASSUME TypeOK, ActuatorTask
  PROVE  [Latch!Next]_(Latch!latchVars)
<1>1. Mode' = Mode
  BY DEF ActuatorTask, Mode
<1>2. CASE state = "ACTIVE"
  <2>1. Mode = "driving"
    BY <1>2 DEF Mode
  <2>2. Latch!Drive
    BY <1>1, <2>1, HotIsActuatorsNext DEF Latch!Drive
  <2>3. QED
    BY <2>2 DEF Latch!Next
<1>3. CASE state # "ACTIVE"
  <2>1. out' = [out EXCEPT !.stepper = FALSE]
    BY <1>3 DEF ActuatorTask
  <2>2. Hot' \subseteq Hot
    BY <2>1 DEF TypeOK, Output, Hot
  <2>3. Latch!Release
    BY <1>1, <2>2 DEF Latch!Release
  <2>4. QED
    BY <2>3 DEF Latch!Next
<1>4. QED
  BY <1>2, <1>3

\* Outside ACTIVE the switch of control_task() energises nothing.
LEMMA OutputsForCools ==
  ASSUME TypeOK, NEW s, s # "ACTIVE", out' = OutputsFor(s)
  PROVE  Hot' \subseteq Hot
  BY DEF OutputsFor, SafeOutputs, Hot, TypeOK, Output

LEMMA ControlLatch ==
  ASSUME TypeOK, ControlTask
  PROVE  [Latch!Next]_(Latch!latchVars)
<1> state \in State
  BY DEF TypeOK
<1>1. out' = OutputsFor(state')
  BY DEF ControlTask
<1>2. CASE state = "IDLE" /\ state' = "ACTIVE"
  <2>1. Mode = "stopped" /\ Mode' = "driving"
    BY <1>2 DEF Mode
  <2>2. Latch!Engage
    BY <2>1, HotIsActuatorsNext DEF Latch!Engage
  <2>3. QED
    BY <2>2 DEF Latch!Next
<1>3. CASE state = "ACTIVE" /\ state' = "IDLE"
  <2>1. Mode = "driving" /\ Mode' = "stopped"
    BY <1>3 DEF Mode
  <2>2. Hot' \subseteq Hot
    BY <1>1, <1>3, OutputsForCools
  <2>3. Latch!Disengage
    BY <2>1, <2>2 DEF Latch!Disengage
  <2>4. QED
    BY <2>3 DEF Latch!Next
<1>4. CASE state' = state
  <2>1. Mode' = Mode
    BY <1>4 DEF Mode
  <2>2. CASE state = "ACTIVE"
    <3>1. Mode = "driving"
      BY <2>2 DEF Mode
    <3>2. Latch!Drive
      BY <2>1, <3>1, HotIsActuatorsNext DEF Latch!Drive
    <3>3. QED
      BY <3>2 DEF Latch!Next
  <2>3. CASE state # "ACTIVE"
    <3>1. Hot' \subseteq Hot
      BY <1>1, <1>4, <2>3, OutputsForCools
    <3>2. Latch!Release
      BY <2>1, <3>1 DEF Latch!Release
    <3>3. QED
      BY <3>2 DEF Latch!Next
  <2>4. QED
    BY <2>2, <2>3
<1>5. \/ state = "IDLE" /\ state' = "ACTIVE"
      \/ state = "ACTIVE" /\ state' = "IDLE"
      \/ state' = state
  BY DEF ControlTask, PressAccepted, HandleEvent
<1>6. QED
  BY <1>2, <1>3, <1>4, <1>5

LEMMA EvaluateLatch ==
  ASSUME TypeOK, SensorEvaluate
  PROVE  [Latch!Next]_(Latch!latchVars)
<1>1. Hot' = Hot
  BY DEF SensorEvaluate, Hot
<1>2. CASE state' = state
  BY <1>2, QuietStep DEF SensorEvaluate
<1>3. CASE state' # state
  <2>1. Mode = "driving" /\ Mode' = "tripped"
    BY <1>3 DEF SensorEvaluate, HandleEvent, Mode
  <2>2. Latch!Trip
    BY <1>1, <2>1 DEF Latch!Trip
  <2>3. QED
    BY <2>2 DEF Latch!Next
<1>4. QED
  BY <1>2, <1>3

(* The control loop implements the safety latch: whatever the periods, the  *)
(* clock width and the interleaving of tasks, interrupts, operator and      *)
(* obstacle, actuators are energised only in ACTIVE, SAFE_STATE is left     *)
(* only by a reset, and nothing is switched on in between.                  *)
THEOREM LatchRefined == Spec => LatchSafety
<1>1. Init => Latch!Init
  <2> SUFFICES ASSUME Init PROVE Latch!Init
    OBVIOUS
  <2>1. state = "BOOT" /\ out = SafeOutputs
    BY DEF Init, PowerUp
  <2>2. Mode = "stopped" /\ Hot = {}
    BY <2>1 DEF Mode, Hot, SafeOutputs
  <2>3. QED
    BY <2>2 DEF Latch!Init
<1>2. TypeOK /\ [Next]_vars => [Latch!Next]_(Latch!latchVars)
  <2> SUFFICES ASSUME TypeOK, [Next]_vars PROVE [Latch!Next]_(Latch!latchVars)
    OBVIOUS
  <2>1. CASE MainInit
    <3>1. Hot' = {}
      BY <2>1, SafeOutputsCold DEF MainInit
    <3>2. Mode' = Mode
      BY <2>1 DEF MainInit, HandleEvent, Mode
    <3>3. Latch!Release
      BY <3>1, <3>2 DEF Latch!Release
    <3>4. QED
      BY <3>3 DEF Latch!Next
  <2>2. CASE ActuatorTask
    BY <2>2, ActuatorLatch
  <2>3. CASE ControlTask
    BY <2>3, ControlLatch
  <2>4. CASE SensorEvaluate
    BY <2>4, EvaluateLatch
  <2>5. CASE CommunicationBlock
    <3>1. Hot' = {}
      BY <2>5, SafeOutputsCold DEF CommunicationBlock
    <3>2. Mode' = Mode
      BY <2>5 DEF CommunicationBlock, Mode
    <3>3. Latch!Release
      BY <3>1, <3>2 DEF Latch!Release
    <3>4. QED
      BY <3>3 DEF Latch!Next
  <2>6. CASE Reset
    <3>1. Hot' = {}
      BY <2>6, SafeOutputsCold DEF Reset
    <3>2. Mode' = "stopped"
      BY <2>6 DEF Reset, Mode
    <3>3. Latch!Reset
      BY <3>1, <3>2 DEF Latch!Reset
    <3>4. QED
      BY <3>3 DEF Latch!Next
  <2>7. CASE \/ SchedulerStep \/ SensorStart \/ SensorNotReady \/ SensorAbort
             \/ CommunicationTask \/ Tick \/ EchoRise \/ EchoFall
             \/ ButtonMoves \/ ObstacleMoves \/ UNCHANGED vars
    <3>1. UNCHANGED <<state, out>>
      BY <2>7 DEF SchedulerStep, SensorStart, SensorNotReady, SensorAbort,
                  CommunicationTask, Tick, EchoRise, EchoFall, ButtonMoves,
                  ObstacleMoves, vars, controlVars
    <3>2. QED
      BY <3>1, QuietStep
  <2>8. QED
    BY StepCases, <2>1, <2>2, <2>3, <2>4, <2>5, <2>6, <2>7
<1>3. QED
  BY <1>1, <1>2, TypeCorrect, PTL DEF Spec, LatchSafety, Latch!Safety

-----------------------------------------------------------------------------
(***************************************************************************)
(* The fault on record.  Inductive together with the types: the only step  *)
(* that enters SAFE_STATE records the fault in the same task, before       *)
(* control_task() can look at it.                                          *)
(***************************************************************************)
LEMMA ControlStates ==
  ASSUME TypeOK, ControlTask
  PROVE  (state' = "SAFE_STATE") <=> (state = "SAFE_STATE")
  BY DEF ControlTask, PressAccepted, HandleEvent

(* In every reachable state SAFE_STATE and the recorded obstacle fault go   *)
(* together, so the LED shows the double blink and never the fallback.      *)
THEOREM FaultRecorded == Spec => []FaultExplainsSafeState
<1> USE DEF FaultExplainsSafeState
<1>1. Init => FaultExplainsSafeState
  BY DEF Init, PowerUp, SafeOutputs
<1>2. TypeOK /\ FaultExplainsSafeState /\ [Next]_vars => FaultExplainsSafeState'
  <2> SUFFICES ASSUME TypeOK, FaultExplainsSafeState, [Next]_vars
               PROVE  FaultExplainsSafeState'
    OBVIOUS
  <2>1. CASE MainInit
    BY <2>1 DEF MainInit, HandleEvent, SafeOutputs
  <2>2. CASE ActuatorTask
    BY <2>2 DEF ActuatorTask, TypeOK, Output
  <2>3. CASE ControlTask
    <3>1. (state' = "SAFE_STATE") <=> (lastFault' = "OBSTACLE_CRITICAL")
      BY <2>3, ControlStates DEF ControlTask
    <3>2. out' = OutputsFor(state')
      BY <2>3 DEF ControlTask
    <3>3. out'.led # "fallback_blink"
      BY <2>3, <3>2, ControlStates
         DEF OutputsFor, SafeStateLed, SafeOutputs, TypeOK, Output
    <3>4. QED
      BY <3>1, <3>3
  <2>4. CASE SensorEvaluate
    BY <2>4 DEF SensorEvaluate, HandleEvent, RecordFault
  <2>5. CASE CommunicationBlock
    BY <2>5 DEF CommunicationBlock, SafeOutputs
  <2>6. CASE Reset
    BY <2>6 DEF Reset, SafeOutputs
  <2>7. CASE \/ SchedulerStep \/ SensorStart \/ SensorNotReady \/ SensorAbort
             \/ CommunicationTask \/ Tick \/ EchoRise \/ EchoFall
             \/ ButtonMoves \/ ObstacleMoves \/ UNCHANGED vars
    BY <2>7 DEF SchedulerStep, SensorStart, SensorNotReady, SensorAbort,
                CommunicationTask, Tick, EchoRise, EchoFall, ButtonMoves,
                ObstacleMoves, vars, controlVars
  <2>8. QED
    BY StepCases, <2>1, <2>2, <2>3, <2>4, <2>5, <2>6, <2>7
<1>3. QED
  BY <1>1, <1>2, TypeCorrect, PTL DEF Spec

-----------------------------------------------------------------------------
(***************************************************************************)
(* The sensor task and the driver.  SensorInStep alone does not say why a  *)
(* trip is justified: the strengthening adds that a result which the task  *)
(* has yet to read is the answer to the burst that "target" describes.     *)
(***************************************************************************)
ResultMatchesTarget ==
  measuring /\ ready => (reading = "critical" <=> target = "near")

SensorInv == SensorInStep /\ ResultMatchesTarget /\ (aborting => measuring)

LEMMA SensorInit == Init => SensorInv
  BY DEF Init, PowerUp, Range!Init, SensorInv, SensorInStep, ResultMatchesTarget

LEMMA SensorStep == TypeOK /\ SensorInv /\ [Next]_vars => SensorInv'
<1> USE DEF SensorInv, SensorInStep, ResultMatchesTarget
<1> SUFFICES ASSUME TypeOK, SensorInv, [Next]_vars
             PROVE  SensorInv'
  OBVIOUS
<1>1. CASE SensorStart
  BY <1>1 DEF SensorStart, Range!Start
<1>2. CASE SensorEvaluate
  BY <1>2 DEF SensorEvaluate, worldVars
<1>3. CASE SensorNotReady
  BY <1>3 DEF SensorNotReady, worldVars
<1>4. CASE SensorAbort
  BY <1>4 DEF SensorAbort, Range!Abort, worldVars
<1>5. CASE EchoRise
  BY <1>5 DEF EchoRise, Range!Rise, sensorVars, worldVars
<1>6. CASE EchoFall
  BY <1>6 DEF EchoFall, Range!Fall, sensorVars, worldVars
<1>7. CASE Reset
  BY <1>7 DEF Reset
<1>8. CASE \/ MainInit \/ SchedulerStep \/ ActuatorTask \/ ControlTask
           \/ CommunicationTask \/ CommunicationBlock \/ Tick
           \/ ButtonMoves \/ ObstacleMoves \/ UNCHANGED vars
  BY <1>8 DEF MainInit, SchedulerStep, ActuatorTask, ControlTask,
              CommunicationTask, CommunicationBlock, Tick, ButtonMoves,
              ObstacleMoves, vars, sensorVars, worldVars
<1>9. QED
  BY StepCases, <1>1, <1>2, <1>3, <1>4, <1>5, <1>6, <1>7, <1>8

LEMMA SensorInvariant == Spec => []SensorInv
  BY TypeInit, TypeStep, SensorInit, SensorStep, PTL DEF Spec

(* The task waits for the driver exactly while the driver works for it, so  *)
(* no start is refused and no measurement is waited for in vain.            *)
THEOREM SensorStaysInStep == Spec => []SensorInStep
<1>1. SensorInv => SensorInStep
  BY DEF SensorInv
<1>2. QED
  BY <1>1, SensorInvariant, PTL

(* Every trip follows a burst that met an obstacle in critical range.       *)
THEOREM TripsAreJustified == Spec => TripIsJustified
<1>1. TypeOK /\ SensorInv /\ [Next]_vars
        => [state = "ACTIVE" /\ state' = "SAFE_STATE" => target = "near"]_vars
  <2> SUFFICES ASSUME TypeOK, SensorInv, [Next]_vars,
                      state = "ACTIVE", state' = "SAFE_STATE"
               PROVE  target = "near"
    OBVIOUS
  <2>1. CASE SensorEvaluate
    BY <2>1 DEF SensorEvaluate, SensorInv, ResultMatchesTarget
  <2>2. ~ControlTask
    BY ControlStates
  <2>3. CASE MainInit \/ Reset
    BY <2>3 DEF MainInit, Reset
  <2>4. CASE \/ SchedulerStep \/ ActuatorTask \/ SensorStart \/ SensorNotReady
             \/ SensorAbort \/ CommunicationTask \/ CommunicationBlock
             \/ Tick \/ EchoRise \/ EchoFall \/ ButtonMoves \/ ObstacleMoves
             \/ UNCHANGED vars
    BY <2>4 DEF SchedulerStep, ActuatorTask, SensorStart, SensorNotReady,
                SensorAbort, CommunicationTask, CommunicationBlock, Tick,
                EchoRise, EchoFall, ButtonMoves, ObstacleMoves, vars, controlVars
  <2>5. QED
    BY StepCases, <2>1, <2>2, <2>3, <2>4
<1>2. QED
  BY <1>1, TypeCorrect, SensorInvariant, PTL DEF Spec, TripIsJustified

-----------------------------------------------------------------------------
(***************************************************************************)
(* The endless loop.  Nothing in the foreground runs any more: the slot is *)
(* never returned from, so the outputs stay as set_safe_outputs() left     *)
(* them.                                                                   *)
(***************************************************************************)

(* Once communication_task() has entered its endless loop every actuator    *)
(* stays cold until the reset.                                              *)
THEOREM BlockedStaysCold == Spec => []BlockedIsCold
<1>1. Init => BlockedIsCold
  BY DEF Init, PowerUp, BlockedIsCold
<1>2. TypeOK /\ BlockedIsCold /\ [Next]_vars => BlockedIsCold'
  <2> SUFFICES ASSUME TypeOK, BlockedIsCold, [Next]_vars, blocked'
               PROVE  Hot' = {} /\ inTask' /\ slot' = Communication
    BY DEF BlockedIsCold
  <2>1. CASE CommunicationBlock
    <3>1. Hot' = {}
      BY <2>1, SafeOutputsCold DEF CommunicationBlock
    <3>2. QED
      BY <2>1, <3>1 DEF CommunicationBlock
  <2>2. CASE SensorNotReady
    BY <2>2 DEF SensorNotReady, BlockedIsCold
  <2>3. CASE Tick
    BY <2>3 DEF Tick
  <2>4. CASE EchoRise \/ EchoFall \/ ButtonMoves \/ ObstacleMoves \/ UNCHANGED vars
    BY <2>4 DEF EchoRise, EchoFall, ButtonMoves, ObstacleMoves, vars, controlVars,
                BlockedIsCold, Hot
  <2>5. CASE \/ ActuatorTask \/ ControlTask \/ SensorStart \/ SensorEvaluate
             \/ SensorAbort \/ CommunicationTask \/ Reset
    BY <2>5 DEF ActuatorTask, ControlTask, SensorStart, SensorEvaluate,
                SensorAbort, CommunicationTask, InBody, Reset
  <2>6. CASE SchedulerStep
    BY <2>6 DEF SchedulerStep, BlockedIsCold, Sched!BeginPass, Sched!Skip,
                Sched!Dispatch
  <2>7. CASE MainInit
    <3>1. Hot' = {}
      BY <2>7, SafeOutputsCold DEF MainInit
    <3>2. QED
      BY <2>7, <3>1 DEF MainInit, BlockedIsCold
  <2>8. QED
    BY StepCases, <2>1, <2>2, <2>3, <2>4, <2>5, <2>6, <2>7
<1>3. QED
  BY <1>1, <1>2, TypeCorrect, PTL DEF Spec

-----------------------------------------------------------------------------
HIDE DEF Actuator, Control, Sensor, Communication, NTasks

(* The history adds variables and takes no behaviour away: what is proved   *)
(* of the control loop holds of it with its button history.                 *)
LEMMA OperatorRunsControl == OSpec => Spec
<1>1. OInit => Init
  BY DEF OInit
<1>2. [ONext]_operatorVars => [Next]_vars
  BY DEF ONext, operatorVars, Next, World
<1>3. QED
  BY <1>1, <1>2, PTL DEF OSpec, Spec

\* The steps of the control loop that leave the button's part of it alone.
LEMMA ForegroundKeepsWorld ==
  ASSUME Foreground \/ Tick \/ Echo \/ ObstacleMoves
  PROVE  pressed' = pressed
  BY DEF Foreground, Task, MainInit, SchedulerStep, ActuatorTask, ControlTask,
         SensorStart, SensorEvaluate, SensorNotReady, SensorAbort,
         CommunicationTask, CommunicationBlock, Tick, Echo, EchoRise, EchoFall,
         ObstacleMoves, worldVars

\* Every step is one of these; only the first group touches state, outputs or
\* the arming flag.
LEMMA OperatorSteps ==
  ASSUME [ONext]_operatorVars
  PROVE  \/ MainInit \/ ActuatorTask \/ ControlTask \/ SensorEvaluate
         \/ CommunicationBlock \/ Reset
         \/ UNCHANGED <<state, out, buttonArmed>>
  BY DEF ONext, operatorVars, Foreground, Task, SchedulerStep, SensorStart,
         SensorNotReady, SensorAbort, CommunicationTask, Tick, Echo, EchoRise,
         EchoFall, ButtonMoves, ObstacleMoves, vars, controlVars

-----------------------------------------------------------------------------
(***************************************************************************)
(* The held button.  HeldButtonNeverStarts is inductive once it also says  *)
(* that the button is down: the arming flag is only ever set by a sample   *)
(* of a released button.                                                   *)
(***************************************************************************)
HeldInv == heldSinceReset => pressed /\ state # "ACTIVE" /\ Hot = {} /\ ~buttonArmed

(* While the button has been down since the reset no step of the firmware   *)
(* starts the cell, energises an output or arms the button.                 *)
LEMMA HeldStaysCold ==
  ASSUME TypeOK, pressed, state # "ACTIVE", Hot = {}, ~buttonArmed,
         [ONext]_operatorVars
  PROVE  state' # "ACTIVE" /\ Hot' = {} /\ ~buttonArmed'
<1>1. CASE MainInit
  BY <1>1, SafeOutputsCold DEF MainInit, HandleEvent
<1>2. CASE ActuatorTask
  <2>1. out' = [out EXCEPT !.stepper = FALSE]
    BY <1>2 DEF ActuatorTask
  <2>2. Hot' \subseteq Hot
    BY <2>1 DEF TypeOK, Output, Hot
  <2>3. QED
    BY <1>2, <2>2 DEF ActuatorTask
<1>3. CASE ControlTask
  <2>1. state' # "ACTIVE" /\ ~buttonArmed'
    BY <1>3 DEF ControlTask, PressAccepted, Armed
  <2>2. Hot' \subseteq Hot
    BY <1>3, <2>1, OutputsForCools DEF ControlTask
  <2>3. QED
    BY <2>1, <2>2
<1>4. CASE SensorEvaluate
  BY <1>4 DEF SensorEvaluate, Hot
<1>5. CASE CommunicationBlock
  BY <1>5, SafeOutputsCold DEF CommunicationBlock
<1>6. CASE Reset
  BY <1>6, SafeOutputsCold DEF Reset
<1>7. CASE UNCHANGED <<state, out, buttonArmed>>
  BY <1>7 DEF Hot
<1>8. QED
  BY OperatorSteps, <1>1, <1>2, <1>3, <1>4, <1>5, <1>6, <1>7

(* A button that is held down from the reset on never starts the cell,      *)
(* whatever the periods and however often control_task() samples it.        *)
THEOREM HeldButtonIsHarmless == OSpec => []HeldButtonNeverStarts
<1>1. OInit => HeldInv
  BY DEF OInit, Init, PowerUp, HeldInv, Hot, SafeOutputs
<1>2. TypeOK /\ HeldInv /\ [ONext]_operatorVars => HeldInv'
  <2> SUFFICES ASSUME TypeOK, HeldInv, [ONext]_operatorVars, heldSinceReset'
               PROVE  pressed' /\ state' # "ACTIVE" /\ Hot' = {} /\ ~buttonArmed'
    BY DEF HeldInv
  <2>1. CASE Reset /\ heldSinceReset' = pressed
    BY <2>1, SafeOutputsCold DEF Reset
  <2>2. CASE ButtonMoves /\ heldSinceReset' = (heldSinceReset /\ pressed')
    BY <2>2 DEF ButtonMoves, HeldInv
  <2>3. CASE /\ Foreground \/ Tick \/ Echo \/ ObstacleMoves
             /\ UNCHANGED heldSinceReset
    <3>1. pressed' = pressed
      BY <2>3, ForegroundKeepsWorld
    <3>2. QED
      BY <2>3, <3>1, HeldStaysCold DEF HeldInv
  <2>4. CASE UNCHANGED operatorVars
    BY <2>4 DEF operatorVars, vars, controlVars, worldVars, HeldInv, Hot
  <2>5. QED
    BY <2>1, <2>2, <2>3, <2>4 DEF ONext
<1>3. HeldInv => HeldButtonNeverStarts
  BY DEF HeldInv, HeldButtonNeverStarts
<1>4. QED
  BY <1>1, <1>2, <1>3, OperatorRunsControl, TypeCorrect, PTL DEF OSpec

-----------------------------------------------------------------------------
(***************************************************************************)
(* One transition per press.  A start or a stop takes a press and an armed *)
(* button and leaves it disarmed, and only a released button is armed:     *)
(* toggles counts, so it is 0 until then and 1 afterwards.                 *)
(***************************************************************************)
PressInv ==
  /\ toggles \in {0, 1}
  /\ toggles = 1 => pressed /\ ~buttonArmed

\* A start or a stop is an accepted press: nothing else takes the state
\* machine from IDLE to ACTIVE or back.
LEMMA OnlyPressToggles ==
  ASSUME Foreground, Toggled
  PROVE  ControlTask /\ pressed /\ buttonArmed
<1>1. state # "BOOT" /\ state' \in {"IDLE", "ACTIVE"} /\ state' # state
  BY DEF Toggled
<1>2. ~MainInit
  BY <1>1 DEF MainInit
<1>3. ~SensorEvaluate
  BY <1>1 DEF SensorEvaluate, HandleEvent
<1>4. ControlTask
  BY <1>1, <1>2, <1>3
     DEF Foreground, Task, SchedulerStep, ActuatorTask, SensorStart,
         SensorNotReady, SensorAbort, CommunicationTask, CommunicationBlock,
         controlVars
<1>5. QED
  BY <1>1, <1>4 DEF ControlTask, PressAccepted

\* While the button is down no step of the firmware arms it.
LEMMA DownStaysDisarmed ==
  ASSUME Foreground, pressed, ~buttonArmed
  PROVE  ~buttonArmed'
  BY DEF Foreground, Task, MainInit, SchedulerStep, ActuatorTask, ControlTask,
         Armed, SensorStart, SensorEvaluate, SensorNotReady, SensorAbort,
         CommunicationTask, CommunicationBlock, controlVars

(* One press starts or stops the cell at most once, however long it lasts   *)
(* and however often control_task() samples it.                             *)
THEOREM PressCountsOnce == OSpec => []OneTransitionPerPress
<1>1. OInit => PressInv
  BY DEF OInit, PressInv
<1>2. TypeOK /\ PressInv /\ [ONext]_operatorVars => PressInv'
  <2> SUFFICES ASSUME TypeOK, PressInv, [ONext]_operatorVars
               PROVE  PressInv'
    OBVIOUS
  <2> USE DEF PressInv
  <2>1. CASE (ButtonMoves \/ Reset) /\ toggles' = 0
    BY <2>1
  <2>2. CASE /\ Tick \/ Echo \/ ObstacleMoves
             /\ UNCHANGED <<heldSinceReset, toggles>>
    <3>1. UNCHANGED <<pressed, buttonArmed>>
      BY <2>2 DEF Tick, Echo, EchoRise, EchoFall, ObstacleMoves, controlVars, worldVars
    <3>2. QED
      BY <2>2, <3>1
  <2>3. CASE /\ Foreground
             /\ toggles' = IF Toggled /\ toggles < 2 THEN toggles + 1 ELSE toggles
    <3>1. pressed' = pressed
      BY <2>3, ForegroundKeepsWorld
    <3>2. CASE Toggled
      <4>1. ControlTask /\ pressed /\ buttonArmed
        BY <2>3, <3>2, OnlyPressToggles
      <4>2. toggles = 0 /\ toggles' = 1
        BY <2>3, <3>2, <4>1
      <4>3. ~buttonArmed'
        BY <4>1 DEF ControlTask, Armed
      <4>4. QED
        BY <3>1, <4>1, <4>2, <4>3
    <3>3. CASE ~Toggled
      <4>1. toggles' = toggles
        BY <2>3, <3>3
      <4>2. QED
        BY <2>3, <3>1, <4>1, DownStaysDisarmed
    <3>4. QED
      BY <3>2, <3>3
  <2>4. CASE UNCHANGED operatorVars
    BY <2>4 DEF operatorVars, vars, controlVars, worldVars
  <2>5. QED
    BY <2>1, <2>2, <2>3, <2>4 DEF ONext
<1>3. PressInv => OneTransitionPerPress
  BY DEF PressInv, OneTransitionPerPress
<1>4. QED
  BY <1>1, <1>2, <1>3, OperatorRunsControl, TypeCorrect, PTL DEF OSpec

-----------------------------------------------------------------------------
(***************************************************************************)
(* The clock of the control loop: what TimingProofs says of a step of   *)
(* the scheduler, said of the steps of the firmware that contain it.       *)
(* Waited(t) is the bound on how long the body of task t is overdue.       *)
(***************************************************************************)
Slots == 1..NTasks
Waited(t) == SP!Waited(t)
InPass == Sched!Elapsed(now, passNow)
StampsHold == SP!TypeOK /\ SP!StampsInv

LEMMA SchedulerConstants ==
  /\ NTasks \in Nat \ {0}
  /\ Word \in Nat \ {0}
  /\ MaxPassMs \in Nat \ {0}
  /\ Period \in [SP!Slot -> Nat \ {0}]
  /\ \A t \in SP!Slot : Period[t] + 2 * MaxPassMs < Word
  BY CellAssumption DEF SP!Slot, NTasks

LEMMA TickClock ==
  ASSUME StampsHold, Tick
  PROVE  /\ StampsHold'
         /\ \A t \in Slots : /\ Waited(t)' = Waited(t) + 1
                             /\ Sched!Elapsed(now, lastRun[t])' = Sched!Elapsed(now, lastRun[t]) + 1
<1>1. SP!Tick
  BY DEF Tick, Sched!Tick, SP!Tick, Sched!Elapsed, SP!Elapsed
<1>2. QED
  BY <1>1, SchedulerConstants, SP!TickStamps
     DEF StampsHold, Slots, Waited, SP!Slot, Sched!Elapsed, SP!Elapsed

LEMMA BeginClock ==
  ASSUME StampsHold, Sched!BeginPass
  PROVE  StampsHold' /\ \A t \in Slots : Waited(t)' = Waited(t)
<1>1. SP!BeginPass
  BY DEF Sched!BeginPass, SP!BeginPass
<1>2. QED
  BY <1>1, SchedulerConstants, SP!BeginPassStamps DEF StampsHold, Slots, Waited, SP!Slot

LEMMA SkipClock ==
  ASSUME StampsHold, NEW t \in Slots, Sched!Skip(t)
  PROVE  StampsHold' /\ \A u \in Slots : Waited(u)' = Waited(u)
<1>1. SP!Skip(t)
  BY DEF Sched!Skip, SP!Skip, Sched!Due, SP!Due, Sched!Elapsed, SP!Elapsed
<1>2. QED
  BY <1>1, SchedulerConstants, SP!SkipStamps DEF StampsHold, Slots, Waited, SP!Slot

LEMMA DispatchClock ==
  ASSUME StampsHold, NEW t \in Slots, Sched!Dispatch(t)
  PROVE  StampsHold' /\ \A u \in Slots : Waited(u)' \in Nat /\ Waited(u)' >= Waited(u)
<1>1. SP!Dispatch(t)
  BY DEF Sched!Dispatch, SP!Dispatch, Sched!Due, SP!Due, Sched!Elapsed, SP!Elapsed
<1>2. StampsHold' /\ Waited(t)' \in Nat /\ Waited(t)' >= Waited(t)
  BY <1>1, SchedulerConstants, SP!DispatchStamps DEF StampsHold, Slots, Waited, SP!Slot
<1>3. ASSUME NEW u \in Slots, u # t
      PROVE  Waited(u)' = Waited(u) /\ Waited(u) \in Nat
  BY <1>1, <1>3, SchedulerConstants, SP!DispatchStamps, SP!WaitedBounds
     DEF StampsHold, Slots, Waited, SP!Slot
<1>4. QED
  BY <1>2, <1>3

LEMMA ReturnClock ==
  ASSUME StampsHold, NEW t \in Slots, InBody(t)
  PROVE  /\ StampsHold'
         /\ slot = t /\ inTask
         /\ Waited(t)' = InPass
         /\ Waited(t) = Period[t] - 1 + MaxPassMs + InPass
         /\ \A u \in Slots : u # t => Waited(u)' = Waited(u)
<1>1. SP!Return(t)
  BY DEF InBody, Sched!Return, SP!Return
<1>2. QED
  BY <1>1, SchedulerConstants, SP!ReturnStamps
     DEF StampsHold, Slots, Waited, InPass, SP!Slot, SP!Called, Sched!Elapsed, SP!Elapsed

LEMMA QuietClock ==
  ASSUME StampsHold, UNCHANGED <<now, lastRun, passNow, slot, inTask>>
  PROVE  StampsHold' /\ \A t \in Slots : Waited(t)' = Waited(t)
  BY SchedulerConstants, SP!QuietStamps DEF StampsHold, Slots, Waited, SP!Slot, SP!schedVars

LEMMA WaitedRange ==
  ASSUME StampsHold, NEW t \in Slots
  PROVE  /\ Waited(t) \in Nat /\ InPass \in Nat
         /\ InPass <= Waited(t)
         /\ Waited(t) <= Period[t] - 1 + MaxPassMs + InPass
         /\ Waited(t) <= Period[t] - 1 + 2 * MaxPassMs
  BY SchedulerConstants, SP!WaitedBounds, SP!StampAge
     DEF StampsHold, Slots, Waited, InPass, SP!Slot, Sched!Elapsed, SP!Elapsed

\* From here on the slots are numbers.
USE DEF Actuator, Control, Sensor, Communication, NTasks

\* The stamps of a scheduler that has just been reset.
LEMMA ZeroStamps ==
  /\ 0 \in SP!Time /\ SP!Elapsed(0, 0) = 0
  /\ [t \in SP!Slot |-> 0] \in [SP!Slot -> SP!Time]
  /\ \A t \in SP!Slot : 0 < Period[t] /\ 0 < Period[t] + MaxPassMs
  /\ 0 <= MaxPassMs
<1>1. 0 \in SP!Time
  BY CellAssumption DEF SP!Time
<1>2. SP!Elapsed(0, 0) = 0
  BY <1>1, SchedulerConstants, SP!ElapsedIsTime
<1>3. QED
  BY <1>1, <1>2, CellAssumption DEF SP!Slot

LEMMA ResetClock ==
  ASSUME Reset
  PROVE  StampsHold'
<1>1. /\ now' = 0 /\ passNow' = 0 /\ slot' = 5 /\ inTask' = FALSE
      /\ lastRun' = [t \in SP!Slot |-> 0]
  BY DEF Reset, SP!Slot
<1>2. SP!TypeOK'
  <2>1. slot' \in 1..(NTasks + 1)
    BY <1>1
  <2>2. QED
    BY <1>1, <2>1, ZeroStamps DEF SP!TypeOK
<1>3. SP!StampsInv'
  BY <1>1, ZeroStamps DEF SP!StampsInv
<1>4. QED
  BY <1>2, <1>3 DEF StampsHold

LEMMA InitClock ==
  ASSUME Init
  PROVE  StampsHold
<1>1. SP!Init
  BY DEF Init, PowerUp, Sched!Init, SP!Init, Sched!Slot, SP!Slot
<1>2. QED
  BY <1>1, SchedulerConstants, SP!InitStamps DEF StampsHold

(* The stamps of the scheduler are right after every step of the firmware.  *)
LEMMA StampsStep == StampsHold /\ [Next]_vars => StampsHold'
<1> SUFFICES ASSUME StampsHold, [Next]_vars PROVE StampsHold'
  OBVIOUS
<1>1. CASE SchedulerStep
  BY <1>1, BeginClock, SkipClock, DispatchClock DEF SchedulerStep, Slots
<1>2. CASE \/ ActuatorTask \/ ControlTask \/ SensorStart \/ SensorEvaluate
           \/ SensorAbort \/ CommunicationTask
  <2>1. PICK t \in Slots : InBody(t)
    BY <1>2 DEF ActuatorTask, ControlTask, SensorStart, SensorEvaluate, SensorAbort,
                CommunicationTask, Slots
  <2>2. QED
    BY <2>1, ReturnClock
<1>3. CASE Tick
  BY <1>3, TickClock
<1>4. CASE Reset
  BY <1>4, ResetClock
<1>5. CASE \/ MainInit \/ SensorNotReady \/ CommunicationBlock \/ EchoRise \/ EchoFall
           \/ ButtonMoves \/ ObstacleMoves \/ UNCHANGED vars
  <2>1. UNCHANGED <<now, lastRun, passNow, slot, inTask>>
    BY <1>5 DEF MainInit, SensorNotReady, CommunicationBlock, EchoRise, EchoFall,
                ButtonMoves, ObstacleMoves, vars
  <2>2. QED
    BY <2>1, QuietClock
<1>6. QED
  BY StepCases, <1>1, <1>2, <1>3, <1>4, <1>5

-----------------------------------------------------------------------------
(***************************************************************************)
(* The deadlines.  While the cell drives towards an obstacle the sensor    *)
(* task is the one that is waited for: its next call reads a stale answer, *)
(* the one after sends the burst that meets the obstacle, the third trips. *)
(* Each call adds at most SensorWait to the stopwatch, because what a call *)
(* is late by is what the pass has already lasted when the body runs.      *)
(* Afterwards the control and the actuator task are waited for, once.      *)
(***************************************************************************)
SensorWait == Period[Sensor] - 1 + MaxPassMs

Stopwatches ==
  /\ danger \in Nat /\ safeFor \in Nat
  /\ ~Running => danger = 0
  /\ state # "SAFE_STATE" => safeFor = 0

\* control_task() leaves IDLE with at most the stepper energised.
ColdOutside ==
  /\ state = "BOOT" => Hot = {}
  /\ state = "IDLE" => Hot \subseteq {"stepper"}

\* A stepper still energised in IDLE is released before control_task() is
\* called again: the actuator task is examined first, and it was called less
\* recently than the control task.
StepperTurn ==
  state = "IDLE" /\ Hot # {} =>
    /\ ~(slot = Control /\ inTask)
    /\ \/ slot = Actuator /\ inTask
       \/ Sched!Elapsed(passNow, lastRun[Control]) <= Sched!Elapsed(passNow, lastRun[Actuator])

\* A burst that met the obstacle is answered before the sensor task is due, and
\* so never given up.
EchoInTime ==
  /\ target = "near" /\ capture # "IDLE" =>
       /\ ~(slot = Sensor /\ inTask)
       /\ \/ Sched!Elapsed(now, lastRun[Sensor]) <= NearEchoMs
          \/ Sched!Elapsed(now, lastRun[Sensor]) <= MaxPassMs
  /\ aborting => target # "near"

\* How far the detection has come, and what the stopwatch can show by then.
Approach ==
  state = "ACTIVE" =>
    /\ measuring /\ target # "near" => danger <= Waited(Sensor)
    /\ ~measuring => danger <= SensorWait + Waited(Sensor)
    /\ measuring /\ target = "near" => danger <= 2 * SensorWait + Waited(Sensor)

\* What the outputs still wait for once the cell has left ACTIVE.
ComingToRest ==
  /\ state = "SAFE_STATE" /\ ~(Hot \subseteq {"stepper"}) =>
       safeFor <= Waited(Control) /\ danger <= 3 * SensorWait + Waited(Control)
  /\ state = "SAFE_STATE" /\ "stepper" \in Hot => safeFor <= Waited(Actuator)
  /\ state \in {"IDLE", "SAFE_STATE"} /\ "stepper" \in Hot =>
       danger <= 3 * SensorWait + Waited(Actuator)

DeadlineInv ==
  /\ TypeOK /\ SensorInv /\ StampsHold
  /\ Stopwatches /\ ColdOutside /\ StepperTurn /\ EchoInTime
  /\ Approach /\ ComingToRest

\* What the stopwatches may do in a step.
Watched(d) == danger' <= danger + d /\ safeFor' <= safeFor + d

LEMMA DeadlineConstants ==
  /\ MaxPassMs \in Nat /\ MaxPassMs > 0
  /\ \A t \in Slots : Period[t] \in Nat /\ Period[t] > 0
  /\ SensorWait \in Nat /\ NearEchoMs \in Nat
  BY CellAssumption DEF Slots, SensorWait

\* The stopwatches are those of the steps of the firmware.
LEMMA WatchStep ==
  ASSUME TypeOK, Stopwatches, [DNext]_deadlineVars
  PROVE  /\ Stopwatches'
         /\ [Next]_vars
         /\ ~Tick => Watched(0)
         /\ Watched(1)
         /\ Hot' = {} => danger' = 0
<1>1. CASE Tick /\ danger' = (IF Running THEN UpTo(danger + 1) ELSE 0)
                /\ safeFor' = (IF state = "SAFE_STATE" THEN UpTo(safeFor + 1) ELSE 0)
  <2>1. UNCHANGED <<state, out, obstacle>>
    BY <1>1 DEF Tick, controlVars, worldVars
  <2>2. Running' = Running /\ Hot' = Hot
    BY <2>1 DEF Running, Hot
  <2>3. WatchMs \in Nat
    BY DeadlineAssumption
  <2>4. Stopwatches' /\ Watched(1)
    BY <1>1, <2>1, <2>2, <2>3 DEF Stopwatches, Watched, UpTo
  <2>5. Hot' = {} => danger' = 0
    BY <1>1, <2>2 DEF Running
  <2>6. QED
    BY <1>1, <2>4, <2>5 DEF Next
<1>2. CASE /\ Foreground \/ Echo \/ World \/ Reset
           /\ danger' = IF Running' THEN danger ELSE 0
           /\ safeFor' = IF state' = "SAFE_STATE" THEN safeFor ELSE 0
  <2>1. Stopwatches' /\ Watched(0) /\ Watched(1)
    BY <1>2 DEF Stopwatches, Watched
  <2>2. Hot' = {} => danger' = 0
    BY <1>2 DEF Running
  <2>3. QED
    BY <1>2, <2>1, <2>2 DEF Next
<1>3. CASE UNCHANGED deadlineVars
  <2>1. UNCHANGED vars /\ UNCHANGED <<danger, safeFor>>
    BY <1>3 DEF deadlineVars
  <2>2. UNCHANGED <<Running, Hot>> /\ state' = state
    BY <2>1 DEF Running, Hot, vars, controlVars, worldVars
  <2>3. Stopwatches' /\ Watched(0) /\ Watched(1)
    BY <2>1, <2>2 DEF Stopwatches, Watched
  <2>4. Hot' = {} => danger' = 0
    BY <2>1, <2>2 DEF Running, Stopwatches
  <2>5. QED
    BY <2>1, <2>3, <2>4
<1>4. QED
  BY <1>1, <1>2, <1>3 DEF DNext

\* Which outputs control_task() leaves on.
LEMMA ControlOutputs ==
  ASSUME TypeOK, ControlTask
  PROVE  /\ state' \in {"IDLE", "SAFE_STATE"} => Hot' \subseteq Hot /\ Hot' \subseteq {"stepper"}
         /\ state' = "BOOT" => Hot' = {}
  BY OutputsForType DEF ControlTask, OutputsFor, SafeOutputs, Hot, TypeOK, Output

\* What actuator_service_task() does to them.
LEMMA ActuatorOutputs ==
  ASSUME TypeOK, ActuatorTask
  PROVE  /\ state' = state
         /\ state # "ACTIVE" => "stepper" \notin Hot' /\ Hot' \subseteq Hot
  BY DEF ActuatorTask, Hot, TypeOK, Output

\* The steps that touch neither the state machine nor the outputs.
LEMMA OutputSteps ==
  ASSUME [Next]_vars
  PROVE  \/ MainInit \/ ActuatorTask \/ ControlTask \/ SensorEvaluate
         \/ CommunicationBlock \/ Reset
         \/ UNCHANGED <<state, out, Hot>>
  BY StepCases
     DEF SchedulerStep, SensorStart, SensorNotReady, SensorAbort, CommunicationTask,
         Tick, EchoRise, EchoFall, ButtonMoves, ObstacleMoves, vars, controlVars, Hot

LEMMA EvaluateStates ==
  ASSUME SensorEvaluate
  PROVE  /\ Hot' = Hot
         /\ state' = state \/ (state = "ACTIVE" /\ state' = "SAFE_STATE"
                               /\ reading = "critical")
         /\ state = "ACTIVE" /\ reading = "critical" => state' = "SAFE_STATE"
  BY DEF SensorEvaluate, HandleEvent, Hot

LEMMA ColdOutsideStep ==
  ASSUME TypeOK, ColdOutside, [Next]_vars
  PROVE  ColdOutside'
<1> USE DEF ColdOutside
<1>1. CASE MainInit \/ CommunicationBlock \/ Reset
  <2>1. Hot' = {}
    BY <1>1, SafeOutputsCold DEF MainInit, CommunicationBlock, Reset
  <2>2. QED
    BY <2>1
<1>2. CASE ActuatorTask
  BY <1>2, ActuatorOutputs
<1>3. CASE ControlTask
  BY <1>3, ControlOutputs
<1>4. CASE SensorEvaluate
  BY <1>4, EvaluateStates
<1>5. CASE UNCHANGED <<state, out, Hot>>
  BY <1>5
<1>6. QED
  BY OutputSteps, <1>1, <1>2, <1>3, <1>4, <1>5

\* A step of scheduler_run() that calls the control task finds it due, and the
\* actuator task not: it was examined earlier in the same pass.
LEMMA ControlIsDue ==
  ASSUME StampsHold, Sched!Dispatch(Control)
  PROVE  Sched!Elapsed(passNow, lastRun[Control]) > Sched!Elapsed(passNow, lastRun[Actuator])
<1>1. Sched!Elapsed(passNow, lastRun[Control]) >= Period[Control] /\ slot = Control
  BY DEF Sched!Dispatch, Sched!Due
<1>2. Sched!Elapsed(passNow, lastRun[Actuator]) < Period[Actuator]
  <2>1. SP!Examined(Actuator) /\ Actuator \in SP!Slot
    BY <1>1 DEF SP!Examined, SP!Slot
  <2>2. QED
    BY <2>1 DEF StampsHold, SP!StampsInv, Sched!Elapsed, SP!Elapsed
<1>3. /\ Sched!Elapsed(passNow, lastRun[Actuator]) \in Nat
      /\ Sched!Elapsed(passNow, lastRun[Control]) \in Nat
  BY SchedulerConstants, SP!StampAge DEF StampsHold, SP!Slot, Sched!Elapsed, SP!Elapsed
<1>4. Period[Actuator] \in Nat /\ Period[Control] \in Nat
  BY CellAssumption
<1>5. QED
  BY <1>1, <1>2, <1>3, <1>4, DeadlineAssumption

LEMMA StepperTurnStep ==
  ASSUME TypeOK, StampsHold, ColdOutside, StepperTurn, [Next]_vars
  PROVE  StepperTurn'
<1> SUFFICES ASSUME state' = "IDLE", Hot' # {}
             PROVE  /\ ~(slot' = Control /\ inTask')
                    /\ \/ slot' = Actuator /\ inTask'
                       \/ Sched!Elapsed(passNow', lastRun'[Control])
                            <= Sched!Elapsed(passNow', lastRun'[Actuator])
  BY DEF StepperTurn
<1>1. ~MainInit /\ ~CommunicationBlock /\ ~Reset
  BY SafeOutputsCold DEF MainInit, CommunicationBlock, Reset
<1>2. ~ActuatorTask
  BY ActuatorOutputs DEF ColdOutside
<1>3. CASE ControlTask
  <2>1. /\ slot' = 3 /\ UNCHANGED <<passNow, lastRun>> /\ lastRun[Control] = passNow
    BY <1>3 DEF ControlTask, InBody, Sched!Return, StampsHold, SP!StampsInv
  <2>2. /\ Sched!Elapsed(passNow, passNow) = 0
        /\ Sched!Elapsed(passNow, lastRun[Actuator]) \in Nat
    BY SchedulerConstants, SP!ElapsedIsTime
       DEF StampsHold, SP!TypeOK, SP!Slot, Sched!Elapsed, SP!Elapsed
  <2>3. QED
    BY <2>1, <2>2
<1>4. CASE SchedulerStep
  <2>1. state = "IDLE" /\ Hot # {}
    BY <1>4 DEF SchedulerStep, controlVars, Hot
  <2>2. \/ slot = Actuator /\ inTask
        \/ Sched!Elapsed(passNow, lastRun[Control])
             <= Sched!Elapsed(passNow, lastRun[Actuator])
    BY <2>1 DEF StepperTurn
  <2>3. CASE Sched!BeginPass
    <3>1. slot = 5 /\ slot' = 1 /\ passNow' = now /\ UNCHANGED lastRun
      BY <2>3 DEF Sched!BeginPass
    <3>2. \A t \in Slots :
            /\ Sched!Elapsed(now, lastRun[t]) = Sched!Elapsed(passNow, lastRun[t]) + InPass
            /\ Sched!Elapsed(passNow, lastRun[t]) \in Nat /\ InPass \in Nat
      BY SchedulerConstants, SP!StampAge
         DEF StampsHold, Slots, InPass, SP!Slot, Sched!Elapsed, SP!Elapsed
    <3>3. Sched!Elapsed(now, lastRun[Control]) <= Sched!Elapsed(now, lastRun[Actuator])
      BY <2>2, <3>1, <3>2 DEF Slots
    <3>4. QED
      BY <3>1, <3>3
  <2>4. ASSUME NEW t \in 1..NTasks, Sched!Skip(t)
        PROVE  /\ ~inTask /\ ~inTask' /\ UNCHANGED <<passNow, lastRun>>
    BY <2>4 DEF Sched!Skip
  <2>5. ASSUME NEW t \in 1..NTasks, Sched!Dispatch(t)
        PROVE  /\ ~inTask /\ inTask' /\ slot' = t /\ t # Control
               /\ UNCHANGED passNow
               /\ t # Actuator => lastRun'[Control] = lastRun[Control]
                                   /\ lastRun'[Actuator] = lastRun[Actuator]
    <3>1. /\ slot = t /\ ~inTask /\ inTask' /\ UNCHANGED <<slot, passNow>>
          /\ lastRun' = [lastRun EXCEPT ![t] = passNow]
      BY <2>5 DEF Sched!Dispatch
    <3>2. Sched!Elapsed(passNow, lastRun[Control]) \in Nat
          /\ Sched!Elapsed(passNow, lastRun[Actuator]) \in Nat
      BY SchedulerConstants, SP!StampAge
         DEF StampsHold, SP!Slot, Sched!Elapsed, SP!Elapsed
    <3>3. t # Control
      BY <2>2, <2>5, <3>1, <3>2, ControlIsDue
    <3>4. QED
      BY <3>1, <3>3 DEF TypeOK, Sched!TypeOK, Sched!Slot
  <2>6. QED
    BY <1>4, <2>2, <2>3, <2>4, <2>5 DEF SchedulerStep
<1>5. CASE \/ SensorStart \/ SensorEvaluate \/ SensorAbort \/ CommunicationTask
  <2>1. state = "IDLE" /\ Hot # {}
    BY <1>5, EvaluateStates DEF SensorStart, SensorAbort, CommunicationTask, controlVars, Hot
  <2>2. slot \in {Sensor, Communication} /\ slot' # Control /\ UNCHANGED <<passNow, lastRun>>
    BY <1>5 DEF SensorStart, SensorEvaluate, SensorAbort, CommunicationTask, InBody,
                Sched!Return
  <2>3. QED
    BY <2>1, <2>2 DEF StepperTurn
<1>6. CASE \/ SensorNotReady \/ Tick \/ EchoRise \/ EchoFall
           \/ ButtonMoves \/ ObstacleMoves \/ UNCHANGED vars
  <2>1. state = "IDLE" /\ Hot # {} /\ UNCHANGED <<passNow, lastRun, slot, inTask>>
    BY <1>6 DEF SensorNotReady, Tick, Sched!Tick, EchoRise, EchoFall, ButtonMoves,
                ObstacleMoves, vars, controlVars, Hot
  <2>2. QED
    BY <2>1 DEF StepperTurn
<1>7. QED
  BY StepCases, <1>1, <1>2, <1>3, <1>4, <1>5, <1>6

LEMMA EchoInTimeStep ==
  ASSUME TypeOK, SensorInv, StampsHold, EchoInTime, [Next]_vars
  PROVE  EchoInTime'
<1>0. aborting' => target' # "near"
  <2>1. CASE SensorNotReady
    BY <2>1 DEF SensorNotReady, SensorInv, SensorInStep, EchoInTime, worldVars
  <2>2. CASE SensorStart
    BY <2>2 DEF SensorStart, SensorInv
  <2>3. CASE SensorAbort \/ Reset
    BY <2>3 DEF SensorAbort, Reset
  <2>4. CASE UNCHANGED <<aborting, target>>
    BY <2>4 DEF EchoInTime
  <2>5. QED
    BY StepCases, <2>1, <2>2, <2>3, <2>4
       DEF MainInit, SchedulerStep, ActuatorTask, ControlTask, SensorEvaluate,
           CommunicationTask, CommunicationBlock, Tick, EchoRise, EchoFall,
           ButtonMoves, ObstacleMoves, vars, sensorVars, worldVars
<1> SUFFICES ASSUME target' = "near", capture' # "IDLE"
             PROVE  /\ ~(slot' = Sensor /\ inTask')
                    /\ \/ Sched!Elapsed(now', lastRun'[Sensor]) <= NearEchoMs
                       \/ Sched!Elapsed(now', lastRun'[Sensor]) <= MaxPassMs
  BY <1>0 DEF EchoInTime
<1>1. ~SensorAbort /\ ~EchoFall /\ ~Reset
  BY DEF SensorAbort, Range!Abort, EchoFall, Range!Fall, Reset
<1>2. CASE SensorStart
  <2>1. /\ slot' = 4 /\ lastRun[Sensor] = passNow /\ UNCHANGED <<now, lastRun>>
    BY <1>2 DEF SensorStart, InBody, Sched!Return, StampsHold, SP!StampsInv
  <2>2. Sched!Elapsed(now, passNow) <= MaxPassMs
    BY DEF StampsHold, SP!StampsInv, Sched!Elapsed, SP!Elapsed
  <2>3. QED
    BY <2>1, <2>2
<1>3. CASE SchedulerStep
  <2>1. target = "near" /\ capture # "IDLE"
    BY <1>3 DEF SchedulerStep, worldVars
  <2>2. /\ ~(slot = Sensor /\ inTask)
        /\ \/ Sched!Elapsed(now, lastRun[Sensor]) <= NearEchoMs
           \/ Sched!Elapsed(now, lastRun[Sensor]) <= MaxPassMs
    BY <2>1 DEF EchoInTime
  <2>3. CASE Sched!BeginPass
    BY <2>2, <2>3 DEF Sched!BeginPass
  <2>4. ASSUME NEW t \in 1..NTasks, Sched!Skip(t)
        PROVE  ~inTask' /\ UNCHANGED <<now, lastRun>>
    BY <2>4 DEF Sched!Skip
  <2>5. ASSUME NEW t \in 1..NTasks, Sched!Dispatch(t)
        PROVE  /\ slot' # Sensor /\ UNCHANGED now
               /\ lastRun'[Sensor] = lastRun[Sensor]
    <3>1. /\ slot = t /\ UNCHANGED <<slot, now>>
          /\ lastRun' = [lastRun EXCEPT ![t] = passNow]
      BY <2>5 DEF Sched!Dispatch
    <3>2. t # Sensor
      <4>1. ASSUME t = Sensor PROVE FALSE
        <5>1. Sched!Elapsed(passNow, lastRun[Sensor]) >= Period[Sensor]
          BY <2>5, <4>1 DEF Sched!Dispatch, Sched!Due
        <5>2. /\ Sched!Elapsed(now, lastRun[Sensor])
                   = Sched!Elapsed(passNow, lastRun[Sensor]) + InPass
              /\ Sched!Elapsed(passNow, lastRun[Sensor]) \in Nat /\ InPass \in Nat
          BY SchedulerConstants, SP!StampAge
             DEF StampsHold, InPass, SP!Slot, Sched!Elapsed, SP!Elapsed
        <5>3. /\ NearEchoMs < Period[Sensor] /\ NearEchoMs \in Nat
              /\ MaxPassMs < Period[Sensor] /\ MaxPassMs \in Nat
              /\ Period[Sensor] \in Nat
          BY CellAssumption, DeadlineAssumption
        <5>4. QED
          BY <2>2, <5>1, <5>2, <5>3
      <4>2. QED
        BY <4>1
    <3>3. QED
      BY <3>1, <3>2 DEF TypeOK, Sched!TypeOK, Sched!Slot
  <2>6. QED
    BY <1>3, <2>2, <2>3, <2>4, <2>5 DEF SchedulerStep
<1>4. CASE Tick
  <2>1. /\ target = "near" /\ capture # "IDLE" /\ UNCHANGED <<slot, inTask, lastRun>>
        /\ Sched!Elapsed(now, lastRun[Sensor]) < NearEchoMs
    BY <1>4 DEF Tick, Sched!Tick, worldVars
  <2>2. Sched!Elapsed(now, lastRun[Sensor])' = Sched!Elapsed(now, lastRun[Sensor]) + 1
    BY <1>4, TickClock DEF Slots
  <2>3. Sched!Elapsed(now, lastRun[Sensor]) \in Nat
    BY SchedulerConstants, SP!StampAge DEF StampsHold, SP!Slot, Sched!Elapsed, SP!Elapsed
  <2>4. Sched!Elapsed(now', lastRun'[Sensor]) <= NearEchoMs
    BY <2>1, <2>2, <2>3, DeadlineConstants
  <2>5. QED
    BY <2>1, <2>4 DEF EchoInTime
<1>5. CASE \/ ActuatorTask \/ ControlTask \/ SensorEvaluate \/ CommunicationTask
  <2>1. /\ target = "near" /\ capture # "IDLE"
        /\ ~inTask' /\ UNCHANGED <<now, lastRun>>
    BY <1>5 DEF ActuatorTask, ControlTask, SensorEvaluate, CommunicationTask, InBody,
                Sched!Return, worldVars
  <2>2. QED
    BY <2>1 DEF EchoInTime
<1>6. CASE \/ MainInit \/ SensorNotReady \/ CommunicationBlock \/ EchoRise
           \/ ButtonMoves \/ ObstacleMoves \/ UNCHANGED vars
  <2>1. /\ target = "near" /\ capture # "IDLE"
        /\ UNCHANGED <<now, lastRun, slot, inTask>>
    BY <1>6 DEF MainInit, SensorNotReady, CommunicationBlock, EchoRise, Range!Rise,
                ButtonMoves, ObstacleMoves, vars, worldVars
  <2>2. QED
    BY <2>1 DEF EchoInTime
<1>7. QED
  BY StepCases, <1>1, <1>2, <1>3, <1>4, <1>5, <1>6

-----------------------------------------------------------------------------
\* Steps that leave state, outputs and measurement alone: the stopwatches gain no
\* more than what is waited for.
LEMMA WaitingStep ==
  ASSUME DeadlineInv, NEW d \in Nat, Watched(d), Stopwatches',
         UNCHANGED <<state, Hot, measuring, target>>,
         \A t \in {Actuator, Control, Sensor} :
           Waited(t)' \in Nat /\ Waited(t)' >= Waited(t) + d
  PROVE  Approach' /\ ComingToRest'
<1>1. /\ danger \in Nat /\ safeFor \in Nat /\ danger' \in Nat /\ safeFor' \in Nat
  BY DEF DeadlineInv, Stopwatches
<1>2. \A t \in {Actuator, Control, Sensor} : Waited(t) \in Nat
  BY WaitedRange DEF DeadlineInv, Slots
<1>3. SensorWait \in Nat
  BY DeadlineConstants
<1>4. Approach'
  BY <1>1, <1>2, <1>3 DEF DeadlineInv, Approach, Watched
<1>5. ComingToRest'
  BY <1>1, <1>2, <1>3 DEF DeadlineInv, ComingToRest, Watched
<1>6. QED
  BY <1>4, <1>5

\* Steps after which nothing is energised.
LEMMA CoolingStep ==
  ASSUME Hot' = {}, danger' = 0, state' = "ACTIVE" => Waited(Sensor)' \in Nat
  PROVE  Approach' /\ ComingToRest'
  BY DeadlineConstants DEF Approach, ComingToRest

\* What the body of a task finds and leaves: the bounds of the others stand, its
\* own starts again from what the pass has lasted.
LEMMA BodyClock ==
  ASSUME StampsHold, NEW t \in Slots, InBody(t)
  PROVE  /\ InPass \in Nat
         /\ Waited(t) = Period[t] - 1 + MaxPassMs + InPass
         /\ Waited(t)' = InPass
         /\ \A u \in Slots : /\ Waited(u) \in Nat /\ InPass <= Waited(u)
                             /\ Waited(u) <= Period[u] - 1 + MaxPassMs + InPass
                             /\ u # t => Waited(u)' = Waited(u)
  BY ReturnClock, WaitedRange

LEMMA ActuatorDeadline ==
  ASSUME DeadlineInv, Watched(0), Stopwatches', ActuatorTask
  PROVE  Approach' /\ ComingToRest'
<1>1. UNCHANGED <<state, measuring, target>>
  BY DEF ActuatorTask, sensorVars, worldVars
<1>2. /\ Waited(Control)' = Waited(Control) /\ Waited(Control) \in Nat
      /\ Waited(Sensor)' = Waited(Sensor) /\ Waited(Sensor) \in Nat
  BY BodyClock DEF ActuatorTask, DeadlineInv, Slots
<1>3. state # "ACTIVE" => "stepper" \notin Hot' /\ Hot' \subseteq Hot
  BY ActuatorOutputs DEF DeadlineInv
<1>4. danger' <= danger /\ safeFor' <= safeFor
      /\ danger \in Nat /\ safeFor \in Nat /\ danger' \in Nat /\ safeFor' \in Nat
  BY DEF Watched, DeadlineInv, Stopwatches
<1>5. Approach'
  BY <1>1, <1>2, <1>4, DeadlineConstants DEF DeadlineInv, Approach
<1>6. ComingToRest'
  BY <1>1, <1>2, <1>3, <1>4, DeadlineConstants DEF DeadlineInv, ComingToRest
<1>7. QED
  BY <1>5, <1>6

LEMMA ControlDeadline ==
  ASSUME DeadlineInv, Watched(0), Stopwatches', ControlTask
  PROVE  Approach' /\ ComingToRest'
<1>1. UNCHANGED <<measuring, target>> /\ slot = Control /\ inTask
  BY DEF ControlTask, sensorVars, worldVars, InBody, Sched!Return
<1>2. /\ Waited(Actuator)' = Waited(Actuator) /\ Waited(Actuator) \in Nat
      /\ Waited(Sensor)' = Waited(Sensor) /\ Waited(Sensor) \in Nat
      /\ Waited(Sensor) <= SensorWait + InPass /\ InPass <= Waited(Actuator)
      /\ InPass \in Nat
  BY BodyClock DEF ControlTask, DeadlineInv, Slots, SensorWait
<1>3. state' \in {"IDLE", "SAFE_STATE"} => Hot' \subseteq Hot /\ Hot' \subseteq {"stepper"}
  BY ControlOutputs DEF DeadlineInv
<1>4. danger' <= danger /\ danger \in Nat /\ danger' \in Nat
      /\ safeFor' <= safeFor /\ safeFor \in Nat /\ safeFor' \in Nat
  BY DEF Watched, DeadlineInv, Stopwatches
<1>5. \/ state = "IDLE" /\ state' = "ACTIVE"
      \/ state = "ACTIVE" /\ state' = "IDLE"
      \/ state' = state
  BY DEF ControlTask, PressAccepted, HandleEvent
<1>6. CASE state = "IDLE" /\ state' = "ACTIVE"
  <2>1. Hot = {}
    BY <1>1, <1>6 DEF DeadlineInv, StepperTurn
  <2>2. danger' = 0
    BY <1>4, <2>1 DEF DeadlineInv, Stopwatches, Running
  <2>3. QED
    BY <1>2, <1>6, <2>2, DeadlineConstants DEF Approach, ComingToRest
<1>7. CASE state = "ACTIVE" /\ state' = "IDLE"
  <2>1. danger <= 2 * SensorWait + Waited(Sensor)
    BY <1>2, <1>4, <1>7, DeadlineConstants DEF DeadlineInv, Approach, TypeOK
  <2>2. danger' <= 3 * SensorWait + Waited(Actuator)'
    BY <1>2, <1>4, <2>1, DeadlineConstants
  <2>3. QED
    BY <1>7, <2>2 DEF Approach, ComingToRest
<1>8. CASE state' = state
  <2>1. Approach'
    BY <1>1, <1>2, <1>4, <1>8, DeadlineConstants DEF DeadlineInv, Approach
  <2>2. ComingToRest'
    BY <1>2, <1>3, <1>4, <1>8, DeadlineConstants DEF DeadlineInv, ComingToRest
  <2>3. QED
    BY <2>1, <2>2
<1>9. QED
  BY <1>5, <1>6, <1>7, <1>8

\* The part of ComingToRest that a call of the sensor task leaves alone.
LEMMA SensorRests ==
  ASSUME DeadlineInv, Watched(0), Stopwatches', InBody(Sensor), UNCHANGED <<state, Hot>>
  PROVE  ComingToRest'
<1>1. /\ Waited(Actuator)' = Waited(Actuator) /\ Waited(Actuator) \in Nat
      /\ Waited(Control)' = Waited(Control) /\ Waited(Control) \in Nat
  BY BodyClock DEF DeadlineInv, Slots
<1>2. danger' <= danger /\ safeFor' <= safeFor
      /\ danger \in Nat /\ safeFor \in Nat /\ danger' \in Nat /\ safeFor' \in Nat
  BY DEF Watched, DeadlineInv, Stopwatches
<1>3. QED
  BY <1>1, <1>2, DeadlineConstants DEF DeadlineInv, ComingToRest

LEMMA SensorDeadline ==
  ASSUME DeadlineInv, Watched(0), Stopwatches', SensorStart \/ SensorEvaluate \/ SensorAbort
  PROVE  Approach' /\ ComingToRest'
<1>1. InBody(Sensor)
  BY DEF SensorStart, SensorEvaluate, SensorAbort
<1>2. /\ Waited(Sensor) = SensorWait + InPass /\ Waited(Sensor)' = InPass /\ InPass \in Nat
      /\ SensorWait \in Nat
      /\ Waited(Actuator)' = Waited(Actuator) /\ Waited(Actuator) \in Nat
      /\ Waited(Control)' = Waited(Control) /\ Waited(Control) \in Nat
      /\ InPass <= Waited(Actuator) /\ InPass <= Waited(Control)
  BY <1>1, BodyClock, DeadlineConstants DEF DeadlineInv, Slots, SensorWait
<1>3. danger' <= danger /\ danger \in Nat /\ danger' \in Nat
      /\ safeFor' <= safeFor /\ safeFor \in Nat /\ safeFor' \in Nat
  BY DEF Watched, DeadlineInv, Stopwatches
<1>4. CASE SensorStart
  <2>1. ~measuring /\ measuring' /\ target' = (IF obstacle THEN "near" ELSE "far")
    BY <1>4 DEF SensorStart, DeadlineInv, SensorInv, SensorInStep
  <2>2. UNCHANGED <<state, Hot>>
    BY <1>4 DEF SensorStart, controlVars, Hot
  <2>3. ~obstacle => danger' = 0
    BY <1>3 DEF DeadlineInv, Stopwatches, Running
  <2>4. Approach'
    BY <1>2, <1>3, <2>1, <2>2, <2>3 DEF DeadlineInv, Approach
  <2>5. QED
    BY <1>1, <2>2, <2>4, SensorRests
<1>5. CASE SensorAbort
  <2>1. measuring /\ ~measuring' /\ target # "near"
    BY <1>5 DEF SensorAbort, DeadlineInv, SensorInv, EchoInTime
  <2>2. UNCHANGED <<state, Hot>>
    BY <1>5 DEF SensorAbort, controlVars, Hot
  <2>3. Approach'
    BY <1>2, <1>3, <2>1, <2>2 DEF DeadlineInv, Approach
  <2>4. QED
    BY <1>1, <2>2, <2>3, SensorRests
<1>6. CASE SensorEvaluate
  <2>1. measuring /\ ~measuring' /\ (reading = "critical" <=> target = "near")
    BY <1>6 DEF SensorEvaluate, DeadlineInv, SensorInv, ResultMatchesTarget
  <2>2. CASE state = "ACTIVE" /\ reading = "critical"
    <3>1. state' = "SAFE_STATE"
      BY <1>6, <2>2, EvaluateStates
    <3>2. danger <= 2 * SensorWait + Waited(Sensor) /\ safeFor = 0
      BY <2>1, <2>2 DEF DeadlineInv, Approach, Stopwatches
    <3>3. /\ danger' <= 3 * SensorWait + Waited(Actuator)'
          /\ danger' <= 3 * SensorWait + Waited(Control)'
          /\ safeFor' <= Waited(Actuator)' /\ safeFor' <= Waited(Control)'
      BY <1>2, <1>3, <3>2
    <3>4. QED
      BY <3>1, <3>3 DEF Approach, ComingToRest
  <2>3. CASE ~(state = "ACTIVE" /\ reading = "critical")
    <3>1. UNCHANGED <<state, Hot>>
      BY <1>6, <2>3, EvaluateStates
    <3>2. Approach'
      BY <1>2, <1>3, <2>1, <2>3, <3>1 DEF DeadlineInv, Approach
    <3>3. QED
      BY <1>1, <3>1, <3>2, SensorRests
  <2>4. QED
    BY <2>2, <2>3
<1>7. QED
  BY <1>4, <1>5, <1>6

LEMMA DeadlineInit == DInit => DeadlineInv
<1> SUFFICES ASSUME DInit PROVE DeadlineInv
  OBVIOUS
<1>1. TypeOK /\ SensorInv /\ StampsHold
  BY TypeInit, SensorInit, InitClock DEF DInit
<1>2. /\ state = "BOOT" /\ out = SafeOutputs /\ capture = "IDLE" /\ aborting = FALSE
      /\ danger = 0 /\ safeFor = 0
  BY DEF DInit, Init, PowerUp, Range!Init
<1>3. Hot = {}
  BY <1>2 DEF Hot, SafeOutputs
<1>4. QED
  BY <1>1, <1>2, <1>3
     DEF DeadlineInv, Stopwatches, ColdOutside, StepperTurn, EchoInTime, Approach,
         ComingToRest

(* Every step of the firmware, its interrupts and the world keeps the       *)
(* stopwatches within what is being waited for.                             *)
LEMMA DeadlineStep == DeadlineInv /\ [DNext]_deadlineVars => DeadlineInv'
<1> SUFFICES ASSUME DeadlineInv, [DNext]_deadlineVars PROVE DeadlineInv'
  OBVIOUS
<1>1. /\ Stopwatches' /\ [Next]_vars
      /\ (~Tick => Watched(0)) /\ Watched(1)
      /\ (Hot' = {} => danger' = 0)
  BY WatchStep DEF DeadlineInv
<1>2. /\ TypeOK' /\ SensorInv' /\ StampsHold'
      /\ ColdOutside' /\ StepperTurn' /\ EchoInTime'
  BY <1>1, TypeStep, SensorStep, StampsStep, ColdOutsideStep, StepperTurnStep,
     EchoInTimeStep DEF DeadlineInv
<1>3. Approach' /\ ComingToRest'
  <2>1. CASE MainInit \/ CommunicationBlock \/ Reset
    <3>1. Hot' = {} /\ danger' = 0
      BY <1>1, <2>1, SafeOutputsCold DEF MainInit, CommunicationBlock, Reset
    <3>2. state' = "ACTIVE" => Waited(Sensor)' \in Nat
      <4>1. ASSUME CommunicationBlock PROVE Waited(Sensor)' \in Nat
        <5>1. UNCHANGED <<now, lastRun, passNow, slot, inTask>>
          BY <4>1 DEF CommunicationBlock
        <5>2. QED
          BY <5>1, QuietClock, WaitedRange DEF DeadlineInv, Slots
      <4>2. QED
        BY <2>1, <4>1 DEF MainInit, HandleEvent, Reset
    <3>3. QED
      BY <3>1, <3>2, CoolingStep
  <2>2. CASE Tick
    <3>1. UNCHANGED <<state, Hot, measuring, target>>
      BY <2>2 DEF Tick, controlVars, sensorVars, worldVars, Hot
    <3>2. \A t \in {Actuator, Control, Sensor} :
            Waited(t)' \in Nat /\ Waited(t)' >= Waited(t) + 1
      BY <2>2, TickClock, WaitedRange DEF DeadlineInv, Slots
    <3>3. QED
      BY <1>1, <3>1, <3>2, WaitingStep
  <2>3. CASE ~Tick /\ ActuatorTask
    BY <1>1, <2>3, ActuatorDeadline
  <2>4. CASE ~Tick /\ ControlTask
    BY <1>1, <2>4, ControlDeadline
  <2>5. CASE ~Tick /\ (SensorStart \/ SensorEvaluate \/ SensorAbort)
    BY <1>1, <2>5, SensorDeadline
  <2>6. CASE ~Tick /\ \/ SchedulerStep \/ CommunicationTask \/ SensorNotReady
                      \/ EchoRise \/ EchoFall \/ ButtonMoves \/ ObstacleMoves
                      \/ UNCHANGED vars
    <3>1. UNCHANGED <<state, Hot, measuring, target>>
      BY <2>6 DEF SchedulerStep, CommunicationTask, SensorNotReady, EchoRise, EchoFall,
                  ButtonMoves, ObstacleMoves, vars, controlVars, sensorVars, worldVars, Hot
    <3>2. \A t \in {Actuator, Control, Sensor} :
            Waited(t)' \in Nat /\ Waited(t)' >= Waited(t)
      <4>1. StampsHold
        BY DEF DeadlineInv
      <4>2. \A t \in Slots : Waited(t) \in Nat
        BY <4>1, WaitedRange
      <4>3. CASE SchedulerStep
        BY <4>1, <4>2, <4>3, BeginClock, SkipClock, DispatchClock DEF SchedulerStep, Slots
      <4>4. CASE CommunicationTask
        BY <4>1, <4>2, <4>4, ReturnClock DEF CommunicationTask, Slots
      <4>5. CASE \/ SensorNotReady \/ EchoRise \/ EchoFall \/ ButtonMoves
                 \/ ObstacleMoves \/ UNCHANGED vars
        <5>1. UNCHANGED <<now, lastRun, passNow, slot, inTask>>
          BY <4>5 DEF SensorNotReady, EchoRise, EchoFall, ButtonMoves, ObstacleMoves, vars
        <5>2. QED
          BY <4>1, <4>2, <5>1, QuietClock DEF Slots
      <4>6. QED
        BY <2>6, <4>3, <4>4, <4>5
    <3>3. \A t \in {Actuator, Control, Sensor} : Waited(t) \in Nat
      BY WaitedRange DEF DeadlineInv, Slots
    <3>4. \A t \in {Actuator, Control, Sensor} :
            Waited(t)' \in Nat /\ Waited(t)' >= Waited(t) + 0
      BY <3>2, <3>3
    <3>5. QED
      BY <1>1, <2>6, <3>1, <3>4, WaitingStep
  <2>7. QED
    BY <1>1, StepCases, <2>1, <2>2, <2>3, <2>4, <2>5, <2>6
<1>4. QED
  BY <1>1, <1>2, <1>3 DEF DeadlineInv

LEMMA DeadlineInvariant == DSpec => []DeadlineInv
  BY DeadlineInit, DeadlineStep, PTL DEF DSpec

(* After a trip the relay, the motor and the servo are at rest within one   *)
(* control period and two passes, the stepper within one actuator period    *)
(* and two passes, whatever else the tasks and interrupts do.               *)
THEOREM OutputsInTime == DSpec => []OutputsDeadline
<1>1. DeadlineInv => OutputsDeadline
  <2> SUFFICES ASSUME DeadlineInv, state = "SAFE_STATE" PROVE OutputsDeadline
    BY DEF OutputsDeadline
  <2>1. /\ Waited(Control) \in Nat /\ Waited(Control) <= Period[Control] - 1 + 2 * MaxPassMs
        /\ Waited(Actuator) \in Nat /\ Waited(Actuator) <= Period[Actuator] - 1 + 2 * MaxPassMs
        /\ Period[Control] \in Nat /\ Period[Actuator] \in Nat /\ MaxPassMs \in Nat
    BY WaitedRange, DeadlineConstants DEF DeadlineInv, Slots
  <2>2. safeFor \in Nat
    BY DEF DeadlineInv, Stopwatches
  <2>3. safeFor >= Period[Control] + 2 * MaxPassMs => Hot \subseteq {"stepper"}
    BY <2>1, <2>2 DEF DeadlineInv, ComingToRest
  <2>4. safeFor >= Period[Actuator] + 2 * MaxPassMs => "stepper" \notin Hot
    BY <2>1, <2>2 DEF DeadlineInv, ComingToRest
  <2>5. QED
    BY <2>3, <2>4 DEF OutputsDeadline
<1>2. QED
  BY <1>1, DeadlineInvariant, PTL

(* With an obstacle inside the critical distance all the time no actuator   *)
(* is energised for longer than StopDeadline, whatever the phase of the     *)
(* measurement and of the tasks when it appears, and whatever the operator  *)
(* does with the button meanwhile.                                          *)
THEOREM ObstacleStopsInTime == DSpec => []ObstacleStopsCell
<1>1. DeadlineInv => ObstacleStopsCell
  <2> SUFFICES ASSUME DeadlineInv PROVE danger <= StopDeadline
    BY DEF ObstacleStopsCell
  <2>1. \A t \in Slots : /\ Waited(t) \in Nat
                          /\ Waited(t) <= Period[t] - 1 + 2 * MaxPassMs
                          /\ Period[t] \in Nat /\ Period[t] > 0
    BY WaitedRange, DeadlineConstants DEF DeadlineInv
  <2>2. MaxPassMs \in Nat /\ SensorWait = Period[Sensor] - 1 + MaxPassMs
        /\ StopDeadline = 3 * SensorWait + Period[Control] - 1 + 2 * MaxPassMs
        /\ SensorWait \in Nat
    BY <2>1, DeadlineConstants DEF SensorWait, StopDeadline, Slots
  <2>3. danger \in Nat /\ (Hot = {} => danger = 0)
    BY DEF DeadlineInv, Stopwatches, Running
  <2>4. CASE state = "ACTIVE"
    <3>1. danger <= 2 * SensorWait + Waited(Sensor)
      BY <2>1, <2>2, <2>3, <2>4 DEF DeadlineInv, Approach, TypeOK, Slots
    <3>2. QED
      BY <2>1, <2>2, <2>3, <3>1 DEF Slots
  <2>5. CASE state \in {"IDLE", "SAFE_STATE"}
    <3>1. CASE "stepper" \in Hot
      BY <2>1, <2>2, <2>3, <2>5, <3>1, DeadlineAssumption
         DEF DeadlineInv, ComingToRest, Slots
    <3>2. CASE state = "SAFE_STATE" /\ ~(Hot \subseteq {"stepper"})
      BY <2>1, <2>2, <2>3, <3>2 DEF DeadlineInv, ComingToRest, Slots
    <3>3. CASE Hot = {}
      BY <2>1, <2>2, <2>3, <3>3 DEF Slots
    <3>4. QED
      BY <2>5, <3>1, <3>2, <3>3 DEF DeadlineInv, ColdOutside
  <2>6. CASE state = "BOOT"
    BY <2>1, <2>2, <2>3, <2>6 DEF DeadlineInv, ColdOutside, Slots
  <2>7. QED
    BY <2>4, <2>5, <2>6 DEF DeadlineInv, TypeOK, State
<1>2. QED
  BY <1>1, DeadlineInvariant, PTL
=============================================================================
