----------------------------- MODULE CellDeadline -----------------------------
(***************************************************************************)
(* CellControl with a stopwatch.  The end-to-end promise of the cell is a  *)
(* time: how long can an actuator stay energised with an obstacle inside   *)
(* the critical distance?  The answer crosses four parts: the ranging      *)
(* measurement under way when the obstacle appears, the sensor task that   *)
(* must be called to read it and again to start and to read the next one,  *)
(* the state machine, and the control and actuator tasks that switch the   *)
(* outputs off on their own periods.                                       *)
(***************************************************************************)
EXTENDS CellControl

CONSTANT WatchMs   \* bound: the stopwatch stops counting here

VARIABLES danger,  \* ms for which an obstacle was near and an actuator hot
          safeFor  \* ms since SAFE_STATE was entered

deadlineVars == <<vars, danger, safeFor>>

UpTo(n) == IF n < WatchMs THEN n ELSE WatchMs

DInit == Init /\ danger = 0 /\ safeFor = 0

Running == obstacle /\ Hot # {}

DNext ==
  \/ /\ Tick
     /\ danger' = IF Running THEN UpTo(danger + 1) ELSE 0
     /\ safeFor' = IF state = "SAFE_STATE" THEN UpTo(safeFor + 1) ELSE 0
  \/ /\ Foreground \/ Echo \/ World \/ Reset
     /\ danger' = IF Running' THEN danger ELSE 0
     /\ safeFor' = IF state' = "SAFE_STATE" THEN safeFor ELSE 0

DSpec == DInit /\ [][DNext]_deadlineVars

-----------------------------------------------------------------------------
(* From entering SAFE_STATE the relay, the motor and the servo are at rest  *)
(* within one control period and two passes, the stepper within one         *)
(* actuator period and two passes.                                          *)
OutputsDeadline ==
  state = "SAFE_STATE" =>
    /\ safeFor >= Period[Control] + 2 * MaxPassMs => Hot \subseteq {"stepper"}
    /\ safeFor >= Period[Actuator] + 2 * MaxPassMs => "stepper" \notin Hot

\* The obstacle may appear just after a burst: one call of the sensor task reads
\* that stale answer, one sends the next burst, one reads it; then the control
\* task takes its turn.  Each of the four is called in the first pass whose clock
\* reading is a period after its last stamp, at most MaxPassMs - 1 late, and
\* control once more up to MaxPassMs into that pass.
StopDeadline == 3 * (Period[Sensor] - 1 + MaxPassMs)
                + (Period[Control] - 1 + MaxPassMs) + MaxPassMs

\* The actuator task is the faster one (1 ms against 10), so that the stepper is
\* released before control_task() can start the cell again, and a pass is
\* shorter than the sensor period (30 ms), so that the echo of a near obstacle is
\* there before the next call of the sensor task.
ASSUME DeadlineAssumption ==
  /\ WatchMs \in Nat /\ WatchMs > StopDeadline
  /\ Period[Actuator] <= Period[Control]
  /\ MaxPassMs < Period[Sensor]

(* With an obstacle inside the critical distance all the time, the          *)
(* actuators are cold before StopDeadline has passed: 96 ms plus five       *)
(* passes with the periods of the firmware.                                 *)
ObstacleStopsCell == danger <= StopDeadline
=============================================================================
