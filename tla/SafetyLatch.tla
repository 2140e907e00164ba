----------------------------- MODULE SafetyLatch -----------------------------
(***************************************************************************)
(* What the cell promises to the people around it, without tasks, clocks   *)
(* or interrupts.  "hot" is the set of actuators that are energised.       *)
(*                                                                         *)
(*   - actuators are energised only while the cell is driving;             *)
(*   - once tripped nothing becomes energised again, and the cell leaves   *)
(*     that mode only through a reset;                                     *)
(*   - a tripped cell goes cold.                                           *)
(***************************************************************************)
CONSTANT Actuators

VARIABLES mode, hot

latchVars == <<mode, hot>>

Init == mode = "stopped" /\ hot = {}

\* The operator starts the cell.
Engage == mode = "stopped" /\ mode' = "driving" /\ hot' \in SUBSET Actuators

\* An actuator is energised, or released for a moment, while driving.
Drive == mode = "driving" /\ mode' = mode /\ hot' \in SUBSET Actuators

\* The operator stops the cell; what is still energised is released later.
Disengage == mode = "driving" /\ mode' = "stopped" /\ hot' \subseteq hot

\* An obstacle inside the critical distance.
Trip == mode = "driving" /\ mode' = "tripped" /\ hot' \subseteq hot

\* Actuators are released in any mode, never energised.
Release == mode' = mode /\ hot' \subseteq hot

\* Reset or power cycle: outputs are cold and the latch is open.
Reset == mode' = "stopped" /\ hot' = {}

Next == Engage \/ Drive \/ Disengage \/ Trip \/ Release \/ Reset

Safety == Init /\ [][Next]_latchVars
=============================================================================
