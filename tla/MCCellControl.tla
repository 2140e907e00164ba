---------------------------- MODULE MCCellControl ----------------------------
(* The firmware's shape in small: the actuator service is due every         *)
(* millisecond, control and communication every two, the sensor task is the *)
(* slowest; the operator may press and release between any two steps.       *)
EXTENDS CellOperator
MCPeriod == <<1, 2, 3, 2>>
=============================================================================
