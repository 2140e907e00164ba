---------------------------- MODULE MCCellDeadline ----------------------------
(* The shape of MCCellControl, with a stopwatch long enough to see every    *)
(* deadline missed.                                                         *)
EXTENDS CellDeadline
MCPeriod == <<1, 2, 3, 2>>
=============================================================================
