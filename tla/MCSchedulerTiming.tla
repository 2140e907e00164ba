-------------------------- MODULE MCSchedulerTiming --------------------------
(* Three tasks with the firmware's shape: one due almost every pass, one    *)
(* slower, one much slower.  Word = 11 wraps the clock every 11 ms, so each *)
(* task meets the wrap at every phase.  A jitter of three saturates.        *)
EXTENDS StartJitter
MCPeriod == <<1, 2, 4>>
=============================================================================
