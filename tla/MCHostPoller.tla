---------------------------- MODULE MCHostPoller ----------------------------
(* Two questions whose answers differ in length.                            *)
EXTENDS HostPoller
MCCycle == <<"COMM", "JITTER">>
MCBody == [k \in {"COMM", "JITTER"} |-> IF k = "COMM" THEN 1 ELSE 2]
=============================================================================
