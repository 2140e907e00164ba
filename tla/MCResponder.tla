------------------------------ MODULE MCResponder ------------------------------
(* Three status requests whose answers have three sizes, and a ring of four  *)
(* bytes.  The supervisor asks one question at a time, and its answers always *)
(* fit; four questions at once overfill the ring, and answers are retried.   *)
EXTENDS Responder
MCOrder == <<"COMM", "TIMING", "RESET">>
MCSize == [k \in ReplyKind \cup Status |->
             CASE k = "TIMING" -> 3 [] k \in {"COMM", "ACK"} -> 2 [] OTHER -> 1]
=============================================================================
