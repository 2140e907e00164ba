----------------------------- MODULE MCFrameTiming -----------------------------
(* The shortest frame and the longest, which carries a SOF as payload, after  *)
(* up to five bytes of noise, enough to leave the parser in any state.        *)
EXTENDS FrameTiming
MCCrc(t, s, p) == (t + s + (IF p = <<>> THEN 0 ELSE p[1])) % 2
MCFrames == {[type |-> 1, sequence |-> 0, payload |-> <<>>],
             [type |-> 0, sequence |-> 1, payload |-> <<3>>]}
=============================================================================
