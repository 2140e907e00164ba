------------------------------ MODULE ServoSignal ------------------------------
(***************************************************************************)
(* What the servo sees of Servo: the length of its pulses and of its       *)
(* frames, observed in true ticks.                                         *)
(***************************************************************************)
EXTENDS Servo

VARIABLES age,    \* ticks since the last edge of the signal, capped
          grid    \* ticks since the latest of the ideal pulse starts, which
                  \* lie exactly one frame apart; -1 before the first match

svars == <<vars, age, grid>>

Cap == 2 * FrameTicks
Capped(n) == IF n < Cap THEN n + 1 ELSE n

STypeOK ==
  /\ TypeOK
  /\ age \in 0..Cap
  /\ grid \in -1..(FrameTicks - 1)

SInit == Init /\ age = 0 /\ grid = -1

STick ==
  /\ Tick
  /\ age' = Capped(age)
  /\ grid' = IF grid = -1 THEN IF ocf' THEN 0 ELSE -1
             ELSE (grid + 1) % FrameTicks
SEdge == (Rise \/ Fall) /\ age' = 0 /\ UNCHANGED grid
SOther == (SetPulse \/ EnableInterrupts) /\ UNCHANGED <<age, grid>>

SNext == STick \/ SEdge \/ SOther

-----------------------------------------------------------------------------
\* Every pulse is as long as the command latched for it, up to the latency of
\* the interrupt, whatever is commanded while the signal is high: the falling
\* match is computed from the rising match and the latched length.
PulseFits ==
  [][high /\ ~high' =>
       age \in (Width(active) - MaxLag)..(Width(active) + MaxLag)]_svars

\* Frames do not drift: pulse number n starts n frames after the first match,
\* up to the latency of one interrupt, however the latencies and the commands
\* add up; OCR1A is advanced from its own value.
NoDrift == [][~high /\ high' => grid \in 0..MaxLag]_svars
===============================================================================
