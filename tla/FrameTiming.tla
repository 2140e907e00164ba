------------------------------ MODULE FrameTiming ------------------------------
(***************************************************************************)
(* The parser of FrameParser in time.  The inter-byte timeout is tested    *)
(* only when communication_task() starts, before the ring is drained, and  *)
(* a byte's age counts from when it was read, not from when it arrived:    *)
(* what a sender may rely on is not the timeout but the timeout less or    *)
(* more the task's latency.  The sender here emits noise, keeps silent,    *)
(* then sends a good frame with bounded gaps.                              *)
(***************************************************************************)
EXTENDS FrameParser

CONSTANTS Latency,   \* longest time between two starts of the task
          Busy,      \* longest time the task drains the ring
          MaxNoise,  \* noise bytes between two frames
          Frames     \* the frames sent

ASSUME FrameTimingAssumption ==
  /\ {Latency, Busy, MaxNoise} \subseteq Nat
  /\ Frames \subseteq [type : Byte, sequence : Byte, payload : Payload]
  /\ 0..MaxPayload \subseteq Byte
  /\ Latency + Busy < Timeout
  /\ Timeout + Latency <= Word
  /\ Latency + Busy < Capacity

\* How long the line has to be quiet before a frame, and how long the sender
\* may pause inside one.  Neither can be improved by one.
Silence == Timeout + Latency + 2 * Busy
Gap == Timeout - Latency - 1

VARIABLES quiet,  \* time since the last byte arrived, capped at Silence
          wait,   \* time since the task started
          noise,  \* noise bytes since the last frame
          left,   \* bytes of the current frame still to be sent
          want,   \* the current frame; None before the first
          got     \* the current frame was accepted

senderVars == <<quiet, noise, left, want>>
fvars == <<vars, senderVars, wait, got>>

Encoded(f) ==
  <<Sof, Version, f.type, f.sequence, Len(f.payload)>> \o f.payload
    \o <<Crc(f.type, f.sequence, f.payload)>>

FInit ==
  /\ Init
  /\ quiet = Silence /\ wait = 0 /\ noise = 0
  /\ left = <<>> /\ want = None /\ got = TRUE

\* At 9600 baud a byte takes a millisecond.
LineFree == quiet > 0

Noise(b) ==
  /\ LineFree /\ left = <<>> /\ noise < MaxNoise
  /\ Receive(b)
  /\ quiet' = 0 /\ noise' = noise + 1
  /\ UNCHANGED <<left, want, wait, got>>

Start(f) ==
  /\ LineFree /\ left = <<>> /\ got /\ quiet >= Silence
  /\ Receive(Head(Encoded(f)))
  /\ left' = Tail(Encoded(f)) /\ want' = f /\ got' = FALSE
  /\ quiet' = 0 /\ noise' = 0
  /\ UNCHANGED wait

Continue ==
  /\ LineFree /\ left # <<>>
  /\ Receive(Head(left))
  /\ left' = Tail(left)
  /\ quiet' = 0
  /\ UNCHANGED <<noise, want, wait, got>>

TaskStarts == CheckTimeout /\ wait' = 0 /\ UNCHANGED <<senderVars, got>>

Parse ==
  /\ ProcessByte
  /\ got' = (got \/ accepted' = want)
  /\ UNCHANGED <<senderVars, wait>>

TaskDrained == Drained /\ UNCHANGED <<senderVars, wait, got>>

\* The task starts and drains the ring in time, and a frame is sent without long gaps.
Pass ==
  /\ wait < Latency
  /\ draining => wait < Busy
  /\ left # <<>> => quiet < Gap
  /\ Tick
  /\ quiet' = IF quiet < Silence THEN quiet + 1 ELSE quiet
  /\ wait' = wait + 1
  /\ UNCHANGED <<noise, left, want, got>>

FNext ==
  \/ \E b \in Byte : Noise(b)
  \/ \E f \in Frames : Start(f)
  \/ Continue \/ TaskStarts \/ Parse \/ TaskDrained \/ Pass

FSpec == FInit /\ [][FNext]_fvars

-----------------------------------------------------------------------------
(* Recovery: a good frame sent after Silence with pauses up to Gap is      *)
(* accepted, whatever partial frame the noise before it had left the parser *)
(* in, and even if more noise follows at once.                              *)
FrameAfterSilenceAccepted == left = <<>> /\ ring = <<>> => got

(* At the line's speed the receive ring never overflows.                    *)
RingNeverOverflows == LineFree => Len(ring) < Capacity
=============================================================================
