------------------------------- MODULE Watchdog -------------------------------
(***************************************************************************)
(* The watchdog (hal/watchdog.c) and what survives a reset.  A first       *)
(* timeout raises an interrupt that writes two magic bytes to memory the   *)
(* start-up code does not clear, and disarms itself; a second timeout      *)
(* resets the cell.  The first instructions after a reset turn the bytes   *)
(* into the marker the host can read, and erase them.                      *)
(***************************************************************************)
EXTENDS Integers

CONSTANTS Timeout,   \* ticks of one watchdog period (one second)
          BootTicks  \* bound: ticks from a reset to the end of main()'s start-up

ASSUME WatchdogAssumption == Timeout \in Nat /\ Timeout > 1 /\ BootTicks \in Nat

VARIABLES phase,   \* "reset", "boot", "run", "late" or "blocked"
          clock,   \* ticks since the watchdog was last reset, or since the boot
          wdie,    \* the interrupt is armed
          wdif,    \* the interrupt is pending
          magic,   \* the magic bytes found intact: "A", "B"
          marker,  \* previous_timeout_detected
          fired,   \* history: the interrupt ran since the last boot
          before   \* history: it ran in the run before that; "unknown" after power-up

cellVars == <<phase, clock, wdie, wdif, magic, marker, fired, before>>

Magic == {"A", "B"}

CellTypeOK ==
  /\ phase \in {"reset", "boot", "run", "late", "blocked"}
  /\ clock \in 0..(IF phase = "boot" THEN BootTicks ELSE Timeout - 1)
  /\ {wdie, wdif, marker, fired} \subseteq BOOLEAN
  /\ magic \subseteq Magic
  /\ before \in {"yes", "no", "unknown"}

-----------------------------------------------------------------------------
\* Power-up: memory holds anything.
PowerUp ==
  /\ phase' = "reset" /\ clock' = 0 /\ wdie' = FALSE /\ wdif' = FALSE
  /\ magic' \in SUBSET Magic /\ before' = "unknown"
  /\ fired' = FALSE /\ UNCHANGED marker

CellInit ==
  /\ phase = "reset" /\ clock = 0 /\ wdie = FALSE /\ wdif = FALSE
  /\ magic \in SUBSET Magic /\ before = "unknown"
  /\ fired = FALSE /\ marker \in BOOLEAN

\* Any other reset keeps the memory.
Restart ==
  /\ phase' = "reset" /\ clock' = 0 /\ wdie' = FALSE /\ wdif' = FALSE
  /\ before' = IF phase = "reset" THEN before ELSE IF fired THEN "yes" ELSE "no"
  /\ UNCHANGED <<magic, marker, fired>>

\* Mutation: the bytes stay.
CaptureKeeps ==
  /\ phase = "reset"
  /\ marker' = (magic = Magic)
  /\ fired' = FALSE
  /\ phase' = "boot"
  /\ UNCHANGED <<clock, wdie, wdif, magic, before>>

\* .init0 and .init3: marker taken, bytes erased, watchdog off.
Capture ==
  /\ phase = "reset"
  /\ marker' = (magic = Magic) /\ magic' = {}
  /\ fired' = FALSE
  /\ phase' = "boot"
  /\ UNCHANGED <<clock, wdie, wdif, before>>

\* Mutation: no interrupt, only the reset.
EnableResetOnly ==
  /\ phase = "boot"
  /\ phase' = "run" /\ clock' = 0 /\ wdie' = FALSE
  /\ UNCHANGED <<wdif, magic, marker, fired, before>>

\* watchdog_enable(): interrupt first, then reset.
Enable ==
  /\ phase = "boot"
  /\ phase' = "run" /\ clock' = 0 /\ wdie' = TRUE
  /\ UNCHANGED <<wdif, magic, marker, fired, before>>

\* watchdog_kick() after every pass of the loop.
Kick ==
  /\ phase \in {"run", "late"} /\ clock > 0
  /\ phase' = "run" /\ clock' = 0
  /\ UNCHANGED <<wdie, wdif, magic, marker, fired, before>>

\* A pass that takes longer than a tick, but ends.
Lag ==
  /\ phase = "run"
  /\ phase' = "late"
  /\ UNCHANGED <<clock, wdie, wdif, magic, marker, fired, before>>

\* The endless loop of communication_task().
Block ==
  /\ phase = "run"
  /\ phase' = "blocked"
  /\ UNCHANGED <<clock, wdie, wdif, magic, marker, fired, before>>

\* Mutations: the interrupt is armed again, only one of the bytes is written.
IsrRearms ==
  /\ wdif
  /\ magic' = Magic /\ wdif' = FALSE /\ fired' = TRUE
  /\ UNCHANGED <<phase, clock, wdie, marker, before>>

IsrHalf ==
  /\ wdif
  /\ magic' = {"A"} /\ wdif' = FALSE /\ wdie' = FALSE /\ fired' = TRUE
  /\ UNCHANGED <<phase, clock, marker, before>>

\* WDT_vect; running it clears WDIF and WDIE.  Interrupts are never masked for a
\* tick, so it runs before the next.
Isr ==
  /\ wdif
  /\ magic' = Magic /\ wdif' = FALSE /\ wdie' = FALSE /\ fired' = TRUE
  /\ UNCHANGED <<phase, clock, marker, before>>

Stalled == phase \in {"late", "blocked"}

\* A tick of time: a pass is over within one unless it lags, the start-up within
\* BootTicks, and the watchdog counts once it is enabled.
Pass ==
  /\ ~wdif
  /\ CASE phase = "run"   -> clock < 1
       [] phase = "boot"  -> clock < BootTicks
       [] phase = "reset" -> FALSE
       [] Stalled         -> clock + 1 < Timeout
  /\ clock' = clock + 1
  /\ UNCHANGED <<phase, wdie, wdif, magic, marker, fired, before>>

FirstTimeout ==
  /\ ~wdif /\ Stalled /\ clock + 1 = Timeout /\ wdie
  /\ clock' = 0 /\ wdif' = TRUE
  /\ UNCHANGED <<phase, wdie, magic, marker, fired, before>>

SecondTimeout == ~wdif /\ Stalled /\ clock + 1 = Timeout /\ ~wdie /\ Restart

Elapse == Pass \/ FirstTimeout \/ SecondTimeout

-----------------------------------------------------------------------------
(* The marker tells whether the watchdog interrupt ran in the run before    *)
(* this one, whatever ended that run; only after a power-up can it be made  *)
(* up by the memory.                                                        *)
MarkerTellsTimeout ==
  phase # "reset" /\ before # "unknown" => (marker <=> before = "yes")
=============================================================================
