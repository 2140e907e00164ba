------------------------------ MODULE TaskProfile ------------------------------
(***************************************************************************)
(* The execution profile of one task: the two readings of Timer1 around    *)
(* its body (main.c, hal/timing.c) and what the profilers make of them     *)
(* (diagnostics/timing_profiler.c, diagnostics/runtime_profiler.c).        *)
(*                                                                         *)
(* A 16-bit timer register is accessed byte by byte through one register,  *)
(* TEMP, that all of them share: reading the low byte of TCNT1 latches its *)
(* high byte there.  The reading is not protected, so the interrupts of    *)
(* the servo (OCR1A is written through TEMP) and of the ultrasonic sensor  *)
(* (ICR1 is read through TEMP) may run between the two bytes.              *)
(***************************************************************************)
EXTENDS ServoSignal

CONSTANTS ByteWord,     \* values of one byte (256)
          PeriodTicks,  \* nominal period of the task, in timer ticks
          MaxBody,      \* bound: ticks from the first reading to the second
          MaxOverruns,  \* UINT16_MAX
          MaxBusy       \* UINT32_MAX

ASSUME ProfileAssumption ==
  /\ ByteWord \in Nat \ {0} /\ TickWord = ByteWord * ByteWord
  /\ PeriodTicks \in Nat
  /\ MaxBody \in 0..(TickWord - 1)
  /\ MaxOverruns \in Nat /\ MaxBusy \in Nat

VARIABLES temp,      \* TEMP, the shared high byte
          pc,        \* where the task is: outside it, inside a reading or in
                     \* its body
          low,       \* the low byte already read
          start,     \* start_ticks
          profile,   \* the results: g_max_ticks[task] (max),
                     \* g_overrun_count[task] (overruns), g_busy_ticks (busy)
          real,      \* true ticks since the first reading
          torn,      \* an interrupt changed TEMP inside a reading of this
                     \* execution
          truth,     \* the same results, computed from the true duration of
                     \* every execution that was not torn
          longest    \* the longest true duration so far

taskVars == <<pc, low, start, profile, truth, longest>>
pvars == <<svars, temp, taskVars, real, torn>>

High(ticks) == ticks \div ByteWord
Low(ticks) == ticks % ByteWord
Results ==
  [max : Ticks, overruns : 0..MaxOverruns, busy : 0..MaxBusy]
NoResults == [max |-> 0, overruns |-> 0, busy |-> 0]
InReading == pc \in {"start", "end"}

PTypeOK ==
  /\ STypeOK
  /\ temp \in 0..(ByteWord - 1) /\ low \in 0..(ByteWord - 1)
  /\ pc \in {"outside", "start", "body", "end"}
  /\ start \in Ticks
  /\ real \in 0..MaxBody
  /\ profile \in Results /\ truth \in Results
  /\ torn \in BOOLEAN /\ longest \in 0..MaxBody

\* timing_profiler_record() and runtime_profiler_record_execution(), on the
\* three results as they were: a maximum and two saturating counts.
Larger(a, b) == IF a < b THEN b ELSE a
Smaller(a, b) == IF a < b THEN a ELSE b
Recorded(r, elapsed) ==
  [max      |-> Larger(r.max, elapsed),
   overruns |-> Smaller(r.overruns + (IF elapsed > PeriodTicks THEN 1 ELSE 0), MaxOverruns),
   busy     |-> Smaller(r.busy + elapsed, MaxBusy)]

-----------------------------------------------------------------------------
\* timing_profiler_init() and runtime_profiler_init(); TEMP holds anything,
\* here the high byte servo_init() wrote last.
PInit ==
  /\ SInit
  /\ temp = High(ocr)
  /\ pc = "outside" /\ low = 0 /\ start = 0
  /\ profile = NoResults /\ truth = NoResults
  /\ real = 0 /\ longest = 0 /\ torn = FALSE

\* timing_counter_ticks(), its first instruction: the low byte is read and
\* the high byte latched.  One operator for both readings.
ReadLow == low' = Low(tcnt) /\ temp' = High(tcnt)
\* Its second instruction: what TEMP holds by now is the high byte.
Reading == ByteWord * temp + low

StartLow ==
  /\ enabled /\ pc = "outside"
  /\ ReadLow /\ pc' = "start" /\ real' = 0 /\ torn' = FALSE
  /\ UNCHANGED <<svars, start, profile, truth, longest>>

StartHigh ==
  /\ pc = "start"
  /\ start' = Reading /\ pc' = "body"
  /\ UNCHANGED <<svars, temp, low, profile, real, truth, longest, torn>>

\* The body has run; end_ticks is read.
EndLow ==
  /\ pc = "body"
  /\ ReadLow /\ pc' = "end"
  /\ UNCHANGED <<svars, start, profile, real, truth, longest, torn>>

\* elapsed_ticks, a 16-bit difference, goes to the profilers.
\* Mutation: the difference is taken in a wider type.
ElapsedWide == IF Reading < start THEN start - Reading ELSE Reading - start
Elapsed == (Reading - start) % TickWord

Record ==
  /\ pc = "end"
  /\ profile' = Recorded(profile, Elapsed)
  /\ truth' = Recorded(truth, IF torn THEN Elapsed ELSE real)
  /\ longest' = Larger(longest, real)
  /\ pc' = "outside" /\ low' = 0 /\ start' = 0 /\ real' = 0 /\ torn' = FALSE
  /\ UNCHANGED <<svars, temp>>

\* The timer goes on under all of this.
PTick ==
  /\ STick
  /\ pc \in {"start", "body"} => real < MaxBody
  /\ real' = IF pc \in {"start", "body"} THEN real + 1 ELSE real
  /\ UNCHANGED <<temp, taskVars, torn>>

\* An interrupt leaves its byte in TEMP.
Through(byte) ==
  /\ temp' = byte
  /\ torn' = (torn \/ (InReading /\ byte # temp))
  /\ UNCHANGED <<taskVars, real>>

\* The compare interrupt writes OCR1A through TEMP.
CompareInterrupt == SEdge /\ Through(High(ocr'))

\* The capture interrupt reads ICR1, the count at a recent edge of the echo.
CaptureInterrupt ==
  /\ enabled
  /\ \E late \in 0..MaxLag : Through(High((tcnt - late) % TickWord))
  /\ UNCHANGED svars

\* sei(), and the command of control_task(), which is one of the tasks: between
\* two readings.
Command ==
  /\ pc \in {"outside", "body"} /\ SOther
  /\ UNCHANGED <<temp, taskVars, real, torn>>

PNext ==
  \/ StartLow \/ StartHigh \/ EndLow \/ Record
  \/ PTick \/ CompareInterrupt \/ CaptureInterrupt \/ Command
PSpec == PInit /\ [][PNext]_pvars

-----------------------------------------------------------------------------
\* An execution in whose readings no interrupt changed TEMP contributes its
\* true duration to the reported maximum, overrun count and busy time, over
\* every wrap of the timer and up to the saturation of the counts; a torn
\* reading is all that can falsify them.
ProfileIsExact == profile = truth

\* TIMING_STATUS reports observed maxima (docs/protocol/uart_binary_protocol.md:
\* 219): no task is reported to have run longer than it ever did.
MaximumWasObserved == profile.max <= longest
===============================================================================
