----------------------------- MODULE StartJitter -----------------------------
(***************************************************************************)
(* The start-to-start jitter of a task (diagnostics/timing_profiler.c).    *)
(* The task reads the clock itself, after the scheduler has called it, so  *)
(* neither the stamp of the slot nor the moment of the call is what is     *)
(* measured: the clock may have moved since either.                        *)
(***************************************************************************)
EXTENDS SchedulerTiming

CONSTANT MaxJitter  \* UINT16_MAX

ASSUME StartJitterAssumption == MaxJitter \in Nat

VARIABLES watched,    \* the task whose jitter is looked at
          recorded,   \* timing_profiler_record_start() was called in this run of it
          lastStart,  \* g_last_start_ms[watched], or NoSample
          maxJitter,  \* g_max_jitter_ms[watched]
          since,      \* history: true milliseconds since the last recorded start
          worst       \* history: how far a true interval was from the period at most

jitterVars == <<recorded, lastStart, maxJitter, since, worst>>
jvars == <<vars, watched, jitterVars>>

NoSample == -1   \* g_has_start_sample[watched] is 0

JTypeOK ==
  /\ TTypeOK /\ watched \in Slot /\ recorded \in BOOLEAN
  /\ lastStart \in Time \cup {NoSample} /\ maxJitter \in 0..MaxJitter
  /\ since \in Nat /\ worst \in Nat

Larger(a, b) == IF a < b THEN b ELSE a
Bounded(jitter) == IF jitter > MaxJitter THEN MaxJitter ELSE jitter

\* Mutation: an early start is taken for none.
LateBy(interval) ==
  IF interval >= Period[watched] THEN interval - Period[watched] ELSE 0

\* jitter_ms
Deviation(interval) ==
  IF interval >= Period[watched] THEN interval - Period[watched] ELSE Period[watched] - interval

-----------------------------------------------------------------------------
\* timing_profiler_init()
JInit ==
  /\ TInit /\ watched \in Slot
  /\ recorded = FALSE /\ lastStart = NoSample /\ maxJitter = 0 /\ since = 0 /\ worst = 0

\* timing_profiler_record_start(), the first call of every task.
RecordStart ==
  /\ slot = watched /\ inTask /\ ~recorded
  /\ recorded' = TRUE /\ lastStart' = now /\ since' = 0
  /\ IF lastStart = NoSample THEN UNCHANGED <<maxJitter, worst>>
     ELSE /\ maxJitter' = Larger(maxJitter, Bounded(Deviation(Elapsed(now, lastStart))))
          /\ worst' = Larger(worst, IF since < Period[watched] THEN Period[watched] - since
                                                               ELSE since - Period[watched])
  /\ UNCHANGED <<vars, watched>>

JTick ==
  /\ TTick
  /\ since' = IF lastStart = NoSample THEN 0 ELSE since + 1
  /\ UNCHANGED <<watched, recorded, lastStart, maxJitter, worst>>

\* The task returns with its start recorded.
JForeground ==
  /\ TForeground
  /\ slot = watched /\ inTask => recorded
  /\ recorded' = (recorded /\ slot' = slot)
  /\ UNCHANGED <<watched, lastStart, maxJitter, since, worst>>

JNext == RecordStart \/ JTick \/ JForeground
JSpec == JInit /\ [][JNext]_jvars

-----------------------------------------------------------------------------
(* The jitter reported is the largest true deviation of an interval between *)
(* two starts from the period, early or late, also across the wrap of the   *)
(* millisecond counter and up to the saturation of the 16-bit maximum.      *)
JitterIsTrue == maxJitter = Bounded(worst)
=============================================================================
