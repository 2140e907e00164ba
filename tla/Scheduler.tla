------------------------------ MODULE Scheduler ------------------------------
(***************************************************************************)
(* The cooperative scheduler of the firmware (scheduler/scheduler.c), the  *)
(* millisecond counter it reads (hal/system_time.c) and the endless loop   *)
(* of main() that calls scheduler_run().                                   *)
(*                                                                         *)
(* scheduler_run() reads the clock ONCE, then walks the slots in           *)
(* registration order and calls every task whose period has elapsed        *)
(* against that one reading.  The Timer2 interrupt moves the clock at any  *)
(* moment, also between the reading and the call of a later slot.  The     *)
(* counter is an unsigned word, so elapsed time is a difference modulo     *)
(* Word (2^32 in the code).                                                *)
(***************************************************************************)
EXTENDS Integers

CONSTANTS N,         \* number of registered tasks
          Period,    \* Period[t]: period_ms of slot t
          Word,      \* modulus of the millisecond counter
          MaxPassMs  \* bound: milliseconds from one clock reading to the next

Slot == 1..N

ASSUME SchedulerAssumption ==
  /\ N \in Nat \ {0}
  /\ Word \in Nat \ {0}
  /\ MaxPassMs \in Nat \ {0}
  /\ Period \in [Slot -> Nat \ {0}]
  /\ \A t \in Slot : Period[t] + 2 * MaxPassMs < Word

VARIABLES now,      \* g_system_ms
          lastRun,  \* g_tasks[t].last_run_ms
          passNow,  \* the local "now" of scheduler_run()
          slot,     \* slot about to be examined; N + 1: back in main()'s loop
          inTask    \* TRUE while task->task() of that slot is executing

schedVars == <<now, lastRun, passNow, slot, inTask>>

Time == 0..(Word - 1)

\* (uint32_t)(later - earlier)
Elapsed(later, earlier) == (later - earlier) % Word

\* Mutations: a signed difference, an absolute deadline, ">" for ">=".
DueSigned(t) == passNow - lastRun[t] >= Period[t]
DueAbsolute(t) == passNow >= (lastRun[t] + Period[t]) % Word
DueLate(t) == Elapsed(passNow, lastRun[t]) > Period[t]

Due(t) == Elapsed(passNow, lastRun[t]) >= Period[t]

TypeOK ==
  /\ now \in Time
  /\ lastRun \in [Slot -> Time]
  /\ passNow \in Time
  /\ slot \in 1..(N + 1)
  /\ inTask \in BOOLEAN

-----------------------------------------------------------------------------
\* system_time_init(), scheduler_init() and one scheduler_add_task() per slot:
\* interrupts are still disabled, so every task is registered at time 0.
Init ==
  /\ now = 0
  /\ lastRun = [t \in Slot |-> 0]
  /\ passNow = 0
  /\ slot = N + 1
  /\ inTask = FALSE

\* TIMER2_COMPA_vect.  The guard is the bound: no pass of the loop, its tasks
\* and its interrupts included, lasts longer than MaxPassMs.
Tick ==
  /\ Elapsed(now, passNow) < MaxPassMs
  /\ now' = (now + 1) % Word
  /\ UNCHANGED <<lastRun, passNow, slot, inTask>>

\* scheduler_run() is entered: the one reading of the clock for this pass.
BeginPass ==
  /\ slot = N + 1
  /\ passNow' = now
  /\ slot' = 1
  /\ UNCHANGED <<now, lastRun, inTask>>

\* The period of slot t has not elapsed: the loop moves to the next slot.
Skip(t) ==
  /\ slot = t
  /\ ~inTask
  /\ ~Due(t)
  /\ slot' = t + 1
  /\ UNCHANGED <<now, lastRun, passNow, inTask>>

\* The period has elapsed: the slot is stamped BEFORE its task is called.
Dispatch(t) ==
  /\ slot = t
  /\ ~inTask
  /\ Due(t)
  /\ lastRun' = [lastRun EXCEPT ![t] = passNow]
  /\ inTask' = TRUE
  /\ UNCHANGED <<now, passNow, slot>>

\* Mutation: one task per pass, then start over.
ReturnRestarts(t) ==
  /\ slot = t
  /\ inTask
  /\ inTask' = FALSE
  /\ slot' = N + 1
  /\ UNCHANGED <<now, lastRun, passNow>>

\* task->task() returns and the loop moves to the next slot.
Return(t) ==
  /\ slot = t
  /\ inTask
  /\ inTask' = FALSE
  /\ slot' = t + 1
  /\ UNCHANGED <<now, lastRun, passNow>>

Foreground ==
  \/ BeginPass
  \/ \E t \in Slot : Skip(t) \/ Dispatch(t) \/ Return(t)

Next == Tick \/ Foreground

\* The timer interrupt keeps firing and the processor keeps executing the loop.
Spec == Init /\ [][Next]_schedVars /\ WF_schedVars(Tick) /\ WF_schedVars(Foreground)
=============================================================================
