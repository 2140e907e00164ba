--------------------------- MODULE SchedulerTiming ---------------------------
(***************************************************************************)
(* Scheduler with one history variable: age[t], the true number of         *)
(* milliseconds since task t was last called (or registered).  It never    *)
(* wraps, so it tells whether the modular arithmetic of the code measures  *)
(* what it should, before and after the millisecond counter wraps.         *)
(***************************************************************************)
EXTENDS Scheduler

VARIABLE age

vars == <<schedVars, age>>

\* age is counted up to this bound, one more than any task should ever reach.
MaxAge(t) == Period[t] + 2 * MaxPassMs

TInit == Init /\ age = [t \in Slot |-> 0]

TTick ==
  /\ Tick
  /\ age' = [t \in Slot |-> IF age[t] < MaxAge(t) THEN age[t] + 1 ELSE age[t]]

TDispatch(t) == Dispatch(t) /\ age' = [age EXCEPT ![t] = 0]

TLoop ==
  /\ BeginPass \/ \E t \in Slot : Skip(t) \/ Return(t)
  /\ UNCHANGED age

TForeground == TLoop \/ \E t \in Slot : TDispatch(t)

TNext == TTick \/ TForeground

TSpec == TInit /\ [][TNext]_vars /\ WF_vars(TTick) /\ WF_vars(TForeground)

TTypeOK == TypeOK /\ age \in [Slot -> Nat]

-----------------------------------------------------------------------------
(* No task is called too early: two calls of a task are at least its period *)
(* apart, less the time the earlier pass had already used when it reached   *)
(* the slot (the slot is stamped with the clock reading of the pass, not    *)
(* with the time of the call).  A wrapped counter or a long pass never      *)
(* produces a burst of catch-up calls.                                      *)
NeverTooEarly ==
  [][\A t \in Slot : slot = t /\ ~inTask /\ inTask'
       => age[t] >= Period[t] - MaxPassMs]_vars

(* No task is called too late: with passes of at most MaxPassMs the gap     *)
(* between two calls stays below the period plus two passes (one that just  *)
(* missed the deadline, one that still has to reach the slot), also across  *)
(* the wrap of the millisecond counter.                                     *)
NeverTooLate == \A t \in Slot : age[t] < Period[t] + 2 * MaxPassMs
=============================================================================
