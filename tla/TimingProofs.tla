------------------------------ MODULE TimingProofs ------------------------------
(***************************************************************************)
(* The scheduler and its timing promises, and the jitter profiler, for     *)
(* every number of tasks, period, clock width and bound on a pass.  First  *)
(* the modular clock arithmetic and the stamps: StampsInv is the           *)
(* invariant; Waited(t) bounds the time since the body of task t was last  *)
(* entered, and grows exactly with the clock.  CellControlProofs builds on *)
(* these facts too.                                                        *)
(***************************************************************************)
EXTENDS StartJitter, TLAPS

(* The unsigned difference of two clock readings, without the modulus.      *)
LEMMA ElapsedCases ==
  ASSUME NEW a \in Time, NEW b \in Time
  PROVE  Elapsed(a, b) = IF a >= b THEN a - b ELSE a - b + Word
  BY SchedulerAssumption DEF Elapsed, Time

(* The counter of the timer interrupt, without the modulus.                 *)
LEMMA NextReading ==
  ASSUME NEW a \in Time
  PROVE  (a + 1) % Word = IF a + 1 = Word THEN 0 ELSE a + 1
  BY SchedulerAssumption DEF Time

\* An elapsed time is a time, and none has elapsed since now.
LEMMA ElapsedIsTime ==
  ASSUME NEW a \in Time, NEW b \in Time
  PROVE  Elapsed(a, b) \in Time /\ Elapsed(a, b) \in Nat /\ Elapsed(a, a) = 0
  BY SchedulerAssumption, ElapsedCases DEF Time

(* Elapsed times add up as long as the sum is below the range of the        *)
(* counter; across its wrap too.                                            *)
LEMMA ElapsedAdds ==
  ASSUME NEW a \in Time, NEW b \in Time, NEW c \in Time,
         Elapsed(a, b) + Elapsed(b, c) < Word
  PROVE  Elapsed(a, c) = Elapsed(a, b) + Elapsed(b, c)
<1> Word \in Nat
  BY SchedulerAssumption
<1> QED
  BY ElapsedCases DEF Time

(* A millisecond later every difference below the range has grown by one.   *)
LEMMA ElapsedTicks ==
  ASSUME NEW a \in Time, NEW b \in Time, Elapsed(a, b) + 1 < Word
  PROVE  /\ (a + 1) % Word \in Time
         /\ Elapsed((a + 1) % Word, b) = Elapsed(a, b) + 1
<1> Word \in Nat \ {0}
  BY SchedulerAssumption
<1>1. (a + 1) % Word \in Time
  <2>1. (a + 1) % Word = IF a + 1 = Word THEN 0 ELSE a + 1
    BY NextReading
  <2>2. QED
    BY <2>1 DEF Time
<1>2. Elapsed((a + 1) % Word, b) =
        IF (a + 1) % Word >= b THEN ((a + 1) % Word) - b ELSE ((a + 1) % Word) - b + Word
  BY <1>1, ElapsedCases
<1>3. Elapsed(a, b) = IF a >= b THEN a - b ELSE a - b + Word
  BY ElapsedCases
<1>4. (a + 1) % Word = IF a + 1 = Word THEN 0 ELSE a + 1
  BY NextReading
<1>5. QED
  BY <1>1, <1>2, <1>3, <1>4 DEF Time

-----------------------------------------------------------------------------
(***************************************************************************)
(* The stamps.  A slot that this pass has already examined was either not  *)
(* due or stamped in it; one still to come may have missed its period by   *)
(* no more than the pass before lasted.                                    *)
(***************************************************************************)
Examined(t) == t < slot \/ (t = slot /\ inTask)

StampsInv ==
  /\ Elapsed(now, passNow) <= MaxPassMs
  /\ \A t \in Slot : Elapsed(passNow, lastRun[t]) < Period[t] + MaxPassMs
  /\ \A t \in Slot : Examined(t) => Elapsed(passNow, lastRun[t]) < Period[t]
  /\ inTask => slot \in Slot /\ lastRun[slot] = passNow

\* Dispatched, and still to do what its body does.
Called(t) == slot = t /\ inTask

Waited(t) == IF Called(t) THEN Period[t] - 1 + MaxPassMs + Elapsed(now, passNow)
                          ELSE Elapsed(now, lastRun[t])

\* The constants of one slot, as the proofs use them.
LEMMA SlotConstants ==
  ASSUME NEW t \in Slot
  PROVE  /\ Word \in Nat /\ MaxPassMs \in Nat /\ MaxPassMs > 0
         /\ Period[t] \in Nat /\ Period[t] > 0
         /\ Period[t] + 2 * MaxPassMs < Word
  BY SchedulerAssumption

LEMMA InitStamps ==
  ASSUME Init
  PROVE  TypeOK /\ StampsInv
<1>1. 0 \in Time /\ N \in Nat \ {0}
  BY SchedulerAssumption DEF Time
<1>2. TypeOK
  <2>1. [t \in Slot |-> 0] \in [Slot -> Time]
    BY <1>1
  <2>2. N + 1 \in 1..(N + 1)
    BY <1>1
  <2>3. QED
    BY <1>1, <2>1, <2>2 DEF Init, TypeOK
<1>3. Elapsed(0, 0) = 0
  BY <1>1, ElapsedIsTime
<1>4. \A t \in Slot : 0 < Period[t] /\ 0 < Period[t] + MaxPassMs /\ 0 <= MaxPassMs
  BY SlotConstants
<1>5. 0 <= MaxPassMs
  BY SchedulerAssumption
<1>6. QED
  BY <1>2, <1>3, <1>4, <1>5 DEF Init, StampsInv

(* The age of a stamp is what had elapsed at the pass's reading of the      *)
(* clock plus what the pass has taken since, and never wraps.               *)
LEMMA StampAge ==
  ASSUME TypeOK, StampsInv, NEW t \in Slot
  PROVE  /\ Elapsed(now, lastRun[t]) = Elapsed(passNow, lastRun[t]) + Elapsed(now, passNow)
         /\ Elapsed(now, lastRun[t]) < Period[t] + 2 * MaxPassMs
         /\ Elapsed(now, lastRun[t]) \in Nat
         /\ Elapsed(passNow, lastRun[t]) \in Nat
         /\ Elapsed(now, passNow) \in Nat
<1>1. now \in Time /\ passNow \in Time /\ lastRun[t] \in Time
  BY DEF TypeOK
<1>2. Elapsed(passNow, lastRun[t]) \in Nat /\ Elapsed(now, passNow) \in Nat
  BY <1>1, ElapsedIsTime DEF Time
<1>3. Elapsed(passNow, lastRun[t]) + Elapsed(now, passNow) < Period[t] + 2 * MaxPassMs
  BY <1>2, SlotConstants DEF StampsInv
<1>4. Elapsed(passNow, lastRun[t]) + Elapsed(now, passNow) < Word
  BY <1>2, <1>3, SlotConstants
<1>5. Elapsed(now, lastRun[t]) = Elapsed(passNow, lastRun[t]) + Elapsed(now, passNow)
  BY <1>1, <1>2, <1>4, ElapsedAdds
<1>6. QED
  BY <1>2, <1>3, <1>5

(* What Waited(t) can be: at least what this pass has lasted, and below the *)
(* period and two passes.                                                   *)
LEMMA WaitedBounds ==
  ASSUME TypeOK, StampsInv, NEW t \in Slot
  PROVE  /\ Waited(t) \in Nat
         /\ Elapsed(now, passNow) <= Waited(t)
         /\ Waited(t) <= Period[t] - 1 + MaxPassMs + Elapsed(now, passNow)
         /\ Waited(t) <= Period[t] - 1 + 2 * MaxPassMs
<1>1. Elapsed(now, passNow) <= MaxPassMs
  BY DEF StampsInv
<1>2. CASE Called(t)
  BY <1>1, <1>2, StampAge, SlotConstants DEF Waited
<1>3. CASE ~Called(t)
  BY <1>1, <1>3, StampAge, SlotConstants DEF Waited, StampsInv
<1>4. QED
  BY <1>2, <1>3

-----------------------------------------------------------------------------
\* What each step does to the invariant and to the time waited.

(* The timer interrupt: everything that waits has waited a millisecond more.*)
LEMMA TickStamps ==
  ASSUME TypeOK, StampsInv, Tick
  PROVE  /\ TypeOK' /\ StampsInv'
         /\ Elapsed(now, passNow)' = Elapsed(now, passNow) + 1
         /\ \A t \in Slot :
              /\ Elapsed(now, lastRun[t])' = Elapsed(now, lastRun[t]) + 1
              /\ Waited(t)' = Waited(t) + 1
<1> now \in Time /\ passNow \in Time
  BY DEF TypeOK
<1>1. N \in Nat \ {0} /\ 1 \in Slot /\ MaxPassMs \in Nat /\ Word \in Nat
  BY SchedulerAssumption DEF Slot
<1>2. Elapsed(now, passNow) \in Nat /\ Elapsed(now, passNow) < MaxPassMs
  BY ElapsedIsTime DEF Tick, Time
<1>3. MaxPassMs < Word
  BY <1>1, SlotConstants
<1>4. now' = (now + 1) % Word /\ UNCHANGED <<lastRun, passNow, slot, inTask>>
  BY DEF Tick
<1>5. now' \in Time /\ Elapsed(now', passNow) = Elapsed(now, passNow) + 1
  BY <1>1, <1>2, <1>3, <1>4, ElapsedTicks
<1>6. TypeOK'
  BY <1>4, <1>5 DEF TypeOK
<1>7. Elapsed(now', passNow) <= MaxPassMs
  BY <1>1, <1>2, <1>5
<1>8. StampsInv'
  BY <1>4, <1>7 DEF StampsInv, Examined
<1>9. ASSUME NEW t \in Slot
      PROVE  Elapsed(now', lastRun[t]) = Elapsed(now, lastRun[t]) + 1
  <2>1. lastRun[t] \in Time
    BY DEF TypeOK
  <2>2. Elapsed(passNow, lastRun[t]) \in Nat
        /\ Elapsed(passNow, lastRun[t]) < Period[t] + MaxPassMs
    BY <2>1, ElapsedIsTime DEF StampsInv, Time
  <2>3. Elapsed(now, lastRun[t]) = Elapsed(passNow, lastRun[t]) + Elapsed(now, passNow)
    BY StampAge
  <2>4. Elapsed(now, lastRun[t]) + 1 < Word
    BY <1>2, <2>2, <2>3, SlotConstants
  <2>5. QED
    BY <1>4, <2>1, <2>4, ElapsedTicks
<1>10. ASSUME NEW t \in Slot
       PROVE  Waited(t)' = Waited(t) + 1
  BY <1>2, <1>4, <1>5, <1>9, SlotConstants DEF Waited, Called
<1>11. QED
  BY <1>4, <1>5, <1>6, <1>8, <1>9, <1>10

(* A new pass reads the clock; no slot has been examined in it yet.         *)
LEMMA BeginPassStamps ==
  ASSUME TypeOK, StampsInv, BeginPass
  PROVE  /\ TypeOK' /\ StampsInv'
         /\ \A t \in Slot : Waited(t)' = Waited(t)
<1>1. N \in Nat \ {0} /\ MaxPassMs \in Nat
  BY SchedulerAssumption
<1>2. slot = N + 1 /\ passNow' = now /\ slot' = 1 /\ UNCHANGED <<now, lastRun, inTask>>
  BY DEF BeginPass
<1>3. ~inTask
  BY <1>1, <1>2 DEF StampsInv, Slot
<1>4. now \in Time /\ Elapsed(now, now) = 0
  BY ElapsedIsTime DEF TypeOK
<1>5. TypeOK'
  BY <1>1, <1>2 DEF TypeOK
<1>6. ASSUME NEW t \in Slot
      PROVE  /\ Elapsed(now, lastRun[t]) < Period[t] + MaxPassMs
             /\ ~Examined(t)'
  <2>1. slot # t /\ t < slot
    BY <1>1, <1>2 DEF Slot
  <2>2. Elapsed(passNow, lastRun[t]) < Period[t]
    BY <2>1 DEF StampsInv, Examined
  <2>3. Elapsed(now, passNow) <= MaxPassMs
    BY DEF StampsInv
  <2>4. ~Examined(t)'
    BY <1>2, <1>3 DEF Examined, Slot
  <2>5. QED
    BY <2>2, <2>3, <2>4, StampAge, SlotConstants
<1>7. StampsInv'
  BY <1>1, <1>2, <1>3, <1>4, <1>6 DEF StampsInv
<1>8. ASSUME NEW t \in Slot
      PROVE  Waited(t)' = Waited(t)
  BY <1>2, <1>3 DEF Waited, Called
<1>9. QED
  BY <1>5, <1>7, <1>8

(* A slot that is not due is passed over.                                   *)
LEMMA SkipStamps ==
  ASSUME TypeOK, StampsInv, NEW t \in Slot, Skip(t)
  PROVE  /\ TypeOK' /\ StampsInv'
         /\ \A u \in Slot : Waited(u)' = Waited(u)
<1>1. N \in Nat \ {0}
  BY SchedulerAssumption
<1>2. slot = t /\ ~inTask /\ slot' = t + 1 /\ UNCHANGED <<now, lastRun, passNow, inTask>>
  BY DEF Skip
<1>3. TypeOK'
  BY <1>1, <1>2 DEF TypeOK, Slot
<1>4. Elapsed(passNow, lastRun[t]) < Period[t]
  <2>1. Elapsed(passNow, lastRun[t]) \in Nat
    BY StampAge
  <2>2. QED
    BY <2>1, SlotConstants DEF Skip, Due
<1>5. \A u \in Slot : Examined(u)' => Examined(u) \/ u = t
  BY <1>2 DEF Examined, Slot
<1>6. StampsInv'
  BY <1>2, <1>4, <1>5 DEF StampsInv
<1>7. \A u \in Slot : Waited(u)' = Waited(u)
  BY <1>2 DEF Waited, Called
<1>8. QED
  BY <1>3, <1>6, <1>7

(* A slot that is due is stamped and its task called: it is at most a pass  *)
(* late, and the bound covers what the body still has to wait for.          *)
LEMMA DispatchStamps ==
  ASSUME TypeOK, StampsInv, NEW t \in Slot, Dispatch(t)
  PROVE  /\ TypeOK' /\ StampsInv'
         /\ Called(t)'
         /\ Waited(t)' \in Nat /\ Waited(t)' >= Waited(t)
         /\ \A u \in Slot : u # t => Waited(u)' = Waited(u)
<1>1. N \in Nat \ {0}
  BY SchedulerAssumption
<1>2. /\ slot = t /\ ~inTask /\ inTask' /\ UNCHANGED <<now, passNow, slot>>
      /\ lastRun' = [lastRun EXCEPT ![t] = passNow]
  BY DEF Dispatch
<1>3. TypeOK'
  BY <1>2 DEF TypeOK, Dispatch
<1>4. lastRun'[t] = passNow /\ \A u \in Slot : u # t => lastRun'[u] = lastRun[u]
  BY <1>2 DEF TypeOK
<1>5. Elapsed(passNow, passNow) = 0
  BY ElapsedIsTime DEF TypeOK
<1>6. ASSUME NEW u \in Slot
      PROVE  /\ Elapsed(passNow, lastRun'[u]) < Period[u] + MaxPassMs
             /\ Examined(u)' => Elapsed(passNow, lastRun'[u]) < Period[u]
  <2>1. CASE u = t
    BY <1>4, <1>5, <2>1, SlotConstants
  <2>2. CASE u # t
    BY <1>2, <1>4, <2>2 DEF StampsInv, Examined
  <2>3. QED
    BY <2>1, <2>2
<1>7. StampsInv'
  BY <1>2, <1>4, <1>6 DEF StampsInv
<1>8. Waited(t)' \in Nat /\ Waited(t)' >= Waited(t)
  <2>1. /\ Elapsed(passNow, lastRun[t]) < Period[t] + MaxPassMs
        /\ Elapsed(now, lastRun[t]) = Elapsed(passNow, lastRun[t]) + Elapsed(now, passNow)
        /\ Elapsed(passNow, lastRun[t]) \in Nat
        /\ Elapsed(now, passNow) \in Nat
    BY StampAge DEF StampsInv
  <2>2. Waited(t) = Elapsed(now, lastRun[t])
    BY <1>2 DEF Waited, Called
  <2>3. Waited(t)' = Period[t] - 1 + MaxPassMs + Elapsed(now, passNow)
    BY <1>2 DEF Waited, Called
  <2>4. QED
    BY <2>1, <2>2, <2>3, SlotConstants
<1>9. \A u \in Slot : u # t => Waited(u)' = Waited(u)
  BY <1>2, <1>4 DEF Waited, Called
<1>10. QED
  BY <1>2, <1>3, <1>7, <1>8, <1>9 DEF Called

(* A task returns: it has waited only since this pass read the clock.       *)
LEMMA ReturnStamps ==
  ASSUME TypeOK, StampsInv, NEW t \in Slot, Return(t)
  PROVE  /\ TypeOK' /\ StampsInv'
         /\ Called(t)
         /\ Waited(t)' = Elapsed(now, passNow)
         /\ Waited(t) = Period[t] - 1 + MaxPassMs + Elapsed(now, passNow)
         /\ \A u \in Slot : u # t => Waited(u)' = Waited(u)
<1>1. N \in Nat \ {0}
  BY SchedulerAssumption
<1>2. slot = t /\ inTask /\ ~inTask' /\ slot' = t + 1 /\ UNCHANGED <<now, lastRun, passNow>>
  BY DEF Return
<1>3. TypeOK'
  <2>1. slot' \in 1..(N + 1)
    BY <1>1, <1>2 DEF Slot
  <2>2. QED
    BY <2>1 DEF TypeOK, Return
<1>4. \A u \in Slot : Examined(u)' => Examined(u)
  BY <1>2 DEF Examined, Slot
<1>5. StampsInv'
  BY <1>2, <1>4 DEF StampsInv
<1>6. lastRun[t] = passNow
  BY <1>2 DEF StampsInv
<1>7. QED
  BY <1>2, <1>3, <1>5, <1>6 DEF Waited, Called

\* Nothing of the scheduler moves.
LEMMA QuietStamps ==
  ASSUME TypeOK, StampsInv, UNCHANGED schedVars
  PROVE  TypeOK' /\ StampsInv' /\ \A t \in Slot : Waited(t)' = Waited(t)
  BY DEF schedVars, TypeOK, StampsInv, Examined, Waited, Called

-----------------------------------------------------------------------------
(***************************************************************************)
(* The true age of a task against its stamp.  The stamp is the reading of  *)
(* the pass that called the task, so it is older than the call, by at most *)
(* what the pass had taken until then.                                     *)
(***************************************************************************)
AgeInv ==
  /\ age \in [Slot -> Nat]
  /\ \A t \in Slot : /\ age[t] <= Elapsed(now, lastRun[t])
                     /\ Elapsed(now, lastRun[t]) <= age[t] + MaxPassMs

TimingInv == TypeOK /\ StampsInv /\ AgeInv

LEMMA TimingInit == TInit => TimingInv
<1> SUFFICES ASSUME TInit PROVE TimingInv
  OBVIOUS
<1>1. TypeOK /\ StampsInv
  BY InitStamps DEF TInit
<1>2. 0 \in Time /\ MaxPassMs \in Nat
  BY SchedulerAssumption DEF Time
<1>3. Elapsed(0, 0) = 0
  BY <1>2, ElapsedIsTime
<1>4. AgeInv
  BY <1>2, <1>3 DEF TInit, Init, AgeInv
<1>5. QED
  BY <1>1, <1>4 DEF TimingInv

\* The bounded counter of the model never saturates.
LEMMA AgeBelowBound ==
  ASSUME TimingInv, NEW t \in Slot
  PROVE  age[t] \in Nat /\ age[t] < Period[t] + 2 * MaxPassMs
<1>1. Elapsed(now, lastRun[t]) < Period[t] + 2 * MaxPassMs
      /\ Elapsed(now, lastRun[t]) \in Nat
  BY StampAge DEF TimingInv
<1>2. QED
  BY <1>1, SlotConstants DEF TimingInv, AgeInv

LEMMA TimingStep == TimingInv /\ [TNext]_vars => TimingInv'
<1> SUFFICES ASSUME TimingInv, [TNext]_vars PROVE TimingInv'
  OBVIOUS
<1> TypeOK /\ StampsInv /\ AgeInv
  BY DEF TimingInv
<1>1. CASE TTick
  <2>1. /\ TypeOK' /\ StampsInv'
        /\ \A t \in Slot : Elapsed(now, lastRun[t])' = Elapsed(now, lastRun[t]) + 1
    BY <1>1, TickStamps DEF TTick
  <2>2. \A t \in Slot : age'[t] = age[t] + 1
    BY <1>1, AgeBelowBound DEF TTick, MaxAge
  <2>3. age' \in [Slot -> Nat]
    BY <1>1, AgeBelowBound DEF TTick
  <2>4. ASSUME NEW t \in Slot
        PROVE  /\ age'[t] <= Elapsed(now, lastRun[t])'
               /\ Elapsed(now, lastRun[t])' <= age'[t] + MaxPassMs
    <3>1. Elapsed(now, lastRun[t]) \in Nat /\ age[t] \in Nat /\ MaxPassMs \in Nat
      BY StampAge, SlotConstants DEF AgeInv
    <3>2. QED
      BY <2>1, <2>2, <3>1 DEF AgeInv
  <2>5. QED
    BY <2>1, <2>3, <2>4 DEF TimingInv, AgeInv
<1>2. CASE TLoop
  <2>1. TypeOK' /\ StampsInv'
    BY <1>2, BeginPassStamps, SkipStamps, ReturnStamps DEF TLoop
  <2>2. UNCHANGED <<now, lastRun, age>>
    BY <1>2 DEF TLoop, BeginPass, Skip, Return
  <2>3. QED
    BY <2>1, <2>2 DEF TimingInv, AgeInv
<1>3. ASSUME NEW t \in Slot, TDispatch(t)
      PROVE  TimingInv'
  <2>1. TypeOK' /\ StampsInv'
    BY <1>3, DispatchStamps DEF TDispatch
  <2>2. /\ UNCHANGED <<now, passNow>> /\ lastRun' = [lastRun EXCEPT ![t] = passNow]
        /\ age' = [age EXCEPT ![t] = 0]
    BY <1>3 DEF TDispatch, Dispatch
  <2>3. Elapsed(now, passNow) \in Nat /\ Elapsed(now, passNow) <= MaxPassMs
    BY StampAge DEF StampsInv
  <2>4. ASSUME NEW u \in Slot
        PROVE  /\ age'[u] <= Elapsed(now, lastRun[u])'
               /\ Elapsed(now, lastRun[u])' <= age'[u] + MaxPassMs
    <3>1. CASE u = t
      <4>1. age'[u] = 0 /\ lastRun'[u] = passNow
        BY <2>2, <3>1 DEF AgeInv, TypeOK
      <4>2. QED
        BY <2>2, <2>3, <4>1, SlotConstants
    <3>2. CASE u # t
      <4>1. age'[u] = age[u] /\ lastRun'[u] = lastRun[u]
        BY <2>2, <3>2 DEF AgeInv, TypeOK
      <4>2. QED
        BY <2>2, <4>1 DEF AgeInv
    <3>3. QED
      BY <3>1, <3>2
  <2>5. age' \in [Slot -> Nat]
    BY <2>2 DEF AgeInv
  <2>6. QED
    BY <2>1, <2>4, <2>5 DEF TimingInv, AgeInv
<1>4. CASE UNCHANGED vars
  <2>1. TypeOK' /\ StampsInv'
    BY <1>4, QuietStamps DEF vars
  <2>2. QED
    BY <1>4, <2>1 DEF vars, schedVars, TimingInv, AgeInv
<1>5. QED
  BY <1>1, <1>2, <1>3, <1>4 DEF TNext, TForeground

LEMMA TimingInvariant == TSpec => []TimingInv
  BY TimingInit, TimingStep, PTL DEF TSpec

(* No task waits longer than its period and two passes for its next call,   *)
(* also across the wrap of the millisecond counter.                         *)
THEOREM TasksAreNotLate == TSpec => []NeverTooLate
<1>1. TimingInv => NeverTooLate
  BY AgeBelowBound DEF NeverTooLate
<1>2. QED
  BY <1>1, TimingInvariant, PTL

\* The step behind NeverTooEarly: a call that the loop makes is due by the
\* stamp, and the stamp is at most a pass older than the call before.
LEMMA CallsAreDue ==
  ASSUME TimingInv, NEW t \in Slot, Dispatch(t)
  PROVE  age[t] >= Period[t] - MaxPassMs
<1>1. TypeOK /\ StampsInv
  BY DEF TimingInv
<1>2. Elapsed(passNow, lastRun[t]) >= Period[t]
  BY DEF Dispatch, Due
<1>3. Elapsed(now, lastRun[t]) >= Period[t]
  BY <1>1, <1>2, StampAge, SlotConstants
<1>4. Elapsed(now, lastRun[t]) <= age[t] + MaxPassMs /\ age[t] \in Nat
  BY DEF TimingInv, AgeInv
<1>5. QED
  BY <1>1, <1>3, <1>4, StampAge, SlotConstants

(* Two calls of a task are at least its period apart, less what the earlier *)
(* pass had taken when it reached the slot: no burst of catch-up calls.     *)
THEOREM CallsAreNotEarly == TSpec => NeverTooEarly
<1>1. TimingInv /\ [TNext]_vars
        => [\A t \in Slot : slot = t /\ ~inTask /\ inTask'
              => age[t] >= Period[t] - MaxPassMs]_vars
  <2> SUFFICES ASSUME TimingInv, [TNext]_vars, NEW t \in Slot,
                      slot = t, ~inTask, inTask'
               PROVE  age[t] >= Period[t] - MaxPassMs
    OBVIOUS
  <2>1. ~TTick /\ ~TLoop /\ vars' # vars
    BY DEF TTick, Tick, TLoop, BeginPass, Skip, Return, vars, schedVars
  <2>2. PICK u \in Slot : TDispatch(u)
    BY <2>1 DEF TNext, TForeground
  <2>3. u = t /\ Dispatch(t)
    BY <2>2 DEF TDispatch, Dispatch
  <2>4. QED
    BY <2>3, CallsAreDue
<1>2. QED
  BY <1>1, TimingInvariant, PTL DEF TSpec, NeverTooEarly

-----------------------------------------------------------------------------
(***************************************************************************)
(* The jitter.  The profiler's difference of two clock readings is the     *)
(* true interval because no interval reaches the range of the counter: the *)
(* time since the last recorded start is bounded like the time a task      *)
(* waits for its call, with the calls counted from their recording.        *)
(***************************************************************************)
ToRecord == slot = watched /\ inTask /\ ~recorded

SinceBound == IF ToRecord THEN Period[watched] - 1 + MaxPassMs + Elapsed(now, passNow)
                          ELSE Elapsed(now, lastRun[watched])

JitterInv ==
  /\ watched \in Slot
  /\ recorded \in BOOLEAN
  /\ recorded => slot = watched /\ inTask
  /\ since \in Nat /\ worst \in Nat
  /\ lastStart \in Time \cup {NoSample}
  /\ lastStart # NoSample => since = Elapsed(now, lastStart) /\ since <= SinceBound
  /\ JitterIsTrue

\* Taking the larger and saturating commute.
LEMMA BoundedLarger ==
  ASSUME NEW a \in Nat, NEW b \in Nat
  PROVE  Larger(Bounded(a), Bounded(b)) = Bounded(Larger(a, b))
  BY StartJitterAssumption DEF Larger, Bounded

LEMMA SinceBelowWord ==
  ASSUME TimingInv, JitterInv
  PROVE  /\ SinceBound \in Nat
         /\ SinceBound < Period[watched] + 2 * MaxPassMs
         /\ Elapsed(now, passNow) \in Nat
         /\ Elapsed(now, passNow) <= SinceBound
<1> TypeOK /\ StampsInv /\ watched \in Slot
  BY DEF TimingInv, JitterInv
<1>1. Elapsed(now, passNow) <= MaxPassMs
  BY DEF StampsInv
<1>2. QED
  BY <1>1, StampAge, SlotConstants DEF SinceBound

LEMMA JitterInit == JInit => JitterInv
<1> SUFFICES ASSUME JInit PROVE JitterInv
  OBVIOUS
<1>1. maxJitter = 0 /\ worst = 0
  BY DEF JInit
<1>2. JitterIsTrue
  BY <1>1, StartJitterAssumption DEF JitterIsTrue, Bounded
<1>3. QED
  BY <1>2 DEF JInit, JitterInv

\* A recorded start: the interval the profiler computes is the true one.
LEMMA RecordJitter ==
  ASSUME TimingInv, JitterInv, RecordStart
  PROVE  JitterInv'
<1> TypeOK /\ StampsInv /\ watched \in Slot /\ now \in Time
  BY DEF TimingInv, JitterInv, TypeOK
<1>1. /\ slot = watched /\ inTask /\ ~recorded
      /\ recorded' = TRUE /\ lastStart' = now /\ since' = 0
      /\ UNCHANGED <<now, lastRun, passNow, slot, inTask, watched>>
  BY DEF RecordStart, vars, schedVars
<1>2. Elapsed(now, now) = 0
  BY ElapsedIsTime
<1>3. 0 <= SinceBound'
  <2>1. SinceBound' = Elapsed(now, lastRun[watched])
    BY <1>1 DEF SinceBound, ToRecord
  <2>2. QED
    BY <2>1, StampAge
<1>4. worst' \in Nat /\ JitterIsTrue'
  <2>1. CASE lastStart = NoSample
    BY <2>1 DEF RecordStart, JitterInv, JitterIsTrue, Bounded
  <2>2. CASE lastStart # NoSample
    <3> DEFINE dev == Deviation(since)
    <3>1. Elapsed(now, lastStart) = since /\ since \in Nat /\ worst \in Nat
      BY <2>2 DEF JitterInv
    <3>2. dev \in Nat
      BY <3>1, SlotConstants DEF Deviation
    <3>3. maxJitter' = Larger(maxJitter, Bounded(dev))
      BY <2>2, <3>1 DEF RecordStart
    <3>4. worst' = Larger(worst, dev)
      BY <2>2, <3>1, SlotConstants DEF RecordStart, Deviation
    <3>5. maxJitter = Bounded(worst)
      BY DEF JitterInv, JitterIsTrue
    <3> HIDE DEF dev
    <3>6. worst' \in Nat
      BY <3>1, <3>2, <3>4 DEF Larger
    <3>7. maxJitter' = Bounded(worst')
      BY <3>1, <3>2, <3>3, <3>4, <3>5, BoundedLarger
    <3>8. QED
      BY <3>6, <3>7 DEF JitterIsTrue, Bounded
  <2>3. QED
    BY <2>1, <2>2
<1>5. QED
  BY <1>1, <1>2, <1>3, <1>4 DEF JitterInv

LEMMA TickJitter ==
  ASSUME TimingInv, JitterInv, JTick
  PROVE  JitterInv'
<1> TypeOK /\ StampsInv /\ watched \in Slot /\ now \in Time /\ Tick
  BY DEF TimingInv, JitterInv, TypeOK, JTick, TTick
<1>1. UNCHANGED <<lastRun, passNow, slot, inTask, watched, recorded, lastStart, maxJitter, worst>>
  BY DEF JTick, TTick, Tick
<1>2. JitterIsTrue'
  BY <1>1 DEF JitterInv, JitterIsTrue, Bounded
<1>3. since' \in Nat
  BY DEF JTick, JitterInv
<1>4. ASSUME lastStart # NoSample
      PROVE  since' = Elapsed(now', lastStart) /\ since' <= SinceBound'
  <2>1. since' = since + 1 /\ since = Elapsed(now, lastStart) /\ since <= SinceBound
    BY <1>4 DEF JTick, JitterInv
  <2>2. since + 1 < Word /\ lastStart \in Time /\ since \in Nat
    BY <1>4, <2>1, SinceBelowWord, SlotConstants DEF JitterInv
  <2>3. Elapsed(now', lastStart) = Elapsed(now, lastStart) + 1
    BY <2>1, <2>2, ElapsedTicks DEF Tick
  <2>4. SinceBound' = SinceBound + 1
    <3>1. /\ Elapsed(now, passNow)' = Elapsed(now, passNow) + 1
          /\ Elapsed(now, lastRun[watched])' = Elapsed(now, lastRun[watched]) + 1
      BY <1>1, TickStamps
    <3>2. Elapsed(now, passNow) \in Nat
      BY SinceBelowWord
    <3>3. QED
      BY <1>1, <3>1, <3>2, SlotConstants DEF SinceBound, ToRecord
  <2>5. QED
    BY <2>1, <2>2, <2>3, <2>4, SinceBelowWord
<1>5. QED
  BY <1>1, <1>2, <1>3, <1>4 DEF JitterInv

LEMMA ForegroundJitter ==
  ASSUME TimingInv, JitterInv, JForeground
  PROVE  JitterInv'
<1> TypeOK /\ StampsInv /\ watched \in Slot
  BY DEF TimingInv, JitterInv
<1>1. /\ UNCHANGED <<now, watched, lastStart, maxJitter, since, worst>>
      /\ recorded' = (recorded /\ slot' = slot)
      /\ slot = watched /\ inTask => recorded
  BY DEF JForeground, TForeground, TLoop, TDispatch, BeginPass, Skip, Return, Dispatch
<1>2. JitterIsTrue'
  BY <1>1 DEF JitterInv, JitterIsTrue, Bounded
<1>3. SinceBound = Elapsed(now, lastRun[watched])
  BY <1>1 DEF SinceBound, ToRecord
<1>4. /\ ~recorded'
      /\ SinceBound' \in Nat /\ SinceBound <= SinceBound'
  <2>1. CASE TLoop
    <3>1. ~inTask'
      BY <2>1, SchedulerAssumption DEF TLoop, BeginPass, Skip, Return, StampsInv, Slot
    <3>2. ~recorded'
      <4>1. slot' # slot
        BY <2>1, SchedulerAssumption DEF TLoop, BeginPass, Skip, Return, Slot
      <4>2. QED
        BY <1>1, <4>1
    <3>3. UNCHANGED <<now, lastRun, watched>>
      BY <1>1, <2>1 DEF TLoop, BeginPass, Skip, Return
    <3>4. SinceBound' = SinceBound
      BY <1>3, <3>1, <3>3 DEF SinceBound, ToRecord
    <3>5. QED
      BY <3>2, <3>4, SinceBelowWord
  <2>2. ASSUME NEW t \in Slot, TDispatch(t)
        PROVE  /\ ~recorded'
               /\ SinceBound' \in Nat /\ SinceBound <= SinceBound'
    <3>1. Dispatch(t) /\ slot = t /\ ~inTask /\ slot' = t /\ inTask'
      BY <2>2 DEF TDispatch, Dispatch
    <3>2. ~recorded'
      BY <1>1, <3>1 DEF JitterInv
    <3>3. PICK w \in Slot : w = watched
      OBVIOUS
    <3>4. Waited(w)' \in Nat /\ Waited(w)' >= Waited(w)
      <4>1. CASE t = w
        BY <3>1, <4>1, DispatchStamps
      <4>2. CASE t # w
        <5>1. Waited(w)' = Waited(w)
          BY <3>1, <4>2, DispatchStamps
        <5>2. QED
          BY <5>1, WaitedBounds
      <4>3. QED
        BY <4>1, <4>2
    <3>5. Waited(w) = SinceBound
      BY <1>3, <3>1, <3>3 DEF Waited, Called
    <3>6. Waited(w)' = SinceBound'
      BY <1>1, <3>1, <3>2, <3>3 DEF Waited, Called, SinceBound, ToRecord
    <3>7. QED
      BY <3>2, <3>4, <3>5, <3>6
  <2>3. QED
    BY <2>1, <2>2 DEF JForeground, TForeground
<1>5. ASSUME lastStart' # NoSample
      PROVE  since' = Elapsed(now', lastStart') /\ since' <= SinceBound'
  <2>1. Elapsed(now', lastStart') = Elapsed(now, lastStart) /\ since' = since
    BY <1>1
  <2>2. since = Elapsed(now, lastStart) /\ since <= SinceBound /\ since \in Nat
    BY <1>1, <1>5 DEF JitterInv
  <2>3. QED
    BY <1>4, <2>1, <2>2, SinceBelowWord
<1>6. QED
  BY <1>1, <1>2, <1>4, <1>5 DEF JitterInv

LEMMA JitterStep == TimingInv /\ JitterInv /\ [JNext]_jvars => JitterInv'
<1> SUFFICES ASSUME TimingInv, JitterInv, [JNext]_jvars PROVE JitterInv'
  OBVIOUS
<1>1. CASE UNCHANGED jvars
  BY <1>1 DEF jvars, vars, schedVars, jitterVars, JitterInv, SinceBound, ToRecord,
              JitterIsTrue, Bounded
<1>2. QED
  BY <1>1, RecordJitter, TickJitter, ForegroundJitter DEF JNext

(* The reported maximum is the largest true deviation of an interval        *)
(* between two starts from the period, saturated as the 16-bit field is,    *)
(* whatever the clock reads when it wraps.                                  *)
THEOREM ReportedJitterIsTrue == JSpec => []JitterIsTrue
<1>1. JInit => TInit
  BY DEF JInit
<1>2. [JNext]_jvars => [TNext]_vars
  BY DEF JNext, jvars, RecordStart, JTick, JForeground, TNext
<1>3. JitterInv => JitterIsTrue
  BY DEF JitterInv
<1>4. QED
  BY <1>1, <1>2, <1>3, JitterInit, JitterStep, TimingInit, TimingStep, PTL DEF JSpec
=============================================================================
