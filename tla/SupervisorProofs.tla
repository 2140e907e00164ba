--------------------------- MODULE SupervisorProofs ---------------------------
(***************************************************************************)
(* Proofs about the supervisor: the marker the watchdog leaves behind      *)
(* (Watchdog), the verdicts, files and reports of the scripts (Campaigns), *)
(* the end of the dashboard, its pages, its log and its graph (Dashboard). *)
(***************************************************************************)
EXTENDS Supervisor, WellFoundedInduction, TLAPS

-----------------------------------------------------------------------------
(* The watchdog marker.                                                     *)

\* What a step of the supervisor, the cell and the world between them does to
\* the cell.
LEMMA CellMoves ==
  ASSUME [Next]_vars
  PROVE  \/ Capture \/ Enable \/ Isr \/ Kick \/ Restart \/ Lag \/ Block
         \/ mode = "none" /\ PowerUp
         \/ Pass \/ FirstTimeout \/ UNCHANGED cellVars
<1>1. CASE Campaign(CampaignsNext)
  <2>1. CASE CellSteps
    BY <2>1 DEF CellSteps
  <2>2. CASE Tick
    BY <2>2 DEF Tick, Elapse, SecondTimeout
  <2>3. CASE ScriptSteps
    BY <2>3 DEF ScriptSteps, Open, Check, FallAsleep, WakeUp, Nap, ListenForNothing, Expire,
       commVars, Write, Obeys, Receive, TimeOut, OpenCsv, WriteRow, Capacity, Judge, SelectPath,
       WriteReport, Conclude
  <2>4. CASE World
    BY <2>4 DEF World, Main, Disturb, LateAnswer, OtherReport, StepFails, Kill
  <2>5. QED
    BY <1>1, <2>1, <2>2, <2>3, <2>4 DEF Campaign, CampaignsNext
<1>2. CASE ~Campaign(CampaignsNext)
  BY <1>2 DEF Next, StartDashboard, RunDashboard, Exited, vars, campaignVars
<1>3. QED
  BY <1>1, <1>2

\* The bytes are intact exactly when the interrupt ran since the last boot; a
\* cell that has just been reset still has them of the run before, and no
\* interrupt can come between the reset and the capture of the marker.
MarkerInv ==
  /\ phase \in {"reset", "boot", "run", "late", "blocked"}
  /\ fired \in BOOLEAN /\ wdif \in BOOLEAN /\ marker \in BOOLEAN
  /\ phase # "reset" => magic = IF fired THEN Magic ELSE {}
  /\ phase # "reset" => (before = "yes" => marker) /\ (before = "no" => ~marker)
  /\ phase = "reset" => ~wdif
  /\ phase = "reset" => (before = "yes" => magic = Magic) /\ (before = "no" => magic = {})
  /\ before \in {"yes", "no", "unknown"}

LEMMA MarkerStep ==
  ASSUME MarkerInv, [Next]_vars
  PROVE  MarkerInv'
<1> USE DEF MarkerInv
<1>1. Magic # {}
  BY DEF Magic
<1>2. CASE Capture
  BY <1>1, <1>2 DEF Capture
<1>3. CASE Enable \/ Kick \/ Lag \/ Block
  BY <1>3 DEF Enable, Kick, Lag, Block
<1>10. CASE Pass
  BY <1>10 DEF Pass
<1>4. CASE Isr
  BY <1>4 DEF Isr
<1>5. CASE PowerUp
  BY <1>5 DEF PowerUp
<1>6. CASE Restart
  BY <1>6 DEF Restart
<1>7. CASE FirstTimeout
  BY <1>7 DEF FirstTimeout, Stalled
<1>8. CASE UNCHANGED cellVars
  BY <1>8 DEF cellVars
<1>9. QED
  BY CellMoves, <1>2, <1>3, <1>4, <1>5, <1>6, <1>7, <1>8, <1>10

(* In every run of cell and supervisor the marker in the watchdog's status  *)
(* tells whether the watchdog interrupt (WDT_vect, hal/watchdog.c) ran in   *)
(* the run before, however that run ended, unless it began with a power-up. *)
THEOREM MarkerIsTrue == Spec => []MarkerTellsTimeout
<1>1. Init => MarkerInv
  BY DEF Init, CampaignsInit, CellInit, MarkerInv
<1>2. MarkerInv => MarkerTellsTimeout
  BY DEF MarkerInv, MarkerTellsTimeout
<1>3. QED
  BY <1>1, <1>2, MarkerStep, PTL DEF Spec

-----------------------------------------------------------------------------
(* The reports.                                                             *)

ReportsInv == reports \in [1..Names -> {"none", "other", "this"}]

\* A report's name is taken only while it is free.
LEMMA ReportMoves ==
  ASSUME [Next]_vars
  PROVE  \/ reports' = reports
         \/ reports[chosen] = "none" /\ reports' = [reports EXCEPT ![chosen] = "this"]
         \/ \E p \in Free : reports' = [reports EXCEPT ![p] = "other"]
<1>1. CASE Campaign(CampaignsNext)
  <2>1. CASE CellSteps \/ Tick
    BY <2>1 DEF CellSteps, Tick, fileVars
  <2>2. CASE ScriptSteps
    BY <2>2 DEF ScriptSteps, Open, Check, FallAsleep, WakeUp, Nap, ListenForNothing, Write,
       Receive, TimeOut, OpenCsv, WriteRow, Capacity, Judge, SelectPath, WriteReport, Conclude,
       fileVars
  <2>3. CASE World
    BY <2>3 DEF World, Main, Disturb, LateAnswer, OtherReport, StepFails, Kill, fileVars
  <2>4. QED
    BY <1>1, <2>1, <2>2, <2>3 DEF Campaign, CampaignsNext
<1>2. CASE ~Campaign(CampaignsNext)
  BY <1>2 DEF Next, StartDashboard, RunDashboard, Exited, vars, campaignVars, fileVars
<1>3. QED
  BY <1>1, <1>2

LEMMA ReportsStep ==
  ASSUME ReportsInv, [Next]_vars
  PROVE  /\ ReportsInv'
         /\ \A p \in 1..Names : reports[p] # "none" => reports'[p] = reports[p]
BY ReportMoves DEF ReportsInv, Free

(* A report that exists is never written again, whoever wrote it            *)
(* (measurement_report_path() and the exclusive creation in                 *)
(* write_measurement_report()).                                             *)
THEOREM ReportsAreKept == Spec => ReportIsFinal
<1>1. Init => ReportsInv
  BY DEF Init, CampaignsInit, ReportsInv
<1>2. ReportsInv /\ [Next]_vars
        => [\A p \in 1..Names : reports[p] # "none" => reports'[p] = reports[p]]_campaignVars
  BY ReportsStep
<1>3. ReportsInv /\ [Next]_vars => ReportsInv'
  BY ReportsStep
<1>4. QED
  BY <1>1, <1>2, <1>3, PTL DEF Spec, ReportIsFinal

-----------------------------------------------------------------------------
(* The end of the dashboard.                                                *)

\* How long the main thread has waited for the poller at most, by what the
\* poller does: no cycle is begun once it is to stop, a read takes no longer
\* than its timeout, a tick is the most that anything else takes.
JoinWait ==
  /\ poller = "ask" => idle <= spent
  /\ poller = "silent" => idle <= 1 + spent
  /\ poller \in {"late", "late2"} => idle <= 1 + ResponseTimeout
  /\ poller = "settle" => idle <= 1 + ResponseTimeout + spent
  /\ poller # "ended" => idle <= 2 + ResponseTimeout

\* An open link has its poller; when the port is closed in order, the poller
\* has ended or was never started.
LinkInv ==
  /\ main \in {"off", "bound", "settle", "serve", "stopping", "closed", "exited"}
  /\ idle \in Nat /\ spent \in Nat
  /\ poller \in {"ask", "settle"} => spent <= 1
  /\ poller = "silent" => spent <= ResponseTimeout
  /\ main \in {"off", "bound", "settle"} => poller = "none"
  /\ main \in {"serve", "stopping"} => poller # "none"
  /\ main = "stopping" => stop
  /\ main = "stopping" /\ ~rushed => JoinWait
  /\ main = "closed" /\ ~rushed => poller \in {"none", "ended"}

LEMMA LinkStep ==
  ASSUME LinkInv, [Next]_vars
  PROVE  LinkInv'
<1> USE DashboardAssumption DEF LinkInv
<1>1. CASE Bind \/ OpenSession \/ CloseServer
  BY <1>1 DEF Bind, OpenSession, CloseServer, pollerVars, JoinWait
<1>2. CASE Serve
  BY <1>2 DEF Serve, JoinWait
<1>3. CASE Join
  BY <1>3 DEF Join, pollerVars, JoinWait
<1>4. CASE Interrupt
  BY <1>4 DEF Interrupt, pollerVars, JoinWait
<1>5. CASE PollerSteps
  <2>1. /\ UNCHANGED <<main, idle, stop>>
        /\ rushed => rushed'
        /\ AnswersLate => rushed'
    BY <1>5 DEF PollerSteps, mainVars
  <2>2. CASE BeginCycle
    BY <2>1, <2>2 DEF BeginCycle, JoinWait
  <2>3. CASE EndThread \/ AllAnswered \/ Raises
    BY <2>1, <2>3 DEF EndThread, AllAnswered, Raises, JoinWait
  <2>4. CASE FallsSilent
    BY <2>1, <2>4 DEF FallsSilent, JoinWait
  <2>5. CASE AnswersLate
    BY <2>1, <2>5 DEF AnswersLate, JoinWait
  <2>6. CASE ReadTimesOut \/ Flush
    BY <2>1, <2>6 DEF ReadTimesOut, Flush, Rest, JoinWait
  <2>7. CASE SuccessEvents \/ SuccessSnapshot
    BY <2>1, <2>7 DEF SuccessEvents, SuccessSnapshot, JoinWait
  <2>8. CASE FailureSnapshot
    BY <2>1, <2>8 DEF FailureSnapshot, JoinWait
  <2>9. CASE FailureEvent
    <3>1. /\ spent' = 0 /\ UNCHANGED <<main, idle, stop>>
          /\ \/ poller = "lost2" /\ poller' = "rest"
             \/ poller = "late2" /\ poller' = "settle"
      BY <2>1, <2>9 DEF FailureEvent, Rest
    <3>2. QED
      BY <2>1, <3>1 DEF JoinWait
  <2>10. QED
    BY <1>5, <2>2, <2>3, <2>4, <2>5, <2>6, <2>7, <2>8, <2>9 DEF PollerSteps
<1>6. CASE ReadSnapshot \/ ReadEvents
  BY <1>6 DEF ReadSnapshot, ReadEvents, mainVars, pollerVars, JoinWait
<1>7. CASE HalfSecond
  BY <1>7 DEF HalfSecond, Working, JoinWait
<1>8. CASE UNCHANGED dashboardVars
  BY <1>8 DEF dashboardVars, mainVars, pollerVars, JoinWait
<1>9. QED
  BY <1>1, <1>2, <1>3, <1>4, <1>5, <1>6, <1>7, <1>8 DEF Next, Campaign, StartDashboard,
     RunDashboard, DashboardNext, MainSteps, Exited, vars

(* When the dashboard is left by a single Ctrl-C and no answer comes late,  *)
(* the port is closed only after the poller's thread has ended: the time    *)
(* dashboard.py allows in poller.join() outlasts the longest cycle.         *)
THEOREM LinkIsClosedLast == Spec => []ClosedLinkIsLeftAlone
<1>1. Init => LinkInv
  BY DashboardAssumption DEF Init, DashboardInit, LinkInv
<1>2. LinkInv => ClosedLinkIsLeftAlone
  BY DEF LinkInv, ClosedLinkIsLeftAlone, Working
<1>3. QED
  BY <1>1, <1>2, LinkStep, PTL DEF Spec
-----------------------------------------------------------------------------
(* The scripts, step by step.                                               *)

\* What two scripts do one after the other.
LEMMA Joined ==
  ASSUME NEW S, NEW s \in Seq(S), NEW t \in Seq(S)
  PROVE  /\ s \o t \in Seq(S) /\ Len(s \o t) = Len(s) + Len(t)
         /\ \A i \in 1..Len(s) : (s \o t)[i] = s[i]
         /\ \A i \in 1..Len(t) : (s \o t)[i + Len(s)] = t[i]
         /\ \A i \in 1..Len(s) : s[i] \in S
OBVIOUS

\* The steps of the scripts that only ask.
QuietStep ==
  {Do("options"), Do("evidence"), Do("open"), Do("settle"), Do("observe")}
  \cup {Ask(k, n) : k \in {"PING", "ECHO", "COMM", "TIMING", "JITTER", "MEMORY", "CPU", "OVERRUN"},
                    n \in Nat}

LEMMA QuietPieces ==
  /\ Session \in Seq(QuietStep) /\ Len(Session) = 2
  /\ <<Do("options")>> \in Seq(QuietStep)
  /\ <<Do("evidence")>> \in Seq(QuietStep) /\ Len(<<Do("evidence")>>) = 1
  /\ CollectRuntime \in Seq(QuietStep) /\ Len(CollectRuntime) = 5
BY DEF Session, CollectRuntime, QuietStep, Status

LEMMA QuietScripts ==
  ASSUME mode \in {"plain", "--status", "--timing", "--jitter", "--memory-runtime",
                   "--rt-profile"}
  PROVE  Script \in Seq(QuietStep)
<1>1. CASE mode = "--memory-runtime"
  <2>1. <<Do("observe"), Status("MEMORY", \h60)>> \in Seq(QuietStep)
    BY DEF QuietStep, Status
  <2>2. Script = (<<Do("options")>> \o Session) \o <<Do("observe"), Status("MEMORY", \h60)>>
    BY <1>1 DEF Script, RuntimeMemory
  <2>3. QED BY <2>1, <2>2, QuietPieces
<1>2. CASE mode = "--rt-profile"
  <2>1. <<Do("observe"), Status("CPU", \h70), Status("OVERRUN", \h71)>> \in Seq(QuietStep)
    BY DEF QuietStep, Status
  <2>2. Script = (<<Do("options")>> \o Session)
                 \o <<Do("observe"), Status("CPU", \h70), Status("OVERRUN", \h71)>>
    BY <1>2 DEF Script, RtProfile
  <2>3. QED BY <2>1, <2>2, QuietPieces
<1>3. CASE mode \in {"plain", "--status", "--timing", "--jitter"}
  <2>1. /\ <<Exact("PING", \h10), Exact("ECHO", \h20)>> \in Seq(QuietStep)
        /\ <<Status("COMM", \h30)>> \in Seq(QuietStep)
        /\ <<Status("TIMING", \h40)>> \in Seq(QuietStep)
        /\ <<Status("JITTER", \h50)>> \in Seq(QuietStep)
        /\ <<>> \in Seq(QuietStep)
    BY DEF QuietStep, Exact, Status
  <2>2. Script = BringUp(mode)
    BY <1>3 DEF Script
  <2>3. PICK t \in Seq(QuietStep) :
          BringUp(mode) = (Session \o <<Exact("PING", \h10), Exact("ECHO", \h20)>>) \o t
    BY <1>3, <2>1 DEF BringUp
  <2>4. QED BY <2>1, <2>2, <2>3, QuietPieces
<1>4. QED
  BY <1>1, <1>2, <1>3

LEMMA ProfileScript ==
  ASSUME mode = "--validation-profile"
  PROVE  /\ Len(Script) = 13 /\ Script[12] = Do("path") /\ Script[13] = Do("report")
         /\ \A i \in 1..11 : Script[i] \in QuietStep
<1> DEFINE one == <<Do("evidence")>>
           three == <<Do("observe"), Do("observe"), Do("observe")>>
           front == ((one \o Session) \o three) \o CollectRuntime
           end == <<Do("path"), Do("report")>>
           S == QuietStep \cup {Do("path"), Do("report")}
<1>1. three \in Seq(QuietStep) /\ Len(three) = 3
  BY DEF QuietStep
<1>2. one \in Seq(QuietStep) /\ Len(one) = 1
  BY QuietPieces
<1>3. Script = front \o end
  BY DEF Script, ValidationProfile
<1>4. end \in Seq(S) /\ Len(end) = 2 /\ end[1] = Do("path") /\ end[2] = Do("report")
  OBVIOUS
<1>5. \A x \in Seq(QuietStep) : x \in Seq(S)
  OBVIOUS
<1> HIDE DEF one, three, end, S
<1>6. one \o Session \in Seq(QuietStep) /\ Len(one \o Session) = Len(one) + Len(Session)
  BY QuietPieces, <1>2, Joined
<1>7. /\ (one \o Session) \o three \in Seq(QuietStep)
      /\ Len((one \o Session) \o three) = Len(one \o Session) + Len(three)
  BY ZenonT(30), <1>1, <1>6, Joined
<1>8. /\ front \in Seq(QuietStep)
      /\ Len(front) = Len((one \o Session) \o three) + Len(CollectRuntime)
  BY ZenonT(30), <1>7, QuietPieces, Joined
<1> HIDE DEF front
<1>9. /\ Len(Script) = Len(front) + Len(end)
      /\ \A i \in 1..Len(front) : Script[i] = front[i] /\ front[i] \in QuietStep
      /\ \A i \in 1..Len(end) : Script[i + Len(front)] = end[i]
  <2>1. front \in Seq(S)
    BY <1>5, <1>8
  <2>2. \A i \in 1..Len(front) : front[i] \in QuietStep
    BY <1>8, Joined
  <2>3. end \in Seq(S)
    BY <1>4
  <2>4. QED BY <1>3, <2>1, <2>2, <2>3, Joined
<1>10. Len(front) = 11
  BY <1>1, <1>2, <1>6, <1>7, <1>8, QuietPieces
<1>11. QED
  BY <1>4, <1>9, <1>10

LEMMA FaultScript ==
  ASSUME mode = "--fault-injection-comm"
  PROVE  /\ Len(Script) = 17
         /\ Script[1] = Do("open") /\ Script[2] = Do("settle") /\ Script[3] = Do("csv")
         /\ Script[4] = Ask("COMM", \h50) /\ Script[5] = Do("capacity_crc")
         /\ Script[6] = Send("BAD_CRC", \h51) /\ Script[7] = Do("silence")
         /\ Script[8] = Ask("COMM", \h52) /\ Script[9] = RecoveryPing(\h53)
         /\ Script[10] = Do("judge_crc")
         /\ Script[11] = Ask("COMM", \h60) /\ Script[12] = Do("capacity_timeout")
         /\ Script[13] = Send("PARTIAL", \h01) /\ Script[14] = Do("nap")
         /\ Script[15] = Ask("COMM", \h61) /\ Script[16] = RecoveryPing(\h62)
         /\ Script[17] = Do("judge_timeout")
BY DEF Script, FaultInjection, Session, CommStatus, Silence

LEMMA WatchdogScript ==
  ASSUME mode = "--watchdog-test"
  PROVE  /\ Len(Script) = 8
         /\ Script[1] = Do("open") /\ Script[2] = Do("settle")
         /\ Script[3] = Ask("WATCHDOG", \h70) /\ Script[4] = Send("BLOCK", \h71)
         /\ Script[5] = Do("recover") /\ Script[6] = RecoveryPing(\h72)
         /\ Script[7] = Ask("WATCHDOG", \h73) /\ Script[8] = Ask("RESET_CAUSE", \h74)
BY DEF Script, WatchdogTest, Session, WatchdogStatus, ResetCause

\* The script of the monitor is four steps and what they are followed by.
LEMMA AfterFour ==
  ASSUME NEW a, NEW b, NEW c, NEW d, NEW n \in Nat, NEW t, t = [i \in 1..n |-> t[i]],
         NEW s, s = ((<<a>> \o <<b, c>>) \o <<d>>) \o t
  PROVE  /\ Len(s) = 4 + n
         /\ s[1] = a /\ s[2] = b /\ s[3] = c /\ s[4] = d
         /\ \A i \in 1..n : s[i + 4] = t[i]
<1> DEFINE S == {a, b, c, d} \cup {t[i] : i \in 1..n}
<1> DEFINE u == (<<a>> \o <<b, c>>) \o <<d>>
<1>1. u \in Seq(S) /\ Len(u) = 4 /\ u[1] = a /\ u[2] = b /\ u[3] = c /\ u[4] = d
  <2>1. <<a>> \in Seq(S) /\ <<b, c>> \in Seq(S) /\ <<d>> \in Seq(S)
    OBVIOUS
  <2>2. <<a>> \o <<b, c>> \in Seq(S) /\ Len(<<a>> \o <<b, c>>) = 3
    BY <2>1
  <2>3. u \in Seq(S) /\ Len(u) = 4
    BY <2>1, <2>2
  <2>4. u[1] = a /\ u[2] = b /\ u[3] = c /\ u[4] = d
    BY <2>1, <2>2
  <2>. QED BY <2>3, <2>4
<1>2. t \in Seq(S) /\ Len(t) = n
  <2>1. \A i \in 1..n : t[i] \in S
    OBVIOUS
  <2>. HIDE DEF S
  <2>2. QED BY SMTT(30), <2>1
<1> HIDE DEF u, S
<1>3. s = u \o t
  BY DEF u
<1> QED BY <1>1, <1>2, <1>3

LEMMA MonitorScript ==
  ASSUME mode = "--monitor"
  PROVE  /\ Len(Script) = 3 * Samples + 3
         /\ Script[1] = Do("options") /\ Script[2] = Do("open") /\ Script[3] = Do("settle")
         /\ Script[4] = Do("csv")
         /\ \A i \in 1..(3 * Samples - 1) :
              Script[i + 4] = CASE i % 3 = 1 -> CommStatus(NextSequence(i \div 3))
                                [] i % 3 = 2 -> Do("row")
                                [] i % 3 = 0 -> Do("observe")
<1> DEFINE rest == [i \in 1..(3 * Samples - 1) |->
        CASE i % 3 = 1 -> CommStatus(NextSequence(i \div 3))
          [] i % 3 = 2 -> Do("row")
          [] i % 3 = 0 -> Do("observe")]
<1>1. 3 * Samples - 1 \in Nat /\ Samples \in Nat
  BY CampaignsAssumption
<1>2. Script = ((<<Do("options")>> \o <<Do("open"), Do("settle")>>) \o <<Do("csv")>>) \o rest
  BY DEF Script, Monitor, Session
<1>4. rest = [i \in 1..(3 * Samples - 1) |-> rest[i]]
  OBVIOUS
<1>5. /\ Len(Script) = 4 + (3 * Samples - 1)
      /\ Script[1] = Do("options") /\ Script[2] = Do("open") /\ Script[3] = Do("settle")
      /\ Script[4] = Do("csv")
      /\ \A i \in 1..(3 * Samples - 1) : Script[i + 4] = rest[i]
  <2> HIDE DEF rest
  <2>. QED BY <1>1, <1>2, <1>4, AfterFour
<1> QED BY <1>1, <1>5

\* Where the scripts write: what is said of a file rests on the place of these
\* steps.
LEMMA WhereFiles ==
  ASSUME mode \in Scripts, at \in Nat \ {0}, at <= Len(Script)
  PROVE  /\ Step.do = "csv" <=> \/ mode = "--fault-injection-comm" /\ at = 3
                                \/ mode = "--monitor" /\ at = 4
         /\ Step.do = "row" <=> mode = "--monitor" /\ at > 4 /\ (at - 4) % 3 = 2
         /\ Step.do \in {"judge_crc", "judge_timeout"}
              <=> mode = "--fault-injection-comm" /\ at \in {10, 17}
         /\ Step.do = "path" <=> mode = "--validation-profile" /\ at = 12
         /\ Step.do = "report" <=> mode = "--validation-profile" /\ at = 13
<1>1. \A s \in QuietStep : s.do \in {"options", "evidence", "open", "settle", "observe", "ask"}
  BY DEF QuietStep, Do, Ask
<1>2. CASE mode = "--fault-injection-comm"
  <2>1. Len(Script) = 17
    BY <1>2, FaultScript
  <2>2. at \in 1..17
    BY <2>1
  <2>3. /\ at = 3 <=> Script[at].do = "csv"
        /\ at \in {10, 17} <=> Script[at].do \in {"judge_crc", "judge_timeout"}
        /\ Script[at].do \notin {"row", "path", "report"}
    <3>1. CASE at \in 1..6
      BY SMTT(30), <1>2, <3>1, FaultScript DEF Do, Ask, Send
    <3>2. CASE at \in 7..12
      BY SMTT(30), <1>2, <3>2, FaultScript DEF Do, Ask, RecoveryPing
    <3>3. CASE at \in 13..17
      BY SMTT(30), <1>2, <3>3, FaultScript DEF Do, Ask, Send, RecoveryPing
    <3>4. QED
      BY <2>2, <3>1, <3>2, <3>3
  <2>4. QED
    BY <1>2, <2>3 DEF Step
<1>3. CASE mode = "--watchdog-test"
  <2>1. Len(Script) = 8
    BY <1>3, WatchdogScript
  <2>2. at \in 1..8
    BY <2>1
  <2>3. QED
    BY <1>3, <2>2, WatchdogScript DEF Step, Do, Ask, Send, RecoveryPing
<1>4. CASE mode = "--validation-profile"
  <2>1. Len(Script) = 13
    BY <1>4, ProfileScript
  <2>2. at \in 1..11 \/ at = 12 \/ at = 13
    BY <2>1
  <2>3. QED
    BY <1>1, <1>4, <2>2, ProfileScript DEF Step, Do
<1>5. CASE mode = "--monitor"
  <2>1. CASE at <= 4
    BY <1>5, <2>1, MonitorScript DEF Step, Do
  <2>2. CASE at > 4
    <3>1. PICK i \in 1..(3 * Samples - 1) : at = i + 4
      <4>1. Len(Script) = 3 * Samples + 3 /\ Samples \in Nat
        BY <1>5, MonitorScript, CampaignsAssumption
      <4>2. at - 4 \in 1..(3 * Samples - 1) /\ at = (at - 4) + 4
        BY <2>2, <4>1
      <4>3. QED
        BY <4>2
    <3>2. i % 3 \in {0, 1, 2}
      OBVIOUS
    <3>3. Step = CASE i % 3 = 1 -> CommStatus(NextSequence(i \div 3))
                   [] i % 3 = 2 -> Do("row")
                   [] i % 3 = 0 -> Do("observe")
      BY <1>5, <3>1, MonitorScript DEF Step
    <3>4. Step.do = "row" <=> i % 3 = 2
      BY <3>2, <3>3 DEF CommStatus, Do, Ask
    <3>5. Step.do \in {"ask", "row", "observe"}
      BY <3>2, <3>3 DEF CommStatus, Do, Ask
    <3>6. QED
      BY <1>5, <2>2, <3>1, <3>4, <3>5
  <2>3. QED
    BY <2>1, <2>2
<1>6. CASE mode \in {"plain", "--status", "--timing", "--jitter", "--memory-runtime",
                   "--rt-profile"}
  <2>1. Script[at] \in QuietStep
    BY <1>6, QuietScripts
  <2>2. QED
    BY <1>1, <1>6, <2>1 DEF Step
<1>7. QED
  BY <1>2, <1>3, <1>4, <1>5, <1>6, CampaignsAssumption DEF Modes

-----------------------------------------------------------------------------
(* Where a script is.                                                       *)

\* A wait is the wait of its step and a read that of its request; nothing is
\* done before a mode is chosen, and nothing in the dashboard.
PlaceInv ==
  /\ mode \in Scripts \cup {"none", "--dashboard"} /\ at \in Nat \ {0}
  /\ verdict \in {"none", "pass", "fail", "killed"}
  /\ doing \in {"step", "sleep", "read"}
  /\ doing # "step" => mode \in Scripts /\ at <= Len(Script)
  /\ doing = "sleep" => Step.do \in {"settle", "observe", "recover"}
  /\ doing = "read" => Step.do \in {"ask", "ping"}
  /\ mode \notin Scripts =>
       /\ at = 1 /\ verdict = "none" /\ rx = <<>> /\ late = <<>>
       /\ results = <<>> /\ file.by = "earlier"

\* Why a verdict was given.
VerdictInv ==
  /\ verdict = "pass" => at = Len(Script) + 1 /\ Passed
  /\ verdict = "fail" => at <= Len(Script) \/ (at = Len(Script) + 1 /\ ~Passed)

\* What has been judged and written when a script is at a step.
Mark(r) == IF r.passed THEN "PASS" ELSE "FAIL"
Judged == IF at <= 10 THEN 0 ELSE IF at <= 17 THEN 1 ELSE 2
Rows == (at - 4) \div 3

FileInv ==
  /\ results \in Seq([passed : BOOLEAN, seen : BOOLEAN])
  /\ mode # "--fault-injection-comm" => results = <<>>
  /\ mode = "--fault-injection-comm" =>
       /\ Len(results) = Judged
       /\ at > 3 => file = [by |-> "this", rows |-> [i \in 1..Len(results) |-> Mark(results[i])]]
       /\ at <= 3 => file.by = "earlier"
  /\ mode = "--monitor" =>
       /\ at > 4 => file = [by |-> "this", rows |-> [i \in 1..Rows |-> "SAMPLE"]]
       /\ at <= 4 => file.by = "earlier"
  /\ mode \notin {"--fault-injection-comm", "--monitor"} => file.by = "earlier"

\* The validation's own report, from the choice of its name on.
OwnReportInv ==
  mode = "--validation-profile" =>
    /\ at > 12 => chosen \in 1..Names
    /\ at > 13 => reports[chosen] = "this"

LEMMA SameScript ==
  ASSUME mode' = mode
  PROVE  Script' = Script
BY DEF Script

LEMMA PlaceStep ==
  ASSUME PlaceInv, [Next]_vars
  PROVE  PlaceInv'
<1> USE DEF PlaceInv
<1>0. "none" \notin Scripts /\ "--dashboard" \notin Scripts
  BY CampaignsAssumption DEF Modes
<1>1. mode' = mode /\ at' = at => Step' = Step /\ Script' = Script
  BY SameScript DEF Step
<1>2. ASSUME Advance, mode \in Scripts
      PROVE  PlaceInv'
  BY <1>2 DEF Advance
<1>3. CASE CellSteps \/ Tick
  <2>1. UNCHANGED <<mode, at, doing, verdict, rx, late, results, file>>
    BY <1>3 DEF CellSteps, Tick, stepVars, lineVars, outcomeVars, fileVars
  <2>2. QED
    BY <1>1, <2>1
<1>4. CASE Main
  BY <1>4, <1>0 DEF Main, lineVars, outcomeVars, fileVars
<1>5. CASE Disturb \/ LateAnswer \/ OtherReport \/ StepFails \/ Kill
  BY <1>1, <1>5 DEF Disturb, LateAnswer, OtherReport, StepFails, Kill, Raise, Ready, Ends,
     stepVars, lineVars, outcomeVars, fileVars, Trouble
<1>6. CASE Open \/ Check \/ WakeUp \/ Nap \/ OpenCsv \/ WriteRow \/ Judge
  BY <1>2, <1>6 DEF Open, Check, WakeUp, Nap, OpenCsv, WriteRow, Judge, Ready, Ends
<1>7. CASE FallAsleep
  BY <1>1, <1>7 DEF FallAsleep, Ready, Ends, lineVars, outcomeVars, fileVars
<1>8. ASSUME Raise, mode \in Scripts
      PROVE  PlaceInv'
  BY <1>1, <1>8 DEF Raise, stepVars
<1>9. CASE ListenForNothing \/ Capacity \/ SelectPath \/ WriteReport
  BY <1>2, <1>8, <1>9 DEF ListenForNothing, Capacity, SelectPath, WriteReport, Ready
<1>10. CASE Write
  BY <1>1, <1>2, <1>10 DEF Write, Ready, outcomeVars, fileVars, Ends
<1>11. CASE Receive \/ TimeOut
  BY <1>2, <1>8, <1>11 DEF Receive, TimeOut, Takes, Fails
<1>12. CASE Conclude
  <2>1. /\ UNCHANGED <<mode, at, doing>> /\ mode \in Scripts
        /\ verdict' \in {"pass", "fail"}
    BY <1>12 DEF Conclude, stepVars
  <2>2. QED
    BY <1>1, <2>1
<1>13. CASE StartDashboard
  BY <1>13, <1>0 DEF StartDashboard, lineVars, outcomeVars, fileVars
<1>14. CASE UNCHANGED campaignVars
  BY <1>1, <1>14 DEF campaignVars, stepVars, lineVars, outcomeVars, fileVars
<1>15. QED
  BY <1>3, <1>4, <1>5, <1>6, <1>7, <1>9, <1>10, <1>11, <1>12, <1>13, <1>14 DEF Next, Campaign,
     CampaignsNext, ScriptSteps, World, RunDashboard, Exited, vars

(* What a step does to a script, seen from its files and its verdict.       *)
Stays == UNCHANGED <<mode, at, verdict, readings, results, file, chosen>>

Starts ==
  /\ mode \notin Scripts /\ mode' \in Scripts \cup {"--dashboard"}
  /\ UNCHANGED <<at, verdict, readings, results, file, chosen>>

GivesUp ==
  /\ mode \in Scripts /\ verdict = "none" /\ verdict' \in {"fail", "killed"}
  /\ verdict' = "fail" => at <= Len(Script)
  /\ UNCHANGED <<mode, at, readings, results, file, chosen>>

GoesOn ==
  /\ mode \in Scripts /\ verdict = "none" /\ at <= Len(Script) /\ at' = at + 1
  /\ Step.do \notin {"csv", "row", "judge_crc", "judge_timeout", "path", "report"}
  /\ UNCHANGED <<mode, verdict, results, file, chosen>>

LEMMA Moves ==
  ASSUME PlaceInv, [Next]_vars
  PROVE  \/ Stays \/ Starts \/ GivesUp \/ GoesOn
         \/ OpenCsv \/ WriteRow \/ Judge \/ SelectPath \/ WriteReport \/ Conclude
<1> USE DEF PlaceInv
<1>1. CASE CellSteps \/ Tick \/ FallAsleep \/ UNCHANGED campaignVars
  BY <1>1 DEF CellSteps, Tick, FallAsleep, Stays, campaignVars, stepVars, outcomeVars, fileVars
<1>2. CASE Main \/ StartDashboard
  BY <1>2, CampaignsAssumption DEF Main, StartDashboard, Starts, Modes, outcomeVars, fileVars
<1>3. CASE Disturb \/ LateAnswer \/ OtherReport
  BY <1>3 DEF Disturb, LateAnswer, OtherReport, Stays, stepVars, outcomeVars, fileVars
<1>4. CASE StepFails \/ Kill
  BY <1>4 DEF StepFails, Kill, Raise, Ready, Ends, GivesUp, stepVars, outcomeVars, fileVars
<1>5. CASE Open \/ Check \/ Nap
  BY <1>5 DEF Open, Check, Nap, Advance, Ready, Ends, GoesOn, outcomeVars, fileVars
<1>6. CASE WakeUp
  BY <1>6 DEF WakeUp, Advance, Ends, GoesOn, outcomeVars, fileVars
<1>7. CASE ListenForNothing \/ Capacity
  BY <1>7 DEF ListenForNothing, Capacity, Advance, Raise, Ready, Ends, GoesOn, GivesUp,
     stepVars, outcomeVars, fileVars
<1>8. CASE Write
  BY <1>8 DEF Write, Advance, Ready, Ends, GoesOn, Stays, outcomeVars, fileVars
<1>9. CASE Receive \/ TimeOut
  BY <1>9 DEF Receive, TimeOut, Takes, Fails, Advance, Raise, Ends, GoesOn, GivesUp,
     stepVars, outcomeVars, fileVars
<1>10. QED
  BY <1>1, <1>2, <1>3, <1>4, <1>5, <1>6, <1>7, <1>8, <1>9 DEF Next, Campaign,
     CampaignsNext, ScriptSteps, World, RunDashboard, Exited, vars

LEMMA VerdictStep ==
  ASSUME PlaceInv, VerdictInv, [Next]_vars
  PROVE  VerdictInv'
<1> USE DEF VerdictInv
<1>1. CASE Stays
  <2>1. Script' = Script /\ (Passed' <=> Passed)
    BY <1>1, SameScript DEF Stays, Passed, MarkerSeen
  <2>2. QED
    BY <1>1, <2>1 DEF Stays
<1>2. CASE Starts
  BY <1>2 DEF Starts, PlaceInv
<1>3. CASE GivesUp
  BY <1>3, SameScript DEF GivesUp
<1>4. CASE GoesOn
  BY <1>4 DEF GoesOn
<1>5. CASE OpenCsv \/ WriteRow \/ Judge
  BY <1>5 DEF OpenCsv, WriteRow, Judge, Ready, Ends, Advance
<1>6. CASE SelectPath \/ WriteReport
  BY <1>6, SameScript DEF SelectPath, WriteReport, Ready, Ends, Advance, Raise, stepVars
<1>7. CASE Conclude
  <2>1. Script' = Script /\ (Passed' <=> Passed)
    BY <1>7, SameScript DEF Conclude, Passed, MarkerSeen, stepVars, outcomeVars
  <2>2. QED
    BY <1>7, <2>1 DEF Conclude, stepVars
<1>8. QED
  BY Moves, <1>1, <1>2, <1>3, <1>4, <1>5, <1>6, <1>7

LEMMA FileStep ==
  ASSUME PlaceInv, VerdictInv, FileInv, [Next]_vars
  PROVE  FileInv'
<1> USE DEF FileInv
<1>0. at \in Nat \ {0} /\ mode \in Scripts \cup {"none", "--dashboard"}
  BY DEF PlaceInv
<1>1. CASE Stays
  BY <1>1 DEF Stays, Judged, Rows, Mark
<1>2. CASE Starts
  <2>1. at = 1 /\ results = <<>> /\ file.by = "earlier"
    BY <1>2 DEF Starts, PlaceInv
  <2>2. QED
    BY <1>2, <2>1 DEF Starts, Judged
<1>3. CASE GivesUp
  BY <1>3 DEF GivesUp, Judged, Rows, Mark
<1>4. CASE Conclude
  BY <1>4 DEF Conclude, Judged, Rows, Mark, stepVars, outcomeVars, fileVars
<1>5. CASE GoesOn \/ SelectPath \/ WriteReport
  <2>1. /\ UNCHANGED <<mode, results, file>>
        /\ \/ at' = at
           \/ /\ at' = at + 1 /\ mode \in Scripts /\ at <= Len(Script)
              /\ Step.do \notin {"csv", "row", "judge_crc", "judge_timeout"}
    BY <1>5 DEF GoesOn, SelectPath, WriteReport, Advance, Raise, Ready, stepVars, outcomeVars
  <2>2. CASE at' = at
    BY <2>1, <2>2 DEF Judged, Rows, Mark
  <2>3. CASE at' = at + 1 /\ mode = "--fault-injection-comm"
    <3>1. at \notin {3, 10, 17}
      BY <1>0, <2>1, <2>3, WhereFiles
    <3>2. Judged' = Judged
      BY <1>0, <2>3, <3>1 DEF Judged
    <3>3. QED
      BY <1>0, <2>1, <2>3, <3>1, <3>2 DEF Mark
  <2>4. CASE at' = at + 1 /\ mode = "--monitor"
    <3>1. at # 4 /\ (at > 4 => (at - 4) % 3 # 2)
      BY <1>0, <2>1, <2>4, WhereFiles
    <3>2. at > 4 => Rows' = Rows
      BY SMTT(30), <1>0, <2>4, <3>1 DEF Rows
    <3>3. QED
      BY <1>0, <2>1, <2>4, <3>1, <3>2
  <2>5. CASE mode \notin {"--fault-injection-comm", "--monitor"}
    BY <2>1, <2>5
  <2>6. QED
    BY <2>1, <2>2, <2>3, <2>4, <2>5
<1>6. CASE OpenCsv
  <2>1. /\ UNCHANGED <<mode, results>> /\ file' = [by |-> "this", rows |-> <<>>]
        /\ at' = at + 1 /\ mode \in Scripts /\ at <= Len(Script) /\ Step.do = "csv"
    BY <1>6 DEF OpenCsv, Advance, Ready, outcomeVars
  <2>2. CASE mode = "--fault-injection-comm" /\ at = 3
    <3>1. Judged = 0 /\ Judged' = 0
      BY <2>1, <2>2 DEF Judged
    <3>2. [i \in 1..Len(results') |-> Mark(results'[i])] = <<>>
      BY <2>1, <2>2, <3>1
    <3>3. QED
      BY <2>1, <2>2, <3>1, <3>2
  <2>3. CASE mode = "--monitor" /\ at = 4
    <3>1. Rows' = 0
      BY <2>1, <2>3 DEF Rows
    <3>2. [i \in 1..Rows' |-> "SAMPLE"] = <<>>
      BY <3>1
    <3>3. file' = [by |-> "this", rows |-> [i \in 1..Rows' |-> "SAMPLE"]]
      BY <2>1, <3>2
    <3>4. QED
      BY <2>1, <2>3, <3>3
  <2>4. QED
    BY <1>0, <2>1, <2>2, <2>3, WhereFiles
<1>7. CASE WriteRow
  <2>1. /\ UNCHANGED <<mode, results>>
        /\ file' = [file EXCEPT !.rows = Append(file.rows, "SAMPLE")]
        /\ at' = at + 1 /\ mode \in Scripts /\ at <= Len(Script) /\ Step.do = "row"
    BY <1>7 DEF WriteRow, Advance, Ready, outcomeVars
  <2>2. mode = "--monitor" /\ at > 4 /\ (at - 4) % 3 = 2
    BY <1>0, <2>1, WhereFiles
  <2>3. Rows \in Nat /\ Rows' = Rows + 1
    <3>1. \A d \in Nat : d \div 3 \in Nat /\ (d % 3 = 2 => (d + 1) \div 3 = (d \div 3) + 1)
      OBVIOUS
    <3>2. at - 4 \in Nat /\ at' - 4 = (at - 4) + 1
      BY <1>0, <2>1, <2>2
    <3>3. QED
      BY <2>2, <3>1, <3>2 DEF Rows
  <2>4. Append([i \in 1..Rows |-> "SAMPLE"], "SAMPLE") = [i \in 1..(Rows + 1) |-> "SAMPLE"]
    BY <2>3
  <2>5. file = [by |-> "this", rows |-> [i \in 1..Rows |-> "SAMPLE"]]
    BY <2>2
  <2>6. file' = [by |-> "this", rows |-> [i \in 1..Rows' |-> "SAMPLE"]]
    BY <2>1, <2>3, <2>4, <2>5
  <2>7. at' \in Nat /\ at' > 4 /\ mode = "--monitor" /\ mode' = mode /\ results' = results
    BY <1>0, <2>1, <2>2
  <2>8. QED
    BY <2>6, <2>7
<1>8. CASE Judge
  <2>1. PICK r \in [passed : BOOLEAN, seen : BOOLEAN] :
          /\ results' = Append(results, r)
          /\ file' = [file EXCEPT !.rows = Append(file.rows, Mark(r))]
    <3> DEFINE passed == Incremented(Injected) /\ recovered
               seen == readings[2].total[Injected] > readings[1].total[Injected]
               r == [passed |-> passed, seen |-> seen]
    <3>1. results' = Append(results, r)
      BY <1>8 DEF Judge
    <3>2. file' = [file EXCEPT !.rows = Append(file.rows, Mark(r))]
      BY <1>8 DEF Judge, Mark
    <3>3. r \in [passed : BOOLEAN, seen : BOOLEAN]
      OBVIOUS
    <3>4. QED
      BY <3>1, <3>2, <3>3
  <2>2. /\ UNCHANGED mode
        /\ at' = at + 1 /\ mode \in Scripts /\ at <= Len(Script)
        /\ Step.do \in {"judge_crc", "judge_timeout"}
    BY <1>8 DEF Judge, Advance, Ready
  <2>3. mode = "--fault-injection-comm" /\ at \in {10, 17}
    BY <1>0, <2>2, WhereFiles
  <2>4. Len(results') = Len(results) + 1 /\ results' \in Seq([passed : BOOLEAN, seen : BOOLEAN])
    BY <2>1
  <2>5. Len(results') = Judged'
    BY <2>2, <2>3, <2>4 DEF Judged
  <2>6. [i \in 1..Len(results') |-> Mark(results'[i])]
          = Append([i \in 1..Len(results) |-> Mark(results[i])], Mark(r))
    BY <2>1, <2>4
  <2>7. file' = [by |-> "this", rows |-> [i \in 1..Len(results') |-> Mark(results'[i])]]
    <3>1. file = [by |-> "this", rows |-> [i \in 1..Len(results) |-> Mark(results[i])]]
      BY <2>3
    <3>2. file' = [by |-> "this", rows |-> Append(file.rows, Mark(r))]
      BY <2>1, <3>1
    <3>3. QED
      BY <2>6, <3>1, <3>2
  <2>8. mode' = "--fault-injection-comm" /\ ~(at' <= 3)
    BY <2>2, <2>3
  <2>9. mode' # "--monitor" /\ mode' \in {"--fault-injection-comm", "--monitor"}
    BY <2>8
  <2> HIDE DEF FileInv
  <2>10. QED
    BY <2>4, <2>5, <2>7, <2>8, <2>9, Zenon DEF FileInv
<1>9. QED
  BY Moves, <1>1, <1>2, <1>3, <1>4, <1>5, <1>6, <1>7, <1>8

(* The CSV file of a campaign that came to a verdict tells it, whatever an  *)
(* earlier campaign left in it and wherever this one failed                 *)
(* (CsvLogger.open() and the verdicts of run_monitor() and                  *)
(* run_fault_injection_comm(), supervisor/main.py).                         *)
THEOREM FilesAreTrue == Spec => []FileTellsVerdict
<1>1. Init => PlaceInv /\ VerdictInv /\ FileInv
  <2>1. CampaignsInit /\ "none" \notin Scripts => PlaceInv /\ VerdictInv
    BY DEF CampaignsInit, PlaceInv, VerdictInv
  <2>2. CampaignsInit => FileInv
    BY DEF CampaignsInit, FileInv
  <2>3. QED
    BY <2>1, <2>2, CampaignsAssumption DEF Init, Modes
<1>2. PlaceInv /\ VerdictInv /\ FileInv /\ [Next]_vars => (PlaceInv /\ VerdictInv /\ FileInv)'
  BY PlaceStep, VerdictStep, FileStep
<1>3. PlaceInv /\ VerdictInv /\ FileInv => FileTellsVerdict
  <2> SUFFICES ASSUME PlaceInv, VerdictInv, FileInv, file.by = "this", verdict \in {"pass", "fail"}
               PROVE  verdict = "pass"
                        <=> file.rows = IF mode = "--monitor" THEN [i \in 1..Samples |-> "SAMPLE"]
                                                              ELSE <<"PASS", "PASS">>
    BY DEF FileTellsVerdict
  <2>1. mode \in Scripts /\ at \in Nat \ {0}
    BY DEF PlaceInv
  <2>2. CASE mode = "--monitor"
    <3>1. at > 4 /\ file.rows = [i \in 1..Rows |-> "SAMPLE"]
      <4>1. at > 4
        BY <2>1, <2>2 DEF FileInv
      <4>2. file = [by |-> "this", rows |-> [i \in 1..Rows |-> "SAMPLE"]]
        BY <2>2, <4>1 DEF FileInv
      <4>3. QED
        BY <4>1, <4>2
    <3>2. Len(Script) = 3 * Samples + 3 /\ Samples \in Nat
      BY <2>2, MonitorScript, CampaignsAssumption
    <3>3. verdict = "pass" <=> at = Len(Script) + 1
      BY <2>2, <2>1, <3>2 DEF VerdictInv, Passed
    <3>4. Rows \in Nat /\ (at = Len(Script) + 1 <=> Rows = Samples)
      <4>1. at <= Len(Script) + 1
        BY <2>2, <2>1, <3>2 DEF VerdictInv
      <4>2. QED
        BY <2>1, <3>1, <3>2, <4>1 DEF Rows
    <3>5. [i \in 1..Rows |-> "SAMPLE"] = [i \in 1..Samples |-> "SAMPLE"] <=> Rows = Samples
      <4>1. \A n, m \in Nat : 1..n = 1..m => n = m
        <5>1. ASSUME NEW n \in Nat, NEW m \in Nat, 1..n = 1..m, n < m
              PROVE  FALSE
          <6>1. m \in 1..m /\ m \notin 1..n
            BY <5>1
          <6>2. QED
            BY <5>1, <6>1
        <5>2. QED
          BY <5>1
      <4>2. ASSUME [i \in 1..Rows |-> "SAMPLE"] = [i \in 1..Samples |-> "SAMPLE"]
            PROVE  1..Rows = 1..Samples
        <5>1. DOMAIN [i \in 1..Rows |-> "SAMPLE"] = 1..Rows
          OBVIOUS
        <5>2. DOMAIN [i \in 1..Samples |-> "SAMPLE"] = 1..Samples
          OBVIOUS
        <5>3. QED
          BY <4>2, <5>1, <5>2
      <4>3. QED
        BY <3>2, <3>4, <4>1, <4>2
    <3>6. QED
      BY <2>2, <3>1, <3>3, <3>4, <3>5
  <2>3. CASE mode = "--fault-injection-comm"
    <3>1. /\ at > 3 /\ Len(results) = Judged
          /\ file.rows = [i \in 1..Len(results) |-> Mark(results[i])]
          /\ results \in Seq([passed : BOOLEAN, seen : BOOLEAN])
      BY <2>1, <2>3 DEF FileInv
    <3>2. Len(Script) = 17
      BY <2>3, FaultScript
    <3>3. DOMAIN results = 1..Judged
      BY <3>1
    <3>4. CASE at <= 17
      <4>1. verdict = "fail" /\ Len(file.rows) = Judged /\ Judged < 2
        BY <2>1, <3>1, <3>2, <3>4 DEF VerdictInv, Judged
      <4>2. Len(<<"PASS", "PASS">>) = 2
        OBVIOUS
      <4>3. QED
        BY SMTT(30), <2>3, <4>1, <4>2
    <3>5. CASE at > 17
      <4>1. at = 18 /\ (verdict = "pass" <=> Passed)
        BY <2>1, <3>2, <3>5 DEF VerdictInv
      <4>2. Judged = 2
        BY <4>1 DEF Judged
      <4>3. Passed <=> results[1].passed /\ results[2].passed
        BY <2>3, <3>3, <4>2 DEF Passed
      <4>4. file.rows = [i \in 1..2 |-> Mark(results[i])]
        BY <3>1, <4>2
      <4>5. file.rows = <<Mark(results[1]), Mark(results[2])>>
        BY <4>4
      <4>6. QED
        BY <2>3, <4>1, <4>3, <4>5 DEF Mark
    <3>6. QED
      BY <2>1, <3>4, <3>5
  <2>4. QED
    BY <2>2, <2>3 DEF FileInv
<1>4. QED
  BY <1>1, <1>2, <1>3, PTL DEF Spec

\* A free name is found if there is one.
LEMMA FirstFree ==
  ASSUME Free # {}
  PROVE  (CHOOSE p \in Free : \A q \in Free : p <= q) \in 1..Names
<1>1. Free \subseteq Nat /\ Free \subseteq 1..Names
  BY DEF Free
<1> DEFINE Less == {ss \in Nat \X Nat : ss[1] < ss[2]}
<1>2. IsWellFoundedOn(Less, Nat)
  BY NatLessThanWellFounded DEF OpToRel
<1> HIDE DEF Less
<1>3. PICK p \in Free : \A q \in Free : <<q, p>> \notin Less
  BY <1>1, <1>2, WFMin
<1>4. ASSUME NEW q \in Free
      PROVE  p <= q
  <2>1. p \in Nat /\ q \in Nat /\ <<q, p>> \in Nat \X Nat
    BY <1>1
  <2>2. ~(<<q, p>>[1] < <<q, p>>[2])
    BY <1>3, <2>1 DEF Less
  <2>3. QED
    BY <2>1, <2>2
<1>5. QED
  BY <1>1, <1>4

LEMMA OwnReportStep ==
  ASSUME PlaceInv, ReportsInv, OwnReportInv, [Next]_vars
  PROVE  OwnReportInv'
<1> USE DEF OwnReportInv
<1>0. at \in Nat \ {0}
  BY DEF PlaceInv
<1>1. ASSUME UNCHANGED <<mode, at, chosen>>
      PROVE  OwnReportInv'
  BY <1>0, <1>1, ReportsStep
<1>2. CASE Stays \/ GivesUp \/ Conclude
  BY <1>1, <1>2 DEF Stays, GivesUp, Conclude, stepVars, fileVars
<1>3. CASE Starts
  BY <1>3 DEF Starts, PlaceInv
<1>4. CASE GoesOn
  <2>1. mode = "--validation-profile" => at \notin {12, 13}
    BY <1>0, <1>4, WhereFiles DEF GoesOn
  <2>2. mode = "--validation-profile" => at <= 13
    <3>1. mode = "--validation-profile" => Len(Script) = 13
      BY ProfileScript
    <3>2. QED
      BY <1>4, <3>1 DEF GoesOn
  <2>3. QED
    BY <1>0, <1>4, <2>1, <2>2 DEF GoesOn
<1>5. CASE OpenCsv \/ WriteRow \/ Judge
  BY <1>0, <1>5, WhereFiles DEF OpenCsv, WriteRow, Judge, Ready, Advance
<1>6. CASE SelectPath
  <2>1. CASE Free = {}
    BY <1>1, <1>6, <2>1 DEF SelectPath, Raise, stepVars
  <2>2. CASE Free # {}
    <3>1. mode' = mode /\ at' = at + 1 /\ chosen' \in 1..Names
      BY <1>6, <2>2, FirstFree DEF SelectPath, Advance
    <3>2. mode = "--validation-profile" /\ at = 12
      BY <1>0, <1>6, WhereFiles DEF SelectPath, Ready
    <3>3. QED
      BY <3>1, <3>2
  <2>3. QED
    BY <2>1, <2>2
<1>7. CASE WriteReport
  <2>1. CASE reports[chosen] = "none"
    <3>1. mode = "--validation-profile" /\ at = 13 /\ at' = 14 /\ chosen' = chosen
      BY <1>0, <1>7, <2>1, WhereFiles DEF WriteReport, Advance, Ready
    <3>2. reports' = [reports EXCEPT ![chosen] = "this"] /\ chosen \in 1..Names
      BY <1>7, <2>1, <3>1 DEF WriteReport
    <3>3. QED
      BY <3>1, <3>2 DEF ReportsInv
  <2>2. CASE reports[chosen] # "none"
    BY <1>1, <1>7, <2>2 DEF WriteReport, Raise, stepVars
  <2>3. QED
    BY <2>1, <2>2
<1>8. QED
  BY Moves, <1>2, <1>3, <1>4, <1>5, <1>6, <1>7

-----------------------------------------------------------------------------
(* What the two tests show.                                                 *)

Tests == {"--fault-injection-comm", "--watchdog-test"}

Says == [counters : [Error -> Nat], total : [Error -> Nat], marker : BOOLEAN]
Answer == [type : {"PONG", "COMM", "WATCHDOG", "RESET_CAUSE", "junk"}, seq : Nat, says : Says]

Now == [counters |-> counters, total |-> total, marker |-> marker]

CountInv == counters \in [Error -> Nat] /\ total \in [Error -> Nat]

LineInv ==
  mode \in Tests \cup {"none"} =>
    rx \in Seq(Answer) /\ late \in Seq(Answer) /\ readings \in Says \X Says

\* No timeout of the watchdog goes unnoticed once the port is open.
HitInv == mode = "--watchdog-test" /\ at > 1 /\ ~hit => ~wdif /\ (phase # "reset" => ~fired)

\* What one status says of the cell and what a later one does: a counter that is
\* higher in the second was incremented in between; a marker that is set in the
\* second only was set by a timeout in between.
Precedes(s, t) ==
  /\ \A e \in Error : /\ s.total[e] <= t.total[e]
                      /\ s.total[e] = t.total[e] => t.counters[e] <= s.counters[e]
  /\ mode = "--watchdog-test" /\ ~hit /\ ~s.marker => ~t.marker

SoFar(s) ==
  /\ Precedes(s, Now)
  /\ mode = "--watchdog-test" /\ ~hit /\ ~s.marker => magic = {}

\* The steps of the status requests that the verdict compares first.
FirstStatus == IF mode = "--watchdog-test" THEN 3 ELSE 4
SecondStatus == IF mode = "--watchdog-test" THEN 7 ELSE 8

\* The answer of the request at hand says what was so since the last status.
Fresh(f) ==
  /\ doing = "read"
  /\ SoFar(f.says)
  /\ at > FirstStatus => Precedes(readings[2], f.says)

\* Every answer under way belongs to a request that was made.
Answers(f) ==
  f = Junk \/ \E p \in 1..at :
    /\ p <= Len(Script) /\ Script[p].do \in {"ask", "ping"} /\ f.seq = Script[p].seq
    /\ p = at => Fresh(f)

\* An answer on the line, in time or late.
Known(f) == (\E j \in 1..Len(rx) : f = rx[j]) \/ (\E j \in 1..Len(late) : f = late[j])

StatusInv ==
  mode \in Tests =>
    /\ at > FirstStatus => SoFar(readings[2])
    /\ at > SecondStatus => Precedes(readings[1], readings[2])
    /\ \A f \in Answer : Known(f) => Answers(f)

EarnedInv == \A i \in 1..Len(results) : results[i].passed => results[i].seen

\* The errors of the cell are counted up, or forgotten by a reset.
LEMMA CountMoves ==
  ASSUME [Next]_vars
  PROVE  \/ UNCHANGED <<counters, total>>
         \/ counters' = Zero /\ UNCHANGED total
         \/ \E e \in Error : Counted(e)
<1>1. CASE CellSteps \/ Tick
  BY <1>1 DEF CellSteps, Tick, Expire, CommFollows, commVars, Error
<1>2. CASE ScriptSteps
  <2>1. CASE Open \/ Nap \/ ListenForNothing
    BY <2>1 DEF Open, Nap, ListenForNothing, Expire, CommFollows, commVars, Error
  <2>2. CASE Write
    BY <2>2 DEF Write, Obeys, Swallows, Loses, commVars, Error
  <2>3. CASE ~(Open \/ Nap \/ ListenForNothing \/ Write)
    BY <1>2, <2>3 DEF ScriptSteps, Check, FallAsleep, WakeUp, Receive, TimeOut, OpenCsv, WriteRow,
       Capacity, Judge, SelectPath, WriteReport, Conclude, commVars
  <2>4. QED
    BY <2>1, <2>2, <2>3
<1>3. CASE World
  BY <1>3 DEF World, Main, Disturb, LateAnswer, OtherReport, StepFails, Kill, CommFollows,
     commVars, Error
<1>4. CASE ~Campaign(CampaignsNext)
  BY <1>4 DEF Next, StartDashboard, RunDashboard, Exited, vars, campaignVars, commVars
<1>5. QED
  BY <1>1, <1>2, <1>3, <1>4 DEF Campaign, CampaignsNext

LEMMA CountStep ==
  ASSUME CountInv, [Next]_vars
  PROVE  /\ CountInv'
         /\ \A e \in Error : /\ total[e] <= total'[e]
                             /\ total[e] = total'[e] => counters'[e] <= counters[e]
<1> USE DEF CountInv
<1>1. CASE UNCHANGED <<counters, total>>
  BY <1>1
<1>2. CASE counters' = Zero /\ UNCHANGED total
  BY <1>2 DEF Zero
<1>3. ASSUME NEW e \in Error, Counted(e)
      PROVE  CountInv' /\ \A d \in Error : /\ total[d] <= total'[d]
                                           /\ total[d] = total'[d] => counters'[d] <= counters[d]
  <2>1. Up(counters[e]) \in Nat
    BY DEF Up
  <2>2. /\ counters' = [counters EXCEPT ![e] = Up(counters[e])]
        /\ total' = [total EXCEPT ![e] = total[e] + 1]
    BY <1>3 DEF Counted
  <2>3. QED
    BY <2>1, <2>2
<1>4. QED
  BY CountMoves, <1>1, <1>2, <1>3

\* The place of a script changes with its next step, or with the beginning of a
\* wait or a read.
LEMMA PlaceMoves ==
  ASSUME PlaceInv, [Next]_vars, mode \in Tests, mode \in Scripts
  PROVE  /\ mode' = mode
         /\ \/ UNCHANGED <<at, doing>>
            \/ at' = at + 1
            \/ at' = at /\ doing = "step"
<1>1. "none" # mode
  BY DEF Tests
<1>2. CASE CellSteps \/ Tick \/ UNCHANGED campaignVars
  BY <1>2 DEF CellSteps, Tick, campaignVars, stepVars
<1>3. CASE World
  BY <1>1, <1>3 DEF World, Main, Disturb, LateAnswer, OtherReport, StepFails, Kill, Raise, stepVars
<1>4. CASE ScriptSteps
  <2>1. CASE Advance
    BY <2>1 DEF Advance
  <2>2. CASE Raise
    BY <2>2 DEF Raise, stepVars
  <2>3. CASE FallAsleep \/ Write \/ Conclude
    BY <2>3 DEF FallAsleep, Write, Conclude, Ready, Advance, stepVars
  <2>4. QED
    BY <1>4, <2>1, <2>2, <2>3 DEF ScriptSteps, Open, Check, WakeUp, Nap, ListenForNothing,
       Receive, Takes, Fails, TimeOut, OpenCsv, WriteRow, Capacity, Judge, SelectPath, WriteReport
<1>5. QED
  BY <1>1, <1>2, <1>3, <1>4 DEF Next, Campaign, CampaignsNext, StartDashboard, RunDashboard,
     Exited, vars

\* Only the opening of the port, the first step of the watchdog test, clears the
\* history of timeouts.
LEMMA HitMoves ==
  ASSUME PlaceInv, [Next]_vars, mode \in Scripts, mode = "--watchdog-test"
  PROVE  \/ hit => hit'
         \/ at = 1 /\ at' = 2 /\ Restart /\ hit' = FALSE
         \/ at = 1 /\ at' = 2 /\ UNCHANGED cellVars /\ hit' = (fired \/ wdif)
<1>1. CASE Open
  <2>1. Len(Script) = 8
    BY WatchdogScript
  <2>2. at \in 1..8 /\ Step.do = "open"
    BY <1>1, <2>1 DEF Open, Ready, PlaceInv
  <2>3. at = 1
    BY <2>2, WatchdogScript DEF Step, Do, Ask, Send, RecoveryPing
  <2>4. QED
    BY <1>1, <2>3 DEF Open, Advance
<1>2. CASE Tick
  BY <1>2 DEF Tick
<1>3. CASE ~Open /\ ~Tick
  BY <1>3 DEF Next, Campaign, CampaignsNext, CellSteps, ScriptSteps, Check, FallAsleep, WakeUp,
     Nap, ListenForNothing, Write, Receive, TimeOut, OpenCsv, WriteRow, Capacity, Judge,
     SelectPath, WriteReport, Conclude, World, Main, Disturb, LateAnswer, OtherReport, StepFails,
     Kill, StartDashboard, RunDashboard, Exited, vars, campaignVars, historyVars
<1>4. QED
  BY <1>1, <1>2, <1>3

\* A timeout of the watchdog in a test is noticed.
LEMMA TimeoutIsHit ==
  ASSUME PlaceInv, [Next]_vars, mode = "--watchdog-test", mode \in Scripts, FirstTimeout, ~wdif
  PROVE  hit' \/ UNCHANGED cellVars
<1>1. wdif'
  BY DEF FirstTimeout
<1>2. CASE Tick
  BY <1>1, <1>2 DEF Tick
<1>3. CASE ~Tick
  BY <1>1, <1>3 DEF Next, Campaign, CampaignsNext, CellSteps, ScriptSteps, Open, Check,
     FallAsleep, WakeUp,
     Nap, ListenForNothing, Write, Receive, TimeOut, OpenCsv, WriteRow, Capacity, Judge,
     SelectPath, WriteReport, Conclude, World, Main, Disturb, LateAnswer, OtherReport, StepFails,
     Kill, StartDashboard, RunDashboard, Exited, vars, campaignVars, cellVars,
     Capture, Enable, Kick, Isr, Restart, Obeys, Block
<1>4. QED
  BY <1>2, <1>3

LEMMA FirstIsOpen ==
  ASSUME PlaceInv, [Next]_vars, mode = "--watchdog-test", mode \in Scripts, at = 1, at' = 2
  PROVE  Open
<1>1. Step.do = "open"
  BY WatchdogScript DEF Step, Do
<1>2. CASE ScriptSteps
  <2>1. ~(Check \/ Nap \/ ListenForNothing \/ OpenCsv \/ WriteRow \/ Capacity \/ Judge
          \/ SelectPath \/ WriteReport)
    BY <1>1 DEF Check, Nap, ListenForNothing, OpenCsv, WriteRow, Capacity, Judge, SelectPath,
       WriteReport, Ready
  <2>2. ~(WakeUp \/ Receive \/ TimeOut \/ Write)
    BY <1>1 DEF WakeUp, Receive, TimeOut, Write, Ready, PlaceInv
  <2>3. ~(FallAsleep \/ Conclude)
    BY DEF FallAsleep, Conclude, stepVars
  <2>4. QED
    BY <1>2, <2>1, <2>2, <2>3 DEF ScriptSteps
<1>3. CASE ~ScriptSteps
  BY <1>3 DEF Next, Campaign, CampaignsNext, CellSteps, Tick, World, Main, Disturb, LateAnswer,
     OtherReport, StepFails, Kill, Raise, StartDashboard, RunDashboard, Exited, vars, campaignVars,
     stepVars
<1>4. QED
  BY <1>2, <1>3

LEMMA HitStep ==
  ASSUME PlaceInv, MarkerInv, HitInv, [Next]_vars
  PROVE  HitInv'
<1> SUFFICES ASSUME mode' = "--watchdog-test", at' > 1, ~hit'
             PROVE  ~wdif' /\ (phase' # "reset" => ~fired')
  BY DEF HitInv
<1>0. at \in Nat \ {0}
  BY DEF PlaceInv
<1>1. mode = "--watchdog-test" /\ mode \in Scripts
  BY Moves, <1>0, CampaignsAssumption DEF PlaceInv, Stays, Starts, GivesUp, GoesOn, OpenCsv,
     WriteRow, Judge, SelectPath, WriteReport, Conclude, Advance, Raise, stepVars, Modes
<1>2. CASE at = 1
  <2>1. at' = 2
    BY <1>0, <1>1, <1>2, PlaceMoves DEF Tests
  <2>2. Open
    BY <1>1, <1>2, <2>1, FirstIsOpen
  <2>3. CASE Restart /\ CommFollows /\ fit' = TRUE /\ hit' = FALSE
    BY <2>3 DEF Restart
  <2>4. CASE UNCHANGED cellVars /\ hit' = (fired \/ wdif)
    BY <2>4 DEF cellVars
  <2>5. QED
    BY <2>2, <2>3, <2>4 DEF Open
<1>3. CASE at > 1
  <2>1. ~hit
    <3>1. at # 1
      BY <1>0, <1>3
    <3>2. hit => hit'
      BY <1>1, <3>1, HitMoves
    <3>3. QED
      BY <3>2
  <2>2. ~wdif /\ (phase # "reset" => ~fired)
    BY <1>1, <1>3, <2>1 DEF HitInv
  <2>3. CASE FirstTimeout
    BY <1>1, <2>2, <2>3, TimeoutIsHit DEF cellVars
  <2>4. CASE Capture \/ Enable \/ Isr \/ Kick
    BY <2>2, <2>4 DEF Capture, Enable, Isr, Kick
  <2>5. CASE Restart
    BY <2>5 DEF Restart
  <2>6. CASE Lag \/ Block \/ UNCHANGED cellVars
    BY <2>2, <2>6 DEF Lag, Block, cellVars
  <2>7. CASE Pass
    BY <2>2, <2>7 DEF Pass
  <2>8. QED
    BY <1>1, <2>3, <2>4, <2>5, <2>6, <2>7, CellMoves
<1>4. QED
  BY <1>0, <1>2, <1>3

LEMMA FaultRequests ==
  ASSUME mode = "--fault-injection-comm"
  PROVE  /\ \A p \in {4, 8, 11, 15} : Script[p].do = "ask" /\ Script[p].kind = "COMM"
         /\ \A p \in {9, 16} : Script[p].do = "ping" /\ Script[p].kind = "PING"
         /\ \A p \in {6, 13} : Script[p].do = "send" /\ Script[p].kind \in {"BAD_CRC", "PARTIAL"}
         /\ \A p \in {1, 2, 3, 5, 7, 10, 12, 14, 17} : Script[p].do \notin {"ask", "ping", "send"}
         /\ Script[4].seq = \h50 /\ Script[8].seq = \h52 /\ Script[9].seq = \h53
         /\ Script[11].seq = \h60 /\ Script[15].seq = \h61 /\ Script[16].seq = \h62
<1>1. /\ \A p \in {4, 8, 11, 15} : Script[p].do = "ask" /\ Script[p].kind = "COMM"
      /\ Script[4].seq = \h50 /\ Script[8].seq = \h52
      /\ Script[11].seq = \h60 /\ Script[15].seq = \h61
  BY FaultScript DEF Ask
<1>2. /\ \A p \in {9, 16} : Script[p].do = "ping" /\ Script[p].kind = "PING"
      /\ Script[9].seq = \h53 /\ Script[16].seq = \h62
  BY FaultScript DEF RecoveryPing
<1>3. \A p \in {6, 13} : Script[p].do = "send" /\ Script[p].kind \in {"BAD_CRC", "PARTIAL"}
  BY FaultScript DEF Send
<1>4. \A p \in {1, 2, 3, 5, 7, 10, 12, 14, 17} : Script[p].do \notin {"ask", "ping", "send"}
  BY FaultScript DEF Do
<1>5. QED
  BY <1>1, <1>2, <1>3, <1>4

LEMMA FaultNumbers ==
  ASSUME mode = "--fault-injection-comm",
         NEW p \in {4, 8, 9, 11, 15, 16}, NEW q \in {4, 8, 9, 11, 15, 16},
         Script[p].seq = Script[q].seq
  PROVE  p = q
<1>1. /\ Script[4].seq = \h50 /\ Script[8].seq = \h52 /\ Script[9].seq = \h53
      /\ Script[11].seq = \h60 /\ Script[15].seq = \h61 /\ Script[16].seq = \h62
  BY FaultRequests
<1>2. QED
  BY <1>1

\* The requests of the two tests.
LEMMA TestSteps ==
  ASSUME mode \in Tests, NEW p \in Nat \ {0}, p <= Len(Script)
  PROVE  /\ Script[p].do \in {"ask", "ping"} =>
              /\ Script[p].kind \in {"PING", "COMM", "WATCHDOG", "RESET_CAUSE"}
              /\ Script[p].seq \in Nat
         /\ Script[p].do = "send" => Script[p].kind \in {"BLOCK", "BAD_CRC", "PARTIAL"}
         /\ p \in {FirstStatus, SecondStatus} =>
              Script[p].do = "ask" /\ Script[p].kind \in {"COMM", "WATCHDOG"}
<1>1. CASE mode = "--watchdog-test"
  <2>1. Len(Script) = 8
    BY <1>1, WatchdogScript
  <2>2. p \in 1..8
    BY <2>1
  <2>3. QED
    BY <1>1, <2>2, WatchdogScript DEF Do, Ask, Send, RecoveryPing, FirstStatus, SecondStatus
<1>2. CASE mode = "--fault-injection-comm"
  <2>1. Len(Script) = 17
    BY <1>2, FaultScript
  <2>2. p \in 1..17
    BY <2>1
  <2>3. FirstStatus = 4 /\ SecondStatus = 8
    BY <1>2 DEF FirstStatus, SecondStatus
  <2>4. CASE p \in {4, 8, 11, 15}
    <3>1. Script[p].do = "ask" /\ Script[p].kind = "COMM"
      BY <1>2, <2>4, FaultRequests
    <3>2. Script[4].seq = \h50 /\ Script[8].seq = \h52 /\ Script[11].seq = \h60 /\ Script[15].seq = \h61
      BY <1>2, FaultRequests
    <3>3. Script[p].seq \in Nat
      BY <2>4, <3>2
    <3>4. QED
      BY <3>1, <3>3
  <2>5. CASE p \in {9, 16}
    <3>1. Script[p].do = "ping" /\ Script[p].kind = "PING"
      BY <1>2, <2>5, FaultRequests
    <3>2. Script[p].seq \in {\h53, \h62}
      BY <1>2, <2>5, FaultRequests
    <3>3. QED
      BY <2>3, <2>5, <3>1, <3>2
  <2>6. CASE p \in {6, 13}
    <3>1. Script[p].do = "send" /\ Script[p].kind \in {"BAD_CRC", "PARTIAL"}
      BY <1>2, <2>6, FaultRequests
    <3>2. QED
      BY <2>3, <2>6, <3>1
  <2>7. CASE p \in {1, 2, 3, 5, 7, 10, 12, 14, 17}
    <3>1. \A r \in {1, 2, 3, 5, 7, 10, 12, 14, 17} : Script[r].do \notin {"ask", "ping", "send"}
      BY ZenonT(60), <1>2, FaultRequests
    <3>2. Script[p].do \notin {"ask", "ping", "send"}
      BY ZenonT(60), <2>7, <3>1
    <3>3. QED
      BY <2>3, <2>7, <3>2
  <2>8. QED
    BY <2>2, <2>4, <2>5, <2>6, <2>7
<1>3. QED
  BY <1>1, <1>2 DEF Tests

LEMMA OneRequestPerNumber ==
  ASSUME mode \in Tests, NEW p \in Nat \ {0}, p <= Len(Script), NEW q \in Nat \ {0}, q <= Len(Script),
         Script[p].do \in {"ask", "ping"}, Script[q].do \in {"ask", "ping"},
         Script[p].seq = Script[q].seq
  PROVE  p = q
<1>1. CASE mode = "--watchdog-test"
  <2>1. Len(Script) = 8
    BY <1>1, WatchdogScript
  <2>2. p \in 1..8 /\ q \in 1..8
    BY <2>1
  <2>3. p \in {3, 6, 7, 8}
    BY <1>1, <2>2, WatchdogScript DEF Do, Send
  <2>4. q \in {3, 6, 7, 8}
    BY <1>1, <2>2, WatchdogScript DEF Do, Send
  <2>5. QED
    BY <1>1, <2>3, <2>4, WatchdogScript DEF Ask, RecoveryPing
<1>2. CASE mode = "--fault-injection-comm"
  <2>1. Len(Script) = 17
    BY <1>2, FaultScript
  <2>2. p \in 1..17 /\ q \in 1..17
    BY <2>1
  <2>3. p \in {4, 8, 9, 11, 15, 16}
    <3>1. p \in {4, 8, 9, 11, 15, 16} \/ p \in {6, 13} \/ p \in {1, 2, 3, 5, 7, 10, 12, 14, 17}
      BY <2>2
    <3>2. p \notin {6, 13}
      BY <1>2, FaultRequests
    <3>3. p \notin {1, 2, 3, 5, 7, 10, 12, 14, 17}
      <4>1. \A r \in {1, 2, 3, 5, 7, 10, 12, 14, 17} : Script[r].do \notin {"ask", "ping", "send"}
        BY ZenonT(60), <1>2, FaultRequests
      <4>2. QED
        BY ZenonT(60), <4>1
    <3>4. QED
      BY <3>1, <3>2, <3>3
  <2>4. q \in {4, 8, 9, 11, 15, 16}
    <3>1. q \in {4, 8, 9, 11, 15, 16} \/ q \in {6, 13} \/ q \in {1, 2, 3, 5, 7, 10, 12, 14, 17}
      BY <2>2
    <3>2. q \notin {6, 13}
      BY <1>2, FaultRequests
    <3>3. q \notin {1, 2, 3, 5, 7, 10, 12, 14, 17}
      <4>1. \A r \in {1, 2, 3, 5, 7, 10, 12, 14, 17} : Script[r].do \notin {"ask", "ping", "send"}
        BY ZenonT(60), <1>2, FaultRequests
      <4>2. QED
        BY ZenonT(60), <4>1
    <3>4. QED
      BY <3>1, <3>2, <3>3
  <2>5. QED
    BY <1>2, <2>3, <2>4, FaultNumbers
<1>3. QED
  BY <1>1, <1>2 DEF Tests

\* An answer on the line was there before, or is the cell's answer to the request
\* being written, or damaged.
Given(f) ==
  /\ f = Reply /\ phase = "run" /\ at <= Len(Script) /\ Step.do \in {"ask", "ping"}
  /\ at' = at /\ doing' = "read"
  /\ UNCHANGED <<mode, cellVars, counters, total, readings, hit>>

LEMMA LineMoves ==
  ASSUME PlaceInv, MarkerInv, CountInv, LineInv, [Next]_vars, mode \in Tests, mode \in Scripts
  PROVE  /\ rx' \in Seq(Answer) /\ late' \in Seq(Answer)
         /\ \A i \in 1..Len(rx') : Known(rx'[i]) \/ rx'[i] = Junk \/ Given(rx'[i])
         /\ \A i \in 1..Len(late') : Known(late'[i]) \/ late'[i] = Junk \/ Given(late'[i])
<1>0. rx \in Seq(Answer) /\ late \in Seq(Answer) /\ readings \in Says \X Says
  BY DEF LineInv
<1>1. CASE UNCHANGED lineVars
  BY <1>0, <1>1 DEF lineVars, Known
<1>2. CASE Receive
  <2>1. rx # <<>> /\ rx' = Tail(rx) /\ late' = late
    BY <1>2 DEF Receive
  <2>2. \A i \in 1..Len(Tail(rx)) : Tail(rx)[i] = rx[i + 1] /\ i + 1 \in 1..Len(rx)
    BY <1>0, <2>1
  <2>3. QED
    BY <1>0, <2>1, <2>2 DEF Known
<1>3. CASE LateAnswer
  <2>1. late # <<>> /\ rx' = Append(rx, Head(late)) /\ late' = Tail(late)
    BY <1>3 DEF LateAnswer
  <2>2. \A i \in 1..Len(Tail(late)) : Tail(late)[i] = late[i + 1] /\ i + 1 \in 1..Len(late)
    BY <1>0, <2>1
  <2>3. Head(late) = late[1] /\ 1 \in 1..Len(late) /\ Head(late) \in Answer
    BY <1>0, <2>1
  <2>4. \A i \in 1..Len(rx') : (i \in 1..Len(rx) /\ rx'[i] = rx[i]) \/ rx'[i] = Head(late)
    BY <1>0, <2>1, <2>3
  <2>5. rx' \in Seq(Answer) /\ late' \in Seq(Answer)
    BY <1>0, <2>1, <2>3
  <2>6. QED
    BY <2>1, <2>2, <2>3, <2>4, <2>5 DEF Known
<1>4. CASE Write
  <2>1. at \in Nat \ {0} /\ at <= Len(Script) /\ Step.do \in {"ask", "ping", "send"}
    BY <1>4 DEF Write, Ready, PlaceInv
  <2>2. Junk \in Answer
    BY DEF Junk, Answer, Says, Nothing, Zero
  <2>3. Step.do \in {"ask", "ping"} => Reply \in Answer
    <3>1. ASSUME Step.do \in {"ask", "ping"}
          PROVE  Reply \in Answer
      <4>1. ReplyType(Step.kind) \in {"PONG", "COMM", "WATCHDOG", "RESET_CAUSE"} /\ Step.seq \in Nat
        BY <2>1, <3>1, TestSteps DEF Step, ReplyType
      <4>2. [counters |-> counters, total |-> total, marker |-> marker] \in Says
        BY DEF Says, CountInv, MarkerInv
      <4>3. QED
        BY <4>1, <4>2 DEF Reply, Answer
    <3>2. QED
      BY <3>1
  <2>4. Step.do = "send" => Step.kind \in {"BLOCK", "BAD_CRC", "PARTIAL"}
    BY <2>1, TestSteps DEF Step
  <2>5. Step.do \in {"ask", "ping"} =>
          /\ Step.kind \notin {"BLOCK", "BAD_CRC", "PARTIAL"}
          /\ at' = at /\ doing' = "read" /\ mode' = mode
    BY <1>4, <2>1, TestSteps DEF Step, Write
  <2>6. UNCHANGED <<readings, hit>>
    BY <1>4 DEF Write, outcomeVars, historyVars
  <2>7. \/ UNCHANGED <<rx, late>>
        \/ rx' = Append(rx, Junk) /\ late' = late
        \/ /\ phase = "run" /\ Step.do \in {"ask", "ping"} /\ UNCHANGED <<cellVars, counters, total>>
           /\ \/ rx' = Append(rx, Reply) /\ late' = late
              \/ late' = Append(late, Reply) /\ rx' = rx
    BY <1>4, <2>1, <2>4, <2>5 DEF Write, Obeys, Loses, lineVars, commVars
  <2>8. CASE UNCHANGED <<rx, late>>
    BY <1>1, <2>8 DEF lineVars
  <2>9. ASSUME NEW s \in Seq(Answer), NEW f \in Answer
        PROVE  /\ Append(s, f) \in Seq(Answer)
               /\ \A i \in 1..Len(Append(s, f)) :
                    (i \in 1..Len(s) /\ Append(s, f)[i] = s[i]) \/ Append(s, f)[i] = f
    OBVIOUS
  <2>10. CASE rx' = Append(rx, Junk) /\ late' = late
    BY <1>0, <2>2, <2>9, <2>10 DEF Known
  <2>11. CASE /\ phase = "run" /\ Step.do \in {"ask", "ping"} /\ UNCHANGED <<cellVars, counters, total>>
              /\ rx' = Append(rx, Reply) /\ late' = late
    <3>1. Given(Reply)
      BY <2>1, <2>5, <2>6, <2>11 DEF Given
    <3>2. QED
      BY <1>0, <2>3, <2>9, <2>11, <3>1 DEF Known
  <2>12. CASE /\ phase = "run" /\ Step.do \in {"ask", "ping"} /\ UNCHANGED <<cellVars, counters, total>>
              /\ late' = Append(late, Reply) /\ rx' = rx
    <3>1. Given(Reply)
      BY <2>1, <2>5, <2>6, <2>12 DEF Given
    <3>2. QED
      BY <1>0, <2>3, <2>9, <2>12, <3>1 DEF Known
  <2>13. QED
    BY <2>7, <2>8, <2>10, <2>11, <2>12
<1>5. CASE ~(Receive \/ LateAnswer \/ Write) /\ ~UNCHANGED lineVars
  BY <1>5 DEF Next, Campaign, CampaignsNext, CellSteps, Tick, ScriptSteps, Open, Check,
     FallAsleep, WakeUp, Nap, ListenForNothing, TimeOut, OpenCsv, WriteRow, Capacity, Judge,
     SelectPath, WriteReport, Conclude, World, Main, Disturb, OtherReport, StepFails,
     Kill, StartDashboard, RunDashboard, Exited, vars, campaignVars
<1>6. QED
  BY <1>1, <1>2, <1>3, <1>4, <1>5

LEMMA SoFarStep ==
  ASSUME PlaceInv, MarkerInv, CountInv, HitInv, [Next]_vars, mode \in Tests, mode \in Scripts,
         at > 1, NEW s \in Says, SoFar(s)
  PROVE  SoFar(s)'
<1>0. at \in Nat \ {0} /\ mode' = mode
  BY PlaceMoves DEF PlaceInv
<1>1. \A e \in Error : /\ s.total[e] <= total'[e]
                       /\ s.total[e] = total'[e] => counters'[e] <= s.counters[e]
  <2>1. \A e \in Error : /\ s.total[e] <= total[e]
                         /\ s.total[e] = total[e] => counters[e] <= s.counters[e]
    BY DEF SoFar, Precedes, Now
  <2>2. \A e \in Error : /\ s.total[e] \in Nat /\ s.counters[e] \in Nat
                         /\ total[e] \in Nat /\ counters[e] \in Nat
                         /\ total'[e] \in Nat /\ counters'[e] \in Nat
    BY CountStep DEF Says, CountInv
  <2>3. QED
    BY <2>1, <2>2, CountStep
<1>2. ASSUME mode = "--watchdog-test", ~hit', ~s.marker
      PROVE  ~marker' /\ magic' = {}
  <2>1. ~hit
    <3>1. at # 1
      BY <1>0
    <3>2. hit => hit'
      BY <1>2, <3>1, HitMoves
    <3>3. QED
      BY <1>2, <3>2
  <2>2. ~marker /\ magic = {} /\ ~wdif
    BY <1>2, <2>1 DEF SoFar, Precedes, Now, HitInv
  <2>3. Magic # {}
    BY DEF Magic
  <2>4. CASE Capture
    BY <2>2, <2>3, <2>4 DEF Capture
  <2>5. CASE Enable \/ Kick \/ Isr \/ Restart \/ Lag \/ Block \/ FirstTimeout
    BY <2>2, <2>5 DEF Enable, Kick, Isr, Restart, Lag, Block, FirstTimeout
  <2>6. CASE Pass
    BY <2>2, <2>6 DEF Pass
  <2>7. CASE UNCHANGED cellVars
    BY <2>2, <2>7 DEF cellVars
  <2>8. QED
    BY <1>2, <2>4, <2>5, <2>6, <2>7, CellMoves
<1>3. QED
  BY <1>0, <1>1, <1>2 DEF SoFar, Precedes, Now

LEMMA PrecedesStep ==
  ASSUME PlaceInv, [Next]_vars, mode \in Tests, mode \in Scripts, at > 1,
         NEW s \in Says, NEW t \in Says, Precedes(s, t)
  PROVE  Precedes(s, t)'
<1>1. at \in Nat \ {0} /\ mode' = mode
  BY PlaceMoves DEF PlaceInv
<1>2. mode = "--watchdog-test" => (hit => hit')
  <2>1. at # 1
    BY <1>1
  <2>2. QED
    BY <2>1, HitMoves
<1>3. QED
  BY <1>1, <1>2 DEF Precedes

\* The readings change with a status that is received, at the steps that ask
\* for one.
LEMMA ReadingMoves ==
  ASSUME PlaceInv, [Next]_vars, mode \in Tests, mode \in Scripts
  PROVE  \/ UNCHANGED <<readings, at>>
         \/ UNCHANGED readings /\ at' = at + 1 /\ at \notin {FirstStatus, SecondStatus}
         \/ /\ rx # <<>> /\ Expected(Head(rx)) /\ doing = "read"
            /\ readings' = <<readings[2], Head(rx).says>>
            /\ at' = at + 1 /\ UNCHANGED <<cellVars, counters, total, mode, hit>>
<1>0. at \in Nat \ {0}
  BY DEF PlaceInv
<1>1. CASE Receive
  <2>1. at <= Len(Script) /\ Step.do \in {"ask", "ping"} /\ doing = "read" /\ rx # <<>>
    BY <1>1 DEF Receive, PlaceInv
  <2>2. CASE ~Expected(Head(rx))
    <3>1. CASE Step.do = "ping"
      <4>1. at \notin {FirstStatus, SecondStatus}
        BY <1>0, <2>1, <3>1, TestSteps DEF Step
      <4>2. UNCHANGED readings /\ (at' = at \/ at' = at + 1)
        BY <1>1, <2>2, <3>1 DEF Receive, Fails, Raise, Advance, stepVars
      <4>3. QED
        BY <4>1, <4>2
    <3>2. CASE Step.do # "ping"
      BY <1>1, <2>2, <3>2 DEF Receive, Fails, Raise, stepVars, outcomeVars
    <3>3. QED
      BY <3>1, <3>2
  <2>3. CASE Expected(Head(rx))
    <3>1. CASE Step.kind \in {"COMM", "WATCHDOG"}
      BY <1>1, <2>1, <2>3, <3>1 DEF Receive, Takes, Advance, commVars, historyVars
    <3>2. CASE Step.kind \notin {"COMM", "WATCHDOG"}
      <4>1. at \notin {FirstStatus, SecondStatus}
        BY <1>0, <2>1, <3>2, TestSteps DEF Step
      <4>2. QED
        BY <1>1, <2>3, <3>2, <4>1 DEF Receive, Takes, Advance
    <3>3. QED
      BY <3>1, <3>2
  <2>4. QED
    BY <2>2, <2>3
<1>2. CASE TimeOut
  <2>1. at <= Len(Script) /\ Step.do \in {"ask", "ping"}
    BY <1>2 DEF TimeOut, PlaceInv
  <2>2. CASE Step.do = "ping"
    <3>1. at \notin {FirstStatus, SecondStatus}
      BY <1>0, <2>1, <2>2, TestSteps DEF Step
    <3>2. UNCHANGED readings /\ (at' = at \/ at' = at + 1)
      BY <1>2, <2>2 DEF TimeOut, Fails, Raise, Advance, stepVars
    <3>3. QED
      BY <3>1, <3>2
  <2>3. CASE Step.do # "ping"
    BY <1>2, <2>3 DEF TimeOut, Fails, Raise, stepVars, outcomeVars
  <2>4. QED
    BY <2>2, <2>3
<1>3. CASE ~Receive /\ ~TimeOut
  <2>1. UNCHANGED readings
    BY <1>3 DEF Next, Campaign, CampaignsNext, CellSteps, Tick, ScriptSteps, Open, Check,
       FallAsleep, WakeUp, Nap, ListenForNothing, Write, OpenCsv, WriteRow, Capacity, Judge,
       SelectPath, WriteReport, Conclude, World, Main, Disturb, LateAnswer, OtherReport, StepFails,
       Kill, StartDashboard, RunDashboard, Exited, vars, campaignVars, outcomeVars
  <2>2. CASE at' = at
    BY <2>1, <2>2
  <2>3. CASE at' = at + 1
    <3>1. CASE at \in {FirstStatus, SecondStatus} /\ at <= Len(Script)
      <4>1. Step.do = "ask"
        BY <1>0, <3>1, TestSteps DEF Step
      <4>2. ~(Open \/ Check \/ Nap \/ ListenForNothing \/ OpenCsv \/ WriteRow \/ Capacity \/ Judge
              \/ SelectPath \/ WriteReport)
        BY <4>1 DEF Open, Check, Nap, ListenForNothing, OpenCsv, WriteRow, Capacity, Judge,
           SelectPath, WriteReport, Ready
      <4>3. ~(WakeUp \/ Write \/ FallAsleep \/ Conclude)
        BY <1>0, <2>3, <4>1 DEF WakeUp, Write, FallAsleep, Conclude, PlaceInv, stepVars
      <4>4. ~ScriptSteps
        BY <1>3, <4>2, <4>3 DEF ScriptSteps
      <4>5. at' = at
        BY <4>4 DEF Next, Campaign, CampaignsNext, CellSteps, Tick, World, Main, Disturb,
           LateAnswer, OtherReport, StepFails, Kill, Raise, StartDashboard, RunDashboard, Exited,
           vars, campaignVars, stepVars
      <4>6. QED
        BY <1>0, <2>3, <4>5
    <3>2. CASE ~(at <= Len(Script))
      <4>1. ~Conclude
        BY <1>0, <2>3 DEF Conclude, stepVars
      <4>2. ~(Stays \/ GivesUp \/ GoesOn)
        BY <1>0, <2>3, <3>2 DEF Stays, GivesUp, GoesOn
      <4>3. ~(Starts \/ OpenCsv \/ WriteRow \/ Judge \/ SelectPath \/ WriteReport)
        BY <3>2 DEF Starts, OpenCsv, WriteRow, Judge, SelectPath, WriteReport, Ready
      <4>4. QED
        BY <4>1, <4>2, <4>3, Moves
    <3>3. QED
      BY <2>1, <2>3, <3>1, <3>2
  <2>4. QED
    BY <2>2, <2>3, PlaceMoves
<1>4. QED
  BY <1>1, <1>2, <1>3

\* Nothing is asked before the port is open.
LEMMA FirstAsksNothing ==
  ASSUME mode \in Tests
  PROVE  Script[1].do \notin {"ask", "ping"}
BY WatchdogScript, FaultScript DEF Tests, Do

\* What is known of an answer under way stays known of it.
LEMMA AnswersStep ==
  ASSUME PlaceInv, MarkerInv, CountInv, HitInv, LineInv, [Next]_vars,
         mode \in Tests, mode \in Scripts, NEW f \in Answer, Answers(f)
  PROVE  Answers(f)'
<1> SUFFICES ASSUME f # Junk
             PROVE  Answers(f)'
  BY DEF Answers, Junk
<1>1. PICK p \in 1..at : /\ p <= Len(Script) /\ Script[p].do \in {"ask", "ping"}
                         /\ f.seq = Script[p].seq
                         /\ p = at => Fresh(f)
  BY DEF Answers
<1>2. at \in Nat \ {0} /\ p \in Nat \ {0} /\ p # 1 /\ at > 1
  BY <1>1, FirstAsksNothing DEF PlaceInv
<1>3. mode' = mode /\ Script' = Script
  BY PlaceMoves, SameScript
<1>4. ASSUME p \in 1..at', p = at' => Fresh(f)'
      PROVE  Answers(f)'
  BY <1>1, <1>3, <1>4 DEF Answers
<1>5. CASE at' = at + 1
  BY <1>2, <1>4, <1>5
<1>6. CASE at' = at /\ p # at
  BY <1>1, <1>4, <1>6
<1>7. CASE UNCHANGED <<at, doing>> /\ p = at
  <2>1. Fresh(f) /\ f.says \in Says
    BY <1>1, <1>7 DEF Answer
  <2>2. SoFar(f.says)'
    <3>1. SoFar(f.says)
      BY <2>1 DEF Fresh
    <3>2. QED
      BY <1>2, <2>1, <3>1, SoFarStep
  <2>3. ASSUME at > FirstStatus
        PROVE  Precedes(readings[2], f.says)'
    <3>1. readings[2] \in Says /\ readings' = readings
      BY <1>2, <1>7, ReadingMoves DEF LineInv
    <3>2. \A s \in Says : Precedes(s, f.says) => Precedes(s, f.says)'
      BY <1>2, <2>1, PrecedesStep
    <3>3. Precedes(readings[2], f.says)
      BY <2>1, <2>3 DEF Fresh
    <3>4. QED
      BY <3>1, <3>2, <3>3 DEF Precedes
  <2>4. FirstStatus' = FirstStatus
    BY <1>3 DEF FirstStatus
  <2>5. Fresh(f)'
    BY <1>7, <2>1, <2>2, <2>3, <2>4 DEF Fresh
  <2>6. QED
    BY <1>4, <1>1, <1>7, <2>5
<1>8. QED
  BY <1>1, <1>5, <1>6, <1>7, PlaceMoves DEF Fresh

\* The cell's answer tells the state of the run it was given in.
LEMMA GivenIsFresh ==
  ASSUME PlaceInv, MarkerInv, CountInv, HitInv, LineInv, StatusInv, [Next]_vars,
         mode \in Tests, mode \in Scripts, NEW f \in Answer, Given(f)
  PROVE  Answers(f)'
<1>1. /\ f.seq = Step.seq /\ f.says = Now /\ phase = "run" /\ at' = at /\ doing' = "read"
      /\ mode' = mode /\ at <= Len(Script) /\ Step.do \in {"ask", "ping"}
      /\ UNCHANGED <<counters, total, readings, hit>>
  BY DEF Given, Reply, Now
<1>2. UNCHANGED <<magic, marker>>
  BY DEF Given, cellVars
<1>3. at \in Nat \ {0} /\ at > 1
  <2>1. at \in Nat \ {0} /\ at # 1
    BY <1>1, FirstAsksNothing DEF PlaceInv, Step
  <2>2. QED
    BY <2>1
<1>4. Now \in Says
  BY DEF Now, Says, CountInv, MarkerInv
<1>5. SoFar(Now)
  <2>1. mode = "--watchdog-test" /\ ~hit => magic = {}
    BY <1>1, <1>3 DEF HitInv, MarkerInv
  <2>2. \A e \in Error : counters[e] <= counters[e] /\ total[e] <= total[e]
    BY DEF CountInv
  <2>3. QED
    BY <2>1, <2>2 DEF SoFar, Precedes, Now
<1>6. SoFar(f.says)'
  BY <1>1, <1>2, <1>5 DEF SoFar, Precedes, Now
<1>7. at > FirstStatus => Precedes(readings[2], f.says)'
  BY <1>1 DEF StatusInv, SoFar, Precedes
<1>8. FirstStatus' = FirstStatus /\ Script' = Script
  BY <1>1, SameScript DEF FirstStatus
<1>9. Fresh(f)'
  BY <1>1, <1>6, <1>7, <1>8 DEF Fresh
<1>10. QED
  BY <1>1, <1>3, <1>8, <1>9 DEF Answers, Step

\* The mode changes once, from none to that of the command line; the line is idle
\* until then.
LEMMA ModeMoves ==
  ASSUME PlaceInv, [Next]_vars
  PROVE  /\ mode' = mode \/ (mode = "none" /\ mode' \in Scripts \cup {"--dashboard"})
         /\ mode \notin Scripts => at' = 1 /\ rx' = <<>> /\ late' = <<>> /\ readings' = readings
<1>1. CASE CellSteps \/ Tick \/ UNCHANGED campaignVars
  BY <1>1 DEF CellSteps, Tick, campaignVars, stepVars, lineVars, outcomeVars, PlaceInv
<1>2. CASE World
  BY <1>2 DEF World, Main, Disturb, LateAnswer, OtherReport, StepFails, Kill, Raise, Ready,
     stepVars, lineVars, outcomeVars, PlaceInv
<1>3. CASE ScriptSteps
  <2>1. mode \in Scripts
    BY <1>3 DEF ScriptSteps, Open, Check, FallAsleep, WakeUp, Nap, ListenForNothing, Write,
       Receive, TimeOut, OpenCsv, WriteRow, Capacity, Judge, SelectPath, WriteReport, Conclude,
       Ready, PlaceInv
  <2>2. CASE Advance \/ Raise
    BY <2>1, <2>2 DEF Advance, Raise, stepVars
  <2>3. CASE FallAsleep \/ Write \/ Conclude
    BY <2>1, <2>3 DEF FallAsleep, Write, Conclude, Advance, stepVars
  <2>4. QED
    BY <1>3, <2>2, <2>3 DEF ScriptSteps, Open, Check, WakeUp, Nap, ListenForNothing,
       Receive, Takes, Fails, TimeOut, OpenCsv, WriteRow, Capacity, Judge, SelectPath, WriteReport
<1>4. CASE StartDashboard
  BY <1>4 DEF StartDashboard, lineVars, outcomeVars, PlaceInv
<1>5. QED
  BY <1>1, <1>2, <1>3, <1>4 DEF Next, Campaign, CampaignsNext, RunDashboard, Exited, vars

LEMMA LineStep ==
  ASSUME PlaceInv, MarkerInv, CountInv, LineInv, [Next]_vars
  PROVE  LineInv'
<1>1. CASE mode \notin Scripts
  <2>1. readings \in Says \X Says \/ mode = "--dashboard"
    BY <1>1 DEF LineInv, PlaceInv
  <2>2. mode = "--dashboard" => mode' = "--dashboard"
    BY ModeMoves
  <2>3. rx' = <<>> /\ late' = <<>> /\ readings' = readings
    BY <1>1, ModeMoves
  <2>4. <<>> \in Seq(Answer)
    OBVIOUS
  <2>5. CASE mode = "--dashboard"
    BY <2>2, <2>5 DEF LineInv, Tests
  <2>6. CASE readings \in Says \X Says
    BY <2>3, <2>4, <2>6 DEF LineInv
  <2>7. QED
    BY <2>1, <2>5, <2>6
<1>2. CASE mode \in Scripts /\ mode \notin Tests
  <2>1. mode' = mode /\ mode # "none"
    BY <1>2, ModeMoves, CampaignsAssumption DEF Modes
  <2>2. QED
    BY <1>2, <2>1 DEF LineInv
<1>3. CASE mode \in Scripts /\ mode \in Tests
  <2>1. rx' \in Seq(Answer) /\ late' \in Seq(Answer)
    BY <1>3, LineMoves
  <2>2. rx \in Seq(Answer) /\ readings \in Says \X Says
    BY <1>3 DEF LineInv
  <2>3. rx # <<>> => Head(rx).says \in Says
    <3>1. rx # <<>> => Head(rx) \in Answer
      BY <2>2
    <3>2. QED
      BY <3>1 DEF Answer
  <2>4. readings' \in Says \X Says
    BY <1>3, <2>2, <2>3, ReadingMoves
  <2>5. QED
    BY <2>1, <2>4 DEF LineInv
<1>4. QED
  BY <1>1, <1>2, <1>3

\* The answer that a request takes is its own.
LEMMA TakenIsFresh ==
  ASSUME PlaceInv, LineInv, StatusInv, mode \in Tests, mode \in Scripts, doing = "read",
         rx # <<>>, Expected(Head(rx))
  PROVE  Head(rx) \in Answer /\ Fresh(Head(rx))
<1>1. Head(rx) \in Answer /\ Known(Head(rx))
  <2>1. rx \in Seq(Answer) /\ rx # <<>>
    BY DEF LineInv
  <2>2. Head(rx) = rx[1] /\ 1 \in 1..Len(rx) /\ Head(rx) \in Answer
    BY <2>1
  <2>3. QED
    BY <2>2 DEF Known
<1>2. Answers(Head(rx)) /\ Head(rx) # Junk
  BY <1>1 DEF StatusInv, Expected, Decodes
<1>3. PICK p \in 1..at : /\ p <= Len(Script) /\ Script[p].do \in {"ask", "ping"}
                         /\ Head(rx).seq = Script[p].seq
                         /\ p = at => Fresh(Head(rx))
  BY <1>2 DEF Answers
<1>4. /\ at \in Nat \ {0} /\ at <= Len(Script) /\ Script[at].do \in {"ask", "ping"}
      /\ Head(rx).seq = Script[at].seq
  BY DEF PlaceInv, Expected, Step
<1>5. p = at
  <2>1. p \in Nat \ {0}
    BY <1>3, <1>4
  <2>2. Script[p].seq = Script[at].seq
    BY <1>3, <1>4
  <2>3. QED
    BY <1>3, <1>4, <2>1, <2>2, OneRequestPerNumber
<1>6. QED
  BY <1>1, <1>3, <1>5

LEMMA StatusStep ==
  ASSUME PlaceInv, MarkerInv, CountInv, HitInv, LineInv, StatusInv, [Next]_vars
  PROVE  StatusInv'
<1> SUFFICES ASSUME mode' \in Tests
             PROVE  StatusInv'
  BY DEF StatusInv
<1>1. CASE mode \notin Scripts
  <2>1. at' = 1 /\ rx' = <<>> /\ late' = <<>>
    BY <1>1, ModeMoves
  <2>2. \A f \in Answer : ~Known(f)'
    BY <2>1 DEF Known
  <2>3. ~(at > FirstStatus)' /\ ~(at > SecondStatus)'
    BY <2>1 DEF FirstStatus, SecondStatus
  <2>4. QED
    BY <2>2, <2>3 DEF StatusInv
<1>2. CASE mode \in Scripts
  <2>1. mode \in Tests /\ mode' = mode
    BY <1>2, ModeMoves, CampaignsAssumption DEF Modes
  <2>2. /\ at \in Nat \ {0} /\ FirstStatus' = FirstStatus /\ SecondStatus' = SecondStatus
        /\ FirstStatus \in Nat /\ SecondStatus \in Nat /\ 1 < FirstStatus
        /\ FirstStatus < SecondStatus
    BY <2>1 DEF PlaceInv, FirstStatus, SecondStatus
  <2>3. readings \in Says \X Says /\ readings[1] \in Says /\ readings[2] \in Says
    BY <2>1 DEF LineInv
  <2>4. ASSUME NEW s \in Says, at > FirstStatus, SoFar(s)
        PROVE  SoFar(s)'
    BY <1>2, <2>1, <2>2, <2>4, SoFarStep
  <2>5. ASSUME NEW s \in Says, NEW t \in Says, at > FirstStatus, Precedes(s, t)
        PROVE  Precedes(s, t)'
    BY <1>2, <2>1, <2>2, <2>5, PrecedesStep
  <2>6. /\ at' > FirstStatus => SoFar(readings[2])'
        /\ at' > SecondStatus => Precedes(readings[1], readings[2])'
    <3>1. CASE readings' = readings /\ (at' > FirstStatus => at > FirstStatus)
                 /\ (at' > SecondStatus => at > SecondStatus)
      <4>1. at > FirstStatus => SoFar(readings[2])
        BY <2>1 DEF StatusInv
      <4>2. at > SecondStatus => at > FirstStatus /\ Precedes(readings[1], readings[2])
        BY <2>1, <2>2 DEF StatusInv
      <4>3. at' > FirstStatus => SoFar(readings[2])'
        BY <2>3, <2>4, <3>1, <4>1 DEF SoFar, Precedes
      <4>4. at' > SecondStatus => Precedes(readings[1], readings[2])'
        BY <2>3, <2>5, <3>1, <4>2 DEF Precedes
      <4>5. QED
        BY <4>3, <4>4
    <3>2. CASE /\ rx # <<>> /\ Expected(Head(rx)) /\ doing = "read"
               /\ readings' = <<readings[2], Head(rx).says>>
               /\ at' = at + 1 /\ UNCHANGED <<cellVars, counters, total, mode, hit>>
      <4>1. Fresh(Head(rx))
        BY <1>2, <2>1, <3>2, TakenIsFresh
      <4>2. readings'[1] = readings[2] /\ readings'[2] = Head(rx).says
        BY <3>2
      <4>3. UNCHANGED <<marker, magic, counters, total, mode, hit>>
        BY <3>2 DEF cellVars
      <4>4. SoFar(readings[2])'
        BY <4>1, <4>2, <4>3 DEF Fresh, SoFar, Precedes, Now
      <4>5. at' > SecondStatus => Precedes(readings[1], readings[2])'
        <5>1. at' > SecondStatus => at > FirstStatus
          BY <2>2, <3>2
        <5>2. at > FirstStatus => Precedes(readings[2], Head(rx).says)
          BY <4>1 DEF Fresh
        <5>3. QED
          BY <4>2, <4>3, <5>1, <5>2 DEF Precedes
      <4>6. QED
        BY <4>4, <4>5
    <3>3. CASE UNCHANGED readings /\ at' = at + 1 /\ at \notin {FirstStatus, SecondStatus}
      BY <2>2, <3>1, <3>3
    <3>4. CASE UNCHANGED <<readings, at>>
      BY <3>1, <3>4
    <3>5. QED
      BY <1>2, <2>1, <3>2, <3>3, <3>4, ReadingMoves
  <2>7. ASSUME NEW f \in Answer, Known(f)'
        PROVE  Answers(f)'
    <3>1. Known(f) \/ f = Junk \/ Given(f)
      BY <1>2, <2>1, <2>7, LineMoves DEF Known
    <3>2. CASE Known(f)
      <4>1. Answers(f)
        BY <2>1, <3>2 DEF StatusInv
      <4>2. QED
        BY <1>2, <2>1, <4>1, AnswersStep
    <3>3. CASE f = Junk
      BY <3>3 DEF Answers, Junk
    <3>4. CASE Given(f)
      BY <1>2, <2>1, <3>4, GivenIsFresh
    <3>5. QED
      BY <3>1, <3>2, <3>3, <3>4
  <2>8. QED
    BY <2>2, <2>6, <2>7 DEF StatusInv
<1>3. QED
  BY <1>1, <1>2

LEMMA EarnedStep ==
  ASSUME PlaceInv, LineInv, StatusInv, FileInv, EarnedInv, [Next]_vars
  PROVE  EarnedInv'
<1>0. results \in Seq([passed : BOOLEAN, seen : BOOLEAN])
  BY DEF FileInv
<1>1. CASE UNCHANGED results
  BY <1>1 DEF EarnedInv
<1>2. CASE Judge
  <2>1. mode = "--fault-injection-comm" /\ mode \in Scripts /\ at \in {10, 17}
    BY <1>2, WhereFiles DEF Judge, Ready, PlaceInv
  <2>2. readings[1] \in Says /\ readings[2] \in Says
    BY <2>1 DEF LineInv, Tests
  <2>3. Precedes(readings[1], readings[2])
    <3>1. at > SecondStatus
      BY <2>1 DEF SecondStatus
    <3>2. QED
      BY <2>1, <3>1 DEF StatusInv, Tests
  <2>4. ASSUME NEW e \in Error, Incremented(e)
        PROVE  readings[2].total[e] > readings[1].total[e]
    <3>1. /\ readings[1].total[e] \in Nat /\ readings[2].total[e] \in Nat
          /\ readings[1].counters[e] \in Nat /\ readings[2].counters[e] \in Nat
      BY <2>2 DEF Says
    <3>2. readings[2].counters[e] > readings[1].counters[e]
      BY <2>4 DEF Incremented
    <3>3. QED
      BY <2>3, <3>1, <3>2 DEF Precedes
  <2>5. Injected \in Error
    BY DEF Injected, Error
  <2> DEFINE r == [passed |-> Incremented(Injected) /\ recovered,
                   seen |-> readings[2].total[Injected] > readings[1].total[Injected]]
  <2>6. results' = Append(results, r)
    BY <1>2 DEF Judge
  <2>7. r.passed => r.seen
    BY <2>4, <2>5
  <2> HIDE DEF r
  <2>8. /\ Len(Append(results, r)) = Len(results) + 1 /\ Len(results) \in Nat
        /\ Append(results, r)[Len(results) + 1] = r
        /\ \A i \in 1..Len(results) : Append(results, r)[i] = results[i]
    BY <1>0
  <2>9. \A i \in 1..(Len(results) + 1) : i \in 1..Len(results) \/ i = Len(results) + 1
    BY <2>8
  <2>10. QED
    BY <2>6, <2>7, <2>8, <2>9 DEF EarnedInv
<1>3. QED
  BY Moves, <1>1, <1>2 DEF Stays, Starts, GivesUp, GoesOn, OpenCsv, WriteRow, SelectPath,
     WriteReport, Conclude, outcomeVars

EvidenceInv ==
  /\ PlaceInv /\ VerdictInv /\ FileInv /\ ReportsInv /\ OwnReportInv
  /\ MarkerInv /\ CountInv /\ HitInv /\ LineInv /\ StatusInv /\ EarnedInv

(* A campaign that passes has seen what it was to show: each fault that is  *)
(* judged as passed was an error the cell met between the two readings,     *)
(* the watchdog test made the watchdog time out if the marker was clear     *)
(* before, and a validation left its own report (build_fault_result(),      *)
(* run_watchdog_test() and run_validation_profile(), supervisor/).          *)
THEOREM PassesAreEarned == Spec => []PassIsEarned
<1>1. Init => EvidenceInv
  <2> SUFFICES ASSUME Init
               PROVE  EvidenceInv
    OBVIOUS
  <2>1. "none" \notin Scripts /\ Saturated \in Nat
    BY CampaignsAssumption DEF Modes
  <2>2. mode = "none" /\ at = 1 /\ verdict = "none" /\ doing = "step" /\ rx = <<>> /\ late = <<>>
        /\ results = <<>> /\ file.by = "earlier"
    BY DEF Init, CampaignsInit
  <2>3. PlaceInv /\ VerdictInv /\ FileInv /\ OwnReportInv /\ HitInv /\ EarnedInv
    BY <2>1, <2>2 DEF PlaceInv, VerdictInv, FileInv, OwnReportInv, HitInv, EarnedInv
  <2>4. StatusInv
    BY <2>2 DEF StatusInv, Tests
  <2>5. ReportsInv
    BY DEF Init, CampaignsInit, ReportsInv
  <2>6. MarkerInv
    BY DEF Init, CampaignsInit, CellInit, MarkerInv
  <2>7. CountInv
    BY <2>1 DEF Init, CampaignsInit, CountInv, Zero
  <2>8. LineInv
    <3>1. readings = <<Nothing, Nothing>>
      BY DEF Init, CampaignsInit
    <3>2. Nothing \in Says
      BY DEF Nothing, Says, Zero
    <3>3. rx \in Seq(Answer) /\ late \in Seq(Answer)
      BY <2>2
    <3>4. QED
      BY <3>1, <3>2, <3>3 DEF LineInv
  <2>9. QED
    BY <2>3, <2>4, <2>5, <2>6, <2>7, <2>8 DEF EvidenceInv
<1>2. EvidenceInv /\ [Next]_vars => EvidenceInv'
  BY PlaceStep, VerdictStep, FileStep, ReportsStep, OwnReportStep, MarkerStep, CountStep, HitStep,
     LineStep, StatusStep, EarnedStep DEF EvidenceInv
<1>3. EvidenceInv => PassIsEarned
  <2> SUFFICES ASSUME EvidenceInv
               PROVE  PassIsEarned
    OBVIOUS
  <2>1. \A i \in DOMAIN results : results[i].passed => results[i].seen
    <3>1. DOMAIN results = 1..Len(results)
      BY DEF EvidenceInv, FileInv
    <3>2. QED
      BY <3>1 DEF EvidenceInv, EarnedInv
  <2>2. ASSUME verdict = "pass", mode = "--watchdog-test", ~readings[1].marker
        PROVE  hit
    <3>1. at = 9 /\ readings[2].marker
      <4>1. at = Len(Script) + 1 /\ Passed
        BY <2>2 DEF EvidenceInv, VerdictInv
      <4>2. Len(Script) = 8
        BY <2>2, WatchdogScript
      <4>3. readings[2].marker
        BY <2>2, <4>1 DEF Passed, MarkerSeen
      <4>4. QED
        BY <4>1, <4>2, <4>3
    <3>2. Precedes(readings[1], readings[2])
      <4>1. at > SecondStatus
        BY <2>2, <3>1 DEF SecondStatus
      <4>2. QED
        BY <2>2, <4>1 DEF EvidenceInv, StatusInv, Tests
    <3>3. QED
      BY <2>2, <3>1, <3>2 DEF Precedes
  <2>3. ASSUME verdict = "pass", mode = "--validation-profile"
        PROVE  reports[chosen] = "this"
    <3>1. at = Len(Script) + 1
      BY <2>3 DEF EvidenceInv, VerdictInv
    <3>2. Len(Script) = 13
      BY <2>3, ProfileScript
    <3>3. at = 14
      BY <3>1, <3>2
    <3>4. QED
      BY <2>3, <3>3 DEF EvidenceInv, OwnReportInv
  <2>4. QED
    BY <2>1, <2>2, <2>3 DEF PassIsEarned
<1>4. QED
  BY <1>1, <1>2, <1>3, PTL DEF Spec
-----------------------------------------------------------------------------
(* The store of the dashboard: the newest changes of graph and log, in     *)
(* pairs.                                                                   *)

\* Two sets of numbers paired from the top down in their order, until one of
\* them is used up.
Paired(pairs, D, L) ==
  /\ pairs \subseteq D \X L
  /\ \A p, q \in pairs : p[1] < q[1] <=> p[2] < q[2]
  /\ \A p \in pairs, i \in D : i > p[1] => \E q \in pairs : q[1] = i
  /\ \A p \in pairs, i \in L : i > p[2] => \E q \in pairs : q[2] = i
  /\ \/ \A i \in D : \E p \in pairs : p[1] = i
     \/ \A i \in L : \E p \in pairs : p[2] = i

\* Numbers above the others make one more pair.
LEMMA OnePairMore ==
  ASSUME NEW D \in SUBSET Nat, NEW L \in SUBSET Nat, NEW pairs, Paired(pairs, D, L),
         NEW m \in Nat, NEW n \in Nat, \A i \in D : i < m, \A i \in L : i < n
  PROVE  Paired(pairs \cup {<<m, n>>}, D \cup {m}, L \cup {n})
<1> DEFINE all == pairs \cup {<<m, n>>}
<1>1. \A p \in pairs : p[1] \in D /\ p[2] \in L /\ p[1] < m /\ p[2] < n
  BY DEF Paired
<1>2. all \subseteq (D \cup {m}) \X (L \cup {n})
  BY DEF Paired
<1>3. PICK new : new = <<m, n>>
  OBVIOUS
<1>4. new[1] = m /\ new[2] = n /\ all = pairs \cup {new}
  BY <1>3
<1>5. /\ \A i \in D \cup {m} : i \in Nat /\ (i \in D \/ i = m)
      /\ \A i \in L \cup {n} : i \in Nat /\ (i \in L \/ i = n)
  OBVIOUS
<1>6. \A p \in all : p \in pairs \/ p = new
  BY <1>4
<1>7. \A p, q \in all : p[1] < q[1] <=> p[2] < q[2]
  <2> SUFFICES ASSUME NEW p \in all, NEW q \in all
               PROVE  p[1] < q[1] <=> p[2] < q[2]
    OBVIOUS
  <2>1. CASE p \in pairs /\ q \in pairs
    BY <2>1 DEF Paired
  <2>2. CASE p \in pairs /\ q = new
    BY <1>1, <1>4, <2>2
  <2>3. CASE p = new /\ q \in pairs
    <3>1. q[1] \in Nat /\ q[1] < m /\ q[2] \in Nat /\ q[2] < n
      BY <1>1, <2>3
    <3>2. ~(m < q[1]) /\ ~(n < q[2])
      BY <3>1
    <3>3. QED
      BY <1>4, <2>3, <3>2
  <2>4. CASE p = new /\ q = new
    BY <1>4, <2>4
  <2>5. QED
    BY <1>6, <2>1, <2>2, <2>3, <2>4
<1>8. \A p \in all, i \in D \cup {m} : i > p[1] => \E q \in all : q[1] = i
  <2> SUFFICES ASSUME NEW p \in all, NEW i \in D \cup {m}, i > p[1]
               PROVE  \E q \in all : q[1] = i
    OBVIOUS
  <2>1. CASE i = m
    BY <1>4, <2>1
  <2>2. CASE i \in D /\ p \in pairs
    BY <2>2 DEF Paired
  <2>3. i \in D => p # new
    BY <1>4
  <2>4. QED
    BY <1>5, <1>6, <2>1, <2>2, <2>3
<1>9. \A p \in all, i \in L \cup {n} : i > p[2] => \E q \in all : q[2] = i
  <2> SUFFICES ASSUME NEW p \in all, NEW i \in L \cup {n}, i > p[2]
               PROVE  \E q \in all : q[2] = i
    OBVIOUS
  <2>1. CASE i = n
    BY <1>4, <2>1
  <2>2. CASE i \in L /\ p \in pairs
    BY <2>2 DEF Paired
  <2>3. i \in L => p # new
    BY <1>4
  <2>4. QED
    BY <1>5, <1>6, <2>1, <2>2, <2>3
<1>10. \/ \A i \in D \cup {m} : \E p \in all : p[1] = i
       \/ \A i \in L \cup {n} : \E p \in all : p[2] = i
  <2>1. CASE \A i \in D : \E p \in pairs : p[1] = i
    BY <1>4, <1>5, <2>1
  <2>2. CASE \A i \in L : \E p \in pairs : p[2] = i
    BY <1>4, <1>5, <2>2
  <2>3. QED
    BY <2>1, <2>2 DEF Paired
<1>11. QED
  BY <1>2, <1>7, <1>8, <1>9, <1>10 DEF Paired

\* What is left of D when the numbers up to a + d go and the others move down by d.
Lowered(D2, D, a, d) ==
  /\ D2 \in SUBSET Nat
  /\ \A i \in Nat : i \in D2 <=> i > a /\ i + d \in D

\* The pairs that are left when both sets are lowered.
Remain(left, pairs, d, k) == \A q \in left : <<q[1] + d, q[2] + k>> \in pairs

LEMMA PairsLeft ==
  ASSUME NEW D \in SUBSET Nat, NEW L \in SUBSET Nat, NEW pairs, Paired(pairs, D, L),
         NEW a \in Nat, NEW b \in Nat, NEW d \in Nat, NEW k \in Nat,
         NEW D2, Lowered(D2, D, a, d), NEW L2, Lowered(L2, L, b, k)
  PROVE  \E left : Paired(left, D2, L2) /\ Remain(left, pairs, d, k)
<1> USE DEF Lowered
<1> DEFINE left == {q \in D2 \X L2 : <<q[1] + d, q[2] + k>> \in pairs}
<1>1. \A p \in pairs : p[1] \in D /\ p[2] \in L /\ p = <<p[1], p[2]>>
  BY DEF Paired
<1>2. \A x \in D, y \in L : x > a + d /\ y > b + k /\ <<x, y>> \in pairs
                              => <<x - d, y - k>> \in left
  <2> SUFFICES ASSUME NEW x \in D, NEW y \in L, x > a + d, y > b + k, <<x, y>> \in pairs
               PROVE  <<x - d, y - k>> \in left
    OBVIOUS
  <2>1. x - d \in Nat /\ y - k \in Nat /\ x - d > a /\ y - k > b
    OBVIOUS
  <2>2. (x - d) + d = x /\ (y - k) + k = y
    OBVIOUS
  <2>3. x - d \in D2 /\ y - k \in L2
    BY <2>1, <2>2
  <2>4. QED
    BY <2>2, <2>3
<1>3. \A q \in left : /\ q[1] \in Nat /\ q[1] > a /\ q[1] + d \in D
                      /\ q[2] \in Nat /\ q[2] > b /\ q[2] + k \in L
                      /\ <<q[1] + d, q[2] + k>> \in pairs
  OBVIOUS
<1>4. \A p, q \in left : p[1] < q[1] <=> p[2] < q[2]
  <2> SUFFICES ASSUME NEW p \in left, NEW q \in left
               PROVE  p[1] < q[1] <=> p[2] < q[2]
    OBVIOUS
  <2>1. p[1] + d < q[1] + d <=> p[2] + k < q[2] + k
    BY <1>3 DEF Paired
  <2>2. QED
    BY <1>3, <2>1
<1>5. \A p \in left, i \in D2 : i > p[1] => \E q \in left : q[1] = i
  <2> SUFFICES ASSUME NEW p \in left, NEW i \in D2, i > p[1]
               PROVE  \E q \in left : q[1] = i
    OBVIOUS
  <2>1. PICK r \in pairs : r[1] = i + d
    BY <1>3 DEF Paired
  <2>2. p[2] + k < r[2]
    BY <1>3, <2>1 DEF Paired
  <2>3. r[2] \in L /\ r[2] > b + k /\ r[1] \in D /\ r[1] > a + d /\ <<r[1], r[2]>> \in pairs
    BY <1>1, <1>3, <2>1, <2>2
  <2>4. <<r[1] - d, r[2] - k>> \in left
    BY <1>2, <2>3
  <2>5. r[1] - d = i
    BY <2>1
  <2>6. QED
    BY <2>4, <2>5
<1>6. \A p \in left, i \in L2 : i > p[2] => \E q \in left : q[2] = i
  <2> SUFFICES ASSUME NEW p \in left, NEW i \in L2, i > p[2]
               PROVE  \E q \in left : q[2] = i
    OBVIOUS
  <2>1. PICK r \in pairs : r[2] = i + k
    BY <1>3 DEF Paired
  <2>2. p[1] + d < r[1]
    BY <1>3, <2>1 DEF Paired
  <2>3. r[2] \in L /\ r[2] > b + k /\ r[1] \in D /\ r[1] > a + d /\ <<r[1], r[2]>> \in pairs
    BY <1>1, <1>3, <2>1, <2>2
  <2>4. <<r[1] - d, r[2] - k>> \in left
    BY <1>2, <2>3
  <2>5. r[2] - k = i
    BY <2>1
  <2>6. QED
    BY <2>4, <2>5
<1>7. ASSUME NEW r \in pairs, r[2] <= b + k, r[1] > a + d, NEW j \in L2
      PROVE  \E q \in left : q[2] = j
  <2>1. j + k \in L /\ j + k > r[2]
    BY <1>1, <1>7
  <2>2. PICK q \in pairs : q[2] = j + k
    BY <1>7, <2>1 DEF Paired
  <2>3. r[1] < q[1]
    BY <2>1, <2>2 DEF Paired
  <2>4. q[1] \in D /\ q[1] > a + d /\ q[2] \in L /\ q[2] > b + k /\ <<q[1], q[2]>> \in pairs
    BY <1>1, <1>7, <2>2, <2>3
  <2>5. <<q[1] - d, q[2] - k>> \in left
    BY <1>2, <2>4
  <2>6. q[2] - k = j
    BY <2>2
  <2>7. QED
    BY <2>5, <2>6
<1>8. ASSUME NEW r \in pairs, r[1] <= a + d, r[2] > b + k, NEW j \in D2
      PROVE  \E q \in left : q[1] = j
  <2>1. j + d \in D /\ j + d > r[1]
    BY <1>1, <1>8
  <2>2. PICK q \in pairs : q[1] = j + d
    BY <1>8, <2>1 DEF Paired
  <2>3. r[2] < q[2]
    BY <2>1, <2>2 DEF Paired
  <2>4. q[1] \in D /\ q[1] > a + d /\ q[2] \in L /\ q[2] > b + k /\ <<q[1], q[2]>> \in pairs
    BY <1>1, <1>8, <2>2, <2>3
  <2>5. <<q[1] - d, q[2] - k>> \in left
    BY <1>2, <2>4
  <2>6. q[1] - d = j
    BY <2>2
  <2>7. QED
    BY <2>5, <2>6
<1>9. \/ \A i \in D2 : \E p \in left : p[1] = i
      \/ \A i \in L2 : \E p \in left : p[2] = i
  <2>1. CASE \A i \in D : \E p \in pairs : p[1] = i
    <3> SUFFICES ASSUME NEW i \in D2, ~\E p \in left : p[1] = i
                 PROVE  \A j \in L2 : \E p \in left : p[2] = j
      OBVIOUS
    <3>1. i + d \in D /\ i + d > a + d
      OBVIOUS
    <3>2. PICK r \in pairs : r[1] = i + d
      BY <2>1, <3>1
    <3>3. r[1] \in D /\ r[2] \in L /\ <<r[1], r[2]>> \in pairs
      BY <1>1
    <3>4. ~(r[2] > b + k)
      <4> SUFFICES ASSUME r[2] > b + k
                   PROVE  FALSE
        OBVIOUS
      <4>1. <<r[1] - d, r[2] - k>> \in left
        BY <1>2, <3>1, <3>2, <3>3
      <4>2. r[1] - d = i
        BY <3>2
      <4>3. QED
        BY <4>1, <4>2
    <3>5. r[2] <= b + k
      BY <3>3, <3>4
    <3>6. QED
      BY <1>7, <3>1, <3>2, <3>5
  <2>2. CASE \A i \in L : \E p \in pairs : p[2] = i
    <3> SUFFICES ASSUME NEW i \in L2, ~\E p \in left : p[2] = i
                 PROVE  \A j \in D2 : \E p \in left : p[1] = j
      OBVIOUS
    <3>1. i + k \in L /\ i + k > b + k
      OBVIOUS
    <3>2. PICK r \in pairs : r[2] = i + k
      BY <2>2, <3>1
    <3>3. r[1] \in D /\ r[2] \in L /\ <<r[1], r[2]>> \in pairs
      BY <1>1
    <3>4. ~(r[1] > a + d)
      <4> SUFFICES ASSUME r[1] > a + d
                   PROVE  FALSE
        OBVIOUS
      <4>1. <<r[1] - d, r[2] - k>> \in left
        BY <1>2, <3>1, <3>2, <3>3
      <4>2. r[2] - k = i
        BY <3>2
      <4>3. QED
        BY <4>1, <4>2
    <3>5. r[1] <= a + d
      BY <3>3, <3>4
    <3>6. QED
      BY <1>8, <3>1, <3>2, <3>5
  <2>3. QED
    BY <2>1, <2>2 DEF Paired
<1>10. left \subseteq D2 \X L2
  OBVIOUS
<1>11. Paired(left, D2, L2)
  BY <1>4, <1>5, <1>6, <1>9, <1>10 DEF Paired
<1>12. Remain(left, pairs, d, k)
  BY DEF Remain
<1> HIDE DEF left
<1>13. QED
  BY <1>11, <1>12
-----------------------------------------------------------------------------
(* The store of the dashboard.                                              *)

Connections == {"CONNECTED", "DEGRADED", "DISCONNECTED"}
Counts == Values \cup {Never}
Entry ==
  [kind : {"Connected", "Recovered", "Degraded", "Disconnected", "changed"},
   from : Counts, to : Counts]

\* t is the end of s after its first d entries.
TailFrom(t, s, d) ==
  /\ Len(t) = Len(s) - d /\ DOMAIN t = 1..(Len(s) - d)
  /\ \A i \in 1..(Len(s) - d) : t[i] = s[i + d]

\* What a bounded sequence keeps.
LEMMA NewestIsTheEnd ==
  ASSUME NEW S, NEW s \in Seq(S), NEW n \in Nat \ {0}
  PROVE  /\ Newest(s, n) \in Seq(S)
         /\ \E d \in 0..Len(s) : TailFrom(Newest(s, n), s, d) /\ (s # <<>> => d < Len(s))
<1> DEFINE d == IF Len(s) > n THEN Len(s) - n ELSE 0
<1>1. Newest(s, n) = SubSeq(s, d + 1, Len(s))
  BY DEF Newest
<1>2. d \in 0..Len(s) /\ (s # <<>> => d < Len(s))
  OBVIOUS
<1> HIDE DEF d
<1>3. SubSeq(s, d + 1, Len(s)) \in Seq(S)
  BY <1>2
<1>4. TailFrom(SubSeq(s, d + 1, Len(s)), s, d)
  BY <1>2 DEF TailFrom
<1>5. QED
  BY <1>1, <1>2, <1>3, <1>4

LEMMA AppendOne ==
  ASSUME NEW S, NEW s \in Seq(S), NEW e \in S
  PROVE  /\ Append(s, e) \in Seq(S) /\ Len(Append(s, e)) = Len(s) + 1
         /\ DOMAIN Append(s, e) = 1..(Len(s) + 1)
         /\ \A i \in 1..Len(s) : Append(s, e)[i] = s[i]
         /\ Append(s, e)[Len(s) + 1] = e
OBVIOUS

LEMMA UpToTwo ==
  ASSUME NEW S, NEW s \in Seq(S), NEW e \in S, NEW f \in S
  PROVE  /\ s \o <<>> = s /\ s \o <<e>> = Append(s, e)
         /\ s \o (<<>> \o <<>>) = s /\ s \o (<<e>> \o <<>>) = Append(s, e)
         /\ s \o (<<>> \o <<f>>) = Append(s, f)
         /\ s \o (<<e>> \o <<f>>) = Append(Append(s, e), f)
OBVIOUS

LEMMA OneByOne ==
  ASSUME NEW s \in Seq(Entry), NEW t \in Seq(Entry), NEW u \in Seq(Entry)
  PROVE  s \o (t \o u) = (s \o t) \o u
OBVIOUS

LEMMA NothingAdded ==
  ASSUME NEW s \in Seq(Entry)
  PROVE  s \o <<>> = s
OBVIOUS

\* Blanks and v aside, every entry has a v after it, so v is the newest.
Settles(s, blank, v) ==
  \A i \in DOMAIN s : s[i] \notin {blank, v} => \E k \in DOMAIN s : i < k /\ s[k] = v

LEMMA SettledEnd ==
  ASSUME NEW s, NEW n \in Nat, DOMAIN s = 1..n, NEW blank, NEW v, v # blank,
         Settles(s, blank, v)
  PROVE  EndsIn(s, blank, v)
BY DEF Settles, EndsIn

\* What the log tells of the connection, c, and of the counter, n.
Tells(log, c, n) ==
  /\ Settles(Told(log), "nothing", c) /\ Varies(Told(log), "nothing")
  /\ Settles(Tally(log), Never, n)

LEMMA EntriesTell ==
  ASSUME NEW log \in Seq(Entry)
  PROVE  /\ DOMAIN log = 1..Len(log) /\ Len(log) \in Nat
         /\ DOMAIN Told(log) = 1..Len(log) /\ DOMAIN Tally(log) = 1..Len(log)
         /\ \A i \in 1..Len(log) :
              /\ log[i] \in Entry
              /\ Told(log)[i] = Explains(log[i].kind)
              /\ Tally(log)[i] = IF log[i].kind = "changed" THEN log[i].to ELSE Never
BY DEF Told, Tally

\* One event more.
LEMMA OneMoreTold ==
  ASSUME NEW log \in Seq(Entry), NEW e \in Entry
  PROVE  LET m == Len(log)
             new == Append(log, e)
         IN
         /\ m \in Nat /\ new \in Seq(Entry)
         /\ DOMAIN Told(log) = 1..m /\ DOMAIN Tally(log) = 1..m
         /\ DOMAIN Told(new) = 1..(m + 1) /\ DOMAIN Tally(new) = 1..(m + 1)
         /\ \A i \in 1..m : Told(new)[i] = Told(log)[i] /\ Tally(new)[i] = Tally(log)[i]
         /\ Told(new)[m + 1] = Explains(e.kind)
         /\ Tally(new)[m + 1] = IF e.kind = "changed" THEN e.to ELSE Never
<1> DEFINE m == Len(log)
           new == Append(log, e)
<1>1. /\ m \in Nat /\ new \in Seq(Entry) /\ Len(new) = m + 1
      /\ \A i \in 1..m : new[i] = log[i]
      /\ new[m + 1] = e
  BY AppendOne
<1>2. /\ DOMAIN Told(new) = 1..(m + 1) /\ DOMAIN Tally(new) = 1..(m + 1)
      /\ \A i \in 1..(m + 1) :
           /\ Told(new)[i] = Explains(new[i].kind)
           /\ Tally(new)[i] = IF new[i].kind = "changed" THEN new[i].to ELSE Never
  BY <1>1, EntriesTell
<1>3. /\ DOMAIN Told(log) = 1..m /\ DOMAIN Tally(log) = 1..m
      /\ \A i \in 1..m :
           /\ Told(log)[i] = Explains(log[i].kind)
           /\ Tally(log)[i] = IF log[i].kind = "changed" THEN log[i].to ELSE Never
  BY EntriesTell
<1> HIDE DEF m, new
<1>4. m + 1 \in 1..(m + 1) /\ \A i \in 1..m : i \in 1..(m + 1)
  BY <1>1
<1>5. QED
  BY <1>1, <1>2, <1>3, <1>4 DEF m, new

\* An event of the connection that says something else than the one before.
LEMMA LogNotice ==
  ASSUME NEW log \in Seq(Entry), NEW c \in Connections, NEW n, Tells(log, c, n),
         NEW e \in Entry, e.kind # "changed", Explains(e.kind) # c
  PROVE  Tells(Append(log, e), Explains(e.kind), n)
<1>1. PICK m, new : m = Len(log) /\ new = Append(log, e)
  OBVIOUS
<1>2. /\ m \in Nat
      /\ DOMAIN Told(log) = 1..m /\ DOMAIN Tally(log) = 1..m
      /\ DOMAIN Told(new) = 1..(m + 1) /\ DOMAIN Tally(new) = 1..(m + 1)
      /\ \A i \in 1..m : Told(new)[i] = Told(log)[i] /\ Tally(new)[i] = Tally(log)[i]
      /\ Told(new)[m + 1] = Explains(e.kind)
      /\ Tally(new)[m + 1] = Never
  BY <1>1, OneMoreTold
<1>3. \A i \in 1..(m + 1) : i = m + 1 \/ (i \in 1..m /\ i < m + 1)
  BY <1>2
<1>4. \A i \in 1..m : i \in 1..(m + 1)
  BY <1>2
<1>5. m + 1 \in 1..(m + 1)
  BY <1>2
<1>6. Settles(Told(new), "nothing", Explains(e.kind))
  BY <1>2, <1>3, <1>5 DEF Settles
<1>7. Settles(Tally(new), Never, n)
  BY <1>2, <1>3, <1>4 DEF Settles, Tells
<1>8. Varies(Told(new), "nothing")
  <2> SUFFICES ASSUME NEW i \in 1..(m + 1), NEW j \in 1..(m + 1), i < j,
                      Told(new)[i] # "nothing", Told(new)[i] = Told(new)[j]
               PROVE  \E k \in 1..(m + 1) :
                        i < k /\ k < j /\ Told(new)[k] \notin {"nothing", Told(new)[i]}
    BY <1>2 DEF Varies
  <2>1. i \in 1..m
    BY <1>2
  <2>2. CASE j \in 1..m
    <3>1. PICK k \in 1..m : i < k /\ k < j /\ Told(log)[k] \notin {"nothing", Told(log)[i]}
      BY <1>2, <2>1, <2>2 DEF Tells, Varies
    <3>2. QED
      BY <1>2, <1>4, <2>1, <3>1
  <2>3. CASE j = m + 1
    <3>1. Told(log)[i] = Explains(e.kind)
      BY <1>2, <2>1, <2>3
    <3>2. PICK k \in 1..m : i < k /\ Told(log)[k] = c
      BY <1>2, <2>1, <3>1 DEF Tells, Settles
    <3>3. k \in 1..(m + 1) /\ k < j /\ Told(new)[k] = c
      BY <1>2, <1>3, <1>4, <2>3, <3>2
    <3>4. c # "nothing"
      BY DEF Connections
    <3>5. QED
      BY <1>2, <2>1, <3>1, <3>2, <3>3, <3>4
  <2>4. QED
    BY <1>3, <2>2, <2>3
<1>9. QED
  BY <1>1, <1>6, <1>7, <1>8 DEF Tells

\* A change of the counter.
LEMMA LogChange ==
  ASSUME NEW log \in Seq(Entry), NEW c, NEW n, Tells(log, c, n),
         NEW e \in Entry, e.kind = "changed", e.to # Never
  PROVE  Tells(Append(log, e), c, e.to)
<1>1. PICK m, new : m = Len(log) /\ new = Append(log, e)
  OBVIOUS
<1>2. Explains(e.kind) = "nothing"
  BY DEF Explains
<1>3. /\ m \in Nat
      /\ DOMAIN Told(log) = 1..m /\ DOMAIN Tally(log) = 1..m
      /\ DOMAIN Told(new) = 1..(m + 1) /\ DOMAIN Tally(new) = 1..(m + 1)
      /\ \A i \in 1..m : Told(new)[i] = Told(log)[i] /\ Tally(new)[i] = Tally(log)[i]
      /\ Told(new)[m + 1] = "nothing"
      /\ Tally(new)[m + 1] = e.to
  BY <1>1, <1>2, OneMoreTold
<1>4. \A i \in 1..(m + 1) : i = m + 1 \/ (i \in 1..m /\ i < m + 1)
  BY <1>3
<1>5. \A i \in 1..m : i \in 1..(m + 1)
  BY <1>3
<1>6. m + 1 \in 1..(m + 1)
  BY <1>3
<1>7. Settles(Told(new), "nothing", c)
  BY <1>3, <1>4, <1>5 DEF Settles, Tells
<1>8. Settles(Tally(new), Never, e.to)
  BY <1>3, <1>4, <1>6 DEF Settles
<1>9. Varies(Told(new), "nothing")
  <2> SUFFICES ASSUME NEW i \in 1..(m + 1), NEW j \in 1..(m + 1), i < j,
                      Told(new)[i] # "nothing", Told(new)[i] = Told(new)[j]
               PROVE  \E k \in 1..(m + 1) :
                        i < k /\ k < j /\ Told(new)[k] \notin {"nothing", Told(new)[i]}
    BY <1>3 DEF Varies
  <2>1. i \in 1..m /\ j \in 1..m
    BY <1>3, <1>4
  <2>2. PICK k \in 1..m : i < k /\ k < j /\ Told(log)[k] \notin {"nothing", Told(log)[i]}
    BY <1>3, <2>1 DEF Tells, Varies
  <2>3. QED
    BY <1>3, <1>5, <2>1, <2>2
<1>10. QED
  BY <1>1, <1>7, <1>8, <1>9 DEF Tells

\* The log drops its oldest events.
LEMMA LogNewest ==
  ASSUME NEW log \in Seq(Entry), NEW c, NEW n, Tells(log, c, n), NEW limit \in Nat \ {0}
  PROVE  Tells(Newest(log, limit), c, n)
<1>1. PICK new : new = Newest(log, limit)
  OBVIOUS
<1>2. new \in Seq(Entry)
  BY <1>1, NewestIsTheEnd
<1>3. PICK d \in 0..Len(log) : TailFrom(new, log, d)
  BY <1>1, NewestIsTheEnd
<1>4. PICK m : m = Len(log)
  OBVIOUS
<1>5. /\ m \in Nat /\ d \in 0..m
      /\ DOMAIN Told(log) = 1..m /\ DOMAIN Tally(log) = 1..m
      /\ DOMAIN Told(new) = 1..(m - d) /\ DOMAIN Tally(new) = 1..(m - d)
      /\ \A i \in 1..(m - d) :
           Told(new)[i] = Told(log)[i + d] /\ Tally(new)[i] = Tally(log)[i + d]
  <2>1. \A i \in 1..(m - d) : i + d \in 1..m
    BY <1>4
  <2>2. /\ DOMAIN Told(new) = 1..(m - d) /\ DOMAIN Tally(new) = 1..(m - d)
        /\ \A i \in 1..(m - d) :
             /\ new[i] = log[i + d]
             /\ Told(new)[i] = Explains(new[i].kind)
             /\ Tally(new)[i] = IF new[i].kind = "changed" THEN new[i].to ELSE Never
    BY <1>2, <1>3, <1>4, EntriesTell DEF TailFrom
  <2>3. /\ m \in Nat /\ DOMAIN Told(log) = 1..m /\ DOMAIN Tally(log) = 1..m
        /\ \A i \in 1..m :
             /\ Told(log)[i] = Explains(log[i].kind)
             /\ Tally(log)[i] = IF log[i].kind = "changed" THEN log[i].to ELSE Never
    BY <1>4, EntriesTell
  <2>4. d \in 0..m
    BY <1>4
  <2>5. QED
    BY <2>1, <2>2, <2>3, <2>4
<1>6. \A i \in 1..(m - d) : i + d \in 1..m
  BY <1>5
<1>7. \A i \in 1..(m - d), k \in 1..m : i + d < k =>
        k - d \in 1..(m - d) /\ i < k - d /\ (k - d) + d = k
  BY <1>5
<1>8. Settles(Told(new), "nothing", c)
  <2> SUFFICES ASSUME NEW i \in 1..(m - d), Told(new)[i] \notin {"nothing", c}
               PROVE  \E k \in 1..(m - d) : i < k /\ Told(new)[k] = c
    BY <1>5 DEF Settles
  <2>1. PICK k \in 1..m : i + d < k /\ Told(log)[k] = c
    BY <1>5, <1>6 DEF Tells, Settles
  <2>2. QED
    BY <1>5, <1>7, <2>1
<1>9. Settles(Tally(new), Never, n)
  <2> SUFFICES ASSUME NEW i \in 1..(m - d), Tally(new)[i] \notin {Never, n}
               PROVE  \E k \in 1..(m - d) : i < k /\ Tally(new)[k] = n
    BY <1>5 DEF Settles
  <2>1. PICK k \in 1..m : i + d < k /\ Tally(log)[k] = n
    BY <1>5, <1>6 DEF Tells, Settles
  <2>2. QED
    BY <1>5, <1>7, <2>1
<1>10. Varies(Told(new), "nothing")
  <2> SUFFICES ASSUME NEW i \in 1..(m - d), NEW j \in 1..(m - d), i < j,
                      Told(new)[i] # "nothing", Told(new)[i] = Told(new)[j]
               PROVE  \E k \in 1..(m - d) :
                        i < k /\ k < j /\ Told(new)[k] \notin {"nothing", Told(new)[i]}
    BY <1>5 DEF Varies
  <2>1. i + d \in 1..m /\ j + d \in 1..m /\ i + d < j + d
    BY <1>6
  <2>2. PICK k \in 1..m : i + d < k /\ k < j + d /\ Told(log)[k] \notin {"nothing", Told(log)[i + d]}
    BY <1>5, <2>1 DEF Tells, Varies
  <2>3. k - d \in 1..(m - d) /\ i < k - d /\ k - d < j /\ (k - d) + d = k
    BY <1>7, <2>2
  <2>4. QED
    BY <1>5, <2>2, <2>3
<1>11. QED
  BY <1>1, <1>8, <1>9, <1>10 DEF Tells

\* The pairs of a graph and a log that agree.
Pairs(pairs, samples, log) ==
  /\ Paired(pairs, Drawn(samples), Logged(log))
  /\ \A p \in pairs : log[p[2]] = Change(samples[p[1] - 1], samples[p[1]])

LEMMA AgreeByPairs ==
  ASSUME NEW samples, NEW log
  PROVE  Agree(samples, log) <=> \E pairs : Pairs(pairs, samples, log)
<1>1. ASSUME Agree(samples, log)
      PROVE  \E pairs : Pairs(pairs, samples, log)
  BY <1>1 DEF Agree, Pairs, Paired
<1>2. ASSUME NEW pairs, Pairs(pairs, samples, log)
      PROVE  Agree(samples, log)
  <2>1. pairs \in SUBSET (Drawn(samples) \X Logged(log))
    BY <1>2 DEF Pairs, Paired
  <2>2. QED
    BY <1>2, <2>1 DEF Agree, Pairs, Paired
<1>3. QED
  BY <1>1, <1>2

LEMMA ChangesAreNumbers ==
  ASSUME NEW samples \in Seq(Values), NEW log \in Seq(Entry)
  PROVE  /\ Drawn(samples) \in SUBSET Nat
         /\ \A i \in Drawn(samples) : i <= Len(samples) /\ i > 1
         /\ Logged(log) \in SUBSET Nat
         /\ \A i \in Logged(log) : i <= Len(log) /\ i > 0
BY DEF Drawn, Logged

LEMMA OneMoreDrawn ==
  ASSUME NEW samples \in Seq(Values), NEW v \in Values
  PROVE  Drawn(Append(samples, v)) =
           Drawn(samples) \cup
             {i \in {Len(samples) + 1} : samples # <<>> /\ v # samples[Len(samples)]}
<1>1. PICK m, new : m = Len(samples) /\ new = Append(samples, v)
  OBVIOUS
<1>2. /\ m \in Nat /\ DOMAIN samples = 1..m /\ DOMAIN new = 1..(m + 1)
      /\ \A i \in 1..m : new[i] = samples[i]
      /\ new[m + 1] = v
      /\ samples # <<>> <=> m > 0
  BY <1>1
<1>3. \A i : i \in Drawn(new) <=>
        i \in Drawn(samples) \/ (i = m + 1 /\ m > 0 /\ v # samples[m])
  <2> SUFFICES ASSUME NEW i
               PROVE  i \in Drawn(new) <=>
                        i \in Drawn(samples) \/ (i = m + 1 /\ m > 0 /\ v # samples[m])
    OBVIOUS
  <2>1. CASE i \in 1..m
    <3>1. i > 1 => i - 1 \in 1..m
      BY <1>2, <2>1
    <3>2. i \in 1..(m + 1) /\ i # m + 1
      BY <1>2, <2>1
    <3>3. QED
      BY <1>2, <2>1, <3>1, <3>2 DEF Drawn
  <2>2. CASE i = m + 1
    <3>1. i \in 1..(m + 1) /\ i \notin 1..m /\ (i > 1 <=> m > 0) /\ i - 1 = m
      BY <1>2, <2>2
    <3>2. m > 0 => new[i - 1] = samples[m]
      BY <1>2, <3>1
    <3>3. QED
      BY <1>2, <2>2, <3>1, <3>2 DEF Drawn
  <2>3. i \in 1..(m + 1) => i \in 1..m \/ i = m + 1
    BY <1>2
  <2>4. QED
    BY <1>2, <2>1, <2>2, <2>3 DEF Drawn
<1>4. QED
  BY <1>1, <1>2, <1>3

LEMMA OneMoreLogged ==
  ASSUME NEW log \in Seq(Entry), NEW e \in Entry
  PROVE  Logged(Append(log, e)) = Logged(log) \cup {i \in {Len(log) + 1} : e.kind = "changed"}
BY DEF Logged

\* Nothing that is paired has changed.
LEMMA StillAgree ==
  ASSUME NEW samples, NEW log, NEW samples2, NEW log2, Agree(samples, log),
         Drawn(samples2) = Drawn(samples), Logged(log2) = Logged(log),
         \A i \in Drawn(samples) : samples2[i] = samples[i] /\ samples2[i - 1] = samples[i - 1],
         \A i \in Logged(log) : log2[i] = log[i]
  PROVE  Agree(samples2, log2)
<1>1. PICK pairs : Pairs(pairs, samples, log)
  BY AgreeByPairs
<1>2. \A p \in pairs : p[1] \in Drawn(samples) /\ p[2] \in Logged(log)
  BY <1>1 DEF Pairs, Paired
<1>3. Pairs(pairs, samples2, log2)
  BY <1>1, <1>2 DEF Pairs
<1>4. QED
  BY <1>3, AgreeByPairs

\* The same value again, or a first one, and no change of the counter.
LEMMA AgreeOnSample ==
  ASSUME NEW samples \in Seq(Values), NEW log \in Seq(Entry), Agree(samples, log),
         NEW v \in Values, samples # <<>> => v = samples[Len(samples)]
  PROVE  Agree(Append(samples, v), log)
<1>1. Drawn(Append(samples, v)) = Drawn(samples)
  <2>1. {i \in {Len(samples) + 1} : samples # <<>> /\ v # samples[Len(samples)]} = {}
    OBVIOUS
  <2>2. Drawn(Append(samples, v)) =
          Drawn(samples) \cup
            {i \in {Len(samples) + 1} : samples # <<>> /\ v # samples[Len(samples)]}
    BY OneMoreDrawn
  <2>3. QED
    BY <2>1, <2>2
<1>2. \A i \in Drawn(samples) :
        Append(samples, v)[i] = samples[i] /\ Append(samples, v)[i - 1] = samples[i - 1]
  BY DEF Drawn
<1>3. QED
  BY <1>1, <1>2, StillAgree

LEMMA AgreeOnNotice ==
  ASSUME NEW samples, NEW log \in Seq(Entry), Agree(samples, log),
         NEW e \in Entry, e.kind # "changed"
  PROVE  Agree(samples, Append(log, e))
<1>1. Logged(Append(log, e)) = Logged(log)
  BY OneMoreLogged
<1>2. \A i \in Logged(log) : Append(log, e)[i] = log[i]
  BY DEF Logged
<1>3. QED
  BY <1>1, <1>2, StillAgree

\* A change of the counter, with its sample.
LEMMA AgreeOnChange ==
  ASSUME NEW samples \in Seq(Values), NEW log \in Seq(Entry), Agree(samples, log),
         samples # <<>>, NEW v \in Values, v # samples[Len(samples)],
         NEW e \in Entry, e = Change(samples[Len(samples)], v)
  PROVE  Agree(Append(samples, v), Append(log, e))
<1>1. PICK m, n, samples2, log2 : /\ m = Len(samples) + 1 /\ n = Len(log) + 1
                                  /\ samples2 = Append(samples, v) /\ log2 = Append(log, e)
  OBVIOUS
<1>2. PICK pairs : Pairs(pairs, samples, log)
  BY AgreeByPairs
<1>3. m \in Nat /\ n \in Nat
  BY <1>1
<1>4. Drawn(samples2) = Drawn(samples) \cup {m}
  BY <1>1, OneMoreDrawn
<1>5. e.kind = "changed"
  BY DEF Change, Event
<1>6. Logged(log2) = Logged(log) \cup {n}
  BY <1>1, <1>5, OneMoreLogged
<1>7. (\A i \in Drawn(samples) : i < m) /\ (\A i \in Logged(log) : i < n)
  BY <1>1, ChangesAreNumbers
<1>8. Paired(pairs \cup {<<m, n>>}, Drawn(samples2), Logged(log2))
  <2>1. Drawn(samples) \in SUBSET Nat /\ Logged(log) \in SUBSET Nat
    BY ChangesAreNumbers
  <2>2. Paired(pairs, Drawn(samples), Logged(log))
    BY <1>2 DEF Pairs
  <2>3. Paired(pairs \cup {<<m, n>>}, Drawn(samples) \cup {m}, Logged(log) \cup {n})
    BY <1>3, <1>7, <2>1, <2>2, OnePairMore
  <2>4. QED
    BY <1>4, <1>6, <2>3
<1>9. \A p \in pairs \cup {<<m, n>>} : log2[p[2]] = Change(samples2[p[1] - 1], samples2[p[1]])
  <2>1. \A i \in Drawn(samples) : samples2[i] = samples[i] /\ samples2[i - 1] = samples[i - 1]
    BY <1>1 DEF Drawn
  <2>2. \A i \in Logged(log) : log2[i] = log[i]
    BY <1>1 DEF Logged
  <2>3. \A p \in pairs : p[1] \in Drawn(samples) /\ p[2] \in Logged(log)
    BY <1>2 DEF Pairs, Paired
  <2>4. \A p \in pairs : log2[p[2]] = Change(samples2[p[1] - 1], samples2[p[1]])
    BY <1>2, <2>1, <2>2, <2>3 DEF Pairs
  <2>5. log2[n] = e /\ samples2[m] = v /\ samples2[m - 1] = samples[Len(samples)]
    BY <1>1
  <2>6. log2[n] = Change(samples2[m - 1], samples2[m])
    BY <2>5
  <2>7. QED
    BY <2>4, <2>6
<1>10. Pairs(pairs \cup {<<m, n>>}, samples2, log2)
  BY <1>8, <1>9 DEF Pairs
<1>11. QED
  BY <1>1, <1>10, AgreeByPairs

\* Both drop what is oldest.
LEMMA AgreeOnEnds ==
  ASSUME NEW samples \in Seq(Values), NEW log \in Seq(Entry), Agree(samples, log),
         NEW samples2 \in Seq(Values), NEW d \in Nat, TailFrom(samples2, samples, d),
         NEW log2 \in Seq(Entry), NEW k \in Nat, TailFrom(log2, log, k)
  PROVE  Agree(samples2, log2)
<1>1. PICK pairs : Pairs(pairs, samples, log)
  BY AgreeByPairs
<1>2. Drawn(samples2) = {i \in Nat : i > 1 /\ i + d \in Drawn(samples)}
  <2>1. \A i \in Nat : i > 1 => (i + d \in DOMAIN samples <=> i \in DOMAIN samples2)
    BY DEF TailFrom
  <2>2. \A i \in DOMAIN samples2 : i > 1 =>
          samples2[i] = samples[i + d] /\ samples2[i - 1] = samples[(i + d) - 1]
    <3> SUFFICES ASSUME NEW i \in 1..(Len(samples) - d), i > 1
                 PROVE  samples2[i] = samples[i + d] /\ samples2[i - 1] = samples[(i + d) - 1]
      BY DEF TailFrom
    <3>1. i - 1 \in 1..(Len(samples) - d) /\ (i - 1) + d = (i + d) - 1
      OBVIOUS
    <3>2. QED
      BY <3>1 DEF TailFrom
  <2>3. \A i \in DOMAIN samples2 : i \in Nat
    OBVIOUS
  <2>4. \A i \in Nat : i > 1 => i + d > 1
    OBVIOUS
  <2>5. ASSUME NEW i \in Nat, i > 1
        PROVE  i \in Drawn(samples2) <=> i + d \in Drawn(samples)
    BY <2>1, <2>2, <2>4, <2>5 DEF Drawn
  <2>6. \A i \in Drawn(samples2) : i \in Nat /\ i > 1
    BY <2>3 DEF Drawn
  <2>7. QED
    BY <2>5, <2>6
<1>3. Logged(log2) = {i \in Nat : i > 0 /\ i + k \in Logged(log)}
  <2>1. \A i \in Nat : i > 0 => (i + k \in DOMAIN log <=> i \in DOMAIN log2)
    BY DEF TailFrom
  <2>2. \A i \in DOMAIN log2 : log2[i] = log[i + k]
    BY DEF TailFrom
  <2>3. \A i \in DOMAIN log2 : i \in Nat /\ i > 0
    OBVIOUS
  <2>4. QED
    BY <2>1, <2>2, <2>3 DEF Logged
<1>4. PICK left : /\ Paired(left, Drawn(samples2), Logged(log2))
                  /\ Remain(left, pairs, d, k)
  <2>1. /\ Drawn(samples) \in SUBSET Nat /\ Logged(log) \in SUBSET Nat
        /\ Drawn(samples2) \in SUBSET Nat /\ Logged(log2) \in SUBSET Nat
    BY ChangesAreNumbers
  <2>2. Paired(pairs, Drawn(samples), Logged(log))
    BY <1>1 DEF Pairs
  <2>3. PICK a \in Nat, b \in Nat : a = 1 /\ b = 0
    OBVIOUS
  <2>4. Lowered(Drawn(samples2), Drawn(samples), a, d) /\ Lowered(Logged(log2), Logged(log), b, k)
    BY <1>2, <1>3, <2>1, <2>3 DEF Lowered
  <2>5. QED
    BY <2>1, <2>2, <2>4, PairsLeft
<1>5. \A q \in left : log2[q[2]] = Change(samples2[q[1] - 1], samples2[q[1]])
  <2> SUFFICES ASSUME NEW q \in left
               PROVE  log2[q[2]] = Change(samples2[q[1] - 1], samples2[q[1]])
    OBVIOUS
  <2>1. q[1] \in Drawn(samples2) /\ q[2] \in Logged(log2) /\ <<q[1] + d, q[2] + k>> \in pairs
    BY <1>4 DEF Paired, Remain
  <2>2. PICK x, y : x = q[1] /\ y = q[2]
    OBVIOUS
  <2>3. log[y + k] = Change(samples[(x + d) - 1], samples[x + d])
    <3>1. PICK p \in pairs : p = <<x + d, y + k>>
      BY <2>1, <2>2
    <3>2. p[1] = x + d /\ p[2] = y + k
      BY <3>1
    <3>3. log[p[2]] = Change(samples[p[1] - 1], samples[p[1]])
      BY <1>1 DEF Pairs
    <3>4. QED
      BY <3>2, <3>3
  <2>4. log2[y] = log[y + k]
    BY <2>1, <2>2 DEF TailFrom, Logged
  <2>5. x \in DOMAIN samples2 /\ x > 1
    BY <2>1, <2>2 DEF Drawn
  <2>6. samples2[x] = samples[x + d] /\ samples2[x - 1] = samples[(x + d) - 1]
    <3>1. /\ x \in 1..(Len(samples) - d)
          /\ x - 1 \in 1..(Len(samples) - d) /\ (x - 1) + d = (x + d) - 1
      BY <2>5 DEF TailFrom
    <3>2. QED
      BY <3>1 DEF TailFrom
  <2>7. QED
    BY <2>2, <2>3, <2>4, <2>6
<1>6. Pairs(left, samples2, log2)
  BY <1>4, <1>5 DEF Pairs
<1>7. QED
  BY <1>6, AgreeByPairs

\* The poller holds the lock in the middle of a record, and only then.  Once a
\* cycle has succeeded there is always a counter to show.
StoreInv ==
  /\ snapshot \in [connection : Connections, comm : Counts]
  /\ events \in Seq(Entry)
  /\ lock = "poller" <=> poller \in {"won2", "lost2", "late2"}
  /\ poller \in {"won", "won2"} => answer \in Values
  /\ poller \in {"lost2", "late2"} =>
       /\ snapshot.connection \in {"DEGRADED", "DISCONNECTED"}
       /\ previous.connection \in Connections
  /\ snapshot.connection = "CONNECTED" => snapshot.comm # Never

LEMMA NoticesAreEntries ==
  ASSUME NEW kind \in {"Connected", "Recovered", "Degraded", "Disconnected"}
  PROVE  Notice(kind) \in Entry
BY DEF Notice, Event, Entry, Counts

LEMMA ChangesAreEntries ==
  ASSUME StoreInv, poller = "won"
  PROVE  /\ Connects \in Seq(Entry) /\ CounterChanges \in Seq(Entry)
         /\ Connects \o CounterChanges \in Seq(Entry)
<1>1. Change(snapshot.comm, answer) \in Entry
  BY DEF StoreInv, Change, Event, Entry, Counts
<1>2. CounterChanges \in Seq(Entry)
  BY <1>1 DEF CounterChanges
<1>3. PICK e : e = Notice(IF snapshot.comm = Never THEN "Connected" ELSE "Recovered")
  OBVIOUS
<1>4. e \in Entry
  BY <1>3, NoticesAreEntries
<1>5. Connects \in Seq(Entry)
  BY <1>3, <1>4 DEF Connects
<1>6. QED
  BY <1>2, <1>5

\* What the log tells: the snapshot, but in the middle of a record the log is
\* ahead of the snapshot after a success and behind it after a failure.
SaidConnection ==
  IF poller = "won2" THEN "CONNECTED"
  ELSE IF poller \in {"lost2", "late2"} THEN previous.connection ELSE snapshot.connection
SaidCount == IF poller = "won2" THEN answer ELSE snapshot.comm

LogInv ==
  /\ Tells(events, SaidConnection, SaidCount)
  /\ snapshot.comm = Never => Logged(events) = {}

\* While a page is put together the reader holds the lock, so the snapshot it
\* shows is still the snapshot of the store.
PageInv ==
  /\ age \in Nat
  /\ page # NoPage =>
       /\ lock = "reader"
       /\ page.connection = snapshot.connection /\ page.comm = snapshot.comm
       /\ ~page.stale => age <= StaleAfter /\ snapshot.connection = "CONNECTED"

\* The graph, with the sample it is about to get.
Curve == IF poller = "won2" THEN Append(graph, answer) ELSE graph

GraphInv ==
  /\ graph \in Seq(Values)
  /\ graph = <<>> <=> snapshot.comm = Never
  /\ graph # <<>> => graph[Len(graph)] = snapshot.comm
  /\ Agree(Curve, events)

\* What a step does to the store and to the page.
Leaves ==
  /\ UNCHANGED <<storeVars, previous>>
  /\ \/ UNCHANGED <<poller, answer>>
     \/ /\ poller \notin {"won2", "lost2", "late2"}
        /\ poller' = "won" /\ answer' \in Values
     \/ /\ poller \notin {"won2", "lost2", "late2"} /\ UNCHANGED answer
        /\ poller' \notin {"won", "won2", "lost2", "late2"}
  /\ \/ UNCHANGED lock
     \/ lock # "poller" /\ lock' # "poller"

LEMMA StoreMoves ==
  ASSUME LinkInv, [Next]_vars
  PROVE  Leaves \/ SuccessEvents \/ SuccessSnapshot \/ FailureSnapshot \/ FailureEvent
<1>1. CASE Bind \/ OpenSession \/ Join \/ CloseServer \/ Interrupt
  BY <1>1 DEF Bind, OpenSession, Join, CloseServer, Interrupt, pollerVars, storeVars, Leaves
<1>2. CASE Serve
  BY <1>2 DEF LinkInv, Serve, Leaves
<1>3. CASE PollerSteps
  <2>1. CASE AllAnswered
    BY <2>1 DEF AllAnswered, Leaves
  <2>2. CASE BeginCycle \/ EndThread \/ FallsSilent \/ AnswersLate \/ Raises \/ ReadTimesOut
    BY <2>2 DEF BeginCycle, EndThread, FallsSilent, AnswersLate, Raises, ReadTimesOut, Leaves
  <2>3. CASE Flush
    BY <2>3 DEF Flush, Rest, Leaves
  <2>4. QED
    BY <1>3, <2>1, <2>2, <2>3 DEF PollerSteps
<1>4. CASE ReadSnapshot \/ ReadEvents
  BY <1>4 DEF ReadSnapshot, ReadEvents, pollerVars, Leaves
<1>5. CASE HalfSecond
  BY <1>5 DEF HalfSecond, Leaves
<1>6. CASE UNCHANGED dashboardVars
  BY <1>6 DEF dashboardVars, pollerVars, Leaves
<1>7. QED
  BY <1>1, <1>2, <1>3, <1>4, <1>5, <1>6 DEF Next, Campaign, StartDashboard, RunDashboard,
     DashboardNext, MainSteps, Exited, vars

LEMMA StoreStep ==
  ASSUME LinkInv, StoreInv, [Next]_vars
  PROVE  StoreInv'
<1> USE DashboardAssumption DEF StoreInv, Never, Counts, Connections
<1>1. ASSUME NEW new \in Seq(Entry), Log(new)
      PROVE  events' \in Seq(Entry)
  <2>1. events \o new \in Seq(Entry)
    BY <1>1
  <2>2. EventLimit \in Nat \ {0}
    OBVIOUS
  <2>3. QED
    BY <1>1, <2>1, <2>2, NewestIsTheEnd DEF Log
<1>2. CASE Leaves
  BY <1>2 DEF Leaves, storeVars
<1>3. CASE SuccessEvents
  <2>1. Connects \o CounterChanges \in Seq(Entry)
    BY <1>3, ChangesAreEntries DEF SuccessEvents
  <2>2. events' \in Seq(Entry)
    BY <1>1, <1>3, <2>1 DEF SuccessEvents
  <2>3. poller' = "won2" /\ lock' = "poller" /\ UNCHANGED <<answer, previous, snapshot>>
        /\ poller = "won"
    BY <1>3 DEF SuccessEvents
  <2>4. QED
    BY <2>2, <2>3
<1>4. CASE SuccessSnapshot
  BY <1>4 DEF SuccessSnapshot
<1>5. CASE FailureSnapshot
  BY <1>5 DEF FailureSnapshot
<1>6. CASE FailureEvent
  <2>1. PICK new \in Seq(Entry) : Log(new)
    <3>1. PICK e : e = Notice(IF snapshot.connection = "DEGRADED" THEN "Degraded"
                                                                  ELSE "Disconnected")
      OBVIOUS
    <3>2. e \in Entry
      BY <3>1, NoticesAreEntries
    <3>3. <<>> \in Seq(Entry) /\ <<e>> \in Seq(Entry)
      BY <3>2
    <3>4. QED
      BY <1>6, <3>1, <3>3 DEF FailureEvent
  <2>2. events' \in Seq(Entry)
    BY <1>1, <2>1
  <2>3. /\ poller \in {"lost2", "late2"} /\ poller' \in {"rest", "settle"}
        /\ lock' = "none" /\ UNCHANGED <<answer, snapshot>>
    BY <1>6 DEF FailureEvent, Rest
  <2>4. QED
    BY <2>2, <2>3
<1>7. QED
  BY <1>2, <1>3, <1>4, <1>5, <1>6, StoreMoves

\* The three updates of the log.
LEMMA LogOnConnects ==
  ASSUME StoreInv, LogInv, poller = "won"
  PROVE  /\ events \o Connects \in Seq(Entry)
         /\ Tells(events \o Connects, "CONNECTED", snapshot.comm)
         /\ snapshot.comm = Never => Logged(events \o Connects) = {}
         /\ \A samples : Agree(samples, events) => Agree(samples, events \o Connects)
<1>1. events \in Seq(Entry) /\ snapshot.connection \in Connections
  BY DEF StoreInv
<1>2. Tells(events, snapshot.connection, snapshot.comm)
  BY DEF LogInv, SaidConnection, SaidCount
<1>3. CASE snapshot.connection = "CONNECTED"
  <2>1. events \o Connects = events
    BY <1>1, <1>3 DEF Connects
  <2>2. QED
    BY <1>1, <1>2, <1>3, <2>1 DEF LogInv
<1>4. CASE snapshot.connection # "CONNECTED"
  <2>1. PICK e : e = Notice(IF snapshot.comm = Never THEN "Connected" ELSE "Recovered")
    OBVIOUS
  <2>2. e \in Entry /\ e.kind # "changed" /\ Explains(e.kind) = "CONNECTED"
    BY <2>1, NoticesAreEntries DEF Notice, Event, Explains
  <2>3. events \o Connects = Append(events, e)
    BY <1>1, <1>4, <2>1, <2>2, UpToTwo DEF Connects
  <2>4. Append(events, e) \in Seq(Entry)
    BY <1>1, <2>2
  <2>5. Tells(Append(events, e), "CONNECTED", snapshot.comm)
    BY <1>1, <1>2, <1>4, <2>2, LogNotice
  <2>6. Logged(Append(events, e)) = Logged(events)
    BY <1>1, <2>2, OneMoreLogged
  <2>7. \A samples : Agree(samples, events) => Agree(samples, Append(events, e))
    BY <1>1, <2>2, AgreeOnNotice
  <2>8. QED
    BY <2>3, <2>4, <2>5, <2>6, <2>7 DEF LogInv
<1>5. QED
  BY <1>3, <1>4

LEMMA LogOnSuccess ==
  ASSUME StoreInv, LogInv, poller = "won", NEW log, log = events \o (Connects \o CounterChanges)
  PROVE  /\ log \in Seq(Entry)
         /\ Tells(log, "CONNECTED", answer)
         /\ snapshot.comm = Never => Logged(log) = {}
         /\ GraphInv => Agree(Append(graph, answer), log)
<1> USE DashboardAssumption
<1>1. PICK said : said = events \o Connects
  OBVIOUS
<1>2. /\ said \in Seq(Entry)
      /\ Tells(said, "CONNECTED", snapshot.comm)
      /\ snapshot.comm = Never => Logged(said) = {}
      /\ \A samples : Agree(samples, events) => Agree(samples, said)
  BY <1>1, LogOnConnects
<1>3. Connects \in Seq(Entry) /\ CounterChanges \in Seq(Entry) /\ events \in Seq(Entry)
  BY ChangesAreEntries DEF StoreInv
<1>4. log = said \o CounterChanges
  <2>1. PICK s \in Seq(Entry), c \in Seq(Entry), d \in Seq(Entry) :
          s = events /\ c = Connects /\ d = CounterChanges
    BY <1>3
  <2>2. s \o (c \o d) = (s \o c) \o d
    BY OneByOne, Zenon
  <2>3. QED
    BY <1>1, <2>1, <2>2
<1>5. answer \in Values /\ answer # Never /\ snapshot.comm \in Counts
  BY DEF StoreInv, Never
<1>6. GraphInv => /\ graph \in Seq(Values) /\ Agree(graph, said)
                  /\ graph # <<>> => graph[Len(graph)] = snapshot.comm
                  /\ graph = <<>> <=> snapshot.comm = Never
  BY <1>2 DEF GraphInv, Curve
<1>7. CASE snapshot.comm \in {Never, answer}
  <2>1. log = said
    <3>1. said \o <<>> = said
      BY <1>2, NothingAdded
    <3>2. QED
      BY <1>4, <1>7, <3>1 DEF CounterChanges
  <2>2. Tells(said, "CONNECTED", answer)
    <3>1. CASE snapshot.comm = answer
      BY <1>2, <3>1
    <3>2. CASE snapshot.comm = Never
      <4>1. Logged(said) = {}
        BY <1>2, <3>2
      <4>2. Settles(Tally(said), Never, answer)
        BY <4>1 DEF Logged, Tally, Settles
      <4>3. QED
        BY <1>2, <4>2 DEF Tells
    <3>3. QED
      BY <1>7, <3>1, <3>2
  <2>3. GraphInv => Agree(Append(graph, answer), said)
    <3> SUFFICES ASSUME GraphInv
                 PROVE  Agree(Append(graph, answer), said)
      OBVIOUS
    <3>1. graph # <<>> => answer = graph[Len(graph)]
      BY <1>6, <1>7
    <3>2. QED
      BY <1>2, <1>5, <1>6, <3>1, AgreeOnSample
  <2>4. QED
    BY <1>2, <2>1, <2>2, <2>3
<1>8. CASE snapshot.comm \notin {Never, answer}
  <2>1. PICK e : e = Change(snapshot.comm, answer)
    OBVIOUS
  <2>2. e \in Entry /\ e.kind = "changed" /\ e.to = answer
    BY <1>5, <2>1 DEF Entry, Change, Event, Counts
  <2>3. log = Append(said, e)
    BY <1>2, <1>4, <1>8, <2>1, <2>2, UpToTwo DEF CounterChanges
  <2>4. log \in Seq(Entry)
    BY <1>2, <2>2, <2>3
  <2>5. Tells(log, "CONNECTED", answer)
    BY <1>2, <1>5, <2>2, <2>3, LogChange
  <2>6. GraphInv => Agree(Append(graph, answer), log)
    <3> SUFFICES ASSUME GraphInv
                 PROVE  Agree(Append(graph, answer), log)
      OBVIOUS
    <3>1. graph \in Seq(Values) /\ graph # <<>> /\ graph[Len(graph)] = snapshot.comm
      BY <1>6, <1>8
    <3>2. e = Change(graph[Len(graph)], answer) /\ answer # graph[Len(graph)]
      BY <1>8, <2>1, <3>1
    <3>3. QED
      BY <1>2, <1>5, <1>6, <2>2, <2>3, <3>1, <3>2, AgreeOnChange
  <2>7. QED
    BY <1>8, <2>4, <2>5, <2>6
<1>9. QED
  BY <1>7, <1>8

LEMMA LogOnFailure ==
  ASSUME StoreInv, LogInv, FailureEvent
  PROVE  \E log \in Seq(Entry) :
           /\ events' = Newest(log, EventLimit)
           /\ Tells(log, snapshot.connection, snapshot.comm)
           /\ snapshot.comm = Never => Logged(log) = {}
           /\ \A samples : Agree(samples, events) => Agree(samples, log)
<1>1. events \in Seq(Entry) /\ previous.connection \in Connections
      /\ snapshot.connection \in {"DEGRADED", "DISCONNECTED"}
      /\ poller \in {"lost2", "late2"}
  BY DEF StoreInv, FailureEvent
<1>2. Tells(events, previous.connection, snapshot.comm)
  BY <1>1 DEF LogInv, SaidConnection, SaidCount
<1>3. CASE snapshot.connection = previous.connection
  <2>1. events' = Newest(events, EventLimit)
    BY <1>1, <1>3 DEF FailureEvent, Log
  <2>2. QED
    BY <1>1, <1>2, <1>3, <2>1 DEF LogInv
<1>4. CASE snapshot.connection # previous.connection
  <2>1. PICK e : e = Notice(IF snapshot.connection = "DEGRADED" THEN "Degraded"
                                                                ELSE "Disconnected")
    OBVIOUS
  <2>2. e \in Entry /\ e.kind # "changed" /\ Explains(e.kind) = snapshot.connection
    BY <1>1, <2>1, NoticesAreEntries DEF Notice, Event, Explains
  <2>3. events' = Newest(Append(events, e), EventLimit)
    BY <1>1, <1>4, <2>1, <2>2, UpToTwo DEF FailureEvent, Log
  <2>4. Append(events, e) \in Seq(Entry)
    BY <1>1, <2>2
  <2>5. Tells(Append(events, e), snapshot.connection, snapshot.comm)
    <3>1. Explains(e.kind) # previous.connection
      BY <1>4, <2>2
    <3>2. Tells(Append(events, e), Explains(e.kind), snapshot.comm)
      BY <1>1, <1>2, <2>2, <3>1, LogNotice
    <3>3. QED
      BY <2>2, <3>2
  <2>6. Logged(Append(events, e)) = Logged(events)
    BY <1>1, <2>2, OneMoreLogged
  <2>7. \A samples : Agree(samples, events) => Agree(samples, Append(events, e))
    BY <1>1, <2>2, AgreeOnNotice
  <2>8. QED
    BY <2>3, <2>4, <2>5, <2>6, <2>7 DEF LogInv
<1>5. QED
  BY <1>3, <1>4

\* What drops the oldest events keeps the rest of the log as it was.
LEMMA NewestAgree ==
  ASSUME NEW samples \in Seq(Values), NEW log \in Seq(Entry), Agree(samples, log),
         NEW limit \in Nat \ {0}
  PROVE  Agree(samples, Newest(log, limit)) /\ Agree(Newest(samples, limit), log)
<1>1. Newest(log, limit) \in Seq(Entry) /\ Newest(samples, limit) \in Seq(Values)
  BY NewestIsTheEnd
<1>2. PICK k \in Nat : TailFrom(Newest(log, limit), log, k)
  BY NewestIsTheEnd
<1>3. PICK d \in Nat : TailFrom(Newest(samples, limit), samples, d)
  BY NewestIsTheEnd
<1>4. PICK z \in Nat : TailFrom(samples, samples, z) /\ TailFrom(log, log, z)
  <2>1. TailFrom(samples, samples, 0) /\ TailFrom(log, log, 0)
    BY DEF TailFrom
  <2>2. QED
    BY <2>1
<1>5. Agree(samples, Newest(log, limit))
  BY <1>1, <1>2, <1>4, AgreeOnEnds
<1>6. Agree(Newest(samples, limit), log)
  BY <1>1, <1>3, <1>4, AgreeOnEnds
<1>7. QED
  BY <1>5, <1>6

LEMMA NewestLogged ==
  ASSUME NEW log \in Seq(Entry), Logged(log) = {}, NEW limit \in Nat \ {0}
  PROVE  Logged(Newest(log, limit)) = {}
<1>1. PICK d \in 0..Len(log) : TailFrom(Newest(log, limit), log, d)
  BY NewestIsTheEnd
<1>2. \A i \in DOMAIN Newest(log, limit) :
        i + d \in DOMAIN log /\ Newest(log, limit)[i] = log[i + d]
  BY <1>1 DEF TailFrom
<1>3. QED
  BY <1>2 DEF Logged

LEMMA LogStep ==
  ASSUME LinkInv, StoreInv, LogInv, [Next]_vars
  PROVE  LogInv'
<1> USE DashboardAssumption
<1>1. EventLimit \in Nat \ {0}
  OBVIOUS
<1>2. CASE Leaves
  <2>1. UNCHANGED <<snapshot, events, previous>>
    BY <1>2 DEF Leaves, storeVars
  <2>2. SaidConnection' = SaidConnection /\ SaidCount' = SaidCount
    BY <1>2, <2>1 DEF Leaves, SaidConnection, SaidCount
  <2>3. QED
    BY <2>1, <2>2 DEF LogInv, Tells, Told, Tally, Settles, Varies, Logged
<1>3. CASE SuccessEvents
  <2>1. /\ poller = "won" /\ poller' = "won2" /\ UNCHANGED <<answer, snapshot>>
    BY <1>3 DEF SuccessEvents
  <2>2. PICK log : log = events \o (Connects \o CounterChanges)
    OBVIOUS
  <2>3. /\ log \in Seq(Entry) /\ Tells(log, "CONNECTED", answer)
        /\ snapshot.comm = Never => Logged(log) = {}
    BY <2>1, <2>2, LogOnSuccess
  <2>4. events' = Newest(log, EventLimit)
    BY <1>3, <2>2 DEF SuccessEvents, Log
  <2>5. PICK c, n, new : c = SaidConnection' /\ n = SaidCount' /\ new = events'
    OBVIOUS
  <2>6. c = "CONNECTED" /\ n = answer
    BY <2>1, <2>5 DEF SaidConnection, SaidCount
  <2>7. Tells(new, c, n)
    BY <1>1, <2>3, <2>4, <2>5, <2>6, LogNewest
  <2>8. snapshot.comm = Never => Logged(new) = {}
    BY <1>1, <2>3, <2>4, <2>5, NewestLogged
  <2>9. QED
    BY <2>1, <2>5, <2>7, <2>8 DEF LogInv, Tells, Told, Tally, Settles, Varies, Logged
<1>4. CASE SuccessSnapshot
  <2>1. /\ poller = "won2" /\ poller' = "rest" /\ UNCHANGED events
        /\ snapshot' = [connection |-> "CONNECTED", comm |-> answer]
    BY <1>4 DEF SuccessSnapshot
  <2>2. SaidConnection' = SaidConnection /\ SaidCount' = SaidCount
    BY <2>1 DEF SaidConnection, SaidCount
  <2>3. snapshot'.comm # Never
    BY <2>1 DEF StoreInv, Never
  <2>4. QED
    BY <2>1, <2>2, <2>3 DEF LogInv, Tells, Told, Tally, Settles, Varies
<1>5. CASE FailureSnapshot
  <2>1. /\ poller \in {"lost", "late"} /\ poller' \in {"lost2", "late2"}
        /\ previous' = snapshot /\ snapshot'.comm = snapshot.comm /\ UNCHANGED <<events, answer>>
    BY <1>5 DEF FailureSnapshot, StoreInv
  <2>2. SaidConnection' = SaidConnection /\ SaidCount' = SaidCount
    BY <2>1 DEF SaidConnection, SaidCount
  <2>3. QED
    BY <2>1, <2>2 DEF LogInv, Tells, Told, Tally, Settles, Varies, Logged
<1>6. CASE FailureEvent
  <2>1. /\ poller' \in {"rest", "settle"} /\ UNCHANGED <<answer, snapshot>>
    BY <1>6 DEF FailureEvent, Rest
  <2>2. PICK log \in Seq(Entry) : /\ events' = Newest(log, EventLimit)
                                  /\ Tells(log, snapshot.connection, snapshot.comm)
                                  /\ snapshot.comm = Never => Logged(log) = {}
    BY <1>6, LogOnFailure
  <2>3. PICK c, n, new : c = SaidConnection' /\ n = SaidCount' /\ new = events'
    OBVIOUS
  <2>4. c = snapshot.connection /\ n = snapshot.comm
    BY <2>1, <2>3 DEF SaidConnection, SaidCount
  <2>5. Tells(new, c, n)
    BY <1>1, <2>2, <2>3, <2>4, LogNewest
  <2>6. snapshot.comm = Never => Logged(new) = {}
    BY <1>1, <2>2, <2>3, NewestLogged
  <2>7. QED
    BY <2>1, <2>3, <2>5, <2>6 DEF LogInv, Tells, Told, Tally, Settles, Varies, Logged
<1>7. QED
  BY <1>2, <1>3, <1>4, <1>5, <1>6, StoreMoves

LEMMA PageStep ==
  ASSUME StoreInv, PageInv, [Next]_vars
  PROVE  PageInv'
<1> USE DEF PageInv
<1>1. CASE MainSteps \/ Interrupt \/ UNCHANGED dashboardVars
  BY <1>1 DEF MainSteps, Bind, OpenSession, Serve, Join, CloseServer, Interrupt, dashboardVars,
     storeVars
<1>2. CASE PollerSteps
  <2>1. CASE page = NoPage
    BY <1>2, <2>1 DEF PollerSteps
  <2>2. CASE page # NoPage
    <3>1. lock = "reader" /\ UNCHANGED page
      BY <1>2, <2>2 DEF PollerSteps
    <3>2. poller \notin {"won2", "lost2", "late2"}
      BY <3>1 DEF StoreInv
    <3>3. UNCHANGED <<snapshot, lock, age>>
      BY <1>2, <3>1, <3>2 DEF PollerSteps, BeginCycle, EndThread, AllAnswered, FallsSilent,
         AnswersLate, Raises, ReadTimesOut, Flush, SuccessEvents, SuccessSnapshot,
         FailureSnapshot, FailureEvent, storeVars
    <3>4. QED
      BY <3>1, <3>3
  <2>3. QED
    BY <2>1, <2>2
<1>3. CASE ReadSnapshot
  <2>1. lock' = "reader" /\ page' = Shown /\ UNCHANGED <<snapshot, age>>
    BY <1>3 DEF ReadSnapshot, storeVars
  <2>2. PICK shown : shown = Shown
    OBVIOUS
  <2>3. /\ shown.connection = snapshot.connection /\ shown.comm = snapshot.comm
        /\ ~shown.stale => age <= StaleAfter /\ snapshot.connection = "CONNECTED"
    <3>1. StaleAfter \in Nat /\ age \in Nat
      BY DashboardAssumption
    <3>2. ~(age > StaleAfter) => age <= StaleAfter
      BY <3>1
    <3>3. shown.stale = (snapshot.connection # "CONNECTED" \/ age > StaleAfter)
      BY <2>2 DEF Shown
    <3>4. shown.connection = snapshot.connection /\ shown.comm = snapshot.comm
      BY <2>2 DEF Shown
    <3>5. QED
      BY <3>2, <3>3, <3>4, Zenon
  <2>4. QED
    BY <2>1, <2>2, <2>3
<1>4. CASE ReadEvents
  BY <1>4 DEF ReadEvents
<1>5. CASE HalfSecond
  BY <1>5 DEF HalfSecond
<1>6. QED
  BY <1>1, <1>2, <1>3, <1>4, <1>5 DEF Next, Campaign, StartDashboard, RunDashboard,
     DashboardNext, Exited, vars

LEMMA GraphAgain ==
  ASSUME graph' \in Seq(Values), graph' = <<>> <=> snapshot'.comm = Never,
         graph' # <<>> => graph'[Len(graph')] = snapshot'.comm,
         Agree(Curve', events')
  PROVE  GraphInv'
<1>1. Agree(Curve, events)'
  BY DEF Agree, Drawn, Logged
<1>2. QED
  BY <1>1 DEF GraphInv

LEMMA GraphStep ==
  ASSUME LinkInv, StoreInv, LogInv, GraphInv, [Next]_vars
  PROVE  GraphInv'
<1> USE DashboardAssumption
<1>1. EventLimit \in Nat \ {0} /\ HistoryLimit \in Nat \ {0}
  OBVIOUS
<1>2. CASE Leaves
  <2>1. UNCHANGED <<snapshot, events, graph>> /\ Curve' = Curve
    BY <1>2 DEF Leaves, storeVars, Curve
  <2>2. Agree(Curve', events')
    BY <2>1 DEF GraphInv
  <2>3. QED
    BY <2>1, <2>2, GraphAgain DEF GraphInv
<1>3. CASE SuccessEvents
  <2>1. /\ poller = "won" /\ poller' = "won2" /\ UNCHANGED <<answer, snapshot, graph>>
    BY <1>3 DEF SuccessEvents
  <2>2. PICK log : log = events \o (Connects \o CounterChanges)
    OBVIOUS
  <2>3. log \in Seq(Entry) /\ Agree(Append(graph, answer), log)
    BY <2>1, <2>2, LogOnSuccess
  <2>4. Append(graph, answer) \in Seq(Values)
    BY <2>1 DEF StoreInv, GraphInv
  <2>5. PICK curve, new : curve = Curve' /\ new = events'
    OBVIOUS
  <2>6. curve = Append(graph, answer) /\ new = Newest(log, EventLimit)
    BY <1>3, <2>1, <2>2, <2>5 DEF Curve, SuccessEvents, Log
  <2>7. Agree(curve, new)
    BY <1>1, <2>3, <2>4, <2>6, NewestAgree
  <2>8. Agree(Curve', events')
    BY <2>5, <2>7
  <2>9. QED
    BY <2>1, <2>8, GraphAgain DEF GraphInv
<1>4. CASE SuccessSnapshot
  <2>1. /\ poller = "won2" /\ poller' = "rest" /\ UNCHANGED events
        /\ snapshot' = [connection |-> "CONNECTED", comm |-> answer]
        /\ graph' = Newest(Append(graph, answer), HistoryLimit)
    BY <1>4 DEF SuccessSnapshot
  <2>2. answer \in Values /\ events \in Seq(Entry) /\ graph \in Seq(Values)
    BY <2>1 DEF StoreInv, GraphInv
  <2>3. PICK curve, new : curve = Append(graph, answer) /\ new = graph'
    OBVIOUS
  <2>4. curve \in Seq(Values) /\ curve # <<>> /\ curve[Len(curve)] = answer
    BY <2>2, <2>3
  <2>5. Agree(curve, events)
    BY <2>1, <2>3 DEF GraphInv, Curve
  <2>6. new = Newest(curve, HistoryLimit)
    BY <2>1, <2>3
  <2>7. new \in Seq(Values)
    BY <1>1, <2>4, <2>6, NewestIsTheEnd
  <2>8. PICK d \in 0..Len(curve) : TailFrom(new, curve, d) /\ d < Len(curve)
    BY <1>1, <2>4, <2>6, NewestIsTheEnd
  <2>9. new # <<>> /\ new[Len(new)] = answer
    <3>1. PICK n \in Nat : n = Len(curve)
      BY <2>4
    <3>2. d \in Nat /\ n - d \in 1..(n - d) /\ (n - d) + d = n
      BY <2>8, <3>1
    <3>3. Len(new) = n - d /\ new[n - d] = curve[n]
      BY <2>8, <3>1, <3>2 DEF TailFrom
    <3>4. new # <<>>
      BY <3>2, <3>3
    <3>5. QED
      BY <2>4, <3>1, <3>3, <3>4
  <2>10. Agree(new, events)
    BY <1>1, <2>2, <2>4, <2>5, <2>6, NewestAgree
  <2>11. Curve' = new /\ snapshot'.comm = answer /\ answer # Never
    BY <2>1, <2>2, <2>3 DEF Curve, Never
  <2>12. Agree(Curve', events')
    BY <2>1, <2>10, <2>11
  <2>13. QED
    BY <2>3, <2>7, <2>9, <2>11, <2>12, GraphAgain
<1>5. CASE FailureSnapshot
  <2>1. /\ poller # "won2" /\ poller' # "won2"
        /\ snapshot'.comm = snapshot.comm /\ UNCHANGED <<events, graph>>
    BY <1>5 DEF FailureSnapshot, StoreInv
  <2>2. Curve' = Curve
    BY <2>1 DEF Curve
  <2>3. Agree(Curve', events')
    BY <2>1, <2>2 DEF GraphInv
  <2>4. QED
    BY <2>1, <2>3, GraphAgain DEF GraphInv
<1>6. CASE FailureEvent
  <2>1. /\ poller # "won2" /\ poller' # "won2" /\ UNCHANGED <<snapshot, graph>>
    BY <1>6 DEF FailureEvent, Rest
  <2>2. PICK log \in Seq(Entry) : /\ events' = Newest(log, EventLimit)
                                  /\ \A samples : Agree(samples, events) => Agree(samples, log)
    BY <1>6, LogOnFailure
  <2>3. graph \in Seq(Values) /\ Agree(graph, events)
    BY <2>1 DEF GraphInv, Curve
  <2>4. PICK new : new = events'
    OBVIOUS
  <2>5. Agree(graph, new)
    BY <1>1, <2>2, <2>3, <2>4, NewestAgree
  <2>6. Curve' = graph
    BY <2>1 DEF Curve
  <2>7. Agree(Curve', events')
    BY <2>4, <2>5, <2>6
  <2>8. QED
    BY <2>1, <2>7, GraphAgain DEF GraphInv
<1>7. QED
  BY <1>2, <1>3, <1>4, <1>5, <1>6, StoreMoves

\* All that is true of the dashboard in every state.
DashboardInv == LinkInv /\ StoreInv /\ LogInv /\ PageInv /\ GraphInv

LEMMA DashboardStarts ==
  ASSUME Init
  PROVE  DashboardInv
<1> USE DashboardAssumption
<1>1. LinkInv
  BY DEF Init, DashboardInit, LinkInv
<1>2. /\ poller = "none" /\ lock = "none" /\ snapshot = Empty /\ page = NoPage
      /\ events = <<>> /\ graph = <<>>
  BY DEF Init, DashboardInit
<1>3. StoreInv
  BY <1>2 DEF StoreInv, Empty, Connections, Counts
<1>4. DOMAIN events = {} /\ DOMAIN graph = {}
  BY <1>2
<1>5. LogInv
  BY <1>4 DEF LogInv, Tells, Told, Tally, Settles, Varies, Logged
<1>6. PageInv
  BY <1>2 DEF Init, DashboardInit, PageInv
<1>7. GraphInv
  <2>1. Drawn(graph) = {} /\ Logged(events) = {} /\ Curve = graph
    BY <1>2, <1>4 DEF Drawn, Logged, Curve
  <2>2. Agree(graph, events)
    <3>1. {} \in SUBSET (Drawn(graph) \X Logged(events))
      OBVIOUS
    <3>2. QED
      BY <2>1, <3>1 DEF Agree
  <2>3. graph \in Seq(Values) /\ graph = <<>> /\ snapshot.comm = Never
    BY <1>2 DEF Empty
  <2>4. QED
    BY <2>1, <2>2, <2>3 DEF GraphInv
<1>8. QED
  BY <1>1, <1>3, <1>5, <1>6, <1>7 DEF DashboardInv

LEMMA DashboardStep ==
  ASSUME DashboardInv, [Next]_vars
  PROVE  DashboardInv'
BY LinkStep, StoreStep, LogStep, PageStep, GraphStep DEF DashboardInv

LEMMA PagesAreTrue ==
  ASSUME DashboardInv, page # NoPage
  PROVE  Truthful
<1>1. /\ lock = "reader"
      /\ page.connection = snapshot.connection /\ page.comm = snapshot.comm
      /\ ~page.stale => age <= StaleAfter /\ snapshot.connection = "CONNECTED"
  BY DEF DashboardInv, PageInv
<1>2. poller \notin {"won2", "lost2", "late2"} /\ snapshot.connection \in Connections
      /\ events \in Seq(Entry)
  BY <1>1 DEF DashboardInv, StoreInv
<1>3. Tells(events, snapshot.connection, snapshot.comm)
  BY <1>2 DEF DashboardInv, LogInv, SaidConnection, SaidCount
<1>4. /\ DOMAIN Told(events) = 1..Len(events) /\ DOMAIN Tally(events) = 1..Len(events)
      /\ Len(events) \in Nat
  BY <1>2, EntriesTell
<1>5. snapshot.connection # "nothing"
  BY <1>2 DEF Connections
<1>6. EndsIn(Told(events), "nothing", page.connection)
  BY <1>1, <1>3, <1>4, <1>5, SettledEnd DEF Tells
<1>7. EndsIn(Tally(events), Never, page.comm)
  <2>1. CASE snapshot.comm # Never
    BY <1>1, <1>3, <1>4, <2>1, SettledEnd DEF Tells
  <2>2. CASE snapshot.comm = Never
    <3>1. Logged(events) = {}
      BY <2>2 DEF DashboardInv, LogInv
    <3>2. QED
      BY <3>1 DEF Logged, Tally, EndsIn
  <2>3. QED
    BY <2>1, <2>2
<1>8. ~page.stale => age <= StaleAfter /\ page.comm # Never
  BY <1>1 DEF DashboardInv, StoreInv
<1>9. QED
  BY <1>3, <1>6, <1>7, <1>8 DEF Truthful, Tells

(* A page of the dashboard is of one piece and its log explains its values: *)
(* status_payload() holds the lock over snapshot and events, and            *)
(* record_success() and record_failure() leave them in agreement when they  *)
(* release it, whatever the log has dropped (dashboard.py).                 *)
THEOREM PagesTellTheTruth == Spec => PageTellsTheTruth
<1>1. Init => DashboardInv
  BY DashboardStarts
<1>2. DashboardInv /\ [Next]_vars => DashboardInv'
  BY DashboardStep
<1>3. DashboardInv /\ [Next]_vars => [ReadEvents => Truthful]_dashboardVars
  BY PagesAreTrue DEF ReadEvents
<1>4. QED
  BY <1>1, <1>2, <1>3, PTL DEF Spec, PageTellsTheTruth

(* Graph and log agree on how the counter moved, through failures,          *)
(* recoveries and whatever the two bounded queues of the store have         *)
(* dropped (record_success() and _record_value_change_events_locked()).     *)
THEOREM GraphAndLogAgree == Spec => []GraphMatchesLog
<1>1. Init => DashboardInv
  BY DashboardStarts
<1>2. DashboardInv /\ [Next]_vars => DashboardInv'
  BY DashboardStep
<1>3. DashboardInv => GraphMatchesLog
  BY DEF DashboardInv, StoreInv, GraphInv, Curve, GraphMatchesLog
<1>4. QED
  BY <1>1, <1>2, <1>3, PTL DEF Spec
=============================================================================
