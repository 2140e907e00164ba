------------------------------ MODULE Campaigns ------------------------------
(***************************************************************************)
(* The command line of the supervisor (supervisor/main.py) against a cell  *)
(* with its watchdog: every mode but the dashboard is a script, a fixed    *)
(* sequence of waits, requests and files that ends with a verdict, the     *)
(* exit status of main().  What goes wrong in a script is raised and ends  *)
(* it; only the PING after an injected fault is allowed to fail.           *)
(*                                                                         *)
(* A frame is one element of the host's buffer here; how its bytes are     *)
(* read is HostPoller's subject.                                           *)
(***************************************************************************)
EXTENDS Watchdog, SequencesExt

CONSTANTS Scripts,     \* the modes in use
          Samples,     \* --samples of the monitor
          Saturated,   \* where the cell's error counters stay, 255
          OpenWait,    \* ticks the host waits after opening the port
          RecoverWait, \* ticks it waits after the block command
          ReadWait,    \* ticks a read waits for its answer
          Names,       \* bound: report names of one second, 1..Names
          MaxTroubles  \* bound: faults of the line, the cell and the files

\* The modes of the command line but the dashboard; "plain" is none of the options.
Modes ==
  {"plain", "--status", "--timing", "--jitter", "--memory-runtime", "--rt-profile", "--monitor",
   "--fault-injection-comm", "--watchdog-test", "--validation-profile"}

ASSUME CampaignsAssumption ==
  /\ Scripts \subseteq Modes
  /\ OpenWait \in Nat /\ BootTicks < OpenWait
  /\ RecoverWait \in Nat /\ 2 * Timeout + BootTicks < RecoverWait
  /\ {Samples, Saturated, ReadWait, Names} \subseteq Nat \ {0} /\ MaxTroubles \in Nat

VARIABLES
  counters, partial, total,       \* the cell: error counters, a frame begun; every error ever
  mode, at, doing, waited,        \* the script, its step, "step", "sleep" or "read", ticks of it
  rx, late,                       \* answers received; answers that will come too late
  readings, recovered, results,   \* the last two statuses, the last PING, the faults judged
  file, reports, chosen,          \* the CSV file; report names and the one selected
  verdict,                        \* "none", "pass", "fail"; "killed" from outside
  troubles, fit, hit              \* history: faults so far; cell ready at the start;
                                  \* watchdog timed out in the run then under way, or since
commVars == <<counters, partial, total>>
stepVars == <<mode, at, doing, waited>>
lineVars == <<rx, late>>
outcomeVars == <<readings, recovered, results>>
fileVars == <<file, reports, chosen>>
historyVars == <<fit, hit>>
campaignVars == <<cellVars, commVars, stepVars, lineVars, outcomeVars, fileVars, verdict,
                  troubles, historyVars>>

Error == {"crc", "timeout"}
Zero == [e \in Error |-> 0]

-----------------------------------------------------------------------------
(* The scripts.  A step names what is done; a request its kind and number.  *)
Ask(kind, seq) == [do |-> "ask", kind |-> kind, seq |-> seq]
Send(kind, seq) == [do |-> "send", kind |-> kind, seq |-> seq]
Do(what) == [do |-> what, kind |-> "none", seq |-> 0]

Exact(kind, seq) == Ask(kind, seq)      \* the answer is compared whole
Status(kind, seq) == Ask(kind, seq)     \* its number is compared, its decoder checks the rest
CommStatus(seq) == Ask("COMM", seq)
WatchdogStatus(seq) == Ask("WATCHDOG", seq)
ResetCause(seq) == Ask("RESET_CAUSE", seq)
RecoveryPing(seq) == [do |-> "ping", kind |-> "PING", seq |-> seq]
Silence == Do("silence")

\* with SerialLink(port): the port is opened and the boot loader waited for.
Session == <<Do("open"), Do("settle")>>

BringUp(extra) ==
  Session \o <<Exact("PING", \h10), Exact("ECHO", \h20)>>
  \o (CASE extra = "--status" -> <<Status("COMM", \h30)>>
        [] extra = "--timing" -> <<Status("TIMING", \h40)>>
        [] extra = "--jitter" -> <<Status("JITTER", \h50)>>
        [] OTHER -> <<>>)

RuntimeMemory == <<Do("options")>> \o Session \o <<Do("observe"), Status("MEMORY", \h60)>>

RtProfile ==
  <<Do("options")>> \o Session \o <<Do("observe"), Status("CPU", \h70), Status("OVERRUN", \h71)>>

CollectRuntime ==
  <<Status("TIMING", \h80), Status("JITTER", \h81), Status("MEMORY", \h82),
    Status("CPU", \h83), Status("OVERRUN", \h84)>>

ValidationProfile ==
  <<Do("evidence")>> \o Session \o <<Do("observe"), Do("observe"), Do("observe")>>
  \o CollectRuntime \o <<Do("path"), Do("report")>>

NextSequence(i) == (\h40 + i) % \h100
Monitor ==
  <<Do("options")>> \o Session \o <<Do("csv")>>
  \o [i \in 1..(3 * Samples - 1) |->
        CASE i % 3 = 1 -> CommStatus(NextSequence(i \div 3))
          [] i % 3 = 2 -> Do("row")
          [] i % 3 = 0 -> Do("observe")]

FaultInjection ==
  Session
  \o <<Do("csv"),
       CommStatus(\h50), Do("capacity_crc"), Send("BAD_CRC", \h51), Silence,
       CommStatus(\h52), RecoveryPing(\h53), Do("judge_crc"),
       CommStatus(\h60), Do("capacity_timeout"), Send("PARTIAL", \h01), Do("nap"),
       CommStatus(\h61), RecoveryPing(\h62), Do("judge_timeout")>>

WatchdogTest ==
  Session
  \o <<WatchdogStatus(\h70), Send("BLOCK", \h71), Do("recover"),
       RecoveryPing(\h72), WatchdogStatus(\h73), ResetCause(\h74)>>

\* main(): one mode of the command line.
Script ==
  CASE mode = "--validation-profile" -> ValidationProfile
    [] mode = "--rt-profile" -> RtProfile
    [] mode = "--memory-runtime" -> RuntimeMemory
    [] mode = "--fault-injection-comm" -> FaultInjection
    [] mode = "--watchdog-test" -> WatchdogTest
    [] mode = "--monitor" -> Monitor
    [] OTHER -> BringUp(mode)

-----------------------------------------------------------------------------
Step == Script[at]
Ends == verdict # "none"
Trouble == troubles < MaxTroubles /\ troubles' = troubles + 1

CampaignsTypeOK ==
  /\ CellTypeOK
  /\ counters \in [Error -> 0..Saturated] /\ partial \in BOOLEAN /\ total \in [Error -> Nat]
  /\ mode \in Scripts \cup {"none", "--dashboard"}
  /\ doing \in {"step", "sleep", "read"} /\ waited \in 0..RecoverWait
  /\ mode \in Scripts => at \in 1..(Len(Script) + 1)
  /\ recovered \in BOOLEAN /\ reports \in [1..Names -> {"none", "other", "this"}]
  /\ chosen \in 0..Names /\ verdict \in {"none", "pass", "fail", "killed"}
  /\ {fit, hit} \subseteq BOOLEAN /\ troubles \in 0..MaxTroubles

\* Any cell, one whose counters are exhausted included; a file of an earlier
\* campaign that passed.
Nothing == [counters |-> Zero, total |-> Zero, marker |-> FALSE]
CampaignsInit ==
  /\ CellInit
  /\ \E n \in {0, Saturated} : counters = [e \in Error |-> n]
  /\ partial = FALSE /\ total = Zero
  /\ mode = "none" /\ at = 1 /\ doing = "step" /\ waited = 0
  /\ rx = <<>> /\ late = <<>>
  /\ readings = <<Nothing, Nothing>> /\ recovered = FALSE /\ results = <<>>
  /\ file = [by |-> "earlier", rows |-> <<"PASS", "PASS">>]
  /\ reports = [p \in 1..Names |-> "none"] /\ chosen = 0
  /\ verdict = "none" /\ troubles = 0 /\ fit = FALSE /\ hit = FALSE

-----------------------------------------------------------------------------
(* The cell.                                                                *)
Up(n) == IF n < Saturated THEN n + 1 ELSE n
Counted(e) ==
  /\ counters' = [counters EXCEPT ![e] = Up(@)]
  /\ total' = [total EXCEPT ![e] = @ + 1]

\* The parser gives up a frame begun more than 100 ms ago.
Expire ==
  IF partial /\ phase = "run" THEN partial' = FALSE /\ Counted("timeout")
                              ELSE UNCHANGED commVars

\* A reset clears the counters and the parser; a pass of the loop looks at the time.
CommFollows ==
  IF phase' = "reset"
  THEN counters' = Zero /\ partial' = FALSE /\ UNCHANGED total
  ELSE UNCHANGED commVars

\* A board is disturbed at will before the port is opened, then only as a trouble.
CellSteps ==
  /\ \/ (Capture \/ Enable \/ Isr) /\ UNCHANGED commVars
     \/ Kick /\ Expire
     \/ mode = "none" /\ (PowerUp \/ Restart \/ Lag \/ Block) /\ CommFollows
  /\ UNCHANGED <<stepVars, lineVars, outcomeVars, fileVars, verdict, troubles, historyVars>>

Wait ==
  CASE Step.do = "settle" -> OpenWait
    [] Step.do = "recover" -> RecoverWait
    [] OTHER -> 1

\* A script acts within a tick, and takes an answer that is there.
Tick ==
  /\ Elapse /\ CommFollows
  /\ ~Ends => CASE doing = "step" -> mode = "none"
                 [] doing = "sleep" -> waited < Wait
                 [] doing = "read" -> waited < ReadWait /\ rx = <<>>
  /\ waited' = IF Ends \/ doing = "step" THEN waited ELSE waited + 1
  /\ hit' = (hit \/ (mode = "--watchdog-test" /\ (wdif' \/ phase' = "reset")))
  /\ UNCHANGED <<mode, at, doing, lineVars, outcomeVars, fileVars, verdict, troubles, fit>>

\* A brown-out or noise on the line while the script runs.
Disturb ==
  /\ mode \in Scripts /\ ~Ends /\ Trouble
  /\ \/ phase # "reset" /\ Restart /\ CommFollows
     \/ UNCHANGED cellVars /\ phase = "run" /\ Counted("crc") /\ UNCHANGED partial
     \/ UNCHANGED cellVars /\ phase = "run" /\ partial' = TRUE /\ UNCHANGED <<counters, total>>
  /\ UNCHANGED <<stepVars, lineVars, outcomeVars, fileVars, verdict, historyVars>>

LateAnswer ==
  /\ late # <<>> /\ ~Ends
  /\ rx' = Append(rx, Head(late)) /\ late' = Tail(late)
  /\ UNCHANGED <<cellVars, commVars, stepVars, outcomeVars, fileVars, verdict, troubles, historyVars>>

-----------------------------------------------------------------------------
(* The script.                                                              *)
Ready(what) == mode \in Scripts /\ ~Ends /\ doing = "step" /\ at <= Len(Script) /\ Step.do \in what

Advance == at' = at + 1 /\ doing' = "step" /\ waited' = 0 /\ UNCHANGED <<mode, verdict>>
Raise == verdict' = "fail" /\ UNCHANGED stepVars

Main ==
  /\ mode = "none" /\ mode' \in Scripts
  /\ UNCHANGED <<cellVars, commVars, at, doing, waited, lineVars, outcomeVars, fileVars,
                 verdict, troubles, historyVars>>

\* A bad option, a missing artifact, port or directory, a full disk.
StepFails ==
  /\ Ready({"options", "evidence", "open", "csv", "row", "judge_crc", "judge_timeout", "path", "report"})
  /\ Trouble /\ Raise
  /\ UNCHANGED <<cellVars, commVars, lineVars, outcomeVars, fileVars, historyVars>>

\* SerialLink.open(): DTR may reset the board.
Open ==
  /\ Ready({"open"}) /\ Advance
  /\ \/ Restart /\ CommFollows /\ fit' = TRUE /\ hit' = FALSE
     \/ /\ UNCHANGED <<cellVars, commVars>>
        /\ hit' = (fired \/ wdif)
        /\ fit' = (phase = "run" /\ \A e \in Error : counters[e] < Saturated)
  /\ UNCHANGED <<lineVars, outcomeVars, fileVars, troubles>>

Check ==
  /\ Ready({"options", "evidence"}) /\ Advance
  /\ UNCHANGED <<cellVars, commVars, lineVars, outcomeVars, fileVars, troubles, historyVars>>

FallAsleep ==
  /\ Ready({"settle", "observe", "recover"})
  /\ doing' = "sleep" /\ waited' = 0
  /\ UNCHANGED <<cellVars, commVars, mode, at, lineVars, outcomeVars, fileVars, verdict,
                 troubles, historyVars>>

WakeUp ==
  /\ doing = "sleep" /\ ~Ends /\ waited = Wait /\ Advance
  /\ UNCHANGED <<cellVars, commVars, lineVars, outcomeVars, fileVars, troubles, historyVars>>

\* Mutation: the next request follows at once.
NapOmitted ==
  /\ Ready({"nap"}) /\ Advance
  /\ UNCHANGED <<cellVars, commVars, lineVars, outcomeVars, fileVars, troubles, historyVars>>

\* time.sleep(0.20): less than a tick, more than the parser's timeout.
Nap ==
  /\ Ready({"nap"}) /\ Advance /\ Expire
  /\ UNCHANGED <<cellVars, lineVars, outcomeVars, fileVars, troubles, historyVars>>

\* _require_no_bad_crc_response(): 0.15 s without a byte.
ListenForNothing ==
  /\ Ready({"silence"}) /\ Expire
  /\ IF rx = <<>> THEN Advance ELSE Raise
  /\ UNCHANGED <<cellVars, lineVars, outcomeVars, fileVars, troubles, historyVars>>

-----------------------------------------------------------------------------
(* Requests and answers.                                                    *)
\* The type each decoder insists on.
ReplyType(kind) == CASE kind = "PING" -> "PONG" [] kind = "ECHO" -> "ACK" [] OTHER -> kind

Reply == [type |-> ReplyType(Step.kind), seq |-> Step.seq,
          says |-> [counters |-> counters, total |-> total, marker |-> marker]]
Junk == [type |-> "junk", seq |-> 0, says |-> Nothing]

\* What a running cell does with the frame of this step.
Obeys ==
  CASE Step.kind = "BLOCK"   -> Block /\ UNCHANGED <<commVars, rx>>
    [] Step.kind = "BAD_CRC" -> Counted("crc") /\ UNCHANGED <<partial, cellVars, rx>>
    [] Step.kind = "PARTIAL" -> partial' = TRUE /\ UNCHANGED <<counters, total, cellVars, rx>>
    [] OTHER -> rx' = Append(rx, Reply) /\ UNCHANGED <<commVars, cellVars>>

\* A frame begun swallows the bytes of the next.
Swallows ==
  /\ partial' \in BOOLEAN
  /\ Counted("crc") \/ UNCHANGED <<counters, total>>

\* Lost, garbled or cut short on the way; its answer damaged or late.
Loses ==
  \/ UNCHANGED <<commVars, lineVars>>
  \/ phase = "run" /\ Counted("crc") /\ UNCHANGED <<partial, lineVars>>
  \/ phase = "run" /\ partial' = TRUE /\ UNCHANGED <<counters, total, lineVars>>
  \/ /\ phase = "run" /\ Step.do # "send" /\ UNCHANGED commVars
     /\ \/ rx' = Append(rx, Junk) /\ UNCHANGED late
        \/ late' = Append(late, Reply) /\ UNCHANGED rx

Write ==
  /\ Ready({"ask", "ping", "send"})
  /\ IF Step.do = "send" THEN Advance
     ELSE doing' = "read" /\ waited' = 0 /\ UNCHANGED <<mode, at, verdict>>
  /\ \/ phase = "run" /\ ~partial /\ Obeys /\ UNCHANGED <<late, troubles>>
     \/ phase = "run" /\ partial /\ Swallows /\ UNCHANGED <<cellVars, lineVars, troubles>>
     \/ phase # "run" /\ UNCHANGED <<cellVars, commVars, lineVars, troubles>>
     \/ Trouble /\ Loses /\ UNCHANGED cellVars
  /\ UNCHANGED <<outcomeVars, fileVars, historyVars>>

\* A failed PING is remembered and ends the watchdog test; other failures are raised.
Fails ==
  IF Step.do = "ping"
  THEN /\ recovered' = FALSE /\ UNCHANGED <<readings, results>>
       /\ IF mode = "--watchdog-test" THEN Raise ELSE Advance
  ELSE Raise /\ UNCHANGED outcomeVars

\* decode_frame(): size, start, version, length and CRC are right.
Decodes(f) == f # Junk

\* Type and number are those of the request; of the cell's answers the rest is right.
Expected(f) == Decodes(f) /\ f.type = ReplyType(Step.kind) /\ f.seq = Step.seq

Takes(f) ==
  /\ Advance
  /\ readings' = IF Step.kind \in {"COMM", "WATCHDOG"} THEN <<readings[2], f.says>> ELSE readings
  /\ recovered' = (Step.do = "ping" \/ recovered)
  /\ UNCHANGED results

Receive ==
  /\ doing = "read" /\ ~Ends /\ rx # <<>>
  /\ rx' = Tail(rx)
  /\ IF Expected(Head(rx)) THEN Takes(Head(rx)) ELSE Fails
  /\ UNCHANGED <<cellVars, commVars, late, fileVars, troubles, historyVars>>

\* Mutation: the read waits for ever.
TimeOutNever == FALSE

TimeOut ==
  /\ doing = "read" /\ ~Ends /\ rx = <<>> /\ waited = ReadWait
  /\ Fails
  /\ UNCHANGED <<cellVars, commVars, lineVars, fileVars, troubles, historyVars>>

-----------------------------------------------------------------------------
(* Files and verdicts.                                                      *)
\* Mutation: the file is opened for appending.
OpenCsvAppend ==
  /\ Ready({"csv"}) /\ Advance
  /\ file' = [file EXCEPT !.by = "this"]
  /\ UNCHANGED <<cellVars, commVars, lineVars, outcomeVars, reports, chosen, troubles, historyVars>>

\* CsvLogger.open(): what an earlier campaign wrote is gone.
OpenCsv ==
  /\ Ready({"csv"}) /\ Advance
  /\ file' = [by |-> "this", rows |-> <<>>]
  /\ UNCHANGED <<cellVars, commVars, lineVars, outcomeVars, reports, chosen, troubles, historyVars>>

\* A row is flushed before the script goes on.
WriteRow ==
  /\ Ready({"row"}) /\ Advance
  /\ file' = [file EXCEPT !.rows = Append(@, "SAMPLE")]
  /\ UNCHANGED <<cellVars, commVars, lineVars, outcomeVars, reports, chosen, troubles, historyVars>>

Injected == IF Step.do \in {"capacity_crc", "judge_crc"} THEN "crc" ELSE "timeout"

\* require_counter_increment_capacity()
Capacity ==
  /\ Ready({"capacity_crc", "capacity_timeout"})
  /\ IF readings[2].counters[Injected] = Saturated THEN Raise ELSE Advance
  /\ UNCHANGED <<cellVars, commVars, lineVars, outcomeVars, fileVars, troubles, historyVars>>

\* Mutation: a counter that stays is enough.
NotDecremented(e) == readings[2].counters[e] >= readings[1].counters[e]

Incremented(e) == readings[2].counters[e] > readings[1].counters[e]

\* build_fault_result() and its row; "seen" is history: the error did occur.
Judge ==
  /\ Ready({"judge_crc", "judge_timeout"}) /\ Advance
  /\ LET passed == Incremented(Injected) /\ recovered
         seen == readings[2].total[Injected] > readings[1].total[Injected]
     IN /\ results' = Append(results, [passed |-> passed, seen |-> seen])
        /\ file' = [file EXCEPT !.rows = Append(@, IF passed THEN "PASS" ELSE "FAIL")]
  /\ UNCHANGED <<cellVars, commVars, lineVars, readings, recovered, reports, chosen,
                 troubles, historyVars>>

Free == {p \in 1..Names : reports[p] = "none"}

\* measurement_report_path(): the first name not taken, if there is one.
SelectPath ==
  /\ Ready({"path"})
  /\ IF Free = {} THEN Raise /\ UNCHANGED chosen
     ELSE Advance /\ chosen' = CHOOSE p \in Free : \A q \in Free : p <= q
  /\ UNCHANGED <<cellVars, commVars, lineVars, outcomeVars, file, reports, troubles, historyVars>>

\* Mutation: the file is created or replaced.
WriteReportOver ==
  /\ Ready({"report"}) /\ Advance /\ reports' = [reports EXCEPT ![chosen] = "this"]
  /\ UNCHANGED <<cellVars, commVars, lineVars, outcomeVars, file, chosen, troubles, historyVars>>

\* write_measurement_report(): exclusive creation.
WriteReport ==
  /\ Ready({"report"})
  /\ IF reports[chosen] = "none"
     THEN Advance /\ reports' = [reports EXCEPT ![chosen] = "this"]
     ELSE Raise /\ UNCHANGED reports
  /\ UNCHANGED <<cellVars, commVars, lineVars, outcomeVars, file, chosen, troubles, historyVars>>

\* A campaign on another port of this host selects and writes its report.
OtherReport ==
  /\ mode = "--validation-profile" /\ ~Ends /\ Trouble
  /\ \E p \in Free : reports' = [reports EXCEPT ![p] = "other"]
  /\ UNCHANGED <<cellVars, commVars, stepVars, lineVars, outcomeVars, file, chosen, verdict,
                 historyVars>>

\* watchdog_test_passed(), with the PING known to have been answered.
MarkerSeen == readings[2].marker

Passed ==
  /\ mode = "--watchdog-test" => MarkerSeen
  /\ mode = "--fault-injection-comm" => \A i \in DOMAIN results : results[i].passed

\* The end of the script: the exit status.
Conclude ==
  /\ mode \in Scripts /\ ~Ends /\ at = Len(Script) + 1
  /\ verdict' = IF Passed THEN "pass" ELSE "fail"
  /\ UNCHANGED <<cellVars, commVars, stepVars, lineVars, outcomeVars, fileVars, troubles, historyVars>>

\* Ctrl-C, or worse.
Kill ==
  /\ mode \in Scripts /\ ~Ends /\ Trouble
  /\ verdict' = "killed"
  /\ UNCHANGED <<cellVars, commVars, stepVars, lineVars, outcomeVars, fileVars, historyVars>>

ScriptSteps ==
  \/ Open \/ Check \/ FallAsleep \/ WakeUp \/ Nap \/ ListenForNothing
  \/ Write \/ Receive \/ TimeOut
  \/ OpenCsv \/ WriteRow \/ Capacity \/ Judge \/ SelectPath \/ WriteReport \/ Conclude

World == Main \/ Disturb \/ LateAnswer \/ OtherReport \/ StepFails \/ Kill

CampaignsNext == CellSteps \/ Tick \/ ScriptSteps \/ World

-----------------------------------------------------------------------------
(* A passed campaign has seen what it was to show.  The watchdog test has   *)
(* made the watchdog time out, provided the marker was clear before         *)
(* (the script reads that marker but does not insist on it); each fault     *)
(* that passed was an error the cell met between its two readings, whatever *)
(* was reset or exhausted in between; a validation left its own report.     *)
PassIsEarned ==
  /\ \A i \in DOMAIN results : results[i].passed => results[i].seen
  /\ verdict = "pass" /\ mode = "--watchdog-test" /\ ~readings[1].marker => hit
  /\ verdict = "pass" /\ mode = "--validation-profile" => reports[chosen] = "this"

(* On a line without faults, with a cell that was reset by the opening of   *)
(* the port or was running with counters to spare, no script fails: its     *)
(* waits are long enough for start-up, parser timeout and both watchdog     *)
(* timeouts.                                                                *)
CleanRunPasses == verdict = "fail" /\ troubles = 0 => ~fit

(* The CSV file tells the verdict of the campaign that wrote it last: one   *)
(* that failed leaves no file that looks like a pass, one that passed       *)
(* leaves a complete one.                                                   *)
FileTellsVerdict ==
  file.by = "this" /\ verdict \in {"pass", "fail"} =>
    (verdict = "pass" <=>
       file.rows = IF mode = "--monitor" THEN [i \in 1..Samples |-> "SAMPLE"] ELSE <<"PASS", "PASS">>)

(* Existing evidence is never overwritten, also when two campaigns end in   *)
(* the same second.                                                         *)
ReportIsFinal ==
  [][\A p \in 1..Names : reports[p] # "none" => reports'[p] = reports[p]]_campaignVars
=============================================================================
