------------------------------ MODULE Dashboard ------------------------------
(***************************************************************************)
(* The dashboard of the supervisor (supervisor/dashboard.py): the poller's *)
(* thread records every cycle in a store, the threads of the web server    *)
(* read it, and the main thread starts and stops both.  What a cycle does  *)
(* on the line is HostPoller's subject; here it succeeds, fails or is late. *)
(*                                                                         *)
(* Time is counted in ticks of half a second.  The snapshot has one error  *)
(* counter: the other counters are treated like it, the profiles are only  *)
(* shown, and the watchdog marker, logged when it appears, is left out.    *)
(***************************************************************************)
EXTENDS Integers, SequencesExt

CONSTANTS HistoryLimit,    \* samples of the graph
          EventLimit,      \* events of the log
          StaleAfter,      \* ticks after which values are stale
          PollInterval,    \* ticks from cycle to cycle
          ResponseTimeout, \* ticks a read waits for an answer
          JoinTimeout,     \* ticks the main thread waits for the poller
          SettleTime,      \* ticks it waits after opening the port
          Values           \* bound: values of the counter

ASSUME DashboardAssumption ==
  /\ {HistoryLimit, EventLimit, StaleAfter, PollInterval, ResponseTimeout, SettleTime}
       \subseteq Nat \ {0}
  /\ JoinTimeout \in Nat /\ ResponseTimeout + 2 < JoinTimeout
  /\ Values \subseteq Nat

VARIABLES
  main,     \* "off", "bound", "settle", "serve", "stopping", "closed" or "exited"
  idle,     \* ticks the main thread has waited
  stop,     \* _stop_event
  poller,   \* "none", "rest", "ask", "silent", "won", "lost", "late", "settle", "ended",
            \* or "won2", "lost2", "late2" in the middle of a record
  spent,    \* ticks of the poller's present step
  due,      \* ticks to next_cycle_at
  answer,   \* the counter read in this cycle
  previous, \* the snapshot before the failure being recorded
  lock,     \* "none", "poller" or "reader"
  snapshot, events, graph,  \* the store
  age,      \* ticks since the last success, up to StaleAfter + 1
  page,     \* the answer to a request for the status, while it is put together
  rushed    \* history: an answer came late, or Ctrl-C was pressed twice
mainVars == <<main, idle, stop>>
pollerVars == <<poller, spent, due, answer, previous>>
storeVars == <<snapshot, events, graph>>
dashboardVars == <<mainVars, pollerVars, lock, storeVars, age, page, rushed>>

Never == -1   \* None: no cycle has succeeded yet
Empty == [connection |-> "DISCONNECTED", comm |-> Never]
NoPage == [connection |-> "none", comm |-> Never, stale |-> TRUE]

Event(kind, a, b) == [kind |-> kind, from |-> a, to |-> b]
Notice(kind) == Event(kind, Never, Never)
Change(a, b) == Event("changed", a, b)

\* _append_event_locked(), deque(maxlen = limit)
Newest(s, limit) == SubSeq(s, IF Len(s) > limit THEN Len(s) - limit + 1 ELSE 1, Len(s))
Log(new) == events' = Newest(events \o new, EventLimit)

Working == {"ask", "silent", "settle"}   \* the poller uses the link

DashboardTypeOK ==
  /\ main \in {"off", "bound", "settle", "serve", "stopping", "closed", "exited"}
  /\ idle \in 0..(JoinTimeout + SettleTime) /\ stop \in BOOLEAN
  /\ poller \in Working \cup {"none", "rest", "won", "lost", "late", "won2", "lost2", "late2", "ended"}
  /\ spent \in 0..ResponseTimeout /\ due \in (-PollInterval)..PollInterval
  /\ snapshot.connection \in {"CONNECTED", "DEGRADED", "DISCONNECTED"}
  /\ {snapshot.comm, answer, previous.comm, page.comm} \subseteq Values \cup {Never}
  /\ Len(events) <= EventLimit /\ Len(graph) <= HistoryLimit
  /\ lock \in {"none", "poller", "reader"}
  /\ age \in 0..(StaleAfter + 1) /\ {rushed, page.stale} \subseteq BOOLEAN

DashboardInit ==
  /\ main = "off" /\ idle = 0 /\ stop = FALSE
  /\ poller = "none" /\ spent = 0 /\ due = 0 /\ answer = Never /\ previous = Empty
  /\ lock = "none" /\ snapshot = Empty /\ events = <<>> /\ graph = <<>>
  /\ age = StaleAfter + 1 /\ page = NoPage /\ rushed = FALSE

-----------------------------------------------------------------------------
(* The main thread.                                                         *)
\* validate_dashboard_options(), create_http_server(): a bad option or an address in
\* use ends the program before the port is touched.
Bind ==
  /\ main = "off" /\ main' \in {"bound", "exited"}
  /\ UNCHANGED <<idle, stop, pollerVars, lock, storeVars, age, page, rushed>>

\* open_serial_session(): the port opens or it does not.
OpenSession ==
  /\ main = "bound" /\ main' \in {"settle", "closed"}
  /\ UNCHANGED <<idle, stop, pollerVars, lock, storeVars, age, page, rushed>>

Serve ==
  /\ main = "settle" /\ idle = SettleTime
  /\ main' = "serve" /\ idle' = 0
  /\ poller' = "rest"
  /\ UNCHANGED <<stop, spent, due, answer, previous, lock, storeVars, age, page, rushed>>

\* Ctrl-C while the board settles, while pages are served, while the poller is awaited.
Interrupt ==
  /\ \/ main = "settle" /\ main' = "closed" /\ UNCHANGED <<stop, rushed>>
     \/ main = "serve" /\ main' = "stopping" /\ stop' = TRUE /\ UNCHANGED rushed
     \/ main = "stopping" /\ main' = "closed" /\ rushed' = TRUE /\ UNCHANGED stop
  /\ idle' = 0
  /\ UNCHANGED <<pollerVars, lock, storeVars, age, page>>

\* Mutation: the poller is awaited no longer than one of its reads.
JoinBriefly ==
  /\ main = "stopping" /\ (poller = "ended" \/ idle >= ResponseTimeout)
  /\ main' = "closed"
  /\ UNCHANGED <<idle, stop, pollerVars, lock, storeVars, age, page, rushed>>

\* poller.join(); the end of the session closes the port.
Join ==
  /\ main = "stopping" /\ (poller = "ended" \/ idle = JoinTimeout)
  /\ main' = "closed"
  /\ UNCHANGED <<idle, stop, pollerVars, lock, storeVars, age, page, rushed>>

\* server_close(); the threads left are daemons.
CloseServer ==
  /\ main = "closed" /\ main' = "exited"
  /\ UNCHANGED <<idle, stop, pollerVars, lock, storeVars, age, page, rushed>>

-----------------------------------------------------------------------------
(* The poller: DashboardPoller.run() and poll_once().                       *)
BeginCycle ==
  /\ poller = "rest" /\ due <= 0 /\ ~stop
  /\ poller' = "ask" /\ spent' = 0
  /\ UNCHANGED <<due, answer, previous, lock, storeVars>>

EndThread ==
  /\ poller = "rest" /\ stop
  /\ poller' = "ended"
  /\ UNCHANGED <<spent, due, answer, previous, lock, storeVars>>

\* The seven answers arrive, together within a tick.
AllAnswered ==
  /\ poller = "ask"
  /\ poller' = "won" /\ answer' \in Values
  /\ UNCHANGED <<spent, due, previous, lock, storeVars>>

\* One of them does not.
FallsSilent ==
  /\ poller = "ask"
  /\ poller' = "silent" /\ spent' = 0
  /\ UNCHANGED <<due, answer, previous, lock, storeVars>>

AnswersLate ==
  /\ poller = "silent" /\ spent > 0
  /\ poller' = "ask" /\ spent' = 0
  /\ UNCHANGED <<due, answer, previous, lock, storeVars>>

\* A damaged or unexpected answer, an error of the port.
Raises ==
  /\ poller = "ask"
  /\ poller' = "lost"
  /\ UNCHANGED <<spent, due, answer, previous, lock, storeVars>>

ReadTimesOut ==
  /\ poller = "silent" /\ spent = ResponseTimeout
  /\ poller' = "late"
  /\ UNCHANGED <<spent, due, answer, previous, lock, storeVars>>

\* A failed cycle is followed by a whole interval.
Rest == poller' = "rest" /\ due' = PollInterval

\* recover_rx_after_timeout(), which can fail as well.
Flush ==
  /\ poller = "settle"
  /\ Rest \/ (poller' = "lost" /\ UNCHANGED due)
  /\ UNCHANGED <<spent, answer, previous, lock, storeVars>>

\* Mutation: a counter is compared only while the connection lasted.
CountersWhileConnected ==
  IF snapshot.connection # "CONNECTED" \/ snapshot.comm = answer
  THEN <<>> ELSE <<Change(snapshot.comm, answer)>>

\* _record_value_change_events_locked()
CounterChanges ==
  IF snapshot.comm \in {Never, answer}
  THEN <<>> ELSE <<Change(snapshot.comm, answer)>>

Connects ==
  IF snapshot.connection = "CONNECTED" THEN <<>>
  ELSE <<Notice(IF snapshot.comm = Never THEN "Connected" ELSE "Recovered")>>

\* record_success(), first the events, then snapshot and graph.
SuccessEvents ==
  /\ poller = "won" /\ lock = "none"
  /\ poller' = "won2" /\ lock' = "poller"
  /\ Log(Connects \o CounterChanges)
  /\ UNCHANGED <<spent, due, answer, previous, snapshot, graph>>

SuccessSnapshot ==
  /\ poller = "won2"
  /\ snapshot' = [connection |-> "CONNECTED", comm |-> answer]
  /\ graph' = Newest(Append(graph, answer), HistoryLimit)
  /\ poller' = "rest" /\ lock' = "none" /\ answer' = Never
  /\ due' = IF due + PollInterval > 0 THEN due + PollInterval ELSE PollInterval
  /\ UNCHANGED <<spent, previous, events>>

\* record_failure(), first the snapshot, then the event.
FailureSnapshot ==
  /\ poller \in {"lost", "late"} /\ lock = "none"
  /\ poller' = IF poller = "lost" THEN "lost2" ELSE "late2"
  /\ lock' = "poller" /\ previous' = snapshot
  /\ snapshot' = [snapshot EXCEPT !.connection =
                    IF age > StaleAfter THEN "DISCONNECTED" ELSE "DEGRADED"]
  /\ UNCHANGED <<spent, due, answer, events, graph>>

FailureEvent ==
  /\ poller \in {"lost2", "late2"}
  /\ Log(IF snapshot.connection = previous.connection THEN <<>>
         ELSE <<Notice(IF snapshot.connection = "DEGRADED" THEN "Degraded" ELSE "Disconnected")>>)
  /\ IF poller = "lost2" THEN Rest ELSE poller' = "settle" /\ UNCHANGED due
  /\ spent' = 0 /\ lock' = "none" /\ previous' = Empty
  /\ UNCHANGED <<answer, snapshot, graph>>

PollerSteps ==
  /\ main # "exited"
  /\ \/ BeginCycle \/ EndThread \/ AllAnswered \/ FallsSilent \/ AnswersLate \/ Raises
     \/ ReadTimesOut \/ Flush
     \/ SuccessEvents \/ SuccessSnapshot \/ FailureSnapshot \/ FailureEvent
  /\ age' = IF poller = "won2" THEN 0 ELSE age
  /\ rushed' = (rushed \/ AnswersLate)
  /\ UNCHANGED <<mainVars, page>>

-----------------------------------------------------------------------------
(* A thread of the web server that answers /api/status.                     *)
Shown ==
  [connection |-> snapshot.connection, comm |-> snapshot.comm,
   stale |-> snapshot.connection # "CONNECTED" \/ age > StaleAfter]

\* Mutation: without the lock.
ReadUnlocked ==
  /\ main = "serve" /\ page = NoPage
  /\ page' = Shown
  /\ UNCHANGED <<mainVars, pollerVars, lock, storeVars, age, rushed>>

\* status_payload(): the snapshot, then the events.
ReadSnapshot ==
  /\ main = "serve" /\ page = NoPage /\ lock = "none"
  /\ lock' = "reader" /\ page' = Shown
  /\ UNCHANGED <<mainVars, pollerVars, storeVars, age, rushed>>

ReadEvents ==
  /\ page # NoPage /\ main # "exited"
  /\ page' = NoPage /\ lock' = IF lock = "reader" THEN "none" ELSE lock
  /\ UNCHANGED <<mainVars, pollerVars, storeVars, age, rushed>>

-----------------------------------------------------------------------------
\* Half a second; what needs no waiting takes no tick.
HalfSecond ==
  /\ lock = "none" /\ page = NoPage
  /\ main \in {"settle", "serve", "stopping"}
  /\ main = "settle" => idle < SettleTime
  /\ main = "stopping" => idle < JoinTimeout /\ poller # "ended"
  /\ CASE poller = "rest"             -> due > 0 /\ ~stop
       [] poller \in {"ask", "settle"} -> spent < 1
       [] poller = "silent"           -> spent < ResponseTimeout
       [] OTHER                       -> poller \in {"none", "ended"}
  /\ idle' = IF main = "serve" THEN 0 ELSE idle + 1
  /\ spent' = IF poller \in Working THEN spent + 1 ELSE spent
  /\ due' = IF poller # "none" /\ due > -PollInterval THEN due - 1 ELSE due
  /\ age' = IF age <= StaleAfter THEN age + 1 ELSE age
  /\ UNCHANGED <<main, stop, poller, answer, previous, lock, storeVars, page, rushed>>

MainSteps == Bind \/ OpenSession \/ Serve \/ Join \/ CloseServer

DashboardNext ==
  MainSteps \/ Interrupt \/ PollerSteps \/ ReadSnapshot \/ ReadEvents \/ HalfSecond

-----------------------------------------------------------------------------
(* A page is of one piece although two threads write and read the store,    *)
(* and its log explains its values: the newest event of the connection is   *)
(* the connection shown, no such event repeats the one before, the newest   *)
(* change of the counter ends in the value shown, and values older than the *)
(* limit are never shown as live.                                           *)
Explains(kind) ==
  CASE kind \in {"Connected", "Recovered"} -> "CONNECTED"
    [] kind = "Degraded" -> "DEGRADED"
    [] kind = "Disconnected" -> "DISCONNECTED"
    [] OTHER -> "nothing"

\* What the events of a log say of the connection and of the counter.
Told(log) == [i \in DOMAIN log |-> Explains(log[i].kind)]
Tally(log) == [i \in DOMAIN log |-> IF log[i].kind = "changed" THEN log[i].to ELSE Never]

\* Blanks aside, v is the newest entry of a sequence.
EndsIn(s, blank, v) ==
  \A i \in DOMAIN s :
    s[i] # blank /\ (\A j \in DOMAIN s : j > i => s[j] = blank) => s[i] = v

\* Blanks aside, no entry repeats the one before: another comes between equal ones.
Varies(s, blank) ==
  \A i, j \in DOMAIN s :
    i < j /\ s[i] # blank /\ s[i] = s[j] =>
      \E k \in DOMAIN s : i < k /\ k < j /\ s[k] \notin {blank, s[i]}

Truthful ==
  /\ EndsIn(Told(events), "nothing", page.connection)
  /\ Varies(Told(events), "nothing")
  /\ EndsIn(Tally(events), Never, page.comm)
  /\ ~page.stale => age <= StaleAfter /\ page.comm # Never

PageTellsTheTruth == [][ReadEvents => Truthful]_dashboardVars

(* The graph and the log agree on how the counter moved, through failures   *)
(* and recoveries: of the changes each still holds, one is the end of the   *)
(* other.                                                                   *)
Drawn(samples) == {i \in DOMAIN samples : i > 1 /\ samples[i] # samples[i - 1]}
Logged(log) == {i \in DOMAIN log : log[i].kind = "changed"}

\* The newest changes in pairs, as many as both hold.
Agree(samples, log) ==
  \E pairs \in SUBSET (Drawn(samples) \X Logged(log)) :
    /\ \A p \in pairs : log[p[2]] = Change(samples[p[1] - 1], samples[p[1]])
    /\ \A p, q \in pairs : p[1] < q[1] <=> p[2] < q[2]
    /\ \A p \in pairs, i \in Drawn(samples) : i > p[1] => \E q \in pairs : q[1] = i
    /\ \A p \in pairs, i \in Logged(log) : i > p[2] => \E q \in pairs : q[2] = i
    /\ \/ \A i \in Drawn(samples) : \E p \in pairs : p[1] = i
       \/ \A i \in Logged(log) : \E p \in pairs : p[2] = i

GraphMatchesLog == lock = "none" => Agree(graph, events)

(* The port is not closed under a poller that reads or flushes it: the wait *)
(* for the poller outlasts a cycle that ends in a timeout.  (An answer that *)
(* comes late, but in time, can drag a cycle beyond it.)                    *)
ClosedLinkIsLeftAlone == main = "closed" /\ ~rushed => poller \notin Working
=============================================================================
