\* A tick of a campaign is a third of a second: one second to the watchdog's
\* interrupt, one more to the reset, 2.2 s after opening the port and four
\* after the command.  A tick of the dashboard is half a second.
SPECIFICATION Spec
CONSTANTS
  Timeout = 3
  BootTicks = 4
  OpenWait = 7
  RecoverWait = 12
  ReadWait = 3
  Scripts = {"plain", "--status", "--timing", "--jitter", "--memory-runtime", "--rt-profile", "--monitor", "--fault-injection-comm", "--watchdog-test", "--validation-profile"}
  Samples = 2
  Saturated = 2
  Names = 2
  MaxTroubles = 1
  HistoryLimit = 3
  EventLimit = 3
  StaleAfter = 6
  PollInterval = 2
  ResponseTimeout = 2
  JoinTimeout = 5
  SettleTime = 5
  Values = {0, 1}
INVARIANTS
  MarkerTellsTimeout
  PassIsEarned
  CleanRunPasses
  FileTellsVerdict
  GraphMatchesLog
  ClosedLinkIsLeftAlone
PROPERTIES
  ReportIsFinal
  PageTellsTheTruth
  NothingHangs
