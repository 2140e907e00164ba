----------------------------- MODULE Supervisor -----------------------------
(***************************************************************************)
(* The supervisor's program, main() of supervisor/main.py: one of the      *)
(* scripts of Campaigns against a cell, or the dashboard.                  *)
(***************************************************************************)
EXTENDS Campaigns, Dashboard

vars == <<campaignVars, dashboardVars>>

TypeOK == CampaignsTypeOK /\ DashboardTypeOK

Init == CampaignsInit /\ DashboardInit

Campaign(A) == A /\ mode # "--dashboard" /\ UNCHANGED dashboardVars

\* The dashboard leaves the answers of the cell open, so it is started beside one cell
\* of many: the last conjunct is a bound.
StartDashboard ==
  /\ mode = "none" /\ mode' = "--dashboard"
  /\ phase = "reset" /\ before = "unknown" /\ magic = {} /\ ~marker /\ counters = Zero
  /\ UNCHANGED <<cellVars, commVars, at, doing, waited, lineVars, outcomeVars, fileVars,
                 verdict, troubles, historyVars, dashboardVars>>

RunDashboard(A) == A /\ mode = "--dashboard" /\ UNCHANGED campaignVars

Exited == main = "exited" /\ UNCHANGED vars

Next == Campaign(CampaignsNext) \/ StartDashboard \/ RunDashboard(DashboardNext) \/ Exited

\* The cell, the scripts and the threads execute, time passes.
Spec ==
  /\ Init /\ [][Next]_vars
  /\ WF_vars(Campaign(CellSteps /\ (Capture \/ Enable \/ Kick \/ Isr)))
  /\ WF_vars(Campaign(Tick)) /\ WF_vars(Campaign(ScriptSteps))
  /\ WF_vars(RunDashboard(MainSteps)) /\ WF_vars(RunDashboard(PollerSteps))
  /\ WF_vars(RunDashboard(ReadEvents)) /\ WF_vars(RunDashboard(HalfSecond))

-----------------------------------------------------------------------------
(* Every script ends with a verdict, the dashboard ends on Ctrl-C whatever  *)
(* its poller is doing, and no hang of the cell lasts: the endless loop of  *)
(* the block command is left by a reset.                                    *)
NothingHangs ==
  /\ mode \in Scripts ~> verdict # "none"
  /\ main = "stopping" ~> main = "exited"
  /\ phase = "blocked" ~> phase = "reset"
=============================================================================
