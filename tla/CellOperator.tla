----------------------------- MODULE CellOperator -----------------------------
(***************************************************************************)
(* CellControl with the history of the button that the operator would      *)
(* report: whether it has been held down since the last reset, and how     *)
(* often the cell started or stopped during the present press.  The code   *)
(* keeps one flag, button_armed, set and cleared by samples 10 ms apart.   *)
(***************************************************************************)
EXTENDS CellControl

VARIABLES heldSinceReset,  \* pressed without a break since the reset
          toggles          \* starts and stops during the present press, up to 2

operatorVars == <<vars, heldSinceReset, toggles>>

OInit == Init /\ heldSinceReset = pressed /\ toggles = 0

Toggled == {state, state'} = {"IDLE", "ACTIVE"}

ONext ==
  \/ /\ Foreground
     /\ toggles' = IF Toggled /\ toggles < 2 THEN toggles + 1 ELSE toggles
     /\ UNCHANGED heldSinceReset
  \/ /\ Tick \/ Echo \/ ObstacleMoves
     /\ UNCHANGED <<heldSinceReset, toggles>>
  \/ /\ ButtonMoves
     /\ heldSinceReset' = (heldSinceReset /\ pressed')
     /\ toggles' = 0
  \/ /\ Reset
     /\ heldSinceReset' = pressed
     /\ toggles' = 0

OSpec == OInit /\ [][ONext]_operatorVars /\ Fairness

-----------------------------------------------------------------------------
(* A button that is stuck, or held down while the cell powers up or comes   *)
(* back from a reset, never starts it: the release must be seen first.      *)
HeldButtonNeverStarts ==
  heldSinceReset => state # "ACTIVE" /\ Hot = {} /\ ~buttonArmed

(* One press starts or stops the cell once, however long it lasts and       *)
(* however often control_task() samples it.                                 *)
OneTransitionPerPress == toggles <= 1
=============================================================================
