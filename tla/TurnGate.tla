------------------------------ MODULE TurnGate ------------------------------
(***************************************************************************)
(* What the proxy promises of a student's turn, whatever stages it goes    *)
(* through: the tutor's words reach the child only after the child's own   *)
(* text was cleared, nothing is added to a turn that is over, and every    *)
(* turn that was begun is over some day.                                   *)
(***************************************************************************)
CONSTANT Turns

VARIABLES
  stage,  \* of each turn
  heard   \* turns whose child has seen words of the tutor

Stages == {"unasked", "asked", "cleared", "over"}

Init == stage = [t \in Turns |-> "unasked"] /\ heard = {}

Ask(t) ==
  /\ stage[t] = "unasked" /\ stage' = [stage EXCEPT ![t] = "asked"]
  /\ UNCHANGED heard

Clear(t) ==
  /\ stage[t] = "asked" /\ stage' = [stage EXCEPT ![t] = "cleared"]
  /\ UNCHANGED heard

Show(t) ==
  /\ stage[t] = "cleared" /\ heard' = heard \cup {t}
  /\ UNCHANGED stage

Close(t) ==
  /\ stage[t] # "over" /\ stage' = [stage EXCEPT ![t] = "over"]
  /\ heard' \in {heard} \cup (IF stage[t] = "cleared" THEN {heard \cup {t}} ELSE {})

Next == \E t \in Turns : Ask(t) \/ Clear(t) \/ Show(t) \/ Close(t)

Safety == Init /\ [][Next]_<<stage, heard>>

\* Every turn that was begun is closed.
EveryTurnCloses == \A t \in Turns : stage[t] \in {"asked", "cleared"} ~> stage[t] = "over"

Spec == Safety /\ EveryTurnCloses
=============================================================================
