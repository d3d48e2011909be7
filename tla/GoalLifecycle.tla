----------------------------- MODULE GoalLifecycle -----------------------------
(***************************************************************************)
(* What the Goal runtime promises about one goal, whatever crashes, shuts  *)
(* down or fails underneath: it is accepted, it is settled at most once,   *)
(* and its result is pushed to the chat at most once and only after it was *)
(* settled.                                                                *)
(***************************************************************************)
EXTENDS Naturals

CONSTANT Goals

VARIABLES outcome,   \* what the goal store says of a goal
          reports    \* number of results pushed to the goal's chat

vars == <<outcome, reports>>

Settled == {"done", "failed"}

Init ==
  /\ outcome = [g \in Goals |-> "absent"]
  /\ reports = [g \in Goals |-> 0]

Accept(g) ==
  /\ outcome[g] = "absent"
  /\ outcome' = [outcome EXCEPT ![g] = "open"]
  /\ UNCHANGED reports

Settle(g) ==
  /\ outcome[g] = "open"
  /\ \E result \in Settled : outcome' = [outcome EXCEPT ![g] = result]
  /\ UNCHANGED reports

Report(g) ==
  /\ outcome[g] \in Settled
  /\ reports[g] = 0
  /\ reports' = [reports EXCEPT ![g] = 1]
  /\ UNCHANGED outcome

Next == \E g \in Goals : Accept(g) \/ Settle(g) \/ Report(g)

Spec == Init /\ [][Next]_vars
=============================================================================
