--------------------------- MODULE GoalNotifications ---------------------------
(***************************************************************************)
(* Terminal notifications of runtime/worker.py, the acceptance gate of     *)
(* runtime/runtime_manager.py and runtime/notifications.py, and the table  *)
(* behind notification_store (external: modelled by what its five methods  *)
(* are called for).                                                        *)
(*                                                                         *)
(* A goal has at most two notification tasks at a time: the one its worker *)
(* started when it settled the goal, and one of the recovery loop, whose   *)
(* period is longer than the life of a task.                               *)
(***************************************************************************)
EXTENDS Integers

CONSTANTS Goals,
          Reopenable,    \* bound: goals that may block and be taken up again, once
          MaxFailures,   \* bound on sends that fail or time out
          MaxStops       \* bound on stops of the pool and crashes

GoalNotificationsAssumption ==
  Reopenable \subseteq Goals /\ MaxFailures \in Nat /\ MaxStops \in Nat

Starters == {"worker", "loop"}

VARIABLES row,        \* notification_store: the row of each goal
          gate,       \* _acceptance_gates, and why a gate is gone
          task,       \* where each notification task is
          ending,     \* how the goal ended when its worker started a notification
          delivered,  \* messages the user got for each goal
          lost,       \* attempts that ended without a record of their success
          up,         \* the pool runs
          failures, stops

bounds == <<failures, stops>>
vars == <<row, gate, task, ending, delivered, lost, up, bounds>>

Tasks == Goals \X Starters
Holding == {"gate", "sending"}
NoTasks == [t \in Tasks |-> "none"]

\* Mutant: a claim is due at once, not after stale_after_seconds.
DueUnlessSent(g) == row[g] \in {"failed", "stale", "claimed"}

\* What the store hands out for a claim, and lists as recoverable.
Due(g) == row[g] \in {"failed", "stale"}

Init ==
  /\ row = [g \in Goals |-> "none"] /\ gate = [g \in Goals |-> "none"]
  /\ task = NoTasks /\ ending = [g \in Goals |-> "none"] /\ up = TRUE
  /\ delivered = [g \in Goals |-> 0] /\ lost = [g \in Goals |-> 0]
  /\ failures = 0 /\ stops = 0

Row(g, st) == row' = [row EXCEPT ![g] = st]
Task(t, st) == task' = [task EXCEPT ![t] = st]
Gate(g, st) == gate' = [gate EXCEPT ![g] = st]
Ending(g, how) == ending' = [ending EXCEPT ![g] = how]

-----------------------------------------------------------------------------
\* RuntimeManager: the gate is closed when the goal is accepted, opened when the
\* acceptance message was sent, and dropped by cancel_goal.
CloseGate(g) ==
  /\ up /\ gate[g] = "none" /\ ending[g] = "none"
  /\ Gate(g, "closed")
  /\ UNCHANGED <<row, task, ending, delivered, lost, up, bounds>>

OpenGate(g) ==
  /\ gate[g] = "closed"
  /\ Gate(g, "accepted") \/ Gate(g, "cancelled")
  /\ UNCHANGED <<row, task, ending, delivered, lost, up, bounds>>

\* _start_terminal_notification by the worker that settled the goal.  When it ends for the
\* second time while the first task is under way, the claim of the first stops the second.
SettleGoal(g) ==
  /\ up /\ gate[g] # "none"
  /\ \/ ending[g] \in {"none", "reopened"} /\ Ending(g, "final")
     \/ ending[g] = "none" /\ g \in Reopenable /\ Ending(g, "blocked")
  /\ IF task[<<g, "worker">>] = "none" THEN Task(<<g, "worker">>, "new") ELSE UNCHANGED task
  /\ UNCHANGED <<row, gate, delivered, lost, up, bounds>>

\* pause_goal, resume_goal and cancel_goal take a blocked goal.
Reopen(g) ==
  /\ ending[g] = "blocked" /\ Ending(g, "reopened")
  /\ UNCHANGED <<row, gate, task, delivered, lost, up, bounds>>

\* ensure_goal_notification and claim_goal_notification.
Claim(t) ==
  LET g == t[1] IN
  /\ task[t] = "new"
  /\ IF row[g] = "none" \/ Due(g)
     THEN Row(g, "claimed") /\ Task(t, "gate")
     ELSE Task(t, "none") /\ UNCHANGED row
  /\ UNCHANGED <<gate, ending, delivered, lost, up, bounds>>

\* wait_until_accepted returns: the gate was opened, or there is none.
PassGate(t) ==
  /\ task[t] = "gate" /\ gate[t[1]] # "closed"
  /\ Task(t, "sending")
  /\ UNCHANGED <<row, gate, ending, delivered, lost, up, bounds>>

\* The callback's own timeout ends the wait, which takes the gate away.
GateTimesOut(t) ==
  /\ task[t] = "gate" /\ gate[t[1]] = "closed"
  /\ Gate(t[1], "dropped") /\ Task(t, "none") /\ Row(t[1], "failed")
  /\ UNCHANGED <<ending, delivered, lost, up, bounds>>

Sent(t) ==
  /\ task[t] = "sending"
  /\ Task(t, "none") /\ Row(t[1], "sent")
  /\ delivered' = [delivered EXCEPT ![t[1]] = @ + 1]
  /\ UNCHANGED <<gate, ending, lost, up, bounds>>

MayArrive(g) == \/ UNCHANGED delivered
                \/ delivered' = [delivered EXCEPT ![g] = @ + 1]

\* The send raises or times out; the message may have arrived.
SendFails(t) ==
  /\ task[t] = "sending" /\ failures < MaxFailures /\ failures' = failures + 1
  /\ Task(t, "none") /\ Row(t[1], "failed")
  /\ MayArrive(t[1]) /\ lost' = [lost EXCEPT ![t[1]] = @ + 1]
  /\ UNCHANGED <<gate, ending, up, stops>>

-----------------------------------------------------------------------------
\* A claim whose task is gone becomes stale; a live task is younger than that.
GrowStale(g) ==
  /\ row[g] = "claimed" /\ \A s \in Starters : task[<<g, s>>] \notin Holding
  /\ Row(g, "stale")
  /\ UNCHANGED <<gate, task, ending, delivered, lost, up, bounds>>

Announceable(g) == ending[g] \in {"final", "blocked"}

\* Mutant: only rows that failed are taken up.
RecoverFailed(g) ==
  /\ up /\ row[g] = "failed" /\ Announceable(g) /\ task[<<g, "loop">>] = "none"
  /\ Task(<<g, "loop">>, "new")
  /\ UNCHANGED <<row, gate, ending, delivered, lost, up, bounds>>

\* recover_notifications: a row is passed over while the goal is not done, blocked or
\* failed.  (A goal that cannot be read waits for the next period.)
Recover(g) ==
  /\ up /\ Due(g) /\ Announceable(g) /\ task[<<g, "loop">>] = "none"
  /\ Task(<<g, "loop">>, "new")
  /\ UNCHANGED <<row, gate, ending, delivered, lost, up, bounds>>

\* The pool stops: tasks that do not end in time are cancelled and leave their claims;
\* a cancelled wait takes its gate away.  A crash takes the gates as well.
Stop ==
  /\ up /\ stops < MaxStops /\ stops' = stops + 1 /\ up' = FALSE
  /\ task' = NoTasks
  /\ gate' \in {[g \in Goals |-> IF gate[g] = "closed" /\ (crash \/ \E s \in Starters : task[<<g, s>>] = "gate")
                                 THEN "dropped" ELSE gate[g]] : crash \in BOOLEAN}
  /\ LET sending == {g \in Goals : \E s \in Starters : task[<<g, s>>] = "sending"} IN
     /\ lost' = [g \in Goals |-> IF g \in sending THEN lost[g] + 1 ELSE lost[g]]
     /\ \E arrived \in SUBSET sending :
          delivered' = [g \in Goals |-> IF g \in arrived THEN delivered[g] + 1
                                                         ELSE delivered[g]]
  /\ UNCHANGED <<row, ending, failures>>

Start == /\ ~up /\ up' = TRUE
         /\ UNCHANGED <<row, gate, task, ending, delivered, lost, bounds>>

-----------------------------------------------------------------------------
Notify(t) == Claim(t) \/ PassGate(t) \/ GateTimesOut(t) \/ Sent(t) \/ SendFails(t)
Next == \/ \E g \in Goals : CloseGate(g) \/ OpenGate(g) \/ SettleGoal(g) \/ Reopen(g)
                            \/ GrowStale(g) \/ Recover(g)
        \/ \E t \in Tasks : Notify(t)
        \/ Stop \/ Start
Spec == Init /\ [][Next]_vars

\* Tasks run, the recovery loop has its period, and the pool is started again.
FairSpec == /\ Spec /\ WF_vars(Start)
            /\ \A t \in Tasks : WF_vars(Notify(t))
            /\ \A g \in Goals : WF_vars(GrowStale(g)) /\ WF_vars(Recover(g))

-----------------------------------------------------------------------------
TypeOK ==
  /\ row \in [Goals -> {"none", "claimed", "stale", "failed", "sent"}]
  /\ gate \in [Goals -> {"none", "closed", "accepted", "cancelled", "dropped"}]
  /\ task \in [Tasks -> {"none", "new"} \cup Holding]
  /\ ending \in [Goals -> {"none", "final", "blocked", "reopened"}] /\ up \in BOOLEAN
  /\ lost \in [Goals -> 0..(MaxFailures + MaxStops)]
  /\ delivered \in [Goals -> 0..(1 + MaxFailures + MaxStops)]
  /\ failures \in 0..MaxFailures /\ stops \in 0..MaxStops

\* The worker and the recovery loop never send for one goal at the same time, and
\* whoever sends holds the claim.
OneSender ==
  \A g \in Goals :
    /\ ~(task[<<g, "worker">>] \in Holding /\ task[<<g, "loop">>] \in Holding)
    /\ (\E s \in Starters : task[<<g, s>>] \in Holding) => row[g] = "claimed"

\* The user gets one message, and at most one more for each attempt whose success
\* could not be recorded.
NoExtraMessages == \A g \in Goals : delivered[g] <= 1 + lost[g]

\* Once a row exists its message is sent, whatever fails and stops meanwhile, unless the
\* goal was taken up again and has not ended since.
AllSent == \A g \in Goals : row[g] \in {"none", "sent"} \/ ending[g] = "reopened"
RecordedIsSent == []<>AllSent

\* Violated: the recovery sends what is recorded.  The row of a blocked goal that was
\* cancelled, or resumed and not run again, is passed over for ever.
EveryRowIsSent == []<>(\A g \in Goals : row[g] \in {"none", "sent"})

\* Violated: "acceptance message is sent before the final result".  The 30 s of the
\* callback end the wait of 300 s for the acceptance, and the next attempt does not wait.
AcceptanceFirst ==
  \A g \in Goals :
    delivered[g] > 0 /\ stops = 0 => gate[g] \in {"accepted", "cancelled"}
=============================================================================
