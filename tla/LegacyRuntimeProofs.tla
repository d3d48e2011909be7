--------------------------- MODULE LegacyRuntimeProofs ---------------------------
(***************************************************************************)
(* Proofs about the parts of LegacyRuntime: the plan of a goal, for every  *)
(* plan, retry budget and step budget; its notifications, for any number   *)
(* of goals, failing sends and stops; and the pool of workers over the     *)
(* queue, for any number of goals, workers, slots, stops and failing       *)
(* calls of the store.                                                     *)
(***************************************************************************)
EXTENDS LegacyRuntime, Sequences, FiniteSetTheorems, TLAPS

\* A step that waits was called once for each retry and interruption on record, so one
\* more call is covered.
Accounted(i) ==
  /\ step[i] = "none" => calls[i] = 0
  /\ step[i] = "pending" => calls[i] <= retries[i] + interrupts[i]
  /\ calls[i] <= 1 + retries[i] + interrupts[i]

\* What a run relies on where it awaits.
RunState ==
  /\ pc \in Awaits => left > 0
  /\ pc = "executing" => current \in Steps
  /\ pc = "planning" => \A i \in Steps : step[i] = "none"

\* The plan is stored as a whole.
PlanIsWhole == (\E i \in Steps : step[i] = "none") => \A i \in Steps : step[i] = "none"

IInv == TypeOK /\ RunState /\ PlanIsWhole /\ (\A i \in Steps : Accounted(i)) /\ DoneGoalsHaveResults

LEMMA InitIInv == Init => IInv
BY PlanAssumption, BoundsAssumption
DEF Init, IInv, TypeOK, RunState, PlanIsWhole, Accounted, DoneGoalsHaveResults, Statuses,
    ExecutionFinal, Final, Awaits

\* Every step keeps the invariant.
LEMMA StepIInv == IInv /\ [Next]_vars => IInv'
<1> SUFFICES ASSUME IInv, [Next]_vars PROVE IInv'
  OBVIOUS
<1> USE PlanAssumption, StepKindsAssumption, BoundsAssumption
    DEF IInv, TypeOK, RunState, PlanIsWhole, Accounted, DoneGoalsHaveResults, Statuses,
        ExecutionFinal, Final, Awaits, Bounds
<1>1. CASE Claim
  <2>1. (pc' = "planning" => \A i \in Steps : step[i] = "none") /\ UNCHANGED <<step, calls, retries, interrupts>>
    BY <1>1 DEF Claim, Planned, Claimable
  <2>2. left' \in 0..MaxSteps /\ (pc' \in Awaits => left' > 0 /\ pc' # "executing")
    BY <1>1 DEF Claim, Claimable
  <2>3. goal' \in Statuses /\ (goal' = "done" => goal = "done")
    BY <1>1 DEF Claim, Claimable
  <2>4. TypeOK'
    BY <1>1, <2>1, <2>2, <2>3 DEF Claim, Claimable
  <2> QED
    BY <2>1, <2>2, <2>3, <2>4
<1>2. CASE Plan
  <2>1. CASE step' = [i \in Steps |-> "pending"] /\ goal = "running"
    BY <1>2, <2>1 DEF Plan, CommitPlan, Return, Leave, Finish
  <2>2. CASE UNCHANGED step
    BY <1>2, <2>2 DEF Plan, CommitPlan, Return, Leave, Finish
  <2> QED
    BY <1>2, <2>1, <2>2 DEF Plan, CommitPlan
<1>3. CASE Check
  <2>1. ASSUME UNCHANGED <<step, calls>> PROVE IInv'
    <3>1. /\ goal' \in Statuses /\ announced' \in {"none"} \cup ExecutionFinal
          /\ goal' = "done" => goal = "done" \/ Complete
      BY <1>3, <2>1 DEF Check, Finish, StartStep
    <3>2. pc' = "ended" /\ left' = 0 /\ current' = 0 /\ UNCHANGED <<queued, retries, interrupts, ops, stops>>
      <4>1. ~\E i \in NextPending : StartStep(i)
        BY <2>1 DEF StartStep, NextPending
      <4> QED
        BY <1>3, <4>1 DEF Check, Finish, Leave
    <3> QED
      BY <2>1, <3>1, <3>2 DEF Complete
  <2>2. ASSUME NEW i \in NextPending, StartStep(i), pc' = "executing", current' = i,
               UNCHANGED <<goal, announced, queued, left>>, goal = "running"
        PROVE  IInv'
    BY <1>3, <2>2 DEF Check, NextPending, StartStep
  <2> QED
    BY <1>3, <2>1, <2>2, Zenon DEF Check
<1>4. CASE StepReturns
  BY <1>4 DEF StepReturns, Return, Leave, Finish, Committed, Again, Retry, Review, Outcomes
<1>5. CASE FailRaised
  BY <1>5 DEF FailRaised, Release, Stop
<1>6. CASE PauseStopped
  BY <1>6 DEF PauseStopped, Release, Interrupt, PutStepsBack, PutBack, RunningSteps, Untouched
<1>7. CASE RunReturns \/ CancelledRun \/ RunRaises \/ StopRun
  <2>1. UNCHANGED <<stored, calls, interrupts>>
    BY <1>7 DEF RunReturns, CancelledRun, RunRaises, StopRun
  <2>2. TypeOK'
    BY <1>7 DEF RunReturns, CancelledRun, RunRaises, StopRun, Release, Stop, stored
  <2>3. pc' \in {"idle", "raised", "stopped"}
    BY <1>7 DEF RunReturns, CancelledRun, RunRaises, StopRun, Release
  <2> QED
    BY <2>1, <2>2, <2>3 DEF stored
<1>14. CASE PauseFails
  <2>1. CASE Untouched \/ UNCHANGED <<step, interrupts>>
    BY <1>14, <2>1 DEF PauseFails, Release, Untouched, Stop, PutStepsBack, PutBack, RunningSteps
  <2>2. CASE PutStepsBack /\ goal' = "failed"
    BY <1>14, <2>2 DEF PauseFails, Release, Stop, PutStepsBack, PutBack, RunningSteps
  <2> QED
    BY <1>14, <2>1, <2>2 DEF PauseFails
<1>8. CASE Crash
  <2>1. UNCHANGED <<goal, step, retries, calls, interrupts, announced, ops>>
    BY <1>8 DEF Crash, stored
  <2>2. pc' = "idle" /\ current' = 0 /\ left' = 0 /\ stops' \in 0..MaxStops
    BY <1>8 DEF Crash, Stop
  <2>3. queued' \in BOOLEAN
    BY <1>8 DEF Crash
  <2>4. left' \in 0..MaxSteps /\ current' \in Steps \cup {0}
    BY <2>2
  <2>5. TypeOK'
    BY <2>1, <2>2, <2>3, <2>4
  <2>6. RunState' /\ PlanIsWhole' /\ DoneGoalsHaveResults'
    BY <2>1, <2>2
  <2> QED
    BY <2>1, <2>5, <2>6
<1>9. CASE Recover
  BY <1>9 DEF Recover, Interrupt, PutStepsBack, PutBack, RunningSteps, Untouched
<1>10. CASE Pause
  BY <1>10 DEF Pause, Op, run, Interrupt, PutStepsBack, PutBack, RunningSteps
<1>11. CASE SetRunning
  BY <1>11 DEF SetRunning, Op, run
<1>12. CASE CancelGoal
  BY <1>12 DEF CancelGoal, Op, run
<1>13. CASE UNCHANGED vars
  BY <1>13 DEF vars, stored, run
<1> QED
  BY <1>1, <1>2, <1>3, <1>4, <1>5, <1>6, <1>7, <1>8, <1>9, <1>10, <1>11, <1>12, <1>13, <1>14
  DEF Next, RunStep, Operator

\* Types: no retry beyond max_retry, no iteration beyond max_steps.
THEOREM TypeCorrect == Spec => []TypeOK
<1>1. IInv => TypeOK
  BY DEF IInv
<1> QED
  BY <1>1, InitIInv, StepIInv, PTL DEF Spec

\* The skill is called once for a step, and once more for each recorded retry and
\* interruption.
THEOREM CallsAreAlwaysAccounted == Spec => []CallsAreAccounted
<1>1. IInv => CallsAreAccounted
  BY DEF IInv, Accounted, CallsAreAccounted
<1> QED
  BY <1>1, InitIInv, StepIInv, PTL DEF Spec

\* A goal that is done has the results of its required steps.
THEOREM ResultsBackDone == Spec => []DoneGoalsHaveResults
<1>1. IInv => DoneGoalsHaveResults
  BY DEF IInv
<1> QED
  BY <1>1, InitIInv, StepIInv, PTL DEF Spec

\* Only two of the worker's answers to a failure write over a settled goal.
LEMMA StepSettled == IInv /\ [Next]_vars => [SettledStays]_vars
<1> SUFFICES ASSUME IInv, [Next]_vars, goal \in Final
             PROVE  \/ goal' = goal
                    \/ goal' = "failed" /\ (pc = "raised" \/ (pc = "stopped" /\ stops' > stops))
  BY DEF SettledStays
<1> USE DEF Final, Finish, Return, Leave
<1>1. CASE Claim \/ Plan \/ Check
  BY <1>1 DEF Claim, Claimable, Plan, Check
<1>2. CASE StepReturns
  BY <1>2 DEF StepReturns, Again, Retry
<1>3. CASE FailRaised \/ PauseStopped \/ Recover
  BY <1>3 DEF FailRaised, PauseStopped, Recover, Interrupt, Untouched
<1>4. CASE PauseFails
  <2>1. stops' > stops
    BY <1>4, BoundsAssumption DEF PauseFails, Stop, IInv, TypeOK
  <2> QED
    BY <1>4, <2>1 DEF PauseFails, Untouched
<1>5. CASE RunReturns \/ CancelledRun \/ RunRaises \/ StopRun \/ Crash \/ Operator
  BY <1>5 DEF RunReturns, CancelledRun, RunRaises, StopRun, Crash, stored, Operator, Pause,
     SetRunning, CancelGoal
<1>6. CASE UNCHANGED vars
  BY <1>6 DEF vars, stored
<1> QED
  BY <1>1, <1>2, <1>3, <1>4, <1>5, <1>6 DEF Next, RunStep

\* A settled goal stays, unless fail_goal writes over it for a run that raised, or for a
\* stopped worker whose store failed.
THEOREM SettledGoalsStay == Spec => SettledIsFinal
BY InitIInv, StepIInv, StepSettled, PTL DEF Spec, SettledIsFinal

-----------------------------------------------------------------------------
\* GoalNotifications

\* Messages are accounted for: before the success of one is recorded none is, and each
\* attempt without a record is a failure or was cut off by a stop.
Delivered(g) ==
  /\ delivered[g] <= lost[g] + (IF notification[g] = "sent" THEN 1 ELSE 0)
  /\ lost[g] <= failures + senderStops

NotifierInv == Notifier!TypeOK /\ Notifier!OneSender /\ \A g \in Goals : Delivered(g)

LEMMA InitNotifierInv == Notifier!Init => NotifierInv
BY NotifierAssumption
DEF NotifierInv, Delivered, Notifier!Init, Notifier!TypeOK, Notifier!OneSender,
    Notifier!Starters, Notifier!Tasks, Notifier!NoTasks, Notifier!Holding,
    Notifier!GoalNotificationsAssumption

\* A task whose attempt ends with a claim in its hands leaves no sender behind, and the
\* row says how it ended.
LEMMA AttemptEnds ==
  ASSUME NotifierInv, NEW t \in Notifier!Tasks, NEW end \in {"failed", "sent"},
         task[t] \in Notifier!Holding,
         Notifier!Task(t, "none"), Notifier!Row(t[1], end)
  PROVE  /\ Notifier!OneSender'
         /\ notification' \in [Goals -> {"none", "claimed", "stale", "failed", "sent"}]
         /\ task' \in [Notifier!Tasks -> {"none", "new"} \cup Notifier!Holding]
         /\ t[1] \in Goals /\ notification[t[1]] = "claimed"
         /\ \A g \in Goals : notification'[g] = IF g = t[1] THEN end ELSE notification[g]
<1> USE DEF NotifierInv, Notifier!TypeOK, Notifier!Tasks
<1>1. PICK g \in Goals, s \in Notifier!Starters : t = <<g, s>>
  OBVIOUS
<1>2. t[1] = g /\ notification[g] = "claimed"
  BY <1>1 DEF Notifier!OneSender
<1>3. \A u \in Notifier!Tasks : task'[u] = IF u = t THEN "none" ELSE task[u]
  BY DEF Notifier!Task
<1>4. /\ notification' \in [Goals -> {"none", "claimed", "stale", "failed", "sent"}]
      /\ \A h \in Goals : notification'[h] = IF h = g THEN end ELSE notification[h]
      /\ task' \in [Notifier!Tasks -> {"none", "new"} \cup Notifier!Holding]
  BY <1>1, <1>2 DEF Notifier!Row, Notifier!Task
<1>5. "none" \notin Notifier!Holding
  BY DEF Notifier!Holding
<1>6. \A r \in Notifier!Starters : task'[<<g, r>>] \notin Notifier!Holding
  BY <1>1, <1>3, <1>5 DEF Notifier!OneSender, Notifier!Starters
<1>7. \A h \in Goals \ {g}, r \in Notifier!Starters : task'[<<h, r>>] = task[<<h, r>>]
  BY <1>1, <1>3
<1>8. Notifier!OneSender'
  <2> SUFFICES ASSUME NEW h \in Goals
               PROVE /\ ~(task'[<<h, "worker">>] \in Notifier!Holding /\ task'[<<h, "loop">>] \in Notifier!Holding)
                     /\ \A r \in Notifier!Starters : task'[<<h, r>>] \in Notifier!Holding => notification'[h] = "claimed"
    BY DEF Notifier!OneSender
  <2>1. CASE h = g
    BY <1>6, <2>1 DEF Notifier!Starters
  <2>2. CASE h # g
    <3>1. \A r \in Notifier!Starters : task'[<<h, r>>] = task[<<h, r>>]
      BY <1>7, <2>2
    <3>2. notification'[h] = notification[h]
      BY <1>4, <2>2
    <3> QED
      BY <3>1, <3>2 DEF Notifier!OneSender, Notifier!Starters
  <2> QED
    BY <2>1, <2>2
<1> QED
  BY <1>1, <1>2, <1>4, <1>8

\* A new task is not a sender yet.
LEMMA TaskIsNew ==
  ASSUME task \in [Notifier!Tasks -> {"none", "new"} \cup Notifier!Holding],
         NEW t \in Notifier!Tasks, Notifier!Task(t, "new")
  PROVE  /\ task' \in [Notifier!Tasks -> {"none", "new"} \cup Notifier!Holding]
         /\ \A u \in Notifier!Tasks : task'[u] \in Notifier!Holding => task'[u] = task[u]
BY DEF Notifier!Task, Notifier!Holding

\* A step about the row, the tasks and the messages of one goal leaves the others alone.
LEMMA StepNotifierInv == NotifierInv /\ [Notifier!Next]_notifierVars => NotifierInv'
<1> SUFFICES ASSUME NotifierInv, [Notifier!Next]_notifierVars PROVE NotifierInv'
  OBVIOUS
<1> USE NotifierAssumption
    DEF NotifierInv, Delivered, Notifier!TypeOK, Notifier!OneSender, Notifier!Starters,
        Notifier!Tasks, Notifier!Holding, Notifier!Row, Notifier!Task, Notifier!Gate, Notifier!Ending,
        Notifier!bounds, Notifier!GoalNotificationsAssumption
<1>1. CASE \E g \in Goals : Notifier!CloseGate(g) \/ Notifier!OpenGate(g)
  BY <1>1 DEF Notifier!CloseGate, Notifier!OpenGate
<1>2. ASSUME NEW g \in Goals, Notifier!SettleGoal(g) PROVE NotifierInv'
  <2>1. /\ UNCHANGED <<notification, gate, delivered, lost, up, failures, senderStops>>
        /\ ending' \in [Goals -> {"none", "final", "blocked", "reopened"}]
    BY <1>2 DEF Notifier!SettleGoal
  <2>2. UNCHANGED task \/ (<<g, "worker">> \in Notifier!Tasks /\ Notifier!Task(<<g, "worker">>, "new"))
    BY <1>2 DEF Notifier!SettleGoal
  <2>3. /\ task' \in [Notifier!Tasks -> {"none", "new"} \cup Notifier!Holding]
        /\ \A t \in Notifier!Tasks : task'[t] \in Notifier!Holding => task'[t] = task[t]
    BY <2>2, TaskIsNew DEF NotifierInv, Notifier!TypeOK
  <2>4. Notifier!OneSender'
    <3>1. Notifier!OneSender
      OBVIOUS
    <3> HIDE DEF NotifierInv, Notifier!TypeOK, Delivered
    <3>2. \A h \in Goals : <<h, "worker">> \in Notifier!Tasks /\ <<h, "loop">> \in Notifier!Tasks
      OBVIOUS
    <3> HIDE DEF Notifier!Tasks
    <3> QED
      BY <2>1, <2>3, <3>1, <3>2
  <2> QED
    BY <2>1, <2>3, <2>4
<1>13. ASSUME NEW g \in Goals, Notifier!Reopen(g) PROVE NotifierInv'
  BY <1>13 DEF Notifier!Reopen
<1>3. ASSUME NEW g \in Goals, Notifier!GrowStale(g) PROVE NotifierInv'
  BY <1>3 DEF Notifier!GrowStale
<1>4. ASSUME NEW g \in Goals, Notifier!Recover(g) PROVE NotifierInv'
  BY <1>4 DEF Notifier!Recover
<1>5. ASSUME NEW t \in Notifier!Tasks, Notifier!Claim(t) PROVE NotifierInv'
  BY <1>5, SMTT(30) DEF Notifier!Claim, Notifier!Due
<1>6. ASSUME NEW t \in Notifier!Tasks, Notifier!PassGate(t) PROVE NotifierInv'
  BY <1>6 DEF Notifier!PassGate
<1>7. ASSUME NEW t \in Notifier!Tasks, Notifier!GateTimesOut(t) PROVE NotifierInv'
  <2>1. task[t] \in Notifier!Holding /\ Notifier!Task(t, "none") /\ Notifier!Row(t[1], "failed")
    BY <1>7 DEF Notifier!GateTimesOut
  <2> HIDE DEF NotifierInv
  <2>2. /\ Notifier!OneSender'
        /\ notification' \in [Goals -> {"none", "claimed", "stale", "failed", "sent"}]
        /\ task' \in [Notifier!Tasks -> {"none", "new"} \cup Notifier!Holding]
        /\ t[1] \in Goals /\ notification[t[1]] = "claimed"
        /\ \A g \in Goals : notification'[g] = IF g = t[1] THEN "failed" ELSE notification[g]
    BY <2>1, AttemptEnds
  <2> QED
    BY <1>7, <2>2 DEF Notifier!GateTimesOut, NotifierInv
<1>8. ASSUME NEW t \in Notifier!Tasks, Notifier!Sent(t) PROVE NotifierInv'
  <2>1. task[t] \in Notifier!Holding /\ Notifier!Task(t, "none") /\ Notifier!Row(t[1], "sent")
    BY <1>8 DEF Notifier!Sent
  <2>2. \A g \in Goals : delivered'[g] = IF g = t[1] THEN delivered[g] + 1 ELSE delivered[g]
    BY <1>8 DEF Notifier!Sent
  <2> HIDE DEF NotifierInv
  <2>3. /\ Notifier!OneSender'
        /\ notification' \in [Goals -> {"none", "claimed", "stale", "failed", "sent"}]
        /\ task' \in [Notifier!Tasks -> {"none", "new"} \cup Notifier!Holding]
        /\ t[1] \in Goals /\ notification[t[1]] = "claimed"
        /\ \A g \in Goals : notification'[g] = IF g = t[1] THEN "sent" ELSE notification[g]
    BY <2>1, AttemptEnds
  <2> USE DEF NotifierInv
  <2>4. \A g \in Goals : Delivered(g)'
    BY <1>8, <2>2, <2>3 DEF Notifier!Sent
  <2>5. delivered' \in [Goals -> 0..(1 + MaxSendFailures + MaxSenderStops)]
    BY <1>8, <2>2, <2>3, <2>4 DEF Notifier!Sent
  <2> QED
    BY <1>8, <2>3, <2>4, <2>5 DEF Notifier!Sent
<1>9. ASSUME NEW t \in Notifier!Tasks, Notifier!SendFails(t) PROVE NotifierInv'
  <2>1. task[t] \in Notifier!Holding /\ Notifier!Task(t, "none") /\ Notifier!Row(t[1], "failed")
    BY <1>9 DEF Notifier!SendFails
  <2>2. \A g \in Goals : /\ delivered'[g] \in {delivered[g]} \cup (IF g = t[1] THEN {delivered[g] + 1} ELSE {})
                         /\ lost'[g] = IF g = t[1] THEN lost[g] + 1 ELSE lost[g]
    BY <1>9 DEF Notifier!SendFails, Notifier!MayArrive
  <2> HIDE DEF NotifierInv
  <2>3. /\ Notifier!OneSender'
        /\ notification' \in [Goals -> {"none", "claimed", "stale", "failed", "sent"}]
        /\ task' \in [Notifier!Tasks -> {"none", "new"} \cup Notifier!Holding]
        /\ t[1] \in Goals /\ notification[t[1]] = "claimed"
        /\ \A g \in Goals : notification'[g] = IF g = t[1] THEN "failed" ELSE notification[g]
    BY <2>1, AttemptEnds
  <2> USE DEF NotifierInv
  <2>4. failures' = failures + 1 /\ failures' \in 0..MaxSendFailures /\ UNCHANGED <<gate, ending, up, senderStops>>
    BY <1>9 DEF Notifier!SendFails
  <2>5. ASSUME NEW g \in Goals PROVE Delivered(g)'
    <3>1. /\ delivered[g] \in Nat /\ lost[g] \in Nat /\ failures \in Nat /\ senderStops \in Nat
          /\ delivered[g] <= lost[g] + (IF notification[g] = "sent" THEN 1 ELSE 0)
          /\ lost[g] <= failures + senderStops
      OBVIOUS
    <3>2. g # t[1] => /\ notification'[g] = notification[g] /\ delivered'[g] = delivered[g]
                      /\ lost'[g] = lost[g]
      BY <2>2, <2>3
    <3>3. g = t[1] => /\ notification[g] = "claimed" /\ notification'[g] = "failed"
                      /\ lost'[g] = lost[g] + 1 /\ delivered'[g] \in {delivered[g], delivered[g] + 1}
      BY <2>2, <2>3
    <3> HIDE DEF NotifierInv
    <3> QED
      BY <2>4, <3>1, <3>2, <3>3 DEF Delivered
  <2>6. /\ delivered' \in [Goals -> 0..(1 + MaxSendFailures + MaxSenderStops)]
        /\ lost' \in [Goals -> 0..(MaxSendFailures + MaxSenderStops)]
    <3>1. \A g \in Goals : /\ lost'[g] \in 0..(MaxSendFailures + MaxSenderStops)
                           /\ delivered'[g] \in 0..(1 + MaxSendFailures + MaxSenderStops)
      BY <2>2, <2>3, <2>4, <2>5, SMTT(30)
    <3>2. delivered' \in [Goals -> Nat]
      BY <1>9, <2>3 DEF Notifier!SendFails, Notifier!MayArrive
    <3>3. lost' \in [Goals -> Nat]
      BY <1>9, <2>3 DEF Notifier!SendFails
    <3> QED
      BY <3>1, <3>2, <3>3
  <2> QED
    BY <2>3, <2>4, <2>5, <2>6
<1>10. CASE Notifier!Stop
  <2>1. /\ senderStops' = senderStops + 1 /\ senderStops' \in 0..MaxSenderStops
        /\ UNCHANGED <<notification, ending, failures>> /\ up' = FALSE
        /\ task' = Notifier!NoTasks
    BY <1>10 DEF Notifier!Stop
  <2>2. gate' \in [Goals -> {"none", "closed", "accepted", "cancelled", "dropped"}]
    <3>1. PICK crash \in BOOLEAN :
            gate' = [g \in Goals |-> IF gate[g] = "closed" /\ (crash \/ \E s \in Notifier!Starters : task[<<g, s>>] = "gate")
                                     THEN "dropped" ELSE gate[g]]
      BY <1>10 DEF Notifier!Stop
    <3> QED
      BY <3>1
  <2> DEFINE sending == {g \in Goals : \E s \in Notifier!Starters : task[<<g, s>>] = "sending"}
  <2>3. lost' = [g \in Goals |-> IF g \in sending THEN lost[g] + 1 ELSE lost[g]]
    BY <1>10, Zenon DEF Notifier!Stop
  <2>4. PICK arrived \in SUBSET sending :
          delivered' = [g \in Goals |-> IF g \in arrived THEN delivered[g] + 1 ELSE delivered[g]]
    BY <1>10, Zenon DEF Notifier!Stop
  <2>5. \A g \in sending : notification[g] = "claimed"
    OBVIOUS
  <2> HIDE DEF sending
  <2>6. \A g \in Goals : delivered'[g] \in Nat /\ lost'[g] \in Nat /\ Delivered(g)'
    BY <2>1, <2>3, <2>5, <2>4
  <2>7. \A g \in Goals : /\ lost'[g] \in 0..(MaxSendFailures + MaxSenderStops)
                         /\ delivered'[g] \in 0..(1 + MaxSendFailures + MaxSenderStops)
    BY <2>1, <2>6
  <2>8. Notifier!TypeOK'
    <3>1. task' \in [Notifier!Tasks -> {"none", "new"} \cup Notifier!Holding]
      BY <2>1 DEF Notifier!NoTasks
    <3> QED
      BY <2>1, <2>2, <2>3, <2>7, <2>4, <3>1
  <2>9. Notifier!OneSender'
    <3>1. \A g \in Goals, r \in Notifier!Starters : task'[<<g, r>>] = "none"
      BY <2>1 DEF Notifier!NoTasks
    <3> QED
      BY <3>1
  <2> QED
    BY <2>6, <2>8, <2>9
<1>11. CASE Notifier!Start
  BY <1>11 DEF Notifier!Start
<1>12. CASE UNCHANGED notifierVars
  BY <1>12 DEF notifierVars
<1> QED
  BY <1>1, <1>2, <1>3, <1>4, <1>5, <1>6, <1>7, <1>8, <1>9, <1>10, <1>11, <1>12, <1>13
  DEF Notifier!Next, Notifier!Notify

\* The steps of LegacyRuntime are the steps of its parts.
LEMMA JointStepOfNotifier == [JointNext]_jointVars => [Notifier!Next]_notifierVars
BY DEF JointNext, jointVars, notifierVars

\* For any number of goals: one sender for each, who holds the claim, and no message
\* beyond the attempts whose success was not recorded.
THEOREM NotifiedAtMostOnce == JointSpec => []NotifiedOnce
<1>1. NotifierInv => NotifiedOnce
  BY DEF NotifierInv, Delivered, NotifiedOnce, Notifier!NoExtraMessages, Notifier!TypeOK
<1>2. JointInit => NotifierInv
  BY InitNotifierInv DEF JointInit
<1>3. NotifierInv /\ [JointNext]_jointVars => NotifierInv'
  BY StepNotifierInv, JointStepOfNotifier
<1> QED
  BY <1>1, <1>2, <1>3, PTL DEF JointSpec

-----------------------------------------------------------------------------
(* The pool.  Its queue first: what the queue relies on for itself, whatever *)
(* its callers do, and one lemma for each of its steps the pool takes.       *)

Unsettled == {g \in Goals : status[g] # "none"} \ finished

Counted == IsFiniteSet(Unsettled) /\ unfinished = Cardinality(Unsettled)

QueueInv == /\ Pool!Queue!TypeOK /\ Pool!Queue!SlotsMatchStatus /\ Pool!Queue!HeapMatchesStatus
            /\ Counted

\* The queue of a new process.
QueueBegins == /\ status' = [g \in Goals |-> "none"] /\ place' = [g \in Goals |-> <<0, 0>>]
               /\ arrivals' = 0 /\ heap' = {} /\ finished' = {} /\ active' = {}
               /\ slots' = MaxActive /\ waiting' = {} /\ unfinished' = 0
               /\ execTask' = [g \in Goals |-> NoGoal] /\ cancelSent' = {}

LEMMA InitQueue ==
  ASSUME Pool!Queue!Init
  PROVE  QueueInv
<1>1. Pool!Queue!TypeOK
  BY PoolAssumption DEF Pool!RuntimeWorkerPoolAssumption, Pool!Queue!Init, Pool!Queue!TypeOK,
     Pool!Queue!Statuses
<1>2. Unsettled = {} /\ unfinished = 0
  BY DEF Pool!Queue!Init, Unsettled
<1>3. Pool!Queue!SlotsMatchStatus /\ Pool!Queue!HeapMatchesStatus
  BY DEF Pool!Queue!Init, Pool!Queue!SlotsMatchStatus, Pool!Queue!HeapMatchesStatus
<1> QED
  BY <1>1, <1>2, <1>3, FS_EmptySet DEF QueueInv, Counted

LEMMA QueueBeginsAnew ==
  ASSUME QueueBegins
  PROVE  QueueInv'
<1>1. Pool!Queue!TypeOK'
  BY PoolAssumption DEF Pool!RuntimeWorkerPoolAssumption, QueueBegins, Pool!Queue!TypeOK,
     Pool!Queue!Statuses
<1>2. Unsettled' = {} /\ unfinished' = 0
  BY DEF QueueBegins, Unsettled
<1>3. Pool!Queue!SlotsMatchStatus' /\ Pool!Queue!HeapMatchesStatus'
  BY DEF QueueBegins, Pool!Queue!SlotsMatchStatus, Pool!Queue!HeapMatchesStatus
<1> QED
  BY <1>1, <1>2, <1>3, FS_EmptySet DEF QueueInv, Counted

\* The statuses, the settled items and their slots stay.
LEMMA QuietQueue ==
  ASSUME QueueInv, UNCHANGED <<status, place, arrivals, heap, finished, active, unfinished>>,
         slots' \in Nat, waiting' \subseteq Workers,
         execTask' \in [Goals -> Goals \cup {NoGoal}], cancelSent' \subseteq Goals
  PROVE  QueueInv'
<1>1. Pool!Queue!TypeOK'
  BY DEF QueueInv, Pool!Queue!TypeOK
<1>2. Counted'
  BY DEF QueueInv, Counted, Unsettled
<1> QED
  BY <1>1, <1>2 DEF QueueInv, Pool!Queue!SlotsMatchStatus, Pool!Queue!HeapMatchesStatus

\* Another status for an item that stays where it is: unsettled, or settled.
LEMMA SameUnsettled ==
  ASSUME QueueInv, NEW g \in Goals, status[g] # "none", NEW st, st # "none",
         status' = [status EXCEPT ![g] = st], UNCHANGED <<finished, unfinished>>
  PROVE  Counted'
<1>1. Unsettled' = Unsettled
  BY DEF QueueInv, Pool!Queue!TypeOK, Unsettled
<1> QED
  BY <1>1 DEF QueueInv, Counted

LEMMA SubmitQueue ==
  ASSUME QueueInv, NEW g \in Goals, Pool!Queue!Submit(g, 0)
  PROVE  QueueInv'
<1>1. /\ status[g] = "none" /\ status' = [status EXCEPT ![g] = "pending"]
      /\ heap' = heap \cup {g} /\ unfinished' = unfinished + 1
      /\ UNCHANGED <<finished, active, slots, waiting, execTask, cancelSent>>
  BY DEF Pool!Queue!Submit
<1>2. g \notin finished /\ g \notin Unsettled
  BY <1>1 DEF QueueInv, Pool!Queue!SlotsMatchStatus, Unsettled
<1>3. Pool!Queue!TypeOK'
  BY DEF Pool!Queue!Submit, QueueInv, Pool!Queue!TypeOK, Pool!Queue!Statuses, Pool!Queue!Live
<1>4. Counted'
  <2>1. Unsettled' = Unsettled \cup {g}
    BY <1>1, <1>2 DEF Unsettled, QueueInv, Pool!Queue!TypeOK
  <2> QED
    BY <1>1, <1>2, <2>1, FS_AddElement DEF QueueInv, Counted
<1>5. Pool!Queue!SlotsMatchStatus' /\ Pool!Queue!HeapMatchesStatus'
  BY <1>1, <1>2
  DEF QueueInv, Pool!Queue!TypeOK, Pool!Queue!SlotsMatchStatus, Pool!Queue!HeapMatchesStatus
<1> QED
  BY <1>3, <1>4, <1>5 DEF QueueInv

\* An item is settled with a status, by whatever caller.
LEMMA SettleQueue ==
  ASSUME QueueInv, NEW g \in Goals, NEW st \in Pool!Queue!Terminal, status[g] # "none",
         status' = [status EXCEPT ![g] = st], Pool!Queue!FinishTask(g),
         UNCHANGED <<place, arrivals, heap, waiting, execTask>>, cancelSent' \subseteq Goals
  PROVE  QueueInv' /\ finished' = finished \cup {g} /\ active' = active \ {g}
<1>1. st # "none" /\ st \in Pool!Queue!Statuses /\ st \notin Pool!Queue!Live
  BY DEF Pool!Queue!Terminal, Pool!Queue!Statuses, Pool!Queue!Live
<1>2. finished' = finished \cup {g} /\ active' = active \ {g} /\ slots' \in Nat
  BY DEF Pool!Queue!FinishTask, Pool!Queue!slotVars, QueueInv, Pool!Queue!SlotsMatchStatus,
     Pool!Queue!TypeOK
<1>3. Counted' /\ unfinished' \in Nat
  <2>1. CASE g \in finished
    BY <1>1, <2>1, SameUnsettled DEF Pool!Queue!FinishTask, Pool!Queue!slotVars, QueueInv, Pool!Queue!TypeOK
  <2>2. CASE g \notin finished
    <3>1. g \in Unsettled /\ Unsettled' = Unsettled \ {g} /\ unfinished' = unfinished - 1
      BY <1>1, <1>2, <2>2 DEF Pool!Queue!FinishTask, Unsettled, QueueInv, Pool!Queue!TypeOK
    <3>2. /\ IsFiniteSet(Unsettled \ {g}) /\ Cardinality(Unsettled \ {g}) = Cardinality(Unsettled) - 1
          /\ Cardinality(Unsettled \ {g}) \in Nat
      BY <3>1, FS_RemoveElement, FS_CardinalityType DEF QueueInv, Counted
    <3> QED
      BY <3>1, <3>2 DEF QueueInv, Counted
  <2> QED
    BY <2>1, <2>2
<1>4. Pool!Queue!TypeOK'
  BY <1>1, <1>2, <1>3 DEF QueueInv, Pool!Queue!TypeOK
<1>5. Pool!Queue!SlotsMatchStatus'
  BY <1>1, <1>2
  DEF QueueInv, Pool!Queue!SlotsMatchStatus, Pool!Queue!TypeOK, Pool!Queue!Terminal, Pool!Queue!Live
<1>6. Pool!Queue!HeapMatchesStatus'
  BY <1>1, <1>2 DEF QueueInv, Pool!Queue!HeapMatchesStatus, Pool!Queue!TypeOK, Pool!Queue!Live
<1> QED
  BY <1>2, <1>3, <1>4, <1>5, <1>6 DEF QueueInv

LEMMA ClaimQueue ==
  ASSUME QueueInv, NEW w \in Workers, NEW g \in Goals, Pool!Queue!Claim(w, g)
  PROVE  QueueInv'
<1>1. /\ status[g] = "pending" /\ status' = [status EXCEPT ![g] = "running"]
      /\ heap' = heap \ {g} /\ active' = active \cup {g}
      /\ UNCHANGED <<finished, unfinished>>
  BY DEF Pool!Queue!Claim
<1>2. Counted'
  BY <1>1, SameUnsettled
<1>3. Pool!Queue!TypeOK'
  BY DEF Pool!Queue!Claim, QueueInv, Pool!Queue!TypeOK, Pool!Queue!Statuses, Pool!Queue!Live
<1>4. Pool!Queue!SlotsMatchStatus' /\ Pool!Queue!HeapMatchesStatus'
  BY <1>1
  DEF QueueInv, Pool!Queue!TypeOK, Pool!Queue!SlotsMatchStatus, Pool!Queue!HeapMatchesStatus
<1> QED
  BY <1>2, <1>3, <1>4 DEF QueueInv

\* The entry of a settled item goes, and nothing else.
LEMMA SkipQueue ==
  ASSUME QueueInv, NEW w \in Workers, NEW g \in Goals, Pool!Queue!SkipEntry(w, g)
  PROVE  /\ QueueInv'
         /\ UNCHANGED <<status, finished, active, execTask, cancelSent>>
<1>1. g \in heap /\ status[g] # "pending"
  BY DEF Pool!Queue!SkipEntry, Pool!Queue!IsFirst
<1>2. g \in finished
  BY <1>1 DEF QueueInv, Pool!Queue!HeapMatchesStatus
<1>3. /\ UNCHANGED <<status, place, arrivals, finished, active, slots, unfinished, waiting>>
      /\ UNCHANGED <<execTask, cancelSent>> /\ heap' = heap \ {g}
  BY <1>2 DEF Pool!Queue!SkipEntry, Pool!Queue!FinishTask, Pool!Queue!slotVars
<1>4. Pool!Queue!TypeOK'
  BY <1>3 DEF QueueInv, Pool!Queue!TypeOK
<1>5. Counted'
  BY <1>3 DEF QueueInv, Counted, Unsettled
<1>6. Pool!Queue!SlotsMatchStatus' /\ Pool!Queue!HeapMatchesStatus'
  BY <1>1, <1>3 DEF QueueInv, Pool!Queue!SlotsMatchStatus, Pool!Queue!HeapMatchesStatus
<1> QED
  BY <1>3, <1>4, <1>5, <1>6 DEF QueueInv

LEMMA CancelQueue ==
  ASSUME QueueInv, NEW g \in Goals, Pool!Queue!Cancel(g)
  PROVE  /\ QueueInv' /\ status' = [status EXCEPT ![g] = "cancelled"]
         /\ finished' = IF status[g] = "pending" THEN finished \cup {g} ELSE finished
         /\ active' = IF status[g] = "pending" THEN active \ {g} ELSE active
<1>1. /\ status[g] \in {"pending", "running"} /\ status' = [status EXCEPT ![g] = "cancelled"]
      /\ UNCHANGED <<place, arrivals, heap, waiting, execTask>>
      /\ cancelSent' = cancelSent \cup ({execTask[g]} \ {NoGoal})
  BY DEF Pool!Queue!Cancel, Pool!Queue!Live
<1>2. cancelSent' \subseteq Goals
  BY <1>1 DEF QueueInv, Pool!Queue!TypeOK
<1>3. CASE status[g] = "pending"
  <2>1. Pool!Queue!FinishTask(g)
    BY <1>3 DEF Pool!Queue!Cancel
  <2> QED
    BY <1>1, <1>2, <1>3, <2>1, SettleQueue DEF Pool!Queue!Terminal
<1>4. CASE status[g] = "running"
  <2>1. UNCHANGED <<finished, active, slots, unfinished>>
    BY <1>4 DEF Pool!Queue!Cancel, Pool!Queue!slotVars
  <2>2. Counted'
    BY <1>1, <2>1, SameUnsettled
  <2>3. Pool!Queue!TypeOK'
    BY <1>1, <1>2, <2>1 DEF QueueInv, Pool!Queue!TypeOK, Pool!Queue!Statuses, Pool!Queue!Terminal
  <2>4. Pool!Queue!SlotsMatchStatus' /\ Pool!Queue!HeapMatchesStatus'
    BY <1>1, <1>4, <2>1
    DEF QueueInv, Pool!Queue!TypeOK, Pool!Queue!SlotsMatchStatus, Pool!Queue!HeapMatchesStatus
  <2> QED
    BY <1>1, <1>4, <2>1, <2>2, <2>3, <2>4 DEF QueueInv
<1> QED
  BY <1>1, <1>3, <1>4

(* What the pool relies on: a worker about its goal, a goal about its worker. *)

PoolTyped ==
  /\ row \in [Goals -> {"none"} \cup Pool!Pausable \cup Pool!Final]
  /\ at \in [Workers -> {"off", "get", "claimed", "run", "settling"}]
  /\ on \in [Workers -> Goals \cup {NoGoal}]
  /\ stopSent \subseteq Workers
  /\ runOf \in [Goals -> {"none", "new", "live"} \cup Pool!RunOver]
  /\ told \in [Goals -> Seq(Pool!Outcomes)]
  /\ recovering \subseteq Goals
  /\ poolStops \in 0..MaxPoolStops /\ poolFaults \in 0..MaxPoolFaults

\* A worker and the goal it is on: st and r are its statuses in the queue and in the
\* store, x is its run.
WhileClaimed(st, r, x) == st = "running" /\ r \in {"pending", "interrupted"} /\ x = "none"

WhileRunning(st, r, x, sent, stopped, failed) ==
  /\ x # "none"
  /\ \/ /\ st = "running" /\ (sent => stopped)
        /\ \/ x = "new" /\ r \in {"pending", "interrupted"}
           \/ x = "live" /\ r = "running"
           \/ x = "raised" /\ r \in {"pending", "interrupted", "running"}
           \/ x = "raised" /\ r \in Pool!Outcomes /\ failed
           \/ x = "ended" /\ r \in Pool!Outcomes
           \/ x = "cancelled" /\ r \in {"pending", "interrupted", "running"} /\ stopped
     \/ st = "cancelled" /\ r = "cancelled" /\ (x \in {"new", "live"} => sent)
     \/ st \in {"done", "failed"} /\ r = st /\ (x = "ended" \/ (x = "raised" /\ failed))

WhileSettling(st, r, failed) ==
  \/ st = "running" /\ (failed \/ r \in {"done", "blocked", "failed", "interrupted"})
  \/ st = "cancelled" /\ r \in {"cancelled", "failed"}
  \/ st \in {"done", "failed"} /\ (r = st \/ (failed /\ r = "failed"))

Works(w) == at[w] \in {"claimed", "run", "settling"}

WorkerInv(w) ==
  /\ Works(w) => on[w] \in Goals
  /\ ~Works(w) => on[w] = NoGoal
  /\ at[w] = "claimed" => WhileClaimed(status[on[w]], row[on[w]], runOf[on[w]])
  /\ at[w] = "run" => WhileRunning(status[on[w]], row[on[w]], runOf[on[w]],
                                   on[w] \in cancelSent, w \in stopSent, poolFaults > 0)
  /\ at[w] = "settling" => WhileSettling(status[on[w]], row[on[w]], poolFaults > 0)

Alone == \A v, w \in Workers : on[v] \in Goals /\ on[v] = on[w] => v = w

\* Whether some worker is on the goal, and whether one awaits its run.
Worked(g) == \E w \in Workers : on[w] = g
Awaited(g) == \E w \in Workers : on[w] = g /\ at[w] = "run"

\* What was announced of a goal, whose item is in the status st, done when it is
\* settled, and its store in r; `worked` when some worker is on it.
TellsOf(t, r, st, done, worked) ==
  t # <<>> =>
    \E o \in Pool!Outcomes :
      /\ t = <<o>> /\ ~worked
      /\ r \in (IF o = "blocked" THEN {"blocked", "failed", "cancelled"} ELSE {o})
      /\ st = "none" \/ (done /\ st = IF o = "blocked" THEN "failed" ELSE o)

\* A settled item nobody works on, against the store.
Agree(st, r) == r \in (IF st = "failed" THEN {"failed", "blocked"} ELSE {st})

GoalInv(g) ==
  /\ status[g] \in {"none", "pending"} => runOf[g] = "none" /\ ~Worked(g)
  /\ status[g] = "pending" => row[g] \in {"pending", "interrupted"}
  /\ runOf[g] \in {"new", "live"} => execTask[g] = g /\ Awaited(g)
  /\ runOf[g] = "none" => execTask[g] = NoGoal /\ g \notin cancelSent
  /\ execTask[g] \in {NoGoal, g}
  /\ g \in recovering => status[g] = "none" /\ row[g] \in {"pending", "interrupted"}
  /\ poolFaults = 0 /\ g \in active => Worked(g)
  /\ poolFaults = 0 /\ g \in finished /\ ~Worked(g) => Agree(status[g], row[g])
  /\ TellsOf(told[g], row[g], status[g], g \in finished, Worked(g))

RecoversFirst == recovering # {} => \A w \in Workers : at[w] = "off"

PoolInv == /\ PoolTyped /\ QueueInv /\ Alone /\ RecoversFirst
           /\ \A w \in Workers : WorkerInv(w)
           /\ \A g \in Goals : GoalInv(g)

-----------------------------------------------------------------------------
\* What a step leaves alone.
SameGoal(g) == /\ status'[g] = status[g] /\ row'[g] = row[g] /\ runOf'[g] = runOf[g]
               /\ execTask'[g] = execTask[g] /\ told'[g] = told[g]
               /\ g \in finished' <=> g \in finished
               /\ g \in active' <=> g \in active
               /\ g \in cancelSent' <=> g \in cancelSent
               /\ g \in recovering' => g \in recovering
SameWorker(w) == at'[w] = at[w] /\ on'[w] = on[w] /\ (w \in stopSent' <=> w \in stopSent)
Elsewhere(w, g) == on[w] # g /\ on'[w] # g

GoalStays(g) == SameGoal(g) /\ \A w \in Workers : SameWorker(w) \/ Elsewhere(w, g)
WorkerStays(w) == SameWorker(w) /\ (on[w] \in Goals => SameGoal(on[w]))
FaultsStay == poolFaults' = 0 => poolFaults = 0

LEMMA GoalKept ==
  ASSUME NEW g \in Goals, GoalInv(g), GoalStays(g), FaultsStay
  PROVE  GoalInv(g)'
<1>1. Worked(g)' <=> Worked(g)
  BY DEF Worked, GoalStays, SameWorker, Elsewhere
<1>2. Awaited(g)' <=> Awaited(g)
  BY DEF Awaited, GoalStays, SameWorker, Elsewhere
<1>3. SameGoal(g)
  BY DEF GoalStays
<1>4. TellsOf(told[g], row[g], status[g], g \in finished, Worked(g))'
  BY <1>1, <1>3 DEF SameGoal, GoalInv, TellsOf
<1> QED
  BY <1>1, <1>2, <1>3, <1>4 DEF SameGoal, GoalInv, FaultsStay

LEMMA WorkerKept ==
  ASSUME NEW w \in Workers, WorkerInv(w), WorkerStays(w), FaultsStay,
         poolFaults \in Nat, poolFaults' \in Nat
  PROVE  WorkerInv(w)'
<1>1. (Works(w)' <=> Works(w)) /\ on'[w] = on[w] /\ at'[w] = at[w] /\ (w \in stopSent' <=> w \in stopSent)
  BY DEF Works, WorkerStays, SameWorker
<1>2. CASE ~Works(w)
  BY <1>1, <1>2 DEF WorkerInv, Works
<1>3. CASE Works(w)
  <2>1. on[w] \in Goals /\ SameGoal(on[w])
    BY <1>3 DEF WorkerInv, WorkerStays
  <2>2. poolFaults > 0 => poolFaults' > 0
    BY DEF FaultsStay
  <2>3. /\ status'[on'[w]] = status[on[w]] /\ row'[on'[w]] = row[on[w]]
        /\ runOf'[on'[w]] = runOf[on[w]]
        /\ on'[w] \in cancelSent' <=> on[w] \in cancelSent
    BY <1>1, <2>1 DEF SameGoal
  <2>4. WhileSettling(status[on[w]], row[on[w]], poolFaults > 0) =>
          WhileSettling(status[on[w]], row[on[w]], poolFaults > 0)'
    BY <2>2, <2>3 DEF WhileSettling
  <2>5. WhileClaimed(status[on[w]], row[on[w]], runOf[on[w]]) =>
          WhileClaimed(status[on[w]], row[on[w]], runOf[on[w]])'
    BY <2>3 DEF WhileClaimed
  <2>6. WhileRunning(status[on[w]], row[on[w]], runOf[on[w]], on[w] \in cancelSent, w \in stopSent, poolFaults > 0) =>
          WhileRunning(status[on[w]], row[on[w]], runOf[on[w]], on[w] \in cancelSent, w \in stopSent, poolFaults > 0)'
    BY <1>1, <2>2, <2>3 DEF WhileRunning
  <2> QED
    BY <1>1, <1>3, <2>1, <2>4, <2>5, <2>6 DEF WorkerInv
<1> QED
  BY <1>2, <1>3

\* A step keeps the invariant when it does so for the goals and workers it touches.
LEMMA PoolStep ==
  ASSUME PoolInv, PoolTyped', QueueInv', Alone', RecoversFirst', FaultsStay,
         \A g \in Goals : GoalInv(g)' \/ GoalStays(g),
         \A w \in Workers : WorkerInv(w)' \/ WorkerStays(w)
  PROVE  PoolInv'
<1>1. poolFaults \in Nat /\ poolFaults' \in Nat
  BY PoolAssumption DEF Pool!RuntimeWorkerPoolAssumption, PoolInv, PoolTyped
<1>2. ASSUME NEW g \in Goals PROVE GoalInv(g)'
  BY <1>2, GoalKept, Zenon DEF PoolInv
<1>3. ASSUME NEW w \in Workers PROVE WorkerInv(w)'
  BY <1>1, <1>3, WorkerKept, Zenon DEF PoolInv
<1> QED
  BY <1>2, <1>3 DEF PoolInv

\* A step of one goal, with no worker moving.
LEMMA GoalStep ==
  ASSUME PoolInv, PoolTyped', QueueInv', RecoversFirst', UNCHANGED <<at, on, stopSent>>, FaultsStay,
         NEW g \in Goals, \A h \in Goals \ {g} : SameGoal(h),
         GoalInv(g)', \A w \in Workers : on[w] = g => WorkerInv(w)'
  PROVE  PoolInv'
<1>1. \A w \in Workers : SameWorker(w)
  BY DEF SameWorker
<1>2. \A h \in Goals : GoalInv(h)' \/ GoalStays(h)
  BY <1>1 DEF GoalStays
<1>3. \A w \in Workers : WorkerInv(w)' \/ WorkerStays(w)
  BY <1>1 DEF WorkerStays
<1>4. Alone'
  BY DEF Alone, PoolInv
<1> QED
  BY <1>2, <1>3, <1>4, PoolStep

\* A step of one worker and the goal it is on, takes or leaves.
LEMMA WorkerStep ==
  ASSUME PoolInv, PoolTyped', QueueInv', FaultsStay, UNCHANGED recovering,
         NEW w \in Workers, NEW g \in Goals,
         at[w] # "off",
         on[w] \in {g, NoGoal}, on'[w] \in {g, NoGoal},
         \A v \in Workers \ {w} : SameWorker(v) /\ on[v] # g,
         \A h \in Goals \ {g} : SameGoal(h),
         GoalInv(g)', WorkerInv(w)'
  PROVE  PoolInv'
<1>1. ASSUME NEW h \in Goals \ {g} PROVE GoalStays(h)
  <2>1. Elsewhere(w, h)
    BY PoolAssumption DEF Pool!RuntimeWorkerPoolAssumption, Elsewhere
  <2> QED
    BY <2>1 DEF GoalStays
<1>2. ASSUME NEW v \in Workers \ {w} PROVE WorkerStays(v)
  BY DEF WorkerStays
<1>3. Alone'
  BY PoolAssumption DEF Pool!RuntimeWorkerPoolAssumption, Alone, PoolInv, SameWorker
<1>4. RecoversFirst'
  BY DEF RecoversFirst, PoolInv
<1> QED
  BY <1>1, <1>2, <1>3, <1>4, PoolStep

LEMMA PoolStart ==
  ASSUME PoolInv, Pool!Start
  PROVE  PoolInv'
<1>1. /\ recovering = {} /\ \A w \in stopSent : at[w] = "off"
      /\ at' = [w \in Workers |-> IF at[w] = "off" THEN "get" ELSE at[w]]
      /\ stopSent' = {w \in stopSent : at[w] # "off"}
      /\ UNCHANGED <<status, place, arrivals, heap, finished, active, slots, waiting,
                     unfinished, execTask, cancelSent, row, on, runOf, told, recovering,
                     poolStops, poolFaults>>
  BY DEF Pool!Start, Pool!queueVars, Pool!bounds
<1>2. QueueInv'
  BY <1>1 DEF PoolInv, QueueInv, Counted, Unsettled, Pool!Queue!TypeOK, Pool!Queue!SlotsMatchStatus,
     Pool!Queue!HeapMatchesStatus
<1>3. PoolTyped'
  BY <1>1 DEF PoolInv, PoolTyped
<1>4. ASSUME NEW w \in Workers PROVE WorkerInv(w)' \/ WorkerStays(w)
  <2>1. CASE at[w] = "off"
    <3>1. ~Works(w)' /\ on'[w] = NoGoal /\ at'[w] = "get"
      BY <1>1, <2>1 DEF Works, WorkerInv, PoolInv
    <3> QED
      BY <3>1 DEF WorkerInv
  <2>2. CASE at[w] # "off"
    BY <1>1, <2>2 DEF WorkerStays, SameWorker, SameGoal
  <2> QED
    BY <2>1, <2>2
<1>5. ASSUME NEW g \in Goals PROVE GoalStays(g)
  <2>1. ASSUME NEW w \in Workers PROVE SameWorker(w) \/ Elsewhere(w, g)
    <3>1. CASE at[w] = "off"
      BY <1>1, <3>1, PoolAssumption
      DEF WorkerInv, PoolInv, Works, Elsewhere, Pool!RuntimeWorkerPoolAssumption
    <3>2. CASE at[w] # "off"
      BY <1>1, <3>2 DEF SameWorker
    <3> QED
      BY <3>1, <3>2
  <2> QED
    BY <1>1, <2>1 DEF GoalStays, SameGoal
<1>6. Alone' /\ RecoversFirst' /\ FaultsStay
  BY <1>1 DEF PoolInv, Alone, RecoversFirst, FaultsStay
<1> QED
  BY <1>2, <1>3, <1>4, <1>5, <1>6, PoolStep

LEMMA PoolGet ==
  ASSUME PoolInv, NEW w \in Workers, Pool!Get(w)
  PROVE  PoolInv'
<1>1. /\ at[w] = "get"
      /\ UNCHANGED <<row, at, on, stopSent, runOf, told, recovering, poolStops, poolFaults>>
  BY DEF Pool!Get, Pool!workerVars, Pool!bounds
<1>2. QueueInv' /\ UNCHANGED <<status, finished, active, execTask, cancelSent>>
  <2>1. CASE Pool!Queue!AcquireSlot(w)
    BY <2>1, QuietQueue DEF Pool!Queue!AcquireSlot, PoolInv, QueueInv, Pool!Queue!TypeOK
  <2>2. CASE \E g \in Goals : Pool!Queue!SkipEntry(w, g)
    BY <2>2, SkipQueue DEF PoolInv
  <2> QED
    BY <2>1, <2>2 DEF Pool!Get
<1>3. PoolTyped' /\ Alone' /\ RecoversFirst' /\ FaultsStay
  BY <1>1 DEF PoolInv, PoolTyped, Alone, RecoversFirst, FaultsStay
<1>4. (\A g \in Goals : GoalStays(g)) /\ \A v \in Workers : WorkerStays(v)
  BY <1>1, <1>2 DEF GoalStays, WorkerStays, SameGoal, SameWorker
<1> QED
  BY <1>2, <1>3, <1>4, PoolStep

\* The queue hands out a pending goal, and nobody is on a pending goal.
LEMMA PoolPickUp ==
  ASSUME PoolInv, NEW w \in Workers, NEW g \in Goals, Pool!PickUp(w, g)
  PROVE  PoolInv'
<1>1. /\ at[w] = "get" /\ Pool!Queue!Claim(w, g)
      /\ at' = [at EXCEPT ![w] = "claimed"] /\ on' = [on EXCEPT ![w] = g]
      /\ UNCHANGED <<row, stopSent, runOf, told, recovering, poolStops, poolFaults>>
  BY DEF Pool!PickUp, Pool!bounds
<1>2. /\ status[g] = "pending" /\ status' = [status EXCEPT ![g] = "running"]
      /\ active' = active \cup {g} /\ UNCHANGED <<finished, execTask, cancelSent>>
  BY <1>1 DEF Pool!Queue!Claim
<1>3. QueueInv'
  BY <1>1, ClaimQueue DEF PoolInv
<1>4. PoolTyped' /\ FaultsStay
  BY <1>1 DEF PoolInv, PoolTyped, FaultsStay
<1>5. /\ GoalInv(g) /\ runOf[g] = "none" /\ ~Worked(g) /\ row[g] \in {"pending", "interrupted"}
      /\ told[g] = <<>> /\ on[w] = NoGoal
  BY <1>1, <1>2
  DEF PoolInv, GoalInv, WorkerInv, Works, QueueInv, Pool!Queue!SlotsMatchStatus, TellsOf
<1>6. status'[g] = "running" /\ at'[w] = "claimed" /\ on'[w] = g /\ g \notin finished'
  BY <1>1, <1>2 DEF PoolInv, PoolTyped, QueueInv, Pool!Queue!TypeOK, Pool!Queue!SlotsMatchStatus
<1>7. Worked(g)'
  BY <1>6 DEF Worked
<1>8. GoalInv(g)'
  BY <1>1, <1>2, <1>5, <1>6, <1>7
  DEF GoalInv, TellsOf
<1>9. WorkerInv(w)'
  BY <1>1, <1>5, <1>6 DEF WorkerInv, Works, WhileClaimed
<1>10. \A v \in Workers \ {w} : SameWorker(v) /\ on[v] # g
  BY <1>1, <1>5 DEF SameWorker, Worked, PoolInv, PoolTyped
<1>11. \A h \in Goals \ {g} : SameGoal(h)
  BY <1>1, <1>2 DEF SameGoal, PoolInv, QueueInv, Pool!Queue!TypeOK
<1> QED
  BY <1>1, <1>3, <1>4, <1>5, <1>6, <1>8, <1>9, <1>10, <1>11, WorkerStep

\* The goal a worker is on, which no other worker is on.
LEMMA OwnGoal ==
  ASSUME PoolInv, NEW w \in Workers, Works(w)
  PROVE  /\ on[w] \in Goals /\ Worked(on[w]) /\ GoalInv(on[w])
         /\ \A v \in Workers \ {w} : on[v] # on[w]
BY DEF PoolInv, WorkerInv, Worked, Alone

LEMMA PoolBeginRun ==
  ASSUME PoolInv, NEW w \in Workers, Pool!BeginRun(w)
  PROVE  PoolInv'
<1>1. at[w] = "claimed" /\ Works(w)
  BY DEF Pool!BeginRun, Works
<1>2. PICK g \in Goals : g = on[w]
  BY <1>1, OwnGoal
<1>3. /\ Pool!Queue!RegisterExecutionTask(g, g) /\ runOf' = [runOf EXCEPT ![g] = "new"]
      /\ at' = [at EXCEPT ![w] = "run"]
      /\ UNCHANGED <<row, on, stopSent, told, recovering, poolStops, poolFaults>>
  BY <1>2 DEF Pool!BeginRun, Pool!bounds
<1>4. /\ Worked(g) /\ GoalInv(g) /\ \A v \in Workers \ {w} : on[v] # g
  BY <1>1, <1>2, OwnGoal
<1>5. status[g] = "running" /\ row[g] \in {"pending", "interrupted"} /\ runOf[g] = "none"
  BY <1>1, <1>2 DEF PoolInv, WorkerInv, WhileClaimed
<1>6. /\ execTask' = [execTask EXCEPT ![g] = g]
      /\ UNCHANGED <<status, place, arrivals, heap, finished, active, slots, waiting, unfinished,
                     cancelSent>>
  BY <1>3, <1>5 DEF Pool!Queue!RegisterExecutionTask, Pool!Queue!slotVars
<1>7. QueueInv'
  BY <1>6, QuietQueue DEF PoolInv, QueueInv, Pool!Queue!TypeOK
<1>8. PoolTyped' /\ FaultsStay
  BY <1>3 DEF PoolInv, PoolTyped, FaultsStay
<1>9. /\ at'[w] = "run" /\ runOf'[g] = "new" /\ execTask'[g] = g /\ g \notin cancelSent
      /\ told[g] = <<>>
  BY <1>3, <1>4, <1>5, <1>6 DEF PoolInv, PoolTyped, QueueInv, Pool!Queue!TypeOK, GoalInv, TellsOf
<1>10. Worked(g)' /\ Awaited(g)'
  BY <1>2, <1>3, <1>9 DEF Worked, Awaited
<1>11. GoalInv(g)'
  BY <1>3, <1>4, <1>5, <1>6, <1>9, <1>10 DEF GoalInv, TellsOf
<1>12. WorkerInv(w)'
  BY <1>2, <1>3, <1>5, <1>6, <1>9 DEF WorkerInv, Works, WhileRunning
<1>13. \A v \in Workers \ {w} : SameWorker(v) /\ on[v] # g
  BY <1>3, <1>4 DEF SameWorker, PoolInv, PoolTyped
<1>14. \A h \in Goals \ {g} : SameGoal(h)
  BY <1>3, <1>6 DEF SameGoal, PoolInv, PoolTyped, QueueInv, Pool!Queue!TypeOK
<1> QED
  BY <1>1, <1>2, <1>3, <1>7, <1>8, <1>11, <1>12, <1>13, <1>14, WorkerStep

\* While a worker is about to settle its goal, the goal has no run any more.
LEMMA NoRunLeft ==
  ASSUME PoolInv, NEW w \in Workers, at[w] = "settling"
  PROVE  runOf[on[w]] \notin {"new", "live"}
<1>1. Works(w)
  BY DEF Works
<1>2. \A v \in Workers : on[v] = on[w] => v = w
  BY <1>1, OwnGoal
<1>3. ~Awaited(on[w])
  BY <1>2 DEF Awaited
<1> QED
  BY <1>1, <1>3, OwnGoal DEF GoalInv

LEMMA PoolEndRun ==
  ASSUME PoolInv, NEW w \in Workers, Pool!EndRun(w)
  PROVE  PoolInv'
<1>1. at[w] = "run" /\ Works(w)
  BY DEF Pool!EndRun, Works
<1>2. PICK g \in Goals : g = on[w]
  BY <1>1, OwnGoal
<1>3. /\ runOf[g] \in Pool!RunOver /\ at' = [at EXCEPT ![w] = "settling"]
      /\ UNCHANGED <<on, stopSent, runOf, told, recovering, poolStops>>
      /\ poolFaults' \in 0..MaxPoolFaults
  BY <1>2, PoolAssumption
  DEF Pool!EndRun, Pool!bounds, Pool!Fault, PoolInv, PoolTyped, Pool!RuntimeWorkerPoolAssumption
<1>4. /\ Worked(g) /\ GoalInv(g) /\ \A v \in Workers \ {w} : on[v] # g
  BY <1>1, <1>2, OwnGoal
<1>5. WhileRunning(status[g], row[g], runOf[g], g \in cancelSent, w \in stopSent, poolFaults > 0)
  BY <1>1, <1>2 DEF PoolInv, WorkerInv
<1>6. /\ UNCHANGED <<status, place, arrivals, heap, finished, active, slots, waiting, unfinished,
                     cancelSent>>
      /\ execTask' = [execTask EXCEPT ![g] = NoGoal]
  <2>1. CASE execTask[g] = g
    BY <1>2, <2>1 DEF Pool!EndRun, Pool!Queue!UnregisterExecutionTask, Pool!Queue!slotVars
  <2>2. CASE execTask[g] # g
    <3>1. UNCHANGED <<status, place, arrivals, heap, finished, active, slots, waiting, unfinished,
                     cancelSent, execTask>>
      BY <1>2, <2>2 DEF Pool!EndRun, Pool!queueVars
    <3>2. execTask[g] = NoGoal
      BY <1>4, <2>2 DEF GoalInv
    <3> QED
      BY <3>1, <3>2 DEF PoolInv, QueueInv, Pool!Queue!TypeOK
  <2> QED
    BY <2>1, <2>2
<1>7. QueueInv'
  BY <1>6, QuietQueue DEF PoolInv, QueueInv, Pool!Queue!TypeOK
<1>17. poolFaults \in Nat /\ poolFaults' \in Nat /\ poolFaults' >= poolFaults
  BY <1>2, PoolAssumption
  DEF Pool!EndRun, Pool!bounds, Pool!Fault, PoolInv, PoolTyped, Pool!RuntimeWorkerPoolAssumption
<1>18. Pool!AfterRun(w) = IF w \in stopSent
                          THEN IF status[g] \in {"pending", "running"} THEN Pool!Paused(row[g]) ELSE row[g]
                          ELSE IF runOf[g] = "raised" THEN "failed" ELSE row[g]
  BY <1>2 DEF Pool!AfterRun, Pool!AfterStop, Pool!Queue!Live
<1>19. WhileSettling(status[g], Pool!AfterRun(w), poolFaults' > 0)
  BY <1>3, <1>5, <1>17, <1>18
  DEF Pool!Paused, Pool!Pausable, WhileRunning, WhileSettling, Pool!Outcomes, Pool!RunOver
<1>20. row[g] \in {"none"} \cup Pool!Pausable \cup Pool!Final
  BY DEF PoolInv, PoolTyped
<1>21. Pool!AfterRun(w) \in {"none"} \cup Pool!Pausable \cup Pool!Final
  BY <1>18, <1>20 DEF Pool!Paused, Pool!Pausable, Pool!Final
<1>8. PICK r \in {"none"} \cup Pool!Pausable \cup Pool!Final :
        /\ row' = [row EXCEPT ![g] = r]
        /\ WhileSettling(status[g], r, poolFaults' > 0)
  <2>1. CASE Pool!Store(g, Pool!AfterRun(w))
    BY <1>19, <1>21, <2>1 DEF Pool!Store
  <2>2. ASSUME Pool!CallsStore(w), Pool!Fault, NEW st \in Pool!AfterFault(w), Pool!Store(g, st)
        PROVE  \E r \in {"none"} \cup Pool!Pausable \cup Pool!Final :
                 /\ row' = [row EXCEPT ![g] = r]
                 /\ WhileSettling(status[g], r, poolFaults' > 0)
    <3>1. row' = [row EXCEPT ![g] = st] /\ st \in {row[g], Pool!AfterRun(w), "failed"}
      BY <1>2, <2>2 DEF Pool!Store, Pool!AfterFault
    <3>2. poolFaults' > 0
      BY <1>17, <2>2 DEF Pool!Fault
    <3>3. WhileSettling(status[g], row[g], poolFaults' > 0)
      BY <1>5, <3>2 DEF WhileRunning, WhileSettling, Pool!Outcomes
    <3>4. WhileSettling(status[g], "failed", poolFaults' > 0)
      BY <1>5, <3>2 DEF WhileRunning, WhileSettling
    <3>5. WhileSettling(status[g], st, poolFaults' > 0)
      BY <1>19, <3>1, <3>3, <3>4
    <3>6. st \in {"none"} \cup Pool!Pausable \cup Pool!Final
      BY <1>20, <1>21, <3>1 DEF Pool!Final
    <3> QED
      BY <3>1, <3>5, <3>6
  <2> QED
    BY <1>2, <2>1, <2>2 DEF Pool!EndRun
<1>9. PoolTyped'
  BY <1>3, <1>8 DEF PoolInv, PoolTyped
<1>10. FaultsStay
  BY <1>2, PoolAssumption
  DEF Pool!EndRun, Pool!bounds, Pool!Fault, PoolInv, PoolTyped, FaultsStay,
      Pool!RuntimeWorkerPoolAssumption
<1>11. at'[w] = "settling" /\ execTask'[g] = NoGoal /\ row'[g] = r /\ told[g] = <<>>
  BY <1>3, <1>4, <1>6, <1>8
  DEF PoolInv, PoolTyped, QueueInv, Pool!Queue!TypeOK, GoalInv, TellsOf
<1>12. Worked(g)' /\ status[g] \notin {"none", "pending"}
  BY <1>2, <1>3, <1>5 DEF Worked, WhileRunning
<1>13. GoalInv(g)'
  BY <1>3, <1>4, <1>6, <1>11, <1>12 DEF GoalInv, TellsOf, Pool!RunOver
<1>14. WorkerInv(w)'
  BY <1>2, <1>3, <1>6, <1>8, <1>11 DEF WorkerInv, Works
<1>15. \A v \in Workers \ {w} : SameWorker(v) /\ on[v] # g
  BY <1>3, <1>4 DEF SameWorker, PoolInv, PoolTyped
<1>16. \A h \in Goals \ {g} : SameGoal(h)
  BY <1>3, <1>6, <1>8 DEF SameGoal, PoolInv, PoolTyped, QueueInv, Pool!Queue!TypeOK
<1> QED
  BY <1>1, <1>2, <1>3, <1>7, <1>9, <1>10, <1>13, <1>14, <1>15, <1>16, WorkerStep

LEMMA PoolSettle ==
  ASSUME PoolInv, NEW w \in Workers, Pool!Settle(w)
  PROVE  PoolInv'
<1>1. at[w] = "settling" /\ Works(w)
  BY DEF Pool!Settle, Works
<1>2. PICK g \in Goals : g = on[w]
  BY <1>1, OwnGoal
<1>3. /\ Worked(g) /\ GoalInv(g) /\ \A v \in Workers \ {w} : on[v] # g
  BY <1>1, <1>2, OwnGoal
<1>4. WhileSettling(status[g], row[g], poolFaults > 0)
  BY <1>1, <1>2 DEF PoolInv, WorkerInv
<1>5. /\ Pool!Queue!SettleFromGoal(g, Pool!Auth(g), FALSE)
      /\ Pool!Store(g, IF status[g] = "cancelled" /\ ~Pool!Overruled(g) THEN "cancelled" ELSE row[g])
      /\ told' = [told EXCEPT ![g] = IF Pool!Transitioned(g) /\ row[g] \in Pool!Announced
                                     THEN Append(@, row[g]) ELSE @]
      /\ at' = [at EXCEPT ![w] = IF w \in stopSent THEN "off" ELSE "get"]
      /\ on' = [on EXCEPT ![w] = NoGoal]
      /\ UNCHANGED <<stopSent, runOf, recovering, poolStops, poolFaults>>
  BY <1>2 DEF Pool!Settle, Pool!Leave, Pool!bounds
<1>6. PICK st \in Pool!Queue!Terminal, r \in {"none"} \cup Pool!Pausable \cup Pool!Final :
        /\ status' = [status EXCEPT ![g] = st] /\ row' = [row EXCEPT ![g] = r]
        /\ poolFaults = 0 => Agree(st, r)
        /\ Pool!Transitioned(g) /\ row[g] \in Pool!Announced =>
             r = row[g] /\ st = IF r = "blocked" THEN "failed" ELSE r
  <2>1. PICK st : /\ st = Pool!Queue!SettledStatus(status[g], Pool!Auth(g), FALSE)
                  /\ status' = [status EXCEPT ![g] = st]
    BY <1>5 DEF Pool!Queue!SettleFromGoal
  <2>2. PICK r : /\ r = IF status[g] = "cancelled" /\ ~Pool!Overruled(g) THEN "cancelled" ELSE row[g]
                 /\ row' = [row EXCEPT ![g] = r]
    BY <1>5 DEF Pool!Store
  <2>3. r \in {"none"} \cup Pool!Pausable \cup Pool!Final
    BY <2>2 DEF PoolInv, PoolTyped, Pool!Final
  <2>4. CASE status[g] = "running"
    <3>1. st = IF row[g] \in Pool!Queue!Terminal THEN row[g] ELSE "failed"
      BY <2>1, <2>4 DEF Pool!Queue!SettledStatus, Pool!Auth, Pool!Queue!Live, Pool!Queue!Terminal
    <3>2. st \in Pool!Queue!Terminal
      BY <3>1 DEF Pool!Queue!Terminal
    <3>3. poolFaults = 0 => Agree(st, r)
      BY <1>4, <2>2, <2>4, <3>1 DEF WhileSettling, Agree, Pool!Queue!Terminal
    <3>4. row[g] \in Pool!Announced => st = IF r = "blocked" THEN "failed" ELSE r
      BY <2>2, <2>4, <3>1 DEF Pool!Announced, Pool!Queue!Terminal
    <3> QED
      BY <2>1, <2>2, <2>3, <2>4, <3>2, <3>3, <3>4
  <2>5. CASE status[g] = "cancelled"
    <3>1. row[g] \in {"cancelled", "failed"}
      BY <1>4, <2>5 DEF WhileSettling
    <3>2. st = row[g] /\ r = row[g]
      BY <2>1, <2>2, <2>5, <3>1
      DEF Pool!Queue!SettledStatus, Pool!Auth, Pool!Queue!Live, Pool!Queue!Terminal, Pool!Overruled
    <3> QED
      BY <2>1, <2>2, <2>3, <3>1, <3>2 DEF Agree, Pool!Queue!Terminal, Pool!Announced
  <2>6. CASE status[g] \in {"done", "failed"}
    <3>1. row[g] = status[g] \/ poolFaults > 0
      BY <1>4, <2>6 DEF WhileSettling
    <3>2. st = status[g] /\ r = row[g]
      BY <2>1, <2>2, <2>6 DEF Pool!Queue!SettledStatus, Pool!Queue!Live
    <3>3. st \in Pool!Queue!Terminal
      BY <2>6, <3>2 DEF Pool!Queue!Terminal
    <3>4. poolFaults = 0 => Agree(st, r)
      BY <2>6, <3>1, <3>2 DEF Agree
    <3>5. ~Pool!Transitioned(g)
      BY <2>6 DEF Pool!Transitioned, Pool!Overruled, Pool!Queue!Live
    <3> QED
      BY <2>1, <2>2, <2>3, <3>3, <3>4, <3>5
  <2> QED
    BY <1>4, <2>4, <2>5, <2>6 DEF WhileSettling
<1>7. /\ QueueInv' /\ finished' = finished \cup {g} /\ active' = active \ {g}
  <2>1. status[g] # "none" /\ cancelSent' \subseteq Goals
    BY <1>5 DEF Pool!Queue!SettleFromGoal, PoolInv, QueueInv, Pool!Queue!TypeOK
  <2> QED
    BY <1>5, <1>6, <2>1, SettleQueue DEF Pool!Queue!SettleFromGoal, PoolInv
<1>8. UNCHANGED <<execTask, cancelSent>>
  BY <1>5 DEF Pool!Queue!SettleFromGoal
<1>9. told[g] = <<>>
  BY <1>3 DEF GoalInv, TellsOf
<1>10. PICK t \in Seq(Pool!Outcomes) :
         /\ told' = [told EXCEPT ![g] = t]
         /\ t # <<>> => \E o \in Pool!Outcomes :
                          /\ t = <<o>> /\ r = o
                          /\ st = IF o = "blocked" THEN "failed" ELSE o
  <2>1. CASE Pool!Transitioned(g) /\ row[g] \in Pool!Announced
    <3>1. told' = [told EXCEPT ![g] = <<row[g]>>]
      BY <1>5, <1>9, <2>1 DEF PoolInv, PoolTyped
    <3>2. /\ r = row[g] /\ row[g] \in Pool!Outcomes /\ <<row[g]>> \in Seq(Pool!Outcomes)
          /\ st = IF r = "blocked" THEN "failed" ELSE r
      BY <1>6, <2>1 DEF Pool!Announced, Pool!Outcomes
    <3> QED
      BY <3>1, <3>2
  <2>2. CASE ~(Pool!Transitioned(g) /\ row[g] \in Pool!Announced)
    BY <1>5, <1>9, <2>2 DEF PoolInv, PoolTyped
  <2> QED
    BY <2>1, <2>2
<1>11. PoolTyped' /\ FaultsStay
  BY <1>5, <1>6, <1>10 DEF PoolInv, PoolTyped, FaultsStay
<1>12. /\ at'[w] \in {"off", "get"} /\ on'[w] = NoGoal /\ status'[g] = st /\ row'[g] = r
       /\ told'[g] = t
  BY <1>5, <1>6, <1>10 DEF PoolInv, PoolTyped, QueueInv, Pool!Queue!TypeOK
<1>13. ~Worked(g)'
  BY <1>2, <1>3, <1>5, PoolAssumption
  DEF Worked, PoolInv, PoolTyped, Pool!RuntimeWorkerPoolAssumption
<1>14. TellsOf(told[g], row[g], status[g], g \in finished, Worked(g))'
  <2>1. \A o \in Pool!Outcomes : r = o =>
           r \in (IF o = "blocked" THEN {"blocked", "failed", "cancelled"} ELSE {o})
    OBVIOUS
  <2> QED
    BY <1>7, <1>10, <1>12, <1>13, <2>1 DEF TellsOf
<1>15. runOf[g] \notin {"new", "live"} /\ status[g] # "none" /\ st \notin {"none", "pending"}
  BY <1>1, <1>2, <1>4, NoRunLeft DEF WhileSettling, Pool!Queue!Terminal
<1>16. GoalInv(g)'
  BY <1>3, <1>5, <1>6, <1>7, <1>8, <1>12, <1>13, <1>14, <1>15 DEF GoalInv
<1>17. WorkerInv(w)'
  BY <1>12 DEF WorkerInv, Works
<1>18. \A v \in Workers \ {w} : SameWorker(v) /\ on[v] # g
  BY <1>3, <1>5 DEF SameWorker, PoolInv, PoolTyped
<1>19. \A h \in Goals \ {g} : SameGoal(h)
  BY <1>5, <1>6, <1>7, <1>8, <1>10 DEF SameGoal, PoolInv, PoolTyped, QueueInv, Pool!Queue!TypeOK
<1> QED
  BY <1>1, <1>2, <1>5, <1>7, <1>11, <1>12, <1>16, <1>17, <1>18, <1>19, WorkerStep

LEMMA PoolSettleRaises ==
  ASSUME PoolInv, NEW w \in Workers, Pool!SettleRaises(w)
  PROVE  PoolInv'
<1>1. at[w] = "settling" /\ Works(w)
  BY DEF Pool!SettleRaises, Works
<1>2. PICK g \in Goals : g = on[w]
  BY <1>1, OwnGoal
<1>3. /\ Worked(g) /\ GoalInv(g) /\ \A v \in Workers \ {w} : on[v] # g
  BY <1>1, <1>2, OwnGoal
<1>4. WhileSettling(status[g], row[g], poolFaults > 0)
  BY <1>1, <1>2 DEF PoolInv, WorkerInv
<1>5. /\ at' = [at EXCEPT ![w] = "off"] /\ on' = [on EXCEPT ![w] = NoGoal]
      /\ UNCHANGED <<status, place, arrivals, heap, finished, active, slots, waiting,
                     unfinished, execTask, cancelSent, row, stopSent, runOf, told, recovering,
                     poolStops>>
      /\ poolFaults < MaxPoolFaults /\ poolFaults' = poolFaults + 1
  BY DEF Pool!SettleRaises, Pool!queueVars, Pool!Fault
<1>6. QueueInv'
  BY <1>5, QuietQueue DEF PoolInv, QueueInv, Pool!Queue!TypeOK
<1>7. PoolTyped' /\ FaultsStay /\ poolFaults' # 0
  BY <1>5, PoolAssumption DEF PoolInv, PoolTyped, FaultsStay, Pool!RuntimeWorkerPoolAssumption
<1>8. at'[w] = "off" /\ on'[w] = NoGoal /\ told[g] = <<>>
  BY <1>3, <1>5 DEF PoolInv, PoolTyped, GoalInv, TellsOf
<1>9. runOf[g] \notin {"new", "live"} /\ status[g] \notin {"none", "pending"}
  BY <1>1, <1>2, <1>4, NoRunLeft DEF WhileSettling
<1>10. GoalInv(g)'
  BY <1>3, <1>5, <1>7, <1>8, <1>9 DEF GoalInv, TellsOf
<1>11. WorkerInv(w)'
  BY <1>8 DEF WorkerInv, Works
<1>12. \A v \in Workers \ {w} : SameWorker(v) /\ on[v] # g
  BY <1>3, <1>5 DEF SameWorker, PoolInv, PoolTyped
<1>13. \A h \in Goals \ {g} : SameGoal(h)
  BY <1>5 DEF SameGoal
<1> QED
  BY <1>1, <1>2, <1>5, <1>6, <1>7, <1>8, <1>10, <1>11, <1>12, <1>13, WorkerStep

\* A worker in get() ends; one that awaits a run cancels it.
LEMMA PoolStopWorker ==
  ASSUME PoolInv, NEW w \in Workers, Pool!StopWorker(w)
  PROVE  PoolInv'
<1>1. /\ poolStops < MaxPoolStops /\ poolStops' = poolStops + 1
      /\ stopSent' = stopSent \cup {w}
      /\ UNCHANGED <<row, on, runOf, told, recovering, poolFaults>>
  BY DEF Pool!StopWorker
<1>2. CASE at[w] = "get"
  <2>1. at' = [at EXCEPT ![w] = "off"]
    BY <1>2 DEF Pool!StopWorker
  <2>2. /\ UNCHANGED <<status, place, arrivals, heap, finished, active, unfinished, execTask,
                       cancelSent>>
        /\ slots' \in Nat /\ waiting' \subseteq Workers
    <3>1. slots \in Nat /\ waiting \subseteq Workers
      BY DEF PoolInv, QueueInv, Pool!Queue!TypeOK
    <3>2. CASE w \in waiting
      BY <1>2, <3>1, <3>2 DEF Pool!StopWorker, Pool!Queue!AbortGet
    <3>3. CASE w \notin waiting
      BY <1>2, <3>1, <3>3 DEF Pool!StopWorker, Pool!queueVars
    <3> QED
      BY <3>2, <3>3
  <2>3. QueueInv'
    BY <2>2, QuietQueue DEF PoolInv, QueueInv, Pool!Queue!TypeOK
  <2>4. PoolTyped' /\ FaultsStay
    BY <1>1, <2>1, PoolAssumption DEF PoolInv, PoolTyped, FaultsStay, Pool!RuntimeWorkerPoolAssumption
  <2>5. on[w] = NoGoal /\ at'[w] = "off"
    BY <1>2, <2>1 DEF PoolInv, PoolTyped, WorkerInv, Works
  <2>6. \A v \in Workers \ {w} : SameWorker(v)
    BY <1>1, <2>1 DEF SameWorker, PoolInv, PoolTyped
  <2>7. \A g \in Goals : SameGoal(g)
    BY <1>1, <2>2 DEF SameGoal
  <2>8. \A g \in Goals : Elsewhere(w, g)
    BY <1>1, <2>5, PoolAssumption DEF Elsewhere, Pool!RuntimeWorkerPoolAssumption
  <2>9. \A g \in Goals : GoalStays(g)
    BY <2>6, <2>7, <2>8 DEF GoalStays
  <2>10. WorkerInv(w)'
    BY <1>1, <2>5 DEF WorkerInv, Works
  <2>11. \A v \in Workers : WorkerInv(v)' \/ WorkerStays(v)
    BY <2>6, <2>7, <2>10 DEF WorkerStays
  <2>12. Alone' /\ RecoversFirst'
    BY <1>1, <2>5, <2>6 DEF Alone, RecoversFirst, PoolInv, SameWorker
  <2> QED
    BY <2>3, <2>4, <2>9, <2>11, <2>12, PoolStep
<1>3. CASE at[w] = "run"
  <2>1. PICK g \in Goals : g = on[w]
    BY <1>3, OwnGoal DEF Works
  <2>2. /\ Worked(g) /\ GoalInv(g) /\ \A v \in Workers \ {w} : on[v] # g
    BY <1>3, <2>1, OwnGoal DEF Works
  <2>3. WhileRunning(status[g], row[g], runOf[g], g \in cancelSent, w \in stopSent, poolFaults > 0)
    BY <1>3, <2>1 DEF PoolInv, WorkerInv
  <2>4. /\ UNCHANGED <<status, place, arrivals, heap, finished, active, slots, waiting, unfinished,
                       execTask, at>>
        /\ cancelSent' = IF runOf[g] \in Pool!RunOver THEN cancelSent ELSE cancelSent \cup {g}
    BY <1>3, <2>1 DEF Pool!StopWorker
  <2>5. QueueInv'
    BY <2>4, QuietQueue DEF PoolInv, QueueInv, Pool!Queue!TypeOK
  <2>6. PoolTyped' /\ FaultsStay
    BY <1>1, <2>4, PoolAssumption DEF PoolInv, PoolTyped, FaultsStay, Pool!RuntimeWorkerPoolAssumption
  <2>7. (Worked(g)' <=> Worked(g)) /\ (Awaited(g)' <=> Awaited(g)) /\ runOf[g] # "none"
    BY <1>1, <2>3, <2>4 DEF Worked, Awaited, WhileRunning
  <2>8. TellsOf(told[g], row[g], status[g], g \in finished, Worked(g))'
    BY <1>1, <2>2, <2>4, <2>7 DEF TellsOf, GoalInv
  <2>9. GoalInv(g)'
    BY <1>1, <2>2, <2>4, <2>7, <2>8 DEF GoalInv
  <2>10. WhileRunning(status[g], row[g], runOf[g], g \in cancelSent', w \in stopSent', poolFaults > 0)
    BY <1>1, <2>3, <2>4 DEF WhileRunning
  <2>11. WorkerInv(w)'
    BY <1>1, <1>3, <2>1, <2>4, <2>10 DEF WorkerInv, Works
  <2>12. \A v \in Workers \ {w} : SameWorker(v) /\ on[v] # g
    BY <1>1, <2>2, <2>4 DEF SameWorker
  <2>13. \A h \in Goals \ {g} : SameGoal(h)
    BY <1>1, <2>4 DEF SameGoal
  <2> QED
    BY <1>1, <1>3, <2>1, <2>5, <2>6, <2>9, <2>11, <2>12, <2>13, WorkerStep
<1> QED
  BY <1>2, <1>3 DEF Pool!StopWorker

\* A step of the run of a goal, which its one worker awaits.
LEMMA OwnRunStep ==
  ASSUME PoolInv, NEW g \in Goals, runOf[g] \in {"new", "live"},
         NEW x \in {"live"} \cup Pool!RunOver, NEW r \in Pool!Pausable \cup Pool!Final,
         runOf' = [runOf EXCEPT ![g] = x], row' = [row EXCEPT ![g] = r],
         UNCHANGED <<status, place, arrivals, heap, finished, active, slots, waiting, unfinished,
                     execTask, cancelSent, at, on, stopSent, told, recovering, poolStops>>,
         poolFaults' \in 0..MaxPoolFaults, FaultsStay,
         \A stopped \in BOOLEAN :
           WhileRunning(status[g], row[g], runOf[g], g \in cancelSent, stopped, poolFaults > 0) =>
             WhileRunning(status[g], r, x, g \in cancelSent, stopped, poolFaults' > 0)
  PROVE  PoolInv'
<1>1. QueueInv'
  BY QuietQueue DEF PoolInv, QueueInv, Pool!Queue!TypeOK
<1>2. PoolTyped' /\ FaultsStay /\ RecoversFirst' /\ runOf'[g] = x /\ row'[g] = r
  BY DEF PoolInv, PoolTyped, FaultsStay, RecoversFirst
<1>3. GoalInv(g) /\ Awaited(g)
  BY DEF PoolInv, GoalInv
<1>4. PICK w \in Workers : on[w] = g /\ at[w] = "run"
  BY <1>3 DEF Awaited
<1>5. \A v \in Workers : on[v] = g => v = w
  BY <1>4 DEF PoolInv, Alone
<1>6. WhileRunning(status[g], row[g], runOf[g], g \in cancelSent, w \in stopSent, poolFaults > 0)
  BY <1>4 DEF PoolInv, WorkerInv
<1>7. WhileRunning(status[g], r, x, g \in cancelSent, w \in stopSent, poolFaults' > 0)
  BY <1>6, (w \in stopSent) \in BOOLEAN, Zenon
<1>8. WorkerInv(w)'
  BY <1>2, <1>4, <1>7 DEF WorkerInv, Works
<1>9. Worked(g)' /\ Worked(g) /\ Awaited(g)'
  BY <1>4 DEF Worked, Awaited
<1>10. status[g] \notin {"none", "pending"} /\ told[g] = <<>>
  BY <1>3, <1>9 DEF GoalInv, TellsOf, WhileRunning
<1>11. GoalInv(g)'
  BY <1>2, <1>3, <1>9, <1>10 DEF GoalInv, TellsOf, Pool!RunOver
<1>12. \A h \in Goals \ {g} : SameGoal(h)
  BY DEF SameGoal, PoolInv, PoolTyped
<1> QED
  BY <1>1, <1>2, <1>5, <1>8, <1>11, <1>12, GoalStep

LEMMA PoolRun ==
  ASSUME PoolInv, NEW g \in Goals, Pool!Run(g)
  PROVE  PoolInv'
<1>1. runOf[g] \in {"new", "live"}
  BY DEF Pool!Run, Pool!RunStarts, Pool!RunEnds, Pool!RunRaises, Pool!RunCancelled
<1>2. PICK stopped \in BOOLEAN :
        WhileRunning(status[g], row[g], runOf[g], g \in cancelSent, stopped, poolFaults > 0)
  <2>1. PICK w \in Workers : on[w] = g /\ at[w] = "run"
    BY <1>1 DEF PoolInv, GoalInv, Awaited
  <2>2. WhileRunning(status[g], row[g], runOf[g], g \in cancelSent, w \in stopSent, poolFaults > 0)
    BY <2>1 DEF PoolInv, WorkerInv
  <2> QED
    BY <2>2, (w \in stopSent) \in BOOLEAN, Zenon
<1>3. row[g] \in Pool!Pausable \cup Pool!Final
  BY <1>1, <1>2 DEF WhileRunning, Pool!Pausable, Pool!Final
<1>4. UNCHANGED <<status, place, arrivals, heap, finished, active, slots, waiting, unfinished,
                  execTask, cancelSent, at, on, stopSent, told, recovering, poolStops>>
  BY DEF Pool!Run, Pool!RunStarts, Pool!RunEnds, Pool!RunRaises, Pool!RunCancelled,
     Pool!queueVars, Pool!workerVars, Pool!bounds, Pool!Fault
<1>10. poolFaults \in Nat /\ poolFaults' \in 0..MaxPoolFaults /\ FaultsStay
  BY PoolAssumption
  DEF Pool!Run, Pool!RunStarts, Pool!RunEnds, Pool!RunRaises, Pool!RunCancelled, Pool!bounds,
      Pool!Fault, PoolInv, PoolTyped, Pool!RuntimeWorkerPoolAssumption, FaultsStay
<1>11. ~Pool!RunRaises(g) => UNCHANGED poolFaults
  BY DEF Pool!Run, Pool!RunStarts, Pool!RunEnds, Pool!RunCancelled, Pool!bounds
<1>5. row = [row EXCEPT ![g] = row[g]]
  BY DEF PoolInv, PoolTyped
<1>6. CASE Pool!RunStarts(g)
  <2>1. runOf[g] = "new" /\ g \notin cancelSent
    BY <1>6 DEF Pool!RunStarts
  <2>2. row[g] \in {"pending", "interrupted"}
    BY <1>2, <2>1 DEF WhileRunning
  <2>3. runOf' = [runOf EXCEPT ![g] = "live"] /\ row' = [row EXCEPT ![g] = "running"]
    BY <1>6, <2>2 DEF Pool!RunStarts, Pool!Store
  <2>4. \A s \in BOOLEAN : WhileRunning(status[g], row[g], runOf[g], g \in cancelSent, s, poolFaults > 0) =>
                             WhileRunning(status[g], "running", "live", g \in cancelSent, s, poolFaults' > 0)
    BY <1>6, <1>11, <2>1, <2>2 DEF WhileRunning, Pool!RunStarts, Pool!RunRaises
  <2> QED
    BY <1>1, <1>4, <1>10, <2>3, <2>4, OwnRunStep DEF Pool!Pausable
<1>7. CASE \E st \in Pool!Outcomes : Pool!RunEnds(g, st)
  <2>1. PICK st \in Pool!Outcomes : Pool!RunEnds(g, st)
    BY <1>7
  <2>2. runOf[g] = "live" /\ g \notin cancelSent /\ runOf' = [runOf EXCEPT ![g] = "ended"]
    BY <2>1 DEF Pool!RunEnds
  <2>3. row[g] = "running" /\ row' = [row EXCEPT ![g] = st]
    BY <1>2, <2>1, <2>2 DEF WhileRunning, Pool!RunEnds, Pool!Store
  <2>4. \A s \in BOOLEAN : WhileRunning(status[g], row[g], runOf[g], g \in cancelSent, s, poolFaults > 0) =>
                             WhileRunning(status[g], st, "ended", g \in cancelSent, s, poolFaults' > 0)
    BY <2>2, <2>3 DEF WhileRunning
  <2>5. st \in Pool!Pausable \cup Pool!Final /\ "ended" \in {"live"} \cup Pool!RunOver
    BY DEF Pool!Pausable, Pool!Final, Pool!Outcomes, Pool!RunOver
  <2> QED
    BY <1>1, <1>4, <1>10, <2>2, <2>3, <2>4, <2>5, OwnRunStep
<1>8. CASE Pool!RunRaises(g)
  <2>1. g \notin cancelSent /\ runOf' = [runOf EXCEPT ![g] = "raised"]
    BY <1>8 DEF Pool!RunRaises
  <2>2. PICK r \in Pool!Pausable \cup Pool!Final :
          /\ row' = [row EXCEPT ![g] = r]
          /\ \/ r = row[g] /\ UNCHANGED poolFaults
             \/ row[g] = "running" /\ r \in Pool!Outcomes /\ poolFaults' > 0
    <3>1. CASE UNCHANGED <<row, poolFaults>>
      BY <1>3, <1>5, <3>1
    <3>2. CASE row[g] = "running" /\ Pool!Fault /\ \E st \in Pool!Outcomes : Pool!Store(g, st)
      <4>1. PICK st \in Pool!Outcomes : row' = [row EXCEPT ![g] = st]
        BY <3>2 DEF Pool!Store
      <4>2. st \in Pool!Pausable \cup Pool!Final
        BY DEF Pool!Outcomes, Pool!Pausable, Pool!Final
      <4>3. poolFaults' > 0
        BY <1>10, <3>2 DEF Pool!Fault
      <4> QED
        BY <3>2, <4>1, <4>2, <4>3
    <3> QED
      BY <1>8, <3>1, <3>2 DEF Pool!RunRaises, Pool!bounds
  <2>3. \A s \in BOOLEAN : WhileRunning(status[g], row[g], runOf[g], g \in cancelSent, s, poolFaults > 0) =>
                             WhileRunning(status[g], r, "raised", g \in cancelSent, s, poolFaults' > 0)
    BY <1>1, <2>1, <2>2 DEF WhileRunning
  <2> QED
    BY <1>1, <1>4, <1>10, <2>1, <2>2, <2>3, OwnRunStep DEF Pool!RunOver
<1>9. CASE Pool!RunCancelled(g)
  <2>1. /\ g \in cancelSent /\ runOf' = [runOf EXCEPT ![g] = "cancelled"]
        /\ row' = [row EXCEPT ![g] = row[g]]
    BY <1>5, <1>9 DEF Pool!RunCancelled
  <2>2. \A s \in BOOLEAN : WhileRunning(status[g], row[g], runOf[g], g \in cancelSent, s, poolFaults > 0) =>
                             WhileRunning(status[g], row[g], "cancelled", g \in cancelSent, s, poolFaults' > 0)
    BY <1>1, <2>1 DEF WhileRunning
  <2> QED
    BY <1>1, <1>3, <1>4, <1>10, <2>1, <2>2, OwnRunStep DEF Pool!RunOver
<1> QED
  BY <1>6, <1>7, <1>8, <1>9 DEF Pool!Run

-----------------------------------------------------------------------------
LEMMA PoolHandleMessage ==
  ASSUME PoolInv, NEW g \in Goals, Pool!HandleMessage(g)
  PROVE  PoolInv'
<1>1. /\ row[g] = "none" /\ recovering = {} /\ row' = [row EXCEPT ![g] = "pending"]
      /\ Pool!Queue!Submit(g, 0)
      /\ UNCHANGED <<at, on, stopSent, runOf, told, recovering, poolStops, poolFaults>>
  BY DEF Pool!HandleMessage, Pool!Store, Pool!workerVars, Pool!bounds
<1>2. /\ status[g] = "none" /\ status' = [status EXCEPT ![g] = "pending"]
      /\ UNCHANGED <<finished, active, execTask, cancelSent>>
  BY <1>1 DEF Pool!Queue!Submit
<1>3. QueueInv'
  BY <1>1, SubmitQueue DEF PoolInv
<1>4. PoolTyped' /\ FaultsStay /\ RecoversFirst' /\ status'[g] = "pending" /\ row'[g] = "pending"
  BY <1>1, <1>2 DEF PoolInv, PoolTyped, FaultsStay, RecoversFirst, Pool!Pausable, QueueInv,
     Pool!Queue!TypeOK
<1>5. /\ GoalInv(g) /\ ~Worked(g) /\ ~Worked(g)' /\ runOf[g] = "none" /\ g \notin finished
      /\ g \notin active
  BY <1>1, <1>2 DEF PoolInv, GoalInv, Worked, QueueInv, Pool!Queue!SlotsMatchStatus
<1>6. told[g] = <<>>
  BY <1>1, <1>5 DEF GoalInv, TellsOf, Pool!Outcomes
<1>7. GoalInv(g)'
  BY <1>1, <1>2, <1>4, <1>5, <1>6 DEF GoalInv, TellsOf
<1>8. \A h \in Goals \ {g} : SameGoal(h)
  BY <1>1, <1>2 DEF SameGoal, PoolInv, PoolTyped, QueueInv, Pool!Queue!TypeOK
<1>9. \A w \in Workers : on[w] # g
  BY <1>5 DEF Worked
<1> QED
  BY <1>1, <1>3, <1>4, <1>7, <1>8, <1>9, GoalStep

LEMMA PoolRecover ==
  ASSUME PoolInv, NEW g \in Goals, Pool!Recover(g)
  PROVE  PoolInv'
<1>1. /\ g \in recovering /\ recovering' = recovering \ {g}
      /\ UNCHANGED <<at, on, stopSent, runOf, told, poolStops, poolFaults>>
  BY DEF Pool!Recover, Pool!workerVars, Pool!bounds
<1>2. /\ GoalInv(g) /\ status[g] = "none" /\ row[g] \in {"pending", "interrupted"}
      /\ runOf[g] = "none" /\ ~Worked(g) /\ ~Worked(g)' /\ g \notin finished /\ g \notin active
  <2>1. /\ GoalInv(g) /\ status[g] = "none" /\ row[g] \in {"pending", "interrupted"}
        /\ runOf[g] = "none" /\ ~Worked(g)
    BY <1>1 DEF PoolInv, GoalInv
  <2>2. ~Worked(g)'
    BY <1>1, <2>1 DEF Worked
  <2>3. g \notin finished /\ g \notin active
    BY <2>1 DEF PoolInv, QueueInv, Pool!Queue!SlotsMatchStatus
  <2> QED
    BY <2>1, <2>2, <2>3
<1>3. told[g] = <<>>
  BY <1>2 DEF GoalInv, TellsOf, Pool!Outcomes
<1>4. PICK st \in {"none", "pending"}, r \in {"pending", "interrupted", "blocked"} :
        /\ status' = [status EXCEPT ![g] = st] /\ row' = [row EXCEPT ![g] = r]
        /\ st = "pending" => r \in {"pending", "interrupted"}
        /\ QueueInv' /\ UNCHANGED <<finished, active, execTask, cancelSent>>
  <2>1. CASE Pool!Queue!Submit(g, 0) /\ UNCHANGED row
    <3>1. /\ status' = [status EXCEPT ![g] = "pending"] /\ row' = [row EXCEPT ![g] = row[g]]
          /\ UNCHANGED <<finished, active, execTask, cancelSent>>
      BY <2>1 DEF Pool!Queue!Submit, PoolInv, PoolTyped
    <3>2. QueueInv'
      BY <2>1, SubmitQueue DEF PoolInv
    <3> QED
      BY <1>2, <3>1, <3>2
  <2>2. CASE Pool!Store(g, "blocked") /\ UNCHANGED Pool!queueVars
    <3>1. /\ row' = [row EXCEPT ![g] = "blocked"]
          /\ UNCHANGED <<status, place, arrivals, heap, finished, active, slots, waiting,
                         unfinished, execTask, cancelSent>>
      BY <2>2 DEF Pool!Store, Pool!queueVars
    <3>2. QueueInv' /\ status' = [status EXCEPT ![g] = "none"]
      BY <1>2, <3>1, QuietQueue DEF PoolInv, QueueInv, Pool!Queue!TypeOK
    <3> QED
      BY <3>1, <3>2
  <2> QED
    BY <2>1, <2>2 DEF Pool!Recover
<1>5. PoolTyped' /\ FaultsStay /\ RecoversFirst'
  BY <1>1, <1>4 DEF PoolInv, PoolTyped, FaultsStay, RecoversFirst, Pool!Pausable
<1>6. status'[g] = st /\ row'[g] = r /\ g \notin recovering'
  BY <1>1, <1>4 DEF PoolInv, PoolTyped, QueueInv, Pool!Queue!TypeOK
<1>7. GoalInv(g)'
  BY <1>1, <1>2, <1>3, <1>4, <1>6 DEF GoalInv, TellsOf
<1>8. \A h \in Goals \ {g} : SameGoal(h)
  BY <1>1, <1>4 DEF SameGoal, PoolInv, PoolTyped, QueueInv, Pool!Queue!TypeOK
<1>9. \A w \in Workers : on[w] # g
  BY <1>2 DEF Worked
<1> QED
  BY <1>1, <1>4, <1>5, <1>7, <1>8, <1>9, GoalStep

LEMMA PoolCrash ==
  ASSUME PoolInv, Pool!Crash
  PROVE  PoolInv'
<1>1. /\ QueueBegins
      /\ at' = [w \in Workers |-> "off"] /\ on' = [w \in Workers |-> NoGoal] /\ stopSent' = {}
      /\ runOf' = [g \in Goals |-> "none"]
      /\ UNCHANGED <<told, poolFaults>>
      /\ poolStops < MaxPoolStops /\ poolStops' = poolStops + 1
  BY DEF Pool!Crash, QueueBegins, Pool!AllOff, Pool!NoWork, Pool!NoRuns
<1>2. PICK unsafe \in SUBSET {g \in Goals : row[g] = "running"} :
        /\ row' = [g \in Goals |-> IF row[g] = "running" /\ g \notin unsafe
                                   THEN "interrupted" ELSE row[g]]
        /\ recovering' = {g \in Goals \ unsafe : row[g] \in {"pending", "running", "interrupted"}}
  BY DEF Pool!Crash
<1>3. QueueInv'
  BY <1>1, QueueBeginsAnew
<1>4. PoolTyped' /\ FaultsStay
  BY <1>1, <1>2, PoolAssumption
  DEF PoolInv, PoolTyped, FaultsStay, Pool!RuntimeWorkerPoolAssumption, Pool!Pausable
<1>5. Alone' /\ RecoversFirst'
  BY <1>1, PoolAssumption DEF Alone, RecoversFirst, Pool!RuntimeWorkerPoolAssumption
<1>6. \A w \in Workers : WorkerInv(w)'
  BY <1>1 DEF WorkerInv, Works
<1>7. ASSUME NEW g \in Goals PROVE GoalInv(g)'
  <2>1. ~Worked(g)'
    BY <1>1, PoolAssumption DEF Worked, Pool!RuntimeWorkerPoolAssumption
  <2>2. /\ status'[g] = "none" /\ runOf'[g] = "none" /\ execTask'[g] = NoGoal
        /\ g \notin cancelSent' /\ g \notin active' /\ g \notin finished' /\ told'[g] = told[g]
    BY <1>1 DEF QueueBegins
  <2>3. g \in recovering' => row'[g] \in {"pending", "interrupted"}
    BY <1>2
  <2>4. row[g] # "running" => row'[g] = row[g]
    BY <1>2
  <2>5. TellsOf(told[g], row[g], status[g], g \in finished, Worked(g))
    BY DEF PoolInv, GoalInv
  <2>6. TellsOf(told[g], row[g], status[g], g \in finished, Worked(g))'
    BY <2>1, <2>2, <2>4, <2>5 DEF TellsOf, Pool!Outcomes
  <2> QED
    BY <2>1, <2>2, <2>3, <2>6 DEF GoalInv
<1> QED
  BY <1>3, <1>4, <1>5, <1>6, <1>7 DEF PoolInv

\* An operator settles an item in the status of its goal, cancels the goal, or makes it
\* agree with its item.
LEMMA PoolCancelGoal ==
  ASSUME PoolInv, Pool!Quiet, NEW g \in Goals, Pool!CancelGoal(g)
  PROVE  PoolInv'
<1>1. /\ row[g] # "none" /\ recovering = {}
      /\ UNCHANGED <<at, on, stopSent, runOf, told, recovering, poolStops, poolFaults>>
  BY DEF Pool!CancelGoal, Pool!workerVars, Pool!bounds
<1>2. GoalInv(g) /\ (Worked(g)' <=> Worked(g)) /\ (Awaited(g)' <=> Awaited(g))
  BY <1>1 DEF PoolInv, Worked, Awaited
<1>3. ASSUME NEW w \in Workers, on[w] = g
      PROVE  /\ at[w] = "run"
             /\ WhileRunning(status[g], row[g], runOf[g], g \in cancelSent, w \in stopSent, poolFaults > 0)
  <2>1. Works(w)
    BY <1>3, PoolAssumption DEF PoolInv, WorkerInv, Pool!RuntimeWorkerPoolAssumption
  <2>2. at[w] = "run"
    BY <2>1 DEF Works, Pool!Quiet
  <2> QED
    BY <1>3, <2>2 DEF PoolInv, WorkerInv
\* What holds of the new statuses whatever the case is enough.
<1>4. ASSUME NEW st \in Pool!Queue!Statuses \ {"none"}, NEW r \in Pool!Pausable \cup Pool!Final,
             status' = [status EXCEPT ![g] = st], row' = [row EXCEPT ![g] = r],
             QueueInv', UNCHANGED execTask,
             finished \subseteq finished', finished' \subseteq finished \cup {g},
             active' \subseteq active, active \subseteq active' \cup {g},
             cancelSent \subseteq cancelSent', cancelSent' \subseteq cancelSent \cup {g},
             g \in cancelSent' => runOf[g] # "none",
             st # "pending", Agree(st, r),
             told[g] = <<>> \/ (status[g] = st /\ g \in finished /\ st = "failed" /\ r = "failed"
                                /\ told[g] = <<"blocked">>),
             status[g] = "pending" => g \in finished',
             \A w \in Workers : on[w] = g =>
               WhileRunning(st, r, runOf[g], g \in cancelSent', w \in stopSent, poolFaults > 0)
      PROVE  PoolInv'
  <2>1. status'[g] = st /\ row'[g] = r
    BY <1>4 DEF PoolInv, PoolTyped, QueueInv, Pool!Queue!TypeOK
  <2>2. PoolTyped' /\ FaultsStay /\ RecoversFirst'
    BY <1>1, <1>4 DEF PoolInv, PoolTyped, FaultsStay, RecoversFirst
  <2>3. \A h \in Goals \ {g} : SameGoal(h)
    BY <1>1, <1>4 DEF SameGoal, PoolInv, PoolTyped, QueueInv, Pool!Queue!TypeOK
  <2>4. TellsOf(told[g], row[g], status[g], g \in finished, Worked(g))'
    BY <1>1, <1>2, <1>4, <2>1 DEF TellsOf, GoalInv, Pool!Outcomes
  <2>5. GoalInv(g)'
    BY <1>1, <1>2, <1>4, <2>1, <2>4 DEF GoalInv, Pool!Queue!Statuses
  <2>6. \A w \in Workers : on[w] = g => WorkerInv(w)'
    BY <1>1, <1>3, <1>4, <2>1 DEF WorkerInv, Works
  <2> QED
    BY <1>1, <1>4, <2>2, <2>3, <2>5, <2>6, GoalStep
<1>5. QueueInv /\ row[g] \in Pool!Pausable \cup Pool!Final
  BY <1>1 DEF PoolInv, PoolTyped
<1>6. status = [status EXCEPT ![g] = status[g]] /\ row = [row EXCEPT ![g] = row[g]]
  BY DEF PoolInv, PoolTyped, QueueInv, Pool!Queue!TypeOK
<1>7. runOf[g] = "none" => g \notin cancelSent
  BY <1>2 DEF GoalInv
<1>8. CASE row[g] \in Pool!Final /\ Pool!CanMark(g, row[g]) /\ Pool!Queue!MarkTerminal(g, row[g])
           /\ UNCHANGED row
  <2>1. /\ g \notin finished /\ status[g] \in {"pending", "running", "cancelled"}
        /\ status[g] = "cancelled" => row[g] = "cancelled"
    BY <1>8 DEF Pool!Queue!MarkTerminal, Pool!Queue!AllowedFrom, Pool!Queue!Live
  <2>2. status[g] # "pending" /\ told[g] = <<>>
    BY <1>2, <1>8, <2>1 DEF GoalInv, TellsOf, Pool!Final
  <2>3. row[g] \in Pool!Queue!Terminal /\ cancelSent' = cancelSent /\ cancelSent \subseteq Goals
    BY <1>5, <1>8 DEF Pool!Final, Pool!Queue!Terminal, Pool!Queue!MarkTerminal, QueueInv,
       Pool!Queue!TypeOK
  <2>4. /\ QueueInv' /\ finished' = finished \cup {g} /\ active' = active \ {g}
        /\ status' = [status EXCEPT ![g] = row[g]] /\ UNCHANGED execTask
    BY <1>5, <1>8, <2>1, <2>3, SettleQueue DEF Pool!Queue!MarkTerminal
  <2>5. Agree(row[g], row[g]) /\ row[g] \in Pool!Queue!Statuses \ {"none"} /\ row[g] # "pending"
    BY <1>8 DEF Agree, Pool!Final, Pool!Queue!Statuses, Pool!Queue!Terminal
  <2>6. ASSUME NEW w \in Workers, on[w] = g
        PROVE  WhileRunning(row[g], row[g], runOf[g], g \in cancelSent', w \in stopSent, poolFaults > 0)
    BY <1>3, <1>8, <2>1, <2>3, <2>6 DEF WhileRunning, Pool!Final, Pool!Outcomes
  <2> QED
    BY <1>4, <1>5, <1>6, <1>7, <1>8, <2>2, <2>3, <2>4, <2>5, <2>6
<1>9. CASE UNCHANGED Pool!queueVars /\ UNCHANGED row
  <2>1. UNCHANGED <<status, place, arrivals, heap, finished, active, slots, waiting, unfinished,
                    execTask, cancelSent>>
    BY <1>9 DEF Pool!queueVars
  <2>2. QueueInv'
    BY <1>5, <2>1, QuietQueue DEF QueueInv, Pool!Queue!TypeOK
  <2>3. PoolTyped' /\ Alone' /\ RecoversFirst' /\ FaultsStay
    BY <1>1, <1>9 DEF PoolInv, PoolTyped, Alone, RecoversFirst, FaultsStay
  <2>4. (\A h \in Goals : GoalStays(h)) /\ \A w \in Workers : WorkerStays(w)
    BY <1>1, <1>9, <2>1 DEF GoalStays, WorkerStays, SameGoal, SameWorker
  <2> QED
    BY <2>2, <2>3, <2>4, PoolStep
<1>10. CASE /\ row[g] \notin Pool!Final /\ status[g] = "none"
            /\ Pool!Store(g, "cancelled") /\ UNCHANGED Pool!queueVars
  <2>1. /\ row' = [row EXCEPT ![g] = "cancelled"]
        /\ UNCHANGED <<status, place, arrivals, heap, finished, active, slots, waiting,
                       unfinished, execTask, cancelSent>>
    BY <1>10 DEF Pool!queueVars, Pool!Store
  <2>2. QueueInv' /\ row'[g] = "cancelled"
    BY <1>5, <2>1, QuietQueue DEF QueueInv, Pool!Queue!TypeOK, PoolInv, PoolTyped
  <2>3. PoolTyped' /\ RecoversFirst' /\ FaultsStay
    BY <1>1, <2>1 DEF PoolInv, PoolTyped, RecoversFirst, FaultsStay, Pool!Final
  <2>4. \A h \in Goals \ {g} : SameGoal(h)
    BY <1>1, <2>1 DEF SameGoal, PoolInv, PoolTyped
  <2>5. ~Worked(g) /\ runOf[g] = "none" /\ g \notin finished
    BY <1>2, <1>5, <1>10 DEF GoalInv, QueueInv, Pool!Queue!SlotsMatchStatus
  <2>6. TellsOf(told[g], row[g], status[g], g \in finished, Worked(g))'
    BY <1>1, <1>2, <1>10, <2>1, <2>2, <2>5 DEF TellsOf, GoalInv, Pool!Final, Pool!Outcomes
  <2>7. GoalInv(g)'
    BY <1>1, <1>2, <1>10, <2>1, <2>5, <2>6 DEF GoalInv
  <2>8. \A w \in Workers : on[w] # g
    BY <2>5 DEF Worked
  <2> QED
    BY <1>1, <2>2, <2>3, <2>4, <2>7, <2>8, GoalStep
<1>11. CASE /\ row[g] \notin Pool!Final /\ status[g] \in Pool!Queue!Terminal
            /\ Pool!Store(g, Pool!Aligned(g)) /\ UNCHANGED Pool!queueVars
  <2>1. UNCHANGED <<status, place, arrivals, heap, finished, active, slots, waiting, unfinished,
                    execTask, cancelSent>>
    BY <1>11 DEF Pool!queueVars
  <2>2. row' = [row EXCEPT ![g] = status[g]]
    <3>1. Pool!Aligned(g) = status[g]
      BY <1>5, <1>11 DEF Pool!Aligned, Pool!Paused
    <3> QED
      BY <1>11, <3>1 DEF Pool!Store
  <2>3. QueueInv'
    BY <1>5, <2>1, QuietQueue DEF QueueInv, Pool!Queue!TypeOK
  <2>4. ASSUME NEW w \in Workers, on[w] = g PROVE FALSE
    BY <1>3, <1>11, <2>4 DEF WhileRunning, Pool!Final, Pool!Queue!Terminal
  <2>5. /\ status[g] \in Pool!Queue!Statuses \ {"none"} /\ status[g] # "pending"
        /\ status[g] \in Pool!Pausable \cup Pool!Final /\ Agree(status[g], status[g])
    BY <1>11 DEF Pool!Queue!Terminal, Pool!Queue!Statuses, Pool!Pausable, Pool!Final, Agree
  <2>6. told[g] # <<>> => /\ told[g] = <<"blocked">> /\ g \in finished
                          /\ status[g] = "failed"
    BY <1>2, <1>11, <2>5 DEF GoalInv, TellsOf, Pool!Final, Pool!Outcomes
  <2> QED
    BY <1>4, <1>6, <1>7, <2>1, <2>2, <2>3, <2>4, <2>5, <2>6
<1>12. CASE row[g] \notin Pool!Final /\ Pool!Queue!Cancel(g) /\ Pool!Store(g, "cancelled")
  <2>1. /\ QueueInv' /\ status' = [status EXCEPT ![g] = "cancelled"]
        /\ finished' = IF status[g] = "pending" THEN finished \cup {g} ELSE finished
        /\ active' = IF status[g] = "pending" THEN active \ {g} ELSE active
    BY <1>5, <1>12, CancelQueue
  <2>2. /\ status[g] \in {"pending", "running"} /\ UNCHANGED execTask
        /\ cancelSent' = cancelSent \cup ({execTask[g]} \ {NoGoal})
        /\ row' = [row EXCEPT ![g] = "cancelled"]
    BY <1>12 DEF Pool!Queue!Cancel, Pool!Queue!Live, Pool!Store
  <2>3. execTask[g] \in {NoGoal, g} /\ (runOf[g] \in {"new", "live"} => execTask[g] = g)
    BY <1>2 DEF GoalInv
  <2>4. /\ cancelSent \subseteq cancelSent' /\ cancelSent' \subseteq cancelSent \cup {g}
        /\ g \in cancelSent' => runOf[g] # "none"
        /\ runOf[g] \in {"new", "live"} => g \in cancelSent'
    BY <1>2, <1>7, <2>2, <2>3, PoolAssumption DEF GoalInv, Pool!RuntimeWorkerPoolAssumption
  <2>5. told[g] = <<>>
    BY <1>2, <1>5, <2>2 DEF GoalInv, TellsOf, QueueInv, Pool!Queue!SlotsMatchStatus
  <2>6. /\ "cancelled" \in Pool!Queue!Statuses \ {"none"} /\ "cancelled" \in Pool!Pausable \cup Pool!Final
        /\ Agree("cancelled", "cancelled")
    BY DEF Pool!Queue!Terminal, Pool!Queue!Statuses, Pool!Pausable, Pool!Final, Agree
  <2>7. ASSUME NEW w \in Workers, on[w] = g
        PROVE  WhileRunning("cancelled", "cancelled", runOf[g], g \in cancelSent', w \in stopSent, poolFaults > 0)
    BY <1>3, <2>4, <2>7 DEF WhileRunning
  <2> QED
    BY <1>4, <2>1, <2>2, <2>4, <2>5, <2>6, <2>7
<1> QED
  BY <1>8, <1>9, <1>10, <1>11, <1>12 DEF Pool!CancelGoal

LEMMA InitPoolInv == Pool!Init => PoolInv
<1> SUFFICES ASSUME Pool!Init PROVE PoolInv
  OBVIOUS
<1> USE PoolAssumption DEF Pool!RuntimeWorkerPoolAssumption
<1>1. /\ Pool!Queue!Init /\ at = [w \in Workers |-> "off"] /\ on = [w \in Workers |-> NoGoal]
      /\ stopSent = {} /\ runOf = [g \in Goals |-> "none"] /\ row = [g \in Goals |-> "none"]
      /\ told = [g \in Goals |-> <<>>] /\ recovering = {} /\ poolStops = 0 /\ poolFaults = 0
  BY DEF Pool!Init, Pool!AllOff, Pool!NoWork, Pool!NoRuns
<1>2. QueueInv
  BY <1>1, InitQueue
<1>3. PoolTyped
  BY <1>1 DEF PoolTyped
<1>4. Alone /\ RecoversFirst /\ \A w \in Workers : WorkerInv(w)
  BY <1>1 DEF Alone, RecoversFirst, WorkerInv, Works
<1>5. ASSUME NEW g \in Goals PROVE GoalInv(g)
  <2>1. ~Worked(g)
    BY <1>1 DEF Worked
  <2>2. TellsOf(told[g], row[g], status[g], g \in finished, Worked(g))
    BY <1>1 DEF TellsOf
  <2> QED
    BY <1>1, <2>1, <2>2 DEF GoalInv, Pool!Queue!Init
<1> QED
  BY <1>2, <1>3, <1>4, <1>5 DEF PoolInv

LEMMA StepPoolInv == PoolInv /\ [Pool!Next]_poolVars => PoolInv'
<1> SUFFICES ASSUME PoolInv, [Pool!Next]_poolVars PROVE PoolInv'
  OBVIOUS
<1>1. CASE \E w \in Workers : Pool!Work(w)
  <2>1. PICK w \in Workers : Pool!Work(w)
    BY <1>1
  <2> QED
    BY <2>1, PoolGet, PoolEndRun, PoolPickUp, PoolBeginRun, PoolSettle, PoolSettleRaises
    DEF Pool!Work, Pool!Resume, Pool!Continue
<1>2. CASE \E g \in Goals : Pool!Run(g)
  BY <1>2, PoolRun
<1>3. CASE Pool!Quiet /\ (\/ Pool!Start \/ Pool!Crash
                          \/ \E w \in Workers : Pool!StopWorker(w))
  BY <1>3, PoolStart, PoolCrash, PoolStopWorker
<1>4. CASE Pool!Quiet /\ \E g \in Goals : \/ Pool!HandleMessage(g) \/ Pool!CancelGoal(g)
                                          \/ Pool!Recover(g)
  BY <1>4, PoolHandleMessage, PoolCancelGoal, PoolRecover
<1>5. CASE UNCHANGED poolVars
  <2>1. UNCHANGED <<status, place, arrivals, heap, finished, active, slots, waiting, unfinished,
                    execTask, cancelSent, row, at, on, stopSent, runOf, told, recovering,
                    poolStops, poolFaults>>
    BY <1>5 DEF poolVars
  <2>2. QueueInv'
    BY <2>1, QuietQueue DEF PoolInv, QueueInv, Pool!Queue!TypeOK
  <2>3. PoolTyped' /\ Alone' /\ RecoversFirst' /\ FaultsStay
    BY <2>1 DEF PoolInv, PoolTyped, Alone, RecoversFirst, FaultsStay
  <2>4. (\A h \in Goals : GoalStays(h)) /\ \A w \in Workers : WorkerStays(w)
    BY <2>1 DEF GoalStays, WorkerStays, SameGoal, SameWorker
  <2> QED
    BY <2>2, <2>3, <2>4, PoolStep
<1> QED
  BY <1>1, <1>2, <1>3, <1>4, <1>5 DEF Pool!Next

LEMMA JointStepOfPool == [JointNext]_jointVars => [Pool!Next]_poolVars
BY DEF JointNext, jointVars, poolVars

\* What a step may do to the result of a goal.
Replaced(g) == runOf[g] = "raised" \/ poolFaults' > poolFaults
ResultKept(g) ==
  row[g] \in Pool!Final => row'[g] = row[g] \/ (row'[g] = "failed" /\ Replaced(g))

\* Only the end of a run that raised, or during which a call failed, writes over a result.
LEMMA ResultStays ==
  ASSUME PoolInv, [Pool!Next]_poolVars, NEW g \in Goals
  PROVE  ResultKept(g)
<1>1. CASE row'[g] = row[g]
  BY <1>1 DEF ResultKept
<1>2. ASSUME NEW h \in Goals, NEW r, row' = [row EXCEPT ![h] = r],
             row[h] \in Pool!Final => r = row[h] \/ (r = "failed" /\ Replaced(h))
      PROVE  ResultKept(g)
  BY <1>2 DEF ResultKept, Replaced, PoolInv, PoolTyped
<1>3. ASSUME NEW w \in Workers, Pool!EndRun(w) PROVE ResultKept(g)
  <2>1. at[w] = "run" /\ on[w] \in Goals
    BY <1>3, OwnGoal DEF Works, Pool!EndRun
  <2>2. row[on[w]] \in Pool!Final =>
          Pool!AfterRun(w) \in {row[on[w]]} \cup (IF runOf[on[w]] = "raised" THEN {"failed"} ELSE {})
    BY DEF Pool!AfterRun, Pool!AfterStop, Pool!Paused, Pool!Pausable, Pool!Final
  <2>3. CASE Pool!Store(on[w], Pool!AfterRun(w))
    BY <1>2, <2>1, <2>2, <2>3 DEF Pool!Store, Replaced
  <2>4. CASE Pool!Fault /\ \E st \in Pool!AfterFault(w) : Pool!Store(on[w], st)
    <3>1. PICK st \in Pool!AfterFault(w) : row' = [row EXCEPT ![on[w]] = st]
      BY <2>4 DEF Pool!Store
    <3>2. row[on[w]] \in Pool!Final => st \in {row[on[w]], "failed"}
      BY <2>2, <3>1 DEF Pool!AfterFault
    <3>3. poolFaults' > poolFaults
      BY <2>4 DEF Pool!Fault, PoolInv, PoolTyped
    <3> QED
      BY <1>2, <2>1, <3>1, <3>2, <3>3 DEF Replaced
  <2> QED
    BY <1>3, <2>3, <2>4 DEF Pool!EndRun
<1>4. ASSUME NEW w \in Workers, Pool!Settle(w) PROVE ResultKept(g)
  <2>1. at[w] = "settling" /\ on[w] \in Goals
    BY <1>4, OwnGoal DEF Works, Pool!Settle
  <2>2. WhileSettling(status[on[w]], row[on[w]], poolFaults > 0)
    BY <2>1 DEF PoolInv, WorkerInv
  <2>3. PICK r : /\ row' = [row EXCEPT ![on[w]] = r]
                 /\ r = IF status[on[w]] = "cancelled" /\ ~Pool!Overruled(on[w])
                        THEN "cancelled" ELSE row[on[w]]
    BY <1>4 DEF Pool!Settle, Pool!Store
  <2>4. row[on[w]] \in Pool!Final => r = row[on[w]]
    BY <2>2, <2>3 DEF Pool!Overruled, Pool!Final
  <2> QED
    BY <1>2, <2>1, <2>3, <2>4
<1>5. ASSUME NEW h \in Goals, Pool!Run(h) PROVE ResultKept(g)
  <2>1. CASE UNCHANGED row
    BY <1>1, <2>1
  <2>2. CASE row[h] \notin Pool!Final /\ \E r : row' = [row EXCEPT ![h] = r]
    BY <1>2, <2>2 DEF Pool!Final
  <2> QED
    BY <1>5, <2>1, <2>2
    DEF Pool!Run, Pool!RunStarts, Pool!RunEnds, Pool!RunRaises, Pool!RunCancelled, Pool!Store,
        Pool!Final
<1>6. ASSUME NEW h \in Goals, Pool!HandleMessage(h) \/ Pool!CancelGoal(h) \/ Pool!Recover(h)
      PROVE  ResultKept(g)
  <2>1. h \in recovering => row[h] \notin Pool!Final
    BY DEF PoolInv, GoalInv, Pool!Final
  <2>2. CASE UNCHANGED row
    BY <1>1, <2>2
  <2>3. CASE row[h] \notin Pool!Final /\ \E r : row' = [row EXCEPT ![h] = r]
    BY <1>2, <2>3 DEF Pool!Final
  <2> QED
    BY <1>6, <2>1, <2>2, <2>3
    DEF Pool!HandleMessage, Pool!CancelGoal, Pool!Recover, Pool!Store, Pool!Final
<1>7. ASSUME Pool!Crash PROVE ResultKept(g)
  BY <1>7 DEF Pool!Crash, ResultKept, Pool!Final
<1>8. CASE UNCHANGED row
  BY <1>1, <1>8
<1> QED
  BY <1>3, <1>4, <1>5, <1>6, <1>7, <1>8
  DEF Pool!Next, Pool!Work, Pool!Resume, Pool!Continue, Pool!Get, Pool!PickUp, Pool!BeginRun,
      Pool!SettleRaises, Pool!Start, Pool!StopWorker, poolVars

LEMMA PoolSafety ==
  PoolInv => /\ Pool!TypeOK /\ Pool!SlotsHaveWorkers /\ Pool!RunsHoldSlots
             /\ Pool!QueueAgreesWithStore /\ Pool!ToldOnce
<1> SUFFICES ASSUME PoolInv
             PROVE  /\ Pool!TypeOK /\ Pool!SlotsHaveWorkers /\ Pool!RunsHoldSlots
                    /\ Pool!QueueAgreesWithStore /\ Pool!ToldOnce
  OBVIOUS
<1>1. Pool!TypeOK
  BY DEF PoolInv, PoolTyped, QueueInv, Pool!TypeOK
<1>2. active \subseteq Goals /\ finished \subseteq Goals
  BY DEF PoolInv, QueueInv, Pool!Queue!TypeOK
<1>3. Pool!SlotsHaveWorkers
  BY <1>2 DEF PoolInv, GoalInv, Worked, Pool!SlotsHaveWorkers
<1>4. Pool!RunsHoldSlots
  <2> SUFFICES ASSUME NEW g \in Goals, runOf[g] \in {"new", "live"}, g \notin cancelSent
               PROVE  g \in active
    BY DEF Pool!RunsHoldSlots
  <2>1. PICK w \in Workers : on[w] = g /\ at[w] = "run"
    BY DEF PoolInv, GoalInv, Awaited
  <2>2. WhileRunning(status[g], row[g], runOf[g], g \in cancelSent, w \in stopSent, poolFaults > 0)
    BY <2>1 DEF PoolInv, WorkerInv
  <2>3. status[g] = "running"
    BY <2>2 DEF WhileRunning
  <2> QED
    BY <2>3 DEF PoolInv, QueueInv, Pool!Queue!SlotsMatchStatus
<1>5. Pool!QueueAgreesWithStore
  BY <1>2 DEF PoolInv, GoalInv, Worked, Agree, Pool!QueueAgreesWithStore
<1>6. Pool!ToldOnce
  <2> SUFFICES ASSUME NEW g \in Goals
               PROVE  /\ Len(told[g]) <= 1
                      /\ told[g] \in {<<"done">>, <<"failed">>} => row[g] = told[g][1]
    BY DEF Pool!ToldOnce
  <2>1. TellsOf(told[g], row[g], status[g], g \in finished, Worked(g))
    BY DEF PoolInv, GoalInv
  <2>2. CASE told[g] = <<>>
    BY <2>2
  <2>3. CASE told[g] # <<>>
    <3>1. PICK o \in Pool!Outcomes :
            /\ told[g] = <<o>>
            /\ row[g] \in (IF o = "blocked" THEN {"blocked", "failed", "cancelled"} ELSE {o})
      BY <2>1, <2>3 DEF TellsOf
    <3> QED
      BY <3>1 DEF Pool!Outcomes
  <2> QED
    BY <2>2, <2>3
<1> QED
  BY <1>1, <1>3, <1>4, <1>5, <1>6

\* PoolAgrees, for any number of goals, workers, slots, stops and failing calls: slots
\* have workers, runs hold slots, queue and store agree, an end is told once and final; a
\* result gives way to "failed" only for a run that raised or a call that failed.
THEOREM PoolAndStoreAgree == JointSpec => PoolAgrees
<1>1. JointInit => PoolInv
  BY InitPoolInv DEF JointInit
<1>2. PoolInv /\ [JointNext]_jointVars => PoolInv'
  BY StepPoolInv, JointStepOfPool
<1>3. PoolInv => /\ Pool!TypeOK /\ Pool!SlotsHaveWorkers /\ Pool!RunsHoldSlots
                 /\ Pool!QueueAgreesWithStore /\ Pool!ToldOnce
  BY PoolSafety
<1>4. PoolInv /\ [JointNext]_jointVars =>
        [\A g \in Goals : row[g] \in Pool!Final =>
           \/ row'[g] = row[g]
           \/ row'[g] = "failed" /\ (runOf[g] = "raised" \/ poolFaults' > poolFaults)]_(Pool!vars)
  BY ResultStays, JointStepOfPool DEF ResultKept, Replaced
<1>5. JointSpec => [](/\ Pool!TypeOK /\ Pool!SlotsHaveWorkers /\ Pool!RunsHoldSlots
                      /\ Pool!QueueAgreesWithStore /\ Pool!ToldOnce)
  BY <1>1, <1>2, <1>3, PTL DEF JointSpec
<1>6. JointSpec => Pool!ResultsAreFinal
  BY <1>1, <1>2, <1>4, PTL DEF JointSpec, Pool!ResultsAreFinal
<1> QED
  BY <1>5, <1>6 DEF PoolAgrees

-----------------------------------------------------------------------------
(* How many goals execute at once.                                          *)

\* Free permits, permits of workers inside get() and permits of unsettled items.
Permits == /\ IsFiniteSet(waiting) /\ IsFiniteSet(active) /\ slots \in Nat
           /\ slots + Cardinality(waiting) + Cardinality(active) = MaxActive

\* The goals whose execution nobody cancelled.
Executing == {g \in Goals : runOf[g] \in {"new", "live"} /\ g \notin cancelSent}

LEMMA FinishPermits ==
  ASSUME Permits, NEW g \in Goals, Pool!Queue!FinishTask(g), UNCHANGED waiting
  PROVE  Permits'
<1>1. CASE g \in finished \/ g \notin active
  <2>1. active' = active /\ slots' = slots
    BY <1>1 DEF Pool!Queue!FinishTask, Pool!Queue!slotVars
  <2> QED
    BY <2>1 DEF Permits
<1>2. CASE g \notin finished /\ g \in active
  <2>1. active' = active \ {g} /\ slots' = slots + 1
    BY <1>2 DEF Pool!Queue!FinishTask
  <2>2. IsFiniteSet(active \ {g}) /\ Cardinality(active \ {g}) = Cardinality(active) - 1
    BY <1>2, FS_RemoveElement DEF Permits
  <2>3. Cardinality(waiting) \in Nat /\ Cardinality(active) \in Nat
    BY FS_CardinalityType DEF Permits
  <2> QED
    BY <2>1, <2>2, <2>3 DEF Permits
<1> QED
  BY <1>1, <1>2

LEMMA AcquirePermits ==
  ASSUME Permits, NEW w \in Workers, Pool!Queue!AcquireSlot(w)
  PROVE  Permits'
<1>1. /\ w \notin waiting /\ slots > 0 /\ slots' = slots - 1 /\ waiting' = waiting \cup {w}
      /\ active' = active
  BY DEF Pool!Queue!AcquireSlot
<1>2. IsFiniteSet(waiting \cup {w}) /\ Cardinality(waiting \cup {w}) = Cardinality(waiting) + 1
  BY <1>1, FS_AddElement DEF Permits
<1>3. Cardinality(waiting) \in Nat /\ Cardinality(active) \in Nat
  BY FS_CardinalityType DEF Permits
<1> QED
  BY <1>1, <1>2, <1>3 DEF Permits

\* The permit of a worker that leaves get(), given back or attached to its item.
LEMMA LeavePermits ==
  ASSUME Permits, NEW w \in Workers, w \in waiting, waiting' = waiting \ {w},
         \/ slots' = slots + 1 /\ active' = active
         \/ \E g \in Goals \ active : slots' = slots /\ active' = active \cup {g}
  PROVE  Permits'
<1>1. IsFiniteSet(waiting \ {w}) /\ Cardinality(waiting \ {w}) = Cardinality(waiting) - 1
  BY FS_RemoveElement DEF Permits
<1>2. Cardinality(waiting) \in Nat /\ Cardinality(active) \in Nat
  BY FS_CardinalityType DEF Permits
<1>3. CASE slots' = slots + 1 /\ active' = active
  BY <1>1, <1>2, <1>3 DEF Permits
<1>4. CASE \E g \in Goals \ active : slots' = slots /\ active' = active \cup {g}
  <2>1. PICK g \in Goals \ active : slots' = slots /\ active' = active \cup {g}
    BY <1>4
  <2>2. IsFiniteSet(active \cup {g}) /\ Cardinality(active \cup {g}) = Cardinality(active) + 1
    BY <2>1, FS_AddElement DEF Permits
  <2> QED
    BY <1>1, <1>2, <2>1, <2>2 DEF Permits
<1> QED
  BY <1>3, <1>4

LEMMA InitPermits == Pool!Init => Permits
BY PoolAssumption, FS_EmptySet DEF Pool!RuntimeWorkerPoolAssumption, Pool!Init, Pool!Queue!Init, Permits

LEMMA StepPermits == PoolInv /\ Permits /\ [Pool!Next]_poolVars => Permits'
<1> SUFFICES ASSUME PoolInv, Permits, [Pool!Next]_poolVars PROVE Permits'
  OBVIOUS
<1>1. CASE UNCHANGED <<slots, waiting, active>>
  BY <1>1 DEF Permits
<1>2. ASSUME NEW w \in Workers, Pool!Get(w) PROVE Permits'
  <2>1. CASE Pool!Queue!AcquireSlot(w)
    BY <2>1, AcquirePermits
  <2>2. CASE \E g \in Goals : Pool!Queue!SkipEntry(w, g)
    BY <2>2, FinishPermits DEF Pool!Queue!SkipEntry
  <2> QED
    BY <1>2, <2>1, <2>2 DEF Pool!Get
<1>3. ASSUME NEW w \in Workers, NEW g \in Goals, Pool!PickUp(w, g) PROVE Permits'
  <2>1. /\ w \in waiting /\ status[g] = "pending" /\ active' = active \cup {g}
        /\ waiting' = waiting \ {w} /\ UNCHANGED slots
    BY <1>3 DEF Pool!PickUp, Pool!Queue!Claim
  <2>2. g \notin active
    BY <2>1 DEF PoolInv, QueueInv, Pool!Queue!SlotsMatchStatus
  <2> QED
    BY <2>1, <2>2, LeavePermits
<1>4. ASSUME NEW w \in Workers, Pool!BeginRun(w) PROVE Permits'
  BY <1>1, <1>4 DEF Pool!BeginRun, Pool!Queue!RegisterExecutionTask, Pool!Queue!slotVars
<1>5. ASSUME NEW w \in Workers, Pool!EndRun(w) PROVE Permits'
  BY <1>1, <1>5 DEF Pool!EndRun, Pool!Queue!UnregisterExecutionTask, Pool!Queue!slotVars, Pool!queueVars
<1>6. ASSUME NEW w \in Workers, Pool!Settle(w) PROVE Permits'
  <2>1. on[w] \in Goals
    BY <1>6, OwnGoal DEF Works, Pool!Settle
  <2> QED
    BY <1>6, <2>1, FinishPermits DEF Pool!Settle, Pool!Queue!SettleFromGoal
<1>7. ASSUME NEW w \in Workers, Pool!SettleRaises(w) PROVE Permits'
  BY <1>1, <1>7 DEF Pool!SettleRaises, Pool!queueVars
<1>8. ASSUME NEW g \in Goals, Pool!Run(g) PROVE Permits'
  BY <1>1, <1>8 DEF Pool!Run, Pool!RunStarts, Pool!RunEnds, Pool!RunRaises, Pool!RunCancelled,
     Pool!queueVars
<1>9. CASE Pool!Start
  BY <1>1, <1>9 DEF Pool!Start, Pool!queueVars
<1>10. CASE Pool!Crash
  BY <1>10, PoolAssumption, FS_EmptySet DEF Pool!Crash, Pool!RuntimeWorkerPoolAssumption, Permits
<1>11. ASSUME NEW w \in Workers, Pool!StopWorker(w) PROVE Permits'
  <2>1. CASE w \in waiting /\ Pool!Queue!AbortGet(w)
    BY <2>1, LeavePermits DEF Pool!Queue!AbortGet
  <2>2. CASE UNCHANGED <<slots, waiting, active>>
    BY <1>1, <2>2
  <2> QED
    BY <1>11, <2>1, <2>2 DEF Pool!StopWorker, Pool!queueVars
<1>12. ASSUME NEW g \in Goals, Pool!HandleMessage(g) \/ Pool!Recover(g) PROVE Permits'
  BY <1>1, <1>12 DEF Pool!HandleMessage, Pool!Recover, Pool!Queue!Submit, Pool!queueVars
<1>13. ASSUME NEW g \in Goals, Pool!CancelGoal(g) PROVE Permits'
  <2>1. CASE Pool!Queue!FinishTask(g) /\ UNCHANGED waiting
    BY <2>1, FinishPermits
  <2>2. CASE UNCHANGED <<slots, waiting, active>>
    BY <1>1, <2>2
  <2> QED
    BY <1>13, <2>1, <2>2
    DEF Pool!CancelGoal, Pool!Queue!MarkTerminal, Pool!Queue!Cancel, Pool!queueVars,
        Pool!Queue!slotVars
<1>14. CASE UNCHANGED poolVars
  BY <1>1, <1>14 DEF poolVars
<1> QED
  BY <1>2, <1>3, <1>4, <1>5, <1>6, <1>7, <1>8, <1>9, <1>10, <1>11, <1>12, <1>13, <1>14
  DEF Pool!Next, Pool!Work, Pool!Resume, Pool!Continue

\* The legacy runtime never executes more goals at once than the queue has slots, over
\* stops, crashes, cancels and failing calls: a run that nobody cancelled holds a permit.
THEOREM ExecutionsAreBounded == JointSpec => [](Cardinality(Executing) <= MaxActive)
<1>1. JointInit => PoolInv /\ Permits
  BY InitPoolInv, InitPermits DEF JointInit
<1>2. PoolInv /\ Permits /\ [JointNext]_jointVars => (PoolInv /\ Permits)'
  BY StepPoolInv, StepPermits, JointStepOfPool
<1>3. PoolInv /\ Permits => Cardinality(Executing) <= MaxActive
  <2> SUFFICES ASSUME PoolInv, Permits PROVE Cardinality(Executing) <= MaxActive
    OBVIOUS
  <2>1. Executing \subseteq active
    BY PoolSafety DEF Executing, Pool!RunsHoldSlots
  <2>2. Cardinality(Executing) <= Cardinality(active) /\ Cardinality(Executing) \in Nat
    BY <2>1, FS_Subset, FS_CardinalityType DEF Permits
  <2>3. Cardinality(waiting) \in Nat /\ Cardinality(active) \in Nat
    BY FS_CardinalityType DEF Permits
  <2> QED
    BY <2>2, <2>3, PoolAssumption DEF Permits, Pool!RuntimeWorkerPoolAssumption
<1> QED
  BY <1>1, <1>2, <1>3, PTL DEF JointSpec

-----------------------------------------------------------------------------
\* The parts run as their own specifications say: what is proved of a part holds of the
\* whole, and the other parts' steps are stutters of it.
THEOREM EachPartBehaves == JointSpec => Spec /\ Pool!Spec /\ Notifier!Spec
<1>1. JointInit => Init /\ Pool!Init /\ Notifier!Init
  BY DEF JointInit
<1>2. [JointNext]_jointVars => [Next]_vars
  BY DEF JointNext, jointVars, notifierVars, poolVars
<1>3. [JointNext]_jointVars => [Pool!Next]_(Pool!vars)
  BY DEF JointNext, jointVars, notifierVars, poolVars,
     Pool!vars, Pool!queueVars, Pool!workerVars, Pool!bounds
<1>4. [JointNext]_jointVars => [Notifier!Next]_(Notifier!vars)
  BY DEF JointNext, jointVars, notifierVars, poolVars, Notifier!vars, Notifier!bounds
<1> QED
  BY <1>1, <1>2, <1>3, <1>4, PTL DEF JointSpec, Spec, Pool!Spec, Notifier!Spec
=============================================================================
