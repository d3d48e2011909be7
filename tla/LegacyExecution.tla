----------------------------- MODULE LegacyExecution -----------------------------
(***************************************************************************)
(* The goals of the earlier runtime: core/goal.py (GoalManager) and        *)
(* core/execution_engine.py (ExecutionEngine.run_goal and run_step), for   *)
(* one goal.  Goals and steps live in a store whose calls are synchronous, *)
(* so a run is interrupted by others only where it awaits the skill: while *)
(* it plans, while it is asked whether the goal is complete, and while it  *)
(* executes a step.  The store (`memory`) is not in the repository; it is  *)
(* modelled from its use: an update that names expected statuses changes   *)
(* nothing in another status, and a step is started and committed for a    *)
(* running goal only.                                                      *)
(***************************************************************************)
EXTENDS Naturals

CONSTANTS NSteps,      \* number of steps of the plan
          Optional,    \* steps with required=False
          ReplaySafe,  \* steps with replay_safe=True
          Kept,        \* steps an interruption leaves running, if they were
          MaxRetry,    \* max_retry of a step
          MaxSteps,    \* max_steps, the loop bound of run_goal
          MaxOps,      \* bound on calls of users and operators
          MaxStops     \* bound on crashes, shutdowns and failing store calls

Steps == 1..NSteps

ASSUME PlanAssumption == NSteps \in Nat \ {0}
ASSUME StepKindsAssumption ==
  Optional \subseteq Steps /\ ReplaySafe \subseteq Steps /\ Kept \subseteq Steps \ ReplaySafe
ASSUME BoundsAssumption ==
  MaxSteps \in Nat \ {0} /\ MaxRetry \in Nat /\ MaxOps \in Nat /\ MaxStops \in Nat

VARIABLES goal,       \* goals.status
          step,       \* goal_steps.status of each step, "none" before the plan
          retries,    \* retry_count of each step
          queued,     \* the goal waits in the queue of the process
          pc,         \* what the run awaits, "idle" without a run
          current,    \* the step under execution, 0 without one
          left,       \* iterations left of max_steps
          calls,      \* how often the skill was called for each step
          interrupts, \* how often each step was put back by an interruption
          announced,  \* the last terminal event recorded since the goal left "running"
          ops, stops

run == <<queued, pc, current, left>>
stored == <<goal, step, retries>>
vars == <<stored, run, calls, interrupts, announced, ops, stops>>

Final == {"done", "failed", "cancelled"}
ExecutionFinal == Final \cup {"blocked"}
Statuses == {"pending", "running", "interrupted"} \cup ExecutionFinal
Awaits == {"planning", "checking", "executing"}
Planned == \A i \in Steps : step[i] # "none"
RunningSteps == {i \in Steps : step[i] = "running"}

Init ==
  /\ goal = "pending"
  /\ step = [i \in Steps |-> "none"] /\ retries = [i \in Steps |-> 0]
  /\ queued = TRUE /\ pc = "idle" /\ current = 0 /\ left = 0
  /\ calls = [i \in Steps |-> 0] /\ interrupts = [i \in Steps |-> 0]
  /\ announced = "none"
  /\ ops = 0 /\ stops = 0

Stop == stops < MaxStops /\ stops' = stops + 1
Op == ops < MaxOps /\ ops' = ops + 1
Bounds == UNCHANGED <<ops, stops>>

-----------------------------------------------------------------------------
\* ExecutionEngine

\* The run is over; its worker has still to see that.
Leave == pc' = "ended" /\ current' = 0 /\ left' = 0 /\ UNCHANGED queued
Return == Leave /\ UNCHANGED <<goal, announced>>

\* Mutant: the goal's status is not looked at again before it is written.
FinishAnyway(status) ==
  /\ Leave
  /\ goal' = status /\ announced' = status

\* _finish_goal and the event after it: the goal is settled only if it still runs.
Finish(status) ==
  /\ Leave
  /\ IF goal = "running" THEN goal' = status /\ announced' = status
     ELSE UNCHANGED <<goal, announced>>

\* claim_goal
Claimable == goal \in {"pending", "interrupted"}

\* run_goal up to its first await: the goal is claimed, a missing skill blocks it.
Claim ==
  /\ queued /\ pc = "idle"
  /\ queued' = FALSE
  /\ IF Claimable
     THEN \/ /\ goal' = "running" /\ announced' = "none" /\ left' = MaxSteps
             /\ pc' = IF Planned THEN "checking" ELSE "planning"
          \/ goal' = "blocked" /\ announced' = "blocked" /\ pc' = "ended" /\ UNCHANGED left
     ELSE pc' = "ended" /\ UNCHANGED <<goal, announced, left>>
  /\ UNCHANGED <<step, retries, current, calls, interrupts>> /\ Bounds

CommitPlan == step' = [i \in Steps |-> "pending"]

\* _ensure_plan after build_plan, and the head of the loop.
Plan ==
  /\ pc = "planning"
  /\ \/ /\ goal = "running"
        /\ CommitPlan
        /\ pc' = "checking" /\ UNCHANGED <<goal, announced, queued, current, left>>
     \/ goal # "running" /\ (IF goal \in ExecutionFinal THEN Return ELSE Finish("blocked"))
        /\ UNCHANGED step
     \/ (Finish("failed") \/ Finish("blocked")) /\ UNCHANGED step
  /\ UNCHANGED <<retries, calls, interrupts>> /\ Bounds

\* Mutant: the skill looks at the first step only.
CompleteFirst == step[1] = "done"

\* What is_goal_complete of the skill answers.
Complete == \A i \in Steps \ Optional : step[i] = "done"
NextPending == {i \in Steps : step[i] = "pending" /\ \A j \in 1..(i - 1) : step[j] # "pending"}

StartStep(i) ==
  /\ step' = [step EXCEPT ![i] = "running"]
  /\ calls' = [calls EXCEPT ![i] = @ + 1]

\* The rest of an iteration up to the call of the skill.  A step that cannot be
\* started (the goal no longer runs) is an aborted step, which ends the run.
Check ==
  /\ pc = "checking"
  /\ \/ Finish("failed") /\ UNCHANGED <<step, calls>>
     \/ /\ Complete
        /\ Finish("done") /\ UNCHANGED <<step, calls>>
     \/ /\ ~Complete
        /\ IF goal # "running" \/ NextPending = {}
           THEN Finish("blocked") /\ UNCHANGED <<step, calls>>
           ELSE \E i \in NextPending :
                  /\ StartStep(i)
                  /\ pc' = "executing" /\ current' = i
                  /\ UNCHANGED <<goal, announced, queued, left>>
  /\ UNCHANGED <<retries, interrupts>> /\ Bounds

\* The loop: the next iteration, or the end of the step budget.
Again ==
  /\ current' = 0 /\ left' = left - 1
  /\ IF left = 1 THEN pc' = "ended" /\ goal' = "blocked" /\ announced' = "blocked"
     ELSE pc' = "checking" /\ UNCHANGED <<goal, announced>>
  /\ UNCHANGED queued

Committed(i, status) == step' = [step EXCEPT ![i] = status]

\* What the skill makes of a step: a timeout and a RetryableSkillError are one outcome,
\* an exception nobody foresaw is fatal.
Outcomes == {"ok", "error", "blocking", "fatal"}

\* review_step_result, which does not see fatal outcomes.
Review(o, i) ==
  CASE o = "ok" -> "pass" [] o = "error" /\ retries[i] < MaxRetry -> "retry"
    [] o = "fatal" -> "fail" [] OTHER -> "block"

\* Mutant: a retry puts the step back without counting it.
RetryUncounted(i) == Committed(i, "pending") /\ Again /\ UNCHANGED retries

\* decision "retry": commit_step_result with retry_increment.
Retry(i) ==
  /\ Committed(i, "pending") /\ Again
  /\ retries' = [retries EXCEPT ![i] = @ + 1]

\* run_step after the skill, and what run_goal makes of its decision.  A result that
\* cannot be stored, or not reviewed, fails the goal.
StepReturns ==
  /\ pc = "executing"
  /\ IF goal = "running" /\ step[current] = "running"
     THEN \/ \E o \in Outcomes : LET d == Review(o, current) IN
               \/ d = "pass" /\ Committed(current, "done") /\ Again /\ UNCHANGED retries
               \/ d = "retry" /\ Retry(current)
               \/ d = "block" /\ Committed(current, "blocked") /\ Finish("blocked") /\ UNCHANGED retries
               \/ d = "fail" /\ Committed(current, "failed") /\ Finish("failed") /\ UNCHANGED retries
          \/ Finish("failed") /\ UNCHANGED <<step, retries>>
     ELSE (IF goal \in ExecutionFinal THEN Return ELSE Finish("blocked"))
          /\ UNCHANGED <<step, retries>>
  /\ UNCHANGED <<calls, interrupts>> /\ Bounds

-----------------------------------------------------------------------------
\* RuntimeWorker around the run

Release == pc' = "idle" /\ current' = 0 /\ left' = 0 /\ UNCHANGED queued

RunReturns ==
  /\ pc = "ended"
  /\ Release
  /\ UNCHANGED <<stored, calls, interrupts, announced>> /\ Bounds

\* A store call raises inside the run, outside the blocks that handle it: at one of its
\* awaits, or when the goal is read back after its end was written (nothing is
\* announced then).
RunRaises ==
  /\ Stop /\ pc' = "raised"
  /\ \/ pc \in Awaits /\ UNCHANGED announced
     \/ pc = "ended" /\ announced' = "none"
  /\ UNCHANGED <<stored, queued, current, left, calls, interrupts, ops>>

\* The worker writes the failure whatever the goal is; it stays as it is when the store
\* fails once more.
FailRaised ==
  /\ pc = "raised"
  /\ Release
  /\ (goal' = "failed" /\ Bounds) \/ (Stop /\ UNCHANGED <<goal, ops>>)
  /\ UNCHANGED <<step, retries, calls, interrupts, announced>>

-----------------------------------------------------------------------------
\* GoalManager

\* interrupt_goal_execution: running steps go back to pending.  What the store does with
\* a step that may not be replayed is its own choice.
PutBack == RunningSteps \ Kept
PutStepsBack ==
  /\ step' = [i \in Steps |-> IF i \in PutBack THEN "pending" ELSE step[i]]
  /\ interrupts' = [i \in Steps |-> IF i \in PutBack THEN interrupts[i] + 1 ELSE interrupts[i]]

Interrupt == goal' = "interrupted" /\ PutStepsBack

Untouched == UNCHANGED <<goal, step, interrupts>>

\* pause_goal by an operator; the run goes on until it looks at the goal.
Pause ==
  /\ Op /\ goal \notin Final
  /\ Interrupt
  /\ UNCHANGED <<retries, run, calls, announced, stops>>

\* start_goal, resume_goal: the goal is marked running, nobody is told to run it.
SetRunning ==
  /\ Op /\ goal \notin Final
  /\ goal' = "running" /\ announced' = "none"
  /\ UNCHANGED <<step, retries, run, calls, interrupts, stops>>

\* cancel_goal, with or without the run's task being cancelled with it.
CancelGoal ==
  /\ Op /\ goal \notin Final
  /\ goal' = "cancelled"
  /\ \/ pc \in Awaits /\ pc' = "cancelled" /\ UNCHANGED <<queued, current, left>>
     \/ UNCHANGED run
  /\ UNCHANGED <<step, retries, calls, interrupts, announced, stops>>

\* The worker sees its run cancelled and reads the goal; when that raises, the exception
\* fails the goal like one of the run.
CancelledRun ==
  /\ pc = "cancelled"
  /\ \/ Release /\ Bounds
     \/ pc' = "raised" /\ Stop /\ UNCHANGED <<queued, current, left, ops>>
  /\ UNCHANGED <<stored, calls, interrupts, announced>>

\* Shutdown: the worker's task is cancelled, and with it the run if it is not over.
StopRun ==
  /\ pc \in Awaits \cup {"ended", "raised", "cancelled"} /\ Stop
  /\ pc' = "stopped"
  /\ UNCHANGED <<stored, queued, current, left, calls, interrupts, announced, ops>>

\* _persist_interrupted_goal: pause_goal, which raises for a settled goal; then the goal
\* is read and left as it is.
PauseStopped ==
  /\ pc = "stopped"
  /\ Release
  /\ IF goal \in Final THEN Untouched ELSE Interrupt
  /\ UNCHANGED <<retries, calls, announced>> /\ Bounds

\* A store call of it raises.  The goal is not seen to be settled and is failed, with its
\* steps put back or not; or the store goes on failing and nothing is written.
PauseFails ==
  /\ pc = "stopped" /\ Stop
  /\ Release
  /\ \/ Untouched
     \/ goal' = "failed" /\ UNCHANGED <<step, interrupts>>
     \/ goal' = "failed" /\ goal \notin Final /\ PutStepsBack
  /\ UNCHANGED <<retries, calls, announced, ops>>

Crash ==
  /\ Stop
  /\ queued' = FALSE /\ pc' = "idle" /\ current' = 0 /\ left' = 0
  /\ UNCHANGED <<stored, calls, interrupts, announced, ops>>

\* recover_interrupted_goals of the next process: a running goal is taken over only if
\* its running steps may be replayed.
Recover ==
  /\ pc = "idle" /\ ~queued
  /\ \/ goal \in {"pending", "interrupted"} /\ Untouched
     \/ goal = "running" /\ RunningSteps \subseteq ReplaySafe /\ Interrupt
  /\ queued' = TRUE
  /\ UNCHANGED <<retries, pc, current, left, calls, announced>> /\ Bounds

RunStep == \/ Claim \/ Plan \/ Check \/ StepReturns \/ RunReturns
           \/ FailRaised \/ CancelledRun \/ PauseStopped \/ PauseFails
Operator == Pause \/ SetRunning \/ CancelGoal
Next == RunStep \/ RunRaises \/ StopRun \/ Crash \/ Recover \/ Operator
Spec == Init /\ [][Next]_vars

\* A run whose await returned is scheduled, skills have timeouts, and the unit restarts
\* the process.
FairSpec == Spec /\ WF_vars(RunStep) /\ WF_vars(Recover)

-----------------------------------------------------------------------------
TypeOK ==
  /\ goal \in Statuses
  /\ step \in [Steps -> {"none", "pending", "running", "done", "failed", "blocked"}]
  /\ retries \in [Steps -> 0..MaxRetry]
  /\ queued \in BOOLEAN
  /\ pc \in Awaits \cup {"idle", "ended", "raised", "cancelled", "stopped"}
  /\ current \in Steps \cup {0} /\ left \in 0..MaxSteps
  /\ calls \in [Steps -> Nat] /\ interrupts \in [Steps -> Nat]
  /\ announced \in {"none"} \cup ExecutionFinal
  /\ ops \in 0..MaxOps /\ stops \in 0..MaxStops

\* Whatever a run, a pause, a recovery and a restart do to each other, the skill is
\* called for a step once, and once more for each retry and each interruption on
\* record (max_retry bounds the first kind).
CallsAreAccounted ==
  \A i \in Steps : calls[i] <= 1 + retries[i] + interrupts[i]

\* A goal is done only when each required step has a committed result, also when it was
\* paused, resumed and recovered in between.
DoneGoalsHaveResults == goal = "done" => \A i \in Steps : step[i] = "done" \/ i \in Optional

\* A settled goal stays as it is, whatever a run, an operator, a pause and a recovery do
\* with what they read before; except that fail_goal, which has no condition, may write
\* "failed" over a cancel or a completion: for a run that ended with an exception, or
\* when a store call of the worker that was told to stop raised.
SettledStays ==
  goal \in Final =>
    \/ goal' = goal
    \/ goal' = "failed" /\ (pc = "raised" \/ (pc = "stopped" /\ stops' > stops))
SettledIsFinal == [][SettledStays]_vars

\* Violated: the statuses GoalManager calls terminal ("goal already terminal") are.
TerminalIsTerminal == [][(goal \in Final) => goal' = goal]_vars

\* Violated: "exactly one of goal.completed, goal.blocked, or goal.failed is emitted for
\* the authoritative terminal transition".  A run that raised is failed by the worker,
\* which records no such event.
TerminalGoalsAreAnnounced ==
  goal \in {"done", "blocked", "failed"} => announced = goal

\* A step under way that may not be replayed: recovery leaves such a goal alone.
Unsafe == goal = "running" /\ ~(RunningSteps \subseteq ReplaySafe)

\* Under fairness a goal nobody interferes with is settled across shutdowns and crashes,
\* unless it stopped inside a step that may not be replayed.
IsSettled == goal \in ExecutionFinal \/ Unsafe \/ ops > 0
EveryGoalSettles == []<>IsSettled
=============================================================================
