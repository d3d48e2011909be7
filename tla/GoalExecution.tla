------------------------------ MODULE GoalExecution ------------------------------
(***************************************************************************)
(* One goal through the ReAct graph and the operation ledger:              *)
(* core/graph/{executor,engine,nodes}.py, core/supervisor.py,              *)
(* core/tool_executor.py and memory/operation_store.py.                    *)
(*                                                                         *)
(* A run is one call of GraphGoalExecutor.execute.  The goal runtime       *)
(* starts one when the goal is new, and another whenever the process       *)
(* stopped before the goal was settled; it never has two at once           *)
(* (GraphRuntime, OneOwner).  Every run may call tools, and a tool may     *)
(* have an effect outside the process that a crash does not undo.  The     *)
(* ledger is what a later run knows of it.                                 *)
(*                                                                         *)
(* An attempt is identified by its run and step: a step makes at most one. *)
(* The model's text, the tool's arguments and its output are abstracted to *)
(* what the control depends on.  The runtime passes hitl=False, so a block *)
(* is a failure.  A fault is a ledger call that raises; a write that       *)
(* raised may have been applied.                                           *)
(***************************************************************************)
EXTENDS Naturals

CONSTANTS MaxSteps,    \* max_steps, the step cap of the router
          MaxRetry,    \* max_retry
          MaxRuns,     \* bound on runs of the goal
          MaxFaults    \* bound on faults

ASSUME StepsAssumption == MaxSteps \in Nat \ {0} /\ MaxRetry \in Nat
ASSUME RunBoundsAssumption == MaxRuns \in Nat /\ MaxFaults \in Nat

VARIABLES goal,        \* the goal store's view: "open", "DONE" or "FAILED"
          ledger,      \* operation_attempts: state and may_have_effect
          decided,     \* operation_decisions: run, step and decision
          effects,     \* attempts whose tool code was called
          runs,        \* runs started so far; the last one is the current one
          pc,          \* where the current run is, "idle" without one
          step,        \* step_count
          result,      \* what the supervisor sees of last_tool_result
          decision,    \* decision of the graph state
          retries,     \* retries granted since the last step that passed
          faults

durable == <<goal, ledger, decided, effects>>
vars == <<durable, runs, pc, step, result, decision, retries, faults>>

Runs == 1..MaxRuns
Steps == 1..MaxSteps
Attempts == Runs \X Steps
Current == <<runs, step>>

\* Attempt states from which the tool code may have been called.
StartedStates == {"executing", "unknown", "returned_ok", "returned_error"}
AttemptStates == {"none", "prepared", "rejected", "cancelled"} \cup StartedStates

Init ==
  /\ goal = "open"
  /\ ledger = [a \in Attempts |-> [state |-> "none", effect |-> FALSE]]
  /\ decided = {}
  /\ effects = {}
  /\ runs = 0
  /\ pc = "idle"
  /\ step = 0
  /\ result = "none"
  /\ decision = "none"
  /\ retries = 0
  /\ faults = 0

Fault == faults < MaxFaults /\ faults' = faults + 1
Goto(place) == pc' = place
End(d) == decision' = d /\ Goto("ended")

-----------------------------------------------------------------------------
\* GraphGoalExecutor.execute

Begin ==
  /\ pc = "idle" /\ goal = "open" /\ runs < MaxRuns
  /\ runs' = runs + 1
  /\ Goto("gate")
  /\ step' = 0 /\ result' = "none" /\ decision' = "none" /\ retries' = 0
  /\ UNCHANGED <<durable, faults>>

\* Mutant: writes that returned do not stop a later run.
UnresolvedUncertain ==
  {a \in Attempts : ledger[a].effect /\ ledger[a].state \in {"executing", "unknown"}}

\* unresolved_writes
Unresolved == {a \in Attempts : ledger[a].effect /\ ledger[a].state \in StartedStates}

\* A started write of an earlier run stops the goal; so does a ledger that cannot
\* be read.  local_inventory_answer may answer without the model.
Gate ==
  /\ pc = "gate"
  /\ \/ Fault /\ End("fail")
     \/ /\ Unresolved # {}
        /\ decision' = "fail" /\ Goto("persist") /\ UNCHANGED faults
     \/ /\ Unresolved = {}
        /\ UNCHANGED faults
        /\ \/ Goto("plan") /\ UNCHANGED decision
           \/ decision' = "done" /\ Goto("persist")
  /\ UNCHANGED <<durable, runs, step, result, retries>>

\* Mutant: planning after a step that passed is not counted.
PlanForFree ==
  /\ pc = "plan"
  /\ step' = IF decision = "pass" THEN step ELSE step + 1
  /\ \/ Goto("prepare") /\ decision' = "none"
     \/ Goto("supervise") /\ decision' \in {"done", "fail"}
  /\ UNCHANGED <<durable, runs, result, retries, faults>>

\* planner_node, with the part of executor_node that decides without a tool: an
\* answer is `done`, any other reply without a tool call is `fail`.
Plan ==
  /\ pc = "plan"
  /\ step' = step + 1
  /\ \/ Goto("prepare") /\ decision' = "none"
     \/ Goto("supervise") /\ decision' \in {"done", "fail"}
  /\ UNCHANGED <<durable, runs, result, retries, faults>>

\* The call of the model raised, or LangGraph could not write a checkpoint between
\* two nodes or reached its own limit: run_graph ends without a decision.
GraphRaises ==
  /\ pc = "plan" \/ (pc \in {"prepare", "supervise", "ended"} /\ step > 0)
  /\ End("none")
  /\ UNCHANGED <<durable, runs, step, result, retries, faults>>

-----------------------------------------------------------------------------
\* ToolExecutor.execute

Record(state) == ledger' = [ledger EXCEPT ![Current].state = state]
MaybeRecord(state) == Record(state) \/ UNCHANGED ledger

\* OperationStore.prepare: the tool is a read or it may have an effect.  If the
\* insert raises the call is refused, even if the row is there.
Prepare ==
  /\ pc = "prepare"
  /\ \E effect \in BOOLEAN :
       LET Insert == ledger' = [ledger EXCEPT ![Current] =
                                  [state |-> "prepared", effect |-> effect]]
       IN  \/ Insert /\ Goto("check") /\ UNCHANGED <<result, faults>>
           \/ /\ Fault /\ (Insert \/ UNCHANGED ledger)
              /\ result' = "blocked" /\ Goto("supervise")
  /\ UNCHANGED <<goal, decided, effects, runs, step, decision, retries>>

\* Arguments, registry, schema, availability, permission, approval: nothing here
\* suspends.  An unavailable tool, a denied permission and a missing approval are
\* blocking, the others are not.
Check ==
  /\ pc = "check"
  /\ \/ result' \in {"error", "blocked"} /\ Goto("reject")
     \/ Goto("start") /\ UNCHANGED result
  /\ UNCHANGED <<durable, runs, step, decision, retries, faults>>

\* Mutant: the tool is called although `executing` could not be recorded.
StartUnrecorded ==
  /\ pc = "start"
  /\ \/ Record("executing") /\ UNCHANGED faults
     \/ Fault /\ MaybeRecord("executing")
  /\ Goto("call")
  /\ UNCHANGED <<goal, decided, effects, runs, step, result, decision, retries>>

\* OperationAttempt.executing.  If it raises the tool is not called, and the
\* attempt counts as started.
Start ==
  /\ pc = "start"
  /\ \/ Record("executing") /\ Goto("call") /\ UNCHANGED <<result, faults>>
     \/ /\ Fault /\ MaybeRecord("executing")
        /\ result' = "uncertain" /\ Goto("settle")
  /\ UNCHANGED <<goal, decided, effects, runs, step, decision, retries>>

Call ==
  /\ pc = "call"
  /\ effects' = effects \cup {Current}
  /\ Goto("tool")
  /\ UNCHANGED <<goal, ledger, decided, runs, step, result, decision, retries, faults>>

\* The tool returned, with or without an error; or it timed out, raised, or says
\* itself that its outcome is uncertain.
Return ==
  /\ pc = "tool"
  /\ result' \in {"ok", "error", "blocked", "uncertain"}
  /\ Goto("settle")
  /\ UNCHANGED <<durable, runs, step, decision, retries, faults>>

FinalState == IF pc = "reject" THEN "rejected"
              ELSE CASE result = "uncertain" -> "unknown"
                     [] result = "ok" -> "returned_ok"
                     [] OTHER -> "returned_error"

\* Mutant: the result is used although it could not be recorded.
SettleUnrecorded ==
  /\ pc \in {"reject", "settle"}
  /\ \/ Record(FinalState) /\ UNCHANGED faults
     \/ Fault /\ MaybeRecord(FinalState)
  /\ Goto("supervise")
  /\ UNCHANGED <<goal, decided, effects, runs, step, result, decision, retries>>

\* OperationAttempt.finish.  A result that is not recorded is not a result.
Settle ==
  /\ pc \in {"reject", "settle"}
  /\ \/ Record(FinalState) /\ UNCHANGED <<result, faults>>
     \/ /\ Fault /\ MaybeRecord(FinalState)
        /\ result' = IF pc = "settle" THEN "uncertain" ELSE "blocked"
  /\ Goto("supervise")
  /\ UNCHANGED <<goal, decided, effects, runs, step, decision, retries>>

-----------------------------------------------------------------------------
\* supervisor_node.  An uncertain outcome comes first, then what the executor
\* decided, then Supervisor.review_step_result, which gets step_count as its
\* retry_count.

\* Mutant: an uncertain outcome is an error like any other.
VerdictIgnoresUncertainty ==
  IF decision # "none" THEN decision
  ELSE CASE result = "ok" -> "pass"
         [] result \notin {"ok", "blocked"} /\ step < MaxRetry -> "retry"
         [] OTHER -> "fail"

Verdict ==
  CASE result = "uncertain" -> "fail"
    [] result # "uncertain" /\ decision # "none" -> decision
    [] OTHER -> CASE result = "ok" -> "pass"
                  [] result = "error" /\ step < MaxRetry -> "retry"
                  [] OTHER -> "fail"

Supervise ==
  /\ pc = "supervise"
  /\ decision' = Verdict
  /\ retries' = CASE Verdict = "retry" -> retries + 1
                  [] Verdict = "pass" -> 0
                  [] OTHER -> retries
  /\ Goto("persist")
  /\ UNCHANGED <<durable, runs, step, result, faults>>

\* The router: stop on a final decision and at the step cap.
Route(d) == IF d \in {"done", "fail"} \/ step >= MaxSteps THEN "ended" ELSE "plan"

\* Mutant: a decision that could not be recorded is followed.
PersistUnrecorded ==
  /\ pc = "persist"
  /\ LET Insert == decided' = decided \cup {<<runs, step, decision>>}
     IN  (Insert /\ UNCHANGED faults) \/ (Fault /\ (Insert \/ UNCHANGED decided))
  /\ Goto(Route(decision))
  /\ UNCHANGED <<goal, ledger, effects, runs, step, result, decision, retries>>

\* persist_decision, then the router.  A decision that is not recorded is `fail`.
Persist ==
  /\ pc = "persist"
  /\ LET Insert == decided' = decided \cup {<<runs, step, decision>>}
     IN  \/ Insert /\ UNCHANGED <<decision, faults>>
         \/ Fault /\ (Insert \/ UNCHANGED decided) /\ decision' = "fail"
  /\ Goto(Route(decision'))
  /\ UNCHANGED <<goal, ledger, effects, runs, step, result, retries>>

-----------------------------------------------------------------------------
\* The goal runtime settles the goal by the decision; a fault on its side fails it.
Finish ==
  /\ pc = "ended"
  /\ \/ goal' = (IF decision = "done" THEN "DONE" ELSE "FAILED") /\ UNCHANGED faults
     \/ Fault /\ goal' = "FAILED"
  /\ Goto("idle")
  /\ UNCHANGED <<ledger, decided, effects, runs, step, result, decision, retries>>

\* The process stops.  A later run starts from the ledger.
Forget == Goto("idle") /\ step' = 0 /\ result' = "none" /\ decision' = "none"
                       /\ retries' = 0

Crash ==
  /\ pc # "idle"
  /\ Forget
  /\ UNCHANGED <<durable, runs, faults>>

\* The worker is cancelled while ToolExecutor waits for the ledger or the tool: the
\* attempt is marked unknown, or stays as it is when that write does not make it.
Cancel ==
  /\ pc \in {"start", "call", "tool"}
  /\ Record("unknown") \/ (pc = "start" /\ Record("executing"))
  /\ Forget
  /\ UNCHANGED <<goal, decided, effects, runs, faults>>

ToolExecutor == Prepare \/ Check \/ Start \/ Call \/ Return \/ Settle
Execute == Gate \/ Plan \/ ToolExecutor \/ Supervise \/ Persist

Next == Begin \/ Execute \/ GraphRaises \/ Finish \/ Crash \/ Cancel

Spec == Init /\ [][Next]_vars

\* The coroutine of a run is scheduled, and the calls it awaits return: the model
\* and the tools have timeouts.
FairSpec == Spec /\ WF_vars(Execute) /\ WF_vars(Finish)

-----------------------------------------------------------------------------
Pcs == {"idle", "gate", "plan", "prepare", "check", "reject", "start", "call",
        "tool", "settle", "supervise", "persist", "ended"}

TypeOK ==
  /\ goal \in {"open", "DONE", "FAILED"}
  /\ ledger \in [Attempts -> [state : AttemptStates, effect : BOOLEAN]]
  /\ decided \subseteq Runs \X (0..MaxSteps) \X {"done", "fail", "pass", "retry"}
  /\ effects \subseteq Attempts
  /\ runs \in 0..MaxRuns
  /\ pc \in Pcs
  /\ step \in 0..MaxSteps
  /\ result \in {"none", "ok", "error", "blocked", "uncertain"}
  /\ decision \in {"none", "done", "fail", "pass", "retry"}
  /\ retries \in Nat
  /\ faults \in 0..MaxFaults

\* Tool code is called only under a receipt that says so, and nothing later rewrites
\* the receipt to a state that denies the call.
EffectsHaveReceipts == \A a \in effects : ledger[a].state \in StartedStates

\* Writes are never replayed: whatever crashes, and whichever ledger call fails, all
\* the calls of tools with effects happen in one run of the goal.
WritesInOneRun ==
  \A a, b \in effects : ledger[a].effect /\ ledger[b].effect => a[1] = b[1]

Later(a, b) == a[1] < b[1] \/ (a[1] = b[1] /\ a[2] < b[2])

\* After a write whose outcome is unknown the goal calls no tool again, in this run
\* or in a later one.
UnknownWriteIsLast ==
  \A a, b \in effects :
    ledger[a].effect /\ ledger[a].state \in {"unknown", "executing"} => ~Later(a, b)

\* A goal is DONE only if the outcome of every write it started is recorded.
DoneIsCertain ==
  goal = "DONE" =>
    \A a \in Attempts :
      ledger[a].effect => ledger[a].state \notin {"unknown", "executing"}

\* A step is taken only after the decision of the step before it was recorded, and a
\* goal is DONE only by a recorded decision of its last run.
StepsHaveDecisions ==
  /\ \A r \in Runs, s \in Steps :
       s > 1 /\ ledger[<<r, s>>].state # "none" =>
         \E d \in {"pass", "retry"} : <<r, s - 1, d>> \in decided
  /\ goal = "DONE" => <<runs, step, "done">> \in decided

\* A run comes to an end: the graph cannot loop.
EveryRunEnds == []<>(pc = "idle")

\* core/supervisor.py: "retry: rerun current step if retry budget allows".  A plain
\* error fails the goal only when max_retry retries of that failure were granted.
RetryBudgetIsHonoured ==
  pc = "persist" /\ result = "error" /\ decision = "fail"
    /\ ledger[Current].state \in {"rejected", "returned_error"} => retries >= MaxRetry
=============================================================================
