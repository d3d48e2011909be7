------------------------------ MODULE GraphRuntime ------------------------------
(***************************************************************************)
(* The production Goal path: runtime/graph_runtime.py over                 *)
(* memory/goal_store.py, started and stopped by main.py.                   *)
(*                                                                         *)
(* `db` survives the process; everything else dies with it.  A step is the *)
(* code between two suspensions that another coroutine could observe: one  *)
(* goal store call and what follows it up to the next one.  The lock of    *)
(* the queue is never contended, so its methods do not suspend.            *)
(*                                                                         *)
(* start() creates one worker per slot of the queue and a worker holds at  *)
(* most one slot, so slots never make a worker wait and the queue is       *)
(* reduced to the status of its items (RuntimeTaskQueue has the rest); for *)
(* the same reason no per-user semaphore of max_active permits blocks.     *)
(* What LangGraph does for a goal is one step with three outcomes: it      *)
(* decides `done`, it decides anything else, it raises.                    *)
(*                                                                         *)
(* A fault is one failed call to SQLite or Lark.  A write that raised may  *)
(* or may not have been applied: the statement and the commit are separate *)
(* calls on a shared connection, and a later commit commits both.          *)
(***************************************************************************)
EXTENDS Naturals, FiniteSets

CONSTANTS Goals,         \* goal ids, one per message the interface passes on
          Workers,       \* one per slot, max_active of them
          NoGoal,        \* a worker without an item
          MaxFaults,     \* bound on faults
          MaxRestarts    \* bound on crashes and shutdowns

ASSUME NoGoalAssumption == NoGoal \notin Goals
ASSUME WorkersAssumption == IsFiniteSet(Workers) /\ Workers # {}
ASSUME BoundsAssumption == MaxFaults \in Nat /\ MaxRestarts \in Nat

VARIABLES phase,       \* "down", "recovering", "serving" or "stopping"
          db,          \* status column of the goals table, "absent" without a row
          handler,     \* progress of handle_message for the goal
          recovering,  \* goals recover_goals has read and not yet requeued
          queue,       \* status of the goal's item, "none" without one
          worker,      \* where each worker is, with its goal and the decision
          reports,     \* results of the goal delivered to its chat
          reportedAs,  \* the status the delivered result was labelled with
          faults, restarts

volatile == <<handler, recovering, queue, worker>>
reporting == <<reports, reportedAs>>
vars == <<phase, db, volatile, reporting, faults, restarts>>

Closed == {"DONE", "FAILED"}
Open == {"IDLE", "ROUTING", "PLANNING", "EXECUTING", "AWAITING_RESULT", "EVALUATING"}

\* ALLOWED_TRANSITIONS
Allowed(st) ==
  CASE st = "IDLE" -> {"ROUTING"}
    [] st = "ROUTING" -> {"PLANNING", "FAILED"}
    [] st = "PLANNING" -> {"EXECUTING", "EVALUATING", "FAILED"}
    [] st = "EXECUTING" -> {"AWAITING_RESULT", "FAILED"}
    [] st = "AWAITING_RESULT" -> {"EVALUATING", "FAILED"}
    [] st = "EVALUATING" -> {"DONE", "FAILED"}
    [] OTHER -> {}

NoHandler == [g \in Goals |-> "none"]
EmptyQueue == [g \in Goals |-> "none"]
At(pc) == [pc |-> pc, goal |-> NoGoal, decision |-> "none"]

Init ==
  /\ phase = "down"
  /\ db = [g \in Goals |-> "absent"]
  /\ handler = NoHandler
  /\ recovering = {}
  /\ queue = EmptyQueue
  /\ worker = [w \in Workers |-> At("gone")]
  /\ reports = [g \in Goals |-> 0]
  /\ reportedAs = [g \in Goals |-> "none"]
  /\ faults = 0
  /\ restarts = 0

-----------------------------------------------------------------------------
\* Goal store calls.  Each is an outcome: it fixes db' and faults'.

Works == UNCHANGED <<db, faults>>

Fault == faults < MaxFaults /\ faults' = faults + 1

\* A call that only reads, or a push to Lark, raised.
CallRaised == Fault /\ UNCHANGED db

MayBecome(g, st) == st = db[g] \/ st \in Allowed(db[g])
SetStatus(g, st) == db' = [db EXCEPT ![g] = st]

\* update_status wrote st.
Written(g, st) == MayBecome(g, st) /\ SetStatus(g, st) /\ UNCHANGED faults

\* update_status raised: InvalidGoalTransition, or a fault in its read, its
\* statement or its commit.
Raised(g, st) ==
  \/ CallRaised
  \/ IF MayBecome(g, st) THEN Fault /\ SetStatus(g, st) ELSE Works

\* _fail_goal returned, took its first step from IDLE, or raised.
NothingToFail(g) == db[g] \in Closed \cup {"absent"}
GoalFailed(g) == IF NothingToFail(g) THEN Works
                                     ELSE db[g] # "IDLE" /\ Written(g, "FAILED")
GoalRouted(g) == db[g] = "IDLE" /\ Written(g, "ROUTING")
GoalNotFailed(g) ==
  CASE NothingToFail(g) -> CallRaised
    [] db[g] = "IDLE" -> Raised(g, "ROUTING")
    [] OTHER -> Raised(g, "FAILED")

-----------------------------------------------------------------------------
\* handle_message.  Between its calls other coroutines run.

Connected == phase \in {"serving", "stopping"}

HandlerAt(g, pc) == handler' = [handler EXCEPT ![g] = pc]

\* GoalStore.create.  It is outside the `try`: when it raises nothing follows,
\* even if the row is there.
Receive(g) ==
  /\ Connected
  /\ handler[g] = "none" /\ db[g] = "absent"
  /\ \/ SetStatus(g, "IDLE") /\ UNCHANGED faults /\ HandlerAt(g, "route")
     \/ Fault /\ HandlerAt(g, "raised") /\ (UNCHANGED db \/ SetStatus(g, "IDLE"))
  /\ UNCHANGED <<phase, recovering, queue, worker, reporting, restarts>>

Route(g) ==
  /\ handler[g] = "route"
  /\ \/ Written(g, "ROUTING") /\ HandlerAt(g, "plan")
     \/ Raised(g, "ROUTING") /\ HandlerAt(g, "fail")
  /\ UNCHANGED <<phase, recovering, queue, worker, reporting, restarts>>

\* The item is submitted as soon as PLANNING is written; the id is new, so
\* submit neither raises nor finds an item.
Plan(g) ==
  /\ handler[g] = "plan"
  /\ \/ /\ Written(g, "PLANNING")
        /\ queue' = [queue EXCEPT ![g] = "pending"]
        /\ HandlerAt(g, "accepted")
     \/ /\ Raised(g, "PLANNING")
        /\ HandlerAt(g, "fail")
        /\ UNCHANGED queue
  /\ UNCHANGED <<phase, recovering, worker, reporting, restarts>>

\* `except` of handle_message: _fail_goal, then the error goes to the caller.
FailMessage(g) ==
  /\ handler[g] = "fail"
  /\ \/ GoalRouted(g) /\ UNCHANGED handler
     \/ (GoalFailed(g) \/ GoalNotFailed(g)) /\ HandlerAt(g, "raised")
  /\ UNCHANGED <<phase, recovering, queue, worker, reporting, restarts>>

HandleMessage(g) == Route(g) \/ Plan(g) \/ FailMessage(g)

-----------------------------------------------------------------------------
\* A worker.  `item` of worker w is worker[w].goal.

Goto(w, pc) == worker' = [worker EXCEPT ![w].pc = pc]
Leave(w, pc) == worker' = [worker EXCEPT ![w] = At(pc)]

\* mark_done, mark_failed, mark_interrupted: an item that is settled stays so.
Mark(g, st) == queue' = [queue EXCEPT ![g] =
                           IF @ \in {"pending", "running"} THEN st ELSE @]

\* Mutant: the item a worker takes stays pending.
TakeKeepsPending(w, g) ==
  /\ worker[w].pc = "get"
  /\ queue[g] = "pending"
  /\ worker' = [worker EXCEPT ![w] = [At("load") EXCEPT !.goal = g]]
  /\ UNCHANGED <<phase, db, handler, recovering, queue, reporting, faults, restarts>>

\* Which pending item is first is the business of RuntimeTaskQueue.
Take(w, g) ==
  /\ worker[w].pc = "get"
  /\ queue[g] = "pending"
  /\ queue' = [queue EXCEPT ![g] = "running"]
  /\ worker' = [worker EXCEPT ![w] = [At("load") EXCEPT !.goal = g]]
  /\ UNCHANGED <<phase, db, handler, recovering, reporting, faults, restarts>>

Load(w) ==
  /\ worker[w].pc = "load"
  /\ LET g == worker[w].goal
     IN  \/ /\ Works
            /\ IF db[g] \in Open
               THEN Goto(w, "begin") /\ UNCHANGED queue
               ELSE /\ Mark(g, IF db[g] = "absent" THEN "failed" ELSE "done")
                    /\ Leave(w, "get")
         \/ CallRaised /\ Goto(w, "fail") /\ UNCHANGED queue
  /\ UNCHANGED <<phase, handler, recovering, reporting, restarts>>

\* Mutant: the worker goes on although its status write raised.
AdvanceAnyway(w, from, st, to) ==
  /\ worker[w].pc = from
  /\ Written(worker[w].goal, st) \/ Raised(worker[w].goal, st)
  /\ Goto(w, to)
  /\ UNCHANGED <<phase, handler, recovering, queue, reporting, restarts>>

Advance(w, from, st, to) ==
  /\ worker[w].pc = from
  /\ \/ Written(worker[w].goal, st) /\ Goto(w, to)
     \/ Raised(worker[w].goal, st) /\ Goto(w, "fail")
  /\ UNCHANGED <<phase, handler, recovering, queue, reporting, restarts>>

\* _build_history and GraphGoalExecutor.execute.  Either may raise.
RunGraph(w) ==
  /\ worker[w].pc = "run"
  /\ \/ \E decision \in {"done", "other"} :
          worker' = [worker EXCEPT ![w].pc = "await", ![w].decision = decision]
     \/ Goto(w, "fail")
  /\ UNCHANGED <<phase, db, handler, recovering, queue, reporting, faults, restarts>>

FinalStatus(decision) == IF decision = "done" THEN "DONE" ELSE "FAILED"

\* The last update_status, then mark_done or mark_failed.
Finish(w) ==
  /\ worker[w].pc = "finish"
  /\ LET g == worker[w].goal
         st == FinalStatus(worker[w].decision)
     IN  \/ /\ Written(g, st)
            /\ Mark(g, IF st = "DONE" THEN "done" ELSE "failed")
            /\ Goto(w, "report")
         \/ Raised(g, st) /\ Goto(w, "fail") /\ UNCHANGED queue
  /\ UNCHANGED <<phase, handler, recovering, reporting, restarts>>

\* The goal is read again and given to the terminal callback with the status the
\* worker chose.  An exception of the callback is swallowed by _notify.
Deliver(g, st) == /\ reports' = [reports EXCEPT ![g] = @ + 1]
                  /\ reportedAs' = [reportedAs EXCEPT ![g] = st]

Notify(w, st) ==
  /\ \/ Works /\ Deliver(worker[w].goal, st)
     \/ CallRaised /\ UNCHANGED reporting
  /\ Leave(w, "get")

\* Mutant: an exception of the callback, whose push may have been carried out,
\* leaves _notify.
ReportRaises(w) ==
  /\ worker[w].pc = "report"
  /\ \/ Notify(w, FinalStatus(worker[w].decision))
     \/ /\ CallRaised /\ Goto(w, "fail")
        /\ UNCHANGED reporting \/ Deliver(worker[w].goal, FinalStatus(worker[w].decision))
  /\ UNCHANGED <<phase, handler, recovering, queue, restarts>>

Report(w) ==
  /\ worker[w].pc = "report"
  /\ \/ Notify(w, FinalStatus(worker[w].decision))
     \/ CallRaised /\ Goto(w, "fail") /\ UNCHANGED reporting
  /\ UNCHANGED <<phase, handler, recovering, queue, restarts>>

\* `except Exception` of _execute_item: _fail_goal, then mark_failed.  Nothing
\* catches what it raises, so the worker task ends and its item stays running.
\* (A goal with an item is past IDLE: see OneOwner.)
FailItem(w) ==
  /\ worker[w].pc = "fail"
  /\ LET g == worker[w].goal
     IN  \/ GoalFailed(g) /\ Mark(g, "failed") /\ Goto(w, "reportFailure")
         \/ GoalNotFailed(g) /\ Goto(w, "dead") /\ UNCHANGED queue
  /\ UNCHANGED <<phase, handler, recovering, reporting, restarts>>

ReportFailure(w) ==
  /\ worker[w].pc = "reportFailure"
  /\ \/ Notify(w, "FAILED")
     \/ CallRaised /\ Goto(w, "dead") /\ UNCHANGED reporting
  /\ UNCHANGED <<phase, handler, recovering, queue, restarts>>

Execute(w) ==
  \/ Load(w)
  \/ Advance(w, "begin", "EXECUTING", "run")
  \/ RunGraph(w)
  \/ Advance(w, "await", "AWAITING_RESULT", "evaluate")
  \/ Advance(w, "evaluate", "EVALUATING", "finish")
  \/ Finish(w) \/ Report(w)
  \/ FailItem(w) \/ ReportFailure(w)

-----------------------------------------------------------------------------
\* The process.

Forget == /\ handler' = NoHandler
          /\ recovering' = {}
          /\ queue' = EmptyQueue
          /\ worker' = [w \in Workers |-> At("gone")]

\* Mutant: recover_goals does not read the goals that were only created.
BootSkipsIdle ==
  /\ phase = "down"
  /\ phase' = "recovering"
  /\ worker' = [w \in Workers |-> At("get")]
  /\ recovering' = {g \in Goals : db[g] \in Open \ {"IDLE"}}
  /\ UNCHANGED <<db, handler, queue, reporting, faults, restarts>>

\* start(): the workers run before recover_goals has read the table.
Boot ==
  /\ phase = "down"
  /\ phase' = "recovering"
  /\ worker' = [w \in Workers |-> At("get")]
  /\ recovering' = {g \in Goals : db[g] \in Open}
  /\ UNCHANGED <<db, handler, queue, reporting, faults, restarts>>

\* reset_for_recovery updates non-terminal rows only; submit returns or refuses
\* an item that exists, and recover_goals goes on.
Reset(g) == IF db[g] \in Open THEN SetStatus(g, "PLANNING") ELSE UNCHANGED db

\* Mutant: the goal is reset and not queued.
RecoverWithoutSubmit(g) ==
  /\ phase = "recovering"
  /\ g \in recovering
  /\ Reset(g)
  /\ recovering' = recovering \ {g}
  /\ UNCHANGED <<phase, handler, queue, worker, reporting, faults, restarts>>

Recover(g) ==
  /\ phase = "recovering"
  /\ g \in recovering
  /\ Reset(g)
  /\ recovering' = recovering \ {g}
  /\ queue' = [queue EXCEPT ![g] = IF @ = "none" THEN "pending" ELSE @]
  /\ UNCHANGED <<phase, handler, worker, reporting, faults, restarts>>

\* An exception in recover_goals leaves start(), and the process exits.
RecoverRaises ==
  /\ phase = "recovering"
  /\ Fault
  /\ UNCHANGED db \/ \E g \in recovering : Reset(g)
  /\ phase' = "down"
  /\ Forget
  /\ UNCHANGED <<reporting, restarts>>

\* start() returns and the interface connects.
Serve ==
  /\ phase = "recovering"
  /\ recovering = {}
  /\ phase' = "serving"
  /\ UNCHANGED <<db, volatile, reporting, faults, restarts>>

Restart == restarts < MaxRestarts /\ restarts' = restarts + 1

Crash ==
  /\ phase # "down"
  /\ Restart
  /\ phase' = "down"
  /\ Forget
  /\ UNCHANGED <<db, reporting, faults>>

\* stop(): every worker is cancelled.  Messages still arrive, because the
\* interface is stopped later.
Stop ==
  /\ phase = "serving"
  /\ Restart
  /\ phase' = "stopping"
  /\ UNCHANGED <<db, volatile, reporting, faults>>

\* CancelledError reaches a worker at its suspension: in get() it just ends, in the
\* `try` it marks its item interrupted, in an `except` it does not.  The call it
\* was suspended in may have been carried out.
StatusWrites(w) == [begin |-> "EXECUTING", await |-> "AWAITING_RESULT",
                    evaluate |-> "EVALUATING",
                    finish |-> FinalStatus(worker[w].decision), fail |-> "FAILED"]
Pushes(w) == [report |-> FinalStatus(worker[w].decision), reportFailure |-> "FAILED"]

CarriedOut(w) ==
  LET pc == worker[w].pc
      g == worker[w].goal
  IN  \/ /\ pc \in DOMAIN StatusWrites(w)
         /\ MayBecome(g, StatusWrites(w)[pc])
         /\ SetStatus(g, StatusWrites(w)[pc])
         /\ UNCHANGED reporting
      \/ /\ pc \in DOMAIN Pushes(w)
         /\ Deliver(g, Pushes(w)[pc])
         /\ UNCHANGED db

CancelWorker(w) ==
  /\ phase = "stopping"
  /\ worker[w].pc # "gone"
  /\ CarriedOut(w) \/ UNCHANGED <<db, reporting>>
  /\ IF worker[w].pc \in {"get", "dead", "fail", "reportFailure"}
     THEN UNCHANGED queue
     ELSE Mark(worker[w].goal, "interrupted")
  /\ Leave(w, "gone")
  /\ UNCHANGED <<phase, handler, recovering, faults, restarts>>

Exit ==
  /\ phase = "stopping"
  /\ \A w \in Workers : worker[w].pc = "gone"
  /\ phase' = "down"
  /\ Forget
  /\ UNCHANGED <<db, reporting, faults, restarts>>

-----------------------------------------------------------------------------
\* While stopping, the workers take no step but their cancellation: stop() cancels
\* them all before it suspends.
Work(w) == phase # "stopping" /\ (Execute(w) \/ \E g \in Goals : Take(w, g))

Next ==
  \/ \E g \in Goals : Receive(g) \/ HandleMessage(g) \/ Recover(g)
  \/ \E w \in Workers : Work(w) \/ CancelWorker(w)
  \/ Boot \/ RecoverRaises \/ Serve \/ Crash \/ Stop \/ Exit

Spec == Init /\ [][Next]_vars

\* A coroutine that can run is scheduled, a call returns (LLM and tool calls have
\* timeouts), and systemd starts the process again (Restart=always).  Nothing
\* forces a message, a fault or a crash.
Fairness ==
  /\ \A g \in Goals : WF_vars(HandleMessage(g)) /\ WF_vars(Recover(g))
  /\ \A w \in Workers : WF_vars(Work(w)) /\ WF_vars(CancelWorker(w))
  /\ WF_vars(Boot) /\ WF_vars(Serve) /\ WF_vars(Exit)

FairSpec == Spec /\ Fairness

-----------------------------------------------------------------------------
WorkerPcs == {"gone", "dead", "get", "load", "begin", "run", "await", "evaluate",
              "finish", "report", "fail", "reportFailure"}

TypeOK ==
  /\ phase \in {"down", "recovering", "serving", "stopping"}
  /\ db \in [Goals -> {"absent"} \cup Open \cup Closed]
  /\ handler \in [Goals -> {"none", "route", "plan", "fail", "accepted", "raised"}]
  /\ recovering \subseteq Goals
  /\ queue \in [Goals -> {"none", "pending", "running", "done", "failed",
                          "interrupted"}]
  /\ worker \in [Workers -> [pc : WorkerPcs, goal : Goals \cup {NoGoal},
                             decision : {"none", "done", "other"}]]
  /\ reports \in [Goals -> Nat]
  /\ reportedAs \in [Goals -> {"none"} \cup Closed]
  /\ faults \in 0..MaxFaults
  /\ restarts \in 0..MaxRestarts

Handling(g) == handler[g] \in {"route", "plan", "fail"}
Executing(g) == {w \in Workers : worker[w].goal = g}

\* A goal is in the hands of one coroutine at a time: the handler that accepts it,
\* recover_goals, the queue, or one worker.  This is what makes the unlocked
\* read-then-write of update_status safe, and why no goal is executed twice at once.
OneOwner ==
  \A g \in Goals :
    /\ Handling(g) => g \notin recovering /\ queue[g] = "none"
    /\ g \in recovering => queue[g] = "none" /\ db[g] \in Open
    /\ queue[g] = "pending" => db[g] = "PLANNING"
    /\ \A w \in Executing(g) : /\ \A v \in Executing(g) : v = w
                               /\ queue[g] \notin {"none", "pending"}
                               /\ db[g] \notin {"absent", "IDLE", "ROUTING"}

\* A worker runs the graph, and so its tools, only for a goal the store shows as
\* executing: never for one that was settled or taken back by recovery.
RunsOnlyExecutingGoals ==
  \A w \in Workers :
    worker[w].pc = "run" => /\ db[worker[w].goal] = "EXECUTING"
                            /\ queue[worker[w].goal] = "running"

\* While the process serves, every open goal is on its way: being accepted, queued,
\* or with a live worker.  The only goals it can leave behind are those whose
\* failure could not be recorded either, by the handler or by a worker it killed.
Stranded(g) == \/ handler[g] = "raised"
               \/ \E w \in Executing(g) : worker[w].pc = "dead"
NoGoalIsLost ==
  phase = "serving" =>
    \A g \in Goals :
      db[g] \in Open => \/ Handling(g)
                        \/ queue[g] = "pending"
                        \/ \E w \in Executing(g) : worker[w].pc # "dead"
                        \/ faults > 0 /\ Stranded(g)

\* The store, the queue and the reports implement the goal lifecycle: across
\* crashes, shutdowns, recovery and lost writes a settled goal stays as it is and
\* its result is pushed at most once, never before it is settled.
Outcome(g) == CASE db[g] = "absent" -> "absent"
                [] db[g] = "DONE" -> "done"
                [] db[g] = "FAILED" -> "failed"
                [] OTHER -> "open"

Lifecycle == INSTANCE GoalLifecycle WITH outcome <- [g \in Goals |-> Outcome(g)]
ImplementsLifecycle == Lifecycle!Spec

\* Every goal whose row exists is settled in the end, however often the process
\* restarts, unless a fault stranded it or has ended every worker.
EveryGoalSettles ==
  []<>\/ \A g \in Goals : db[g] \in Open => Stranded(g)
      \/ \A w \in Workers : worker[w].pc = "dead"

\* docs/current-state.md: the terminal result of every goal is pushed to the chat
\* it came from.
EveryResultIsReported ==
  \A g \in Goals : db[g] \in Closed ~> reports[g] > 0

\* docs/current-state.md: the result card is green for a completed goal and red for
\* a failed one, so the label of a report is the status of the goal.
ReportsMatchGoals ==
  \A g \in Goals : reports[g] > 0 => reportedAs[g] = db[g]
=============================================================================
