--------------------------- MODULE RuntimeWorkerPool ---------------------------
(***************************************************************************)
(* runtime/worker.py (RuntimeWorker, WorkerManager) and                    *)
(* runtime/runtime_manager.py (RuntimeManager) over the queue of           *)
(* RuntimeTaskQueue and the statuses of the goal store.                    *)
(*                                                                         *)
(* A worker suspends in queue.get(), while it awaits the execution task of *)
(* a goal, and nowhere else that matters.  What it does between two        *)
(* suspensions is two of the queue's own actions (claim and register;      *)
(* unregister and settle) with nothing between them (Quiet).               *)
(* RuntimeManager.cancel_goal never suspends and is one step.  What a run  *)
(* does inside is LegacyExecution's subject: here it claims its goal, ends *)
(* with a status, raises, or is cancelled.                                 *)
(***************************************************************************)
EXTENDS Integers, FiniteSets, Sequences

CONSTANTS Goals, Workers,
          NoGoal,      \* a worker without a goal; no execution task
          MaxActive,   \* max_active of the queue
          MaxStops,    \* bound on stops of the pool and crashes of the process
          MaxFaults    \* bound on failing calls of the goal store

RuntimeWorkerPoolAssumption ==
  /\ NoGoal \notin Goals /\ IsFiniteSet(Workers) /\ MaxActive \in Nat \ {0}
  /\ MaxStops \in Nat /\ MaxFaults \in Nat

VARIABLES status, place, arrivals, heap, finished, active, slots, waiting,
          unfinished, execTask, cancelSent,   \* RuntimeTaskQueue
          goal,        \* goals.status in the store, "none" before create_goal
          at,          \* where each worker is
          on,          \* the goal it processes
          stopSent,    \* workers on which _stop_once called cancel()
          run,         \* the execution task of each goal
          told,        \* terminal notifications started for each goal
          recovering,  \* goals recover_goals has still to submit
          stops, faults

Queue == INSTANCE RuntimeTaskQueue
           WITH Consumers <- Workers, Tasks <- Goals, NoTask <- NoGoal,
                Priorities <- {0}

queueVars == <<status, place, arrivals, heap, finished, active, slots, waiting,
               unfinished, execTask, cancelSent>>
workerVars == <<at, on, stopSent>>
bounds == <<stops, faults>>
vars == <<queueVars, goal, workerVars, run, told, recovering, bounds>>

Final == {"done", "failed", "cancelled"}
Pausable == {"pending", "running", "interrupted", "blocked"}
Outcomes == {"done", "blocked", "failed"}

\* The statuses _notify_terminal_goal and _start_terminal_notification announce.
Announced == {"done", "blocked", "failed"}
RunOver == {"ended", "raised", "cancelled"}

AllOff == [w \in Workers |-> "off"]
NoWork == [w \in Workers |-> NoGoal]
NoRuns == [g \in Goals |-> "none"]

Init == /\ Queue!Init
        /\ at = AllOff /\ on = NoWork /\ stopSent = {} /\ run = NoRuns
        /\ goal = [g \in Goals |-> "none"]
        /\ told = [g \in Goals |-> <<>>]
        /\ recovering = {} /\ stops = 0 /\ faults = 0

Fault == faults < MaxFaults /\ faults' = faults + 1 /\ UNCHANGED stops
Store(g, st) == goal' = [goal EXCEPT ![g] = st]

-----------------------------------------------------------------------------
\* WorkerManager and RuntimeWorker

\* start(): every worker whose task has ended gets a new one.
Start ==
  /\ recovering = {}
  /\ \E w \in Workers : at[w] = "off"
  /\ \A w \in stopSent : at[w] = "off"
  /\ at' = [w \in Workers |-> IF at[w] = "off" THEN "get" ELSE at[w]]
  /\ stopSent' = {w \in stopSent : at[w] # "off"}
  /\ UNCHANGED <<queueVars, goal, on, run, told, recovering, bounds>>

Get(w) ==
  /\ at[w] = "get" /\ w \notin stopSent
  /\ Queue!AcquireSlot(w) \/ \E g \in Goals : Queue!SkipEntry(w, g)
  /\ UNCHANGED <<goal, workerVars, run, told, recovering, bounds>>

PickUp(w, g) ==
  /\ at[w] = "get" /\ w \notin stopSent
  /\ Queue!Claim(w, g)
  /\ at' = [at EXCEPT ![w] = "claimed"] /\ on' = [on EXCEPT ![w] = g]
  /\ UNCHANGED <<goal, stopSent, run, told, recovering, bounds>>

\* The execution task is created and registered; the queue cancels it when the goal
\* was cancelled meanwhile.
BeginRun(w) ==
  /\ at[w] = "claimed"
  /\ Queue!RegisterExecutionTask(on[w], on[w])
  /\ run' = [run EXCEPT ![on[w]] = "new"]
  /\ at' = [at EXCEPT ![w] = "run"]
  /\ UNCHANGED <<goal, on, stopSent, told, recovering, bounds>>

\* _persist_interrupted_goal: pause the goal, leave a final one alone.
Paused(st) == IF st \in Pausable THEN "interrupted" ELSE st

\* The worker was told to stop: an item that is settled or cancelled is left as it is.
AfterStop(g) == IF status[g] \in Queue!Live THEN Paused(goal[g]) ELSE goal[g]

\* The execution task is over and the worker resumes: a run that raised fails its
\* goal, whatever the goal is by then.
AfterRun(w) ==
  LET g == on[w] IN
  IF w \in stopSent THEN AfterStop(g) ELSE IF run[g] = "raised" THEN "failed" ELSE goal[g]

\* A call of the store fails in there: pause_goal of a stopped worker, or get_goal of one
\* whose run was cancelled.  fail_goal follows, which has no condition; when it fails as
\* well, what was written before stays.
CallsStore(w) == IF w \in stopSent THEN status[on[w]] \in Queue!Live
                                   ELSE run[on[w]] \in {"raised", "cancelled"}
AfterFault(w) == {goal[on[w]], AfterRun(w), "failed"}

EndRun(w) ==
  LET g == on[w] IN
  /\ at[w] = "run" /\ run[g] \in RunOver
  /\ \/ Store(g, AfterRun(w)) /\ UNCHANGED bounds
     \/ CallsStore(w) /\ Fault /\ \E st \in AfterFault(w) : Store(g, st)
  /\ at' = [at EXCEPT ![w] = "settling"]
  /\ IF execTask[g] = g THEN Queue!UnregisterExecutionTask(g, g)
                        ELSE UNCHANGED queueVars
  /\ UNCHANGED <<on, stopSent, run, told, recovering>>

Leave(w) == /\ at' = [at EXCEPT ![w] = IF w \in stopSent THEN "off" ELSE "get"]
            /\ on' = [on EXCEPT ![w] = NoGoal]
            /\ UNCHANGED stopSent

\* settle_from_goal takes the store's result instead of a cancellation, or makes
\* the store agree with it.
Overruled(g) == status[g] = "cancelled" /\ goal[g] \in {"done", "failed", "interrupted"}
Transitioned(g) == status[g] \in Queue!Live \/ Overruled(g)
Auth(g) == IF goal[g] \in Queue!Terminal THEN goal[g] ELSE "open"

\* _settle_authoritative_goal, and the start of the terminal notification.
Settle(w) ==
  LET g == on[w] IN
  /\ at[w] = "settling"
  /\ Queue!SettleFromGoal(g, Auth(g), FALSE)
  /\ Store(g, IF status[g] = "cancelled" /\ ~Overruled(g) THEN "cancelled" ELSE goal[g])
  /\ told' = [told EXCEPT ![g] = IF Transitioned(g) /\ goal[g] \in Announced
                                 THEN Append(@, goal[g]) ELSE @]
  /\ Leave(w)
  /\ UNCHANGED <<run, recovering, bounds>>

\* The store fails while it is asked for the result: the exception ends the worker,
\* and the item keeps its slot.
SettleRaises(w) ==
  /\ at[w] = "settling"
  /\ Fault
  /\ at' = [at EXCEPT ![w] = "off"] /\ on' = [on EXCEPT ![w] = NoGoal]
  /\ UNCHANGED <<queueVars, goal, stopSent, run, told, recovering>>

\* stop(): a worker in get() ends at once, a worker that awaits a run passes the
\* cancellation on to it.
StopWorker(w) ==
  /\ at[w] \in {"get", "run"} /\ w \notin stopSent
  /\ stops < MaxStops /\ stops' = stops + 1
  /\ stopSent' = stopSent \cup {w}
  /\ \/ /\ at[w] = "get" /\ at' = [at EXCEPT ![w] = "off"]
        /\ IF w \in waiting THEN Queue!AbortGet(w) ELSE UNCHANGED queueVars
     \/ /\ at[w] = "run" /\ UNCHANGED at
        /\ cancelSent' = IF run[on[w]] \in RunOver THEN cancelSent
                                                   ELSE cancelSent \cup {on[w]}
        /\ UNCHANGED <<status, place, arrivals, heap, finished, active, slots,
                       waiting, unfinished, execTask>>
  /\ UNCHANGED <<goal, on, run, told, recovering, faults>>

-----------------------------------------------------------------------------
\* The execution task: ExecutionEngine.run_goal

RunStarts(g) ==
  /\ run[g] = "new" /\ g \notin cancelSent
  /\ IF goal[g] \in {"pending", "interrupted"}
     THEN Store(g, "running") /\ run' = [run EXCEPT ![g] = "live"]
     ELSE run' = [run EXCEPT ![g] = "ended"] /\ UNCHANGED goal
  /\ UNCHANGED <<queueVars, workerVars, told, recovering, bounds>>

RunEnds(g, st) ==
  /\ run[g] = "live" /\ g \notin cancelSent
  /\ IF goal[g] = "running" THEN Store(g, st) ELSE UNCHANGED goal
  /\ run' = [run EXCEPT ![g] = "ended"]
  /\ UNCHANGED <<queueVars, workerVars, told, recovering, bounds>>

\* The run raises: before its end is written, or when a call of the store after that
\* fails.
RunRaises(g) ==
  /\ run[g] \in {"new", "live"} /\ g \notin cancelSent
  /\ run' = [run EXCEPT ![g] = "raised"]
  /\ \/ UNCHANGED <<goal, bounds>>
     \/ run[g] = "live" /\ goal[g] = "running" /\ Fault /\ \E st \in Outcomes : Store(g, st)
  /\ UNCHANGED <<queueVars, workerVars, told, recovering>>

RunCancelled(g) ==
  /\ run[g] \in {"new", "live"} /\ g \in cancelSent
  /\ run' = [run EXCEPT ![g] = "cancelled"]
  /\ UNCHANGED <<queueVars, goal, workerVars, told, recovering, bounds>>

-----------------------------------------------------------------------------
\* RuntimeManager

HandleMessage(g) ==
  /\ goal[g] = "none" /\ recovering = {}
  /\ Store(g, "pending")
  /\ Queue!Submit(g, 0)
  /\ UNCHANGED <<workerVars, run, told, recovering, bounds>>

\* _align_goal_to_terminal_queue
Aligned(g) ==
  CASE status[g] = "interrupted" -> Paused(goal[g])
    [] status[g] = "cancelled" /\ goal[g] \in Final -> goal[g]
    [] OTHER -> status[g]

CanMark(g, st) == g \notin finished /\ status[g] \in Queue!AllowedFrom(st)

\* Mutant of cancel_goal: the item of a running goal is settled at once.
CancelGoalSettles(g) ==
  /\ goal[g] \notin Final \cup {"none"} /\ recovering = {}
  /\ CanMark(g, "cancelled")
  /\ Queue!MarkTerminal(g, "cancelled") /\ Store(g, "cancelled")
  /\ UNCHANGED <<workerVars, run, told, recovering, bounds>>

\* cancel_goal: a final goal settles its item, a settled item its goal, and a goal
\* that waits or runs is cancelled in the store first and in the queue next.
CancelGoal(g) ==
  /\ goal[g] # "none" /\ recovering = {}
  /\ \/ /\ goal[g] \in Final
        /\ IF CanMark(g, goal[g]) THEN Queue!MarkTerminal(g, goal[g])
                                  ELSE UNCHANGED queueVars
        /\ UNCHANGED goal
     \/ /\ goal[g] \notin Final /\ status[g] = "none"
        /\ Store(g, "cancelled") /\ UNCHANGED queueVars
     \/ /\ goal[g] \notin Final /\ status[g] \in Queue!Terminal
        /\ Store(g, Aligned(g)) /\ UNCHANGED queueVars
     \/ /\ goal[g] \notin Final
        /\ Queue!Cancel(g) /\ Store(g, "cancelled")
  /\ UNCHANGED <<workerVars, run, told, recovering, bounds>>

\* The process ends and a new one starts: queue, workers and runs are gone.
\* recover_goals interrupts the running goals, except those in a step that may not
\* be replayed.
Crash ==
  /\ stops < MaxStops /\ stops' = stops + 1
  /\ status' = NoRuns /\ place' = [g \in Goals |-> <<0, 0>>] /\ arrivals' = 0
  /\ heap' = {} /\ finished' = {} /\ active' = {} /\ slots' = MaxActive
  /\ waiting' = {} /\ unfinished' = 0
  /\ execTask' = [g \in Goals |-> NoGoal] /\ cancelSent' = {}
  /\ at' = AllOff /\ on' = NoWork /\ stopSent' = {} /\ run' = NoRuns
  /\ \E unsafe \in SUBSET {g \in Goals : goal[g] = "running"} :
       /\ goal' = [g \in Goals |-> IF goal[g] = "running" /\ g \notin unsafe
                                   THEN "interrupted" ELSE goal[g]]
       /\ recovering' = {g \in Goals \ unsafe :
                           goal[g] \in {"pending", "running", "interrupted"}}
  /\ UNCHANGED <<told, faults>>

\* One goal of recover_goals: it is submitted, or blocked when its skill is gone.
Recover(g) ==
  /\ g \in recovering /\ recovering' = recovering \ {g}
  /\ \/ Queue!Submit(g, 0) /\ UNCHANGED goal
     \/ Store(g, "blocked") /\ UNCHANGED queueVars
  /\ UNCHANGED <<workerVars, run, told, bounds>>

-----------------------------------------------------------------------------
\* No worker is between two actions of the queue.
Quiet == \A w \in Workers : at[w] \notin {"claimed", "settling"}

Resume(w) == Quiet /\ (Get(w) \/ EndRun(w) \/ \E g \in Goals : PickUp(w, g))
Continue(w) == BeginRun(w) \/ Settle(w) \/ SettleRaises(w)
Work(w) == Resume(w) \/ Continue(w)
Run(g) == Quiet /\ (\/ RunStarts(g) \/ RunRaises(g) \/ RunCancelled(g)
                    \/ \E st \in Outcomes : RunEnds(g, st))

Next == \/ \E w \in Workers : Work(w)
        \/ \E g \in Goals : Run(g)
        \/ Quiet /\ (\/ Start \/ Crash
                     \/ \E w \in Workers : StopWorker(w)
                     \/ \E g \in Goals : HandleMessage(g) \/ CancelGoal(g) \/ Recover(g))

Spec == Init /\ [][Next]_vars

\* Workers and runs make progress: runs are bounded by the engine's timeouts and by
\* max_steps, and the pool is started.
Fairness == /\ WF_vars(Quiet /\ Start)
            /\ \A w \in Workers : WF_vars(Work(w))
            /\ \A g \in Goals : WF_vars(Run(g)) /\ WF_vars(Quiet /\ Recover(g))
FairSpec == Spec /\ Fairness

-----------------------------------------------------------------------------
TypeOK ==
  /\ Queue!TypeOK
  /\ goal \in [Goals -> {"none"} \cup Pausable \cup Final]
  /\ at \in [Workers -> {"off", "get", "claimed", "run", "settling"}]
  /\ on \in [Workers -> Goals \cup {NoGoal}]
  /\ stopSent \subseteq Workers
  /\ run \in [Goals -> {"none", "new", "live"} \cup RunOver]
  /\ told \in [Goals -> Seq(Outcomes)]
  /\ recovering \subseteq Goals
  /\ stops \in 0..MaxStops /\ faults \in 0..MaxFaults

\* A slot of the queue is held for a goal some worker works on, unless a failing
\* store ended that worker: neither a stop in the middle of a run nor a cancel_goal
\* that overtakes the worker leaves a slot behind.
SlotsHaveWorkers ==
  faults = 0 => \A g \in active : \E w \in Workers : on[w] = g

\* No more goals execute than there are slots: a run that nobody cancelled holds the
\* slot of its goal until it is over.
RunsHoldSlots ==
  \A g \in Goals : run[g] \in {"new", "live"} /\ g \notin cancelSent => g \in active

\* Once no worker works on it, a settled item says what the store says.
QueueAgreesWithStore ==
  \A g \in finished :
    faults = 0 /\ (\A w \in Workers : on[w] # g) =>
      goal[g] \in (IF status[g] = "failed" THEN {"failed", "blocked"} ELSE {status[g]})

\* The user is told the end of a goal at most once, and what was told to be done or
\* failed stays so: also over stops, cancellations and restarts.
ToldOnce ==
  \A g \in Goals : /\ Len(told[g]) <= 1
                   /\ told[g] \in {<<"done">>, <<"failed">>} => goal[g] = told[g][1]

\* A settled goal stays so, over cancels, stops, restarts and whatever a worker still
\* has to write; except that fail_goal may write "failed" over a cancel or a result, for
\* a run that raised, or because a call of the store failed while the worker handled
\* the end of the run.
ResultsAreFinal ==
  [][\A g \in Goals : goal[g] \in Final =>
       \/ goal'[g] = goal[g]
       \/ goal'[g] = "failed" /\ (run[g] = "raised" \/ faults' > faults)]_vars

\* Every accepted goal leaves the queue, and a cancelled one gives its slot back,
\* unless the process ends first or a failing store ended a worker.
AllSettled == faults > 0 \/ \A g \in Goals : status[g] # "none" => g \in finished
ItemsSettle == []<>AllSettled

\* Violated: the end of every goal that ends by itself is announced (the historical design's
\* "Worker invokes the terminal callback once").
EveryEndIsTold ==
  \A g \in finished :
    faults = 0 /\ stops = 0 /\ goal[g] \in Announced /\ (\A w \in Workers : on[w] # g)
      => told[g] # <<>>
=============================================================================
