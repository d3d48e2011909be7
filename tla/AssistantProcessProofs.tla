----------------------- MODULE AssistantProcessProofs -----------------------
(***************************************************************************)
(* For every set of goals, workers and messages and every bound on faults  *)
(* and restarts: a goal has one owner, none is lost while the process      *)
(* serves, and the runtime implements GoalLifecycle; the services of the   *)
(* process start and stop in order, and the Lark client's thread has ended *)
(* once its stop says so.                                                  *)
(***************************************************************************)
EXTENDS AssistantProcess, Sequences, TLAPS

\* The queue and the store agree on which goals have an item.
ItemsHaveRows ==
  \A g \in Goals :
    /\ Handling(g) => g \notin recovering /\ queue[g] = "none"
    /\ g \in recovering => queue[g] = "none" /\ db[g] \in Open
    /\ queue[g] = "pending" => db[g] = "PLANNING"
    /\ queue[g] # "none" => db[g] # "absent"

\* What a worker w that holds goal g may rely on.
Holds(w, g) ==
  /\ queue[g] \notin {"none", "pending"}
  /\ db[g] \notin {"absent", "IDLE", "ROUTING"}
  /\ reports[g] = 0
  /\ worker[w].pc \in {"load", "begin", "run", "await", "evaluate", "finish"} =>
       queue[g] = "running"
  /\ worker[w].pc = "run" => db[g] = "EXECUTING"
  /\ worker[w].pc \in {"report", "reportFailure"} => db[g] \in Closed

WorkersHoldGoals ==
  \A w \in Workers :
    /\ worker[w].goal = NoGoal <=> worker[w].pc \in {"get", "gone"}
    /\ worker[w].goal # NoGoal =>
         /\ Holds(w, worker[w].goal)
         /\ \A v \in Workers : worker[v].goal = worker[w].goal => v = w

ReportedAreClosed == \A g \in Goals : reports[g] # 0 => db[g] \in Closed

\* What the process keeps in memory when it is down, and once it has recovered.
PhaseState ==
  /\ phase = "down" => /\ handler = NoHandler /\ queue = EmptyQueue
                       /\ worker = [w \in Workers |-> At("gone")]
  /\ phase # "recovering" => recovering = {}

\* NoGoalIsLost, from the start of the process on.
Kept(g) == \/ Handling(g) \/ g \in recovering \/ queue[g] = "pending"
           \/ \E w \in Workers : worker[w].goal = g /\ worker[w].pc # "dead"
           \/ faults > 0 /\ Stranded(g)
OpenAreKept ==
  phase \in {"recovering", "serving"} =>
    \A g \in Goals : db[g] \in Open => Kept(g)

IInv == /\ TypeOK
        /\ ItemsHaveRows
        /\ WorkersHoldGoals
        /\ ReportedAreClosed
        /\ PhaseState
        /\ OpenAreKept

-----------------------------------------------------------------------------
\* Init establishes the invariant.
LEMMA InitIInv == Init => IInv
<1> SUFFICES ASSUME Init PROVE IInv
  OBVIOUS
<1> USE NoGoalAssumption, BoundsAssumption
<1>1. TypeOK
  BY DEF Init, TypeOK, NoHandler, EmptyQueue, At, WorkerPcs
<1>2. ItemsHaveRows /\ ReportedAreClosed
  BY DEF Init, ItemsHaveRows, ReportedAreClosed, NoHandler, EmptyQueue, Handling
<1>3. WorkersHoldGoals /\ PhaseState /\ OpenAreKept
  BY DEF Init, WorkersHoldGoals, PhaseState, OpenAreKept, At
<1> QED BY <1>1, <1>2, <1>3 DEF IInv

\* A step of worker w about the goal g it holds touches nothing of the other
\* goals, so the invariant follows from what the step leaves on g.
LEMMA WorkerStepIInv ==
  ASSUME IInv, TypeOK', NEW w \in Workers, NEW g \in Goals,
         worker[w].goal = g, phase # "down",
         UNCHANGED <<phase, handler, recovering>>, faults' >= faults,
         \A v \in Workers \ {w} : worker'[v] = worker[v],
         \A h \in Goals \ {g} : /\ db'[h] = db[h]
                                /\ queue'[h] = queue[h]
                                /\ reports'[h] = reports[h],
         worker'[w].goal \in {g, NoGoal},
         worker'[w].goal = NoGoal <=> worker'[w].pc \in {"get", "gone"},
         worker'[w].goal = g => Holds(w, g)',
         db'[g] \notin {"absent", "IDLE", "ROUTING"},
         queue'[g] \notin {"none", "pending"},
         reports'[g] # 0 => db'[g] \in Closed,
         \/ phase = "stopping" \/ db'[g] \notin Open
         \/ worker'[w].goal = g /\ (worker'[w].pc = "dead" => faults' > 0)
  PROVE  IInv'
<1> USE NoGoalAssumption
<1>0. /\ Holds(w, g)
      /\ \A v \in Workers : worker[v].goal = g => v = w
  BY DEF IInv, WorkersHoldGoals
<1>1. ~Handling(g) /\ g \notin recovering
  BY <1>0 DEF IInv, ItemsHaveRows, Holds
<1>2. ItemsHaveRows'
  BY <1>1 DEF IInv, ItemsHaveRows, Handling
<1>3. WorkersHoldGoals'
  <2> SUFFICES ASSUME NEW v \in Workers
               PROVE  /\ worker'[v].goal = NoGoal <=> worker'[v].pc \in {"get", "gone"}
                      /\ worker'[v].goal # NoGoal =>
                           /\ Holds(v, worker[v].goal)'
                           /\ \A u \in Workers :
                                worker'[u].goal = worker'[v].goal => u = v
    BY DEF WorkersHoldGoals
  <2>1. CASE v = w
    BY <2>1, <1>0 DEF IInv, WorkersHoldGoals
  <2>2. CASE v # w
    <3>1. worker'[v] = worker[v]
      BY <2>2
    <3>2. CASE worker[v].goal = NoGoal
      BY <3>1, <3>2 DEF IInv, WorkersHoldGoals
    <3>3. CASE worker[v].goal # NoGoal
      <4>1. worker[v].goal \in Goals \ {g}
        BY <3>3, <2>2, <1>0 DEF IInv, TypeOK
      <4>2. Holds(v, worker[v].goal)
        BY <3>3 DEF IInv, WorkersHoldGoals
      <4>3. Holds(v, worker[v].goal)'
        BY <4>1, <4>2, <3>1 DEF Holds
      <4> QED BY <4>1, <4>3, <3>1 DEF IInv, WorkersHoldGoals
    <3> QED BY <3>2, <3>3
  <2> QED BY <2>1, <2>2
<1>4. ReportedAreClosed'
  BY DEF IInv, ReportedAreClosed
<1>5. PhaseState'
  BY DEF IInv, PhaseState
<1>6. OpenAreKept'
  <2> SUFFICES ASSUME phase' \in {"recovering", "serving"},
                      NEW h \in Goals, db'[h] \in Open
               PROVE  Kept(h)'
    BY DEF OpenAreKept
  <2>1. CASE h = g
    BY <2>1 DEF Kept, Stranded, Executing
  <2>2. CASE h # g
    <3>1. Kept(h)
      BY <2>2 DEF IInv, OpenAreKept
    <3>2. \A v \in Workers : worker[v].goal = h => worker'[v] = worker[v]
      BY <2>2
    <3>3. faults > 0 => faults' > 0
      BY DEF IInv, TypeOK
    <3> QED BY <3>1, <3>2, <3>3, <2>2 DEF Kept, Stranded, Executing, Handling
  <2> QED BY <2>1, <2>2
<1> QED BY <1>2, <1>3, <1>4, <1>5, <1>6 DEF IInv

-----------------------------------------------------------------------------
\* The outcomes of a goal store call keep the types of db and faults; only g moves.
DbType == db \in [Goals -> {"absent"} \cup Open \cup Closed]

\* The outcomes of a goal store call keep the types of db and faults; only g moves, by the
\* transition table.
LEMMA CallOutcomes ==
  ASSUME TypeOK, NEW g \in Goals, NEW st \in Open \cup Closed,
         Works \/ CallRaised \/ Written(g, st) \/ Raised(g, st)
  PROVE  /\ DbType'
         /\ faults' \in 0..MaxFaults /\ faults' >= faults
         /\ \A h \in Goals \ {g} : db'[h] = db[h]
         /\ db'[g] = db[g] \/ (db'[g] = st /\ st \in Allowed(db[g]))
  BY BoundsAssumption
     DEF TypeOK, DbType, Works, CallRaised, Fault, Written, Raised, SetStatus, MayBecome

\* Marking an item moves that item only, and never makes it pending.
LEMMA MarkOutcomes ==
  ASSUME TypeOK, NEW g \in Goals, NEW st \in {"done", "failed", "interrupted"},
         Mark(g, st)
  PROVE  /\ queue' \in [Goals -> {"none", "pending", "running", "done", "failed",
                                  "interrupted"}]
         /\ \A h \in Goals \ {g} : queue'[h] = queue[h]
         /\ queue[g] # "none" => queue'[g] \notin {"none", "pending"}
  BY DEF TypeOK, Mark

\* Status changes of the transition table never reopen a goal.
LEMMA AllowedFacts ==
  /\ \A st \in Closed \cup {"absent"} : Allowed(st) = {}
  /\ \A st \in Open \ {"IDLE"} : "FAILED" \in Allowed(st)
  /\ \A st \in Open : Allowed(st) \subseteq Open \cup Closed
  BY DEF Allowed, Open, Closed

\* Where a step of worker w leaves the workers.
WorkerType == worker \in [Workers -> [pc : WorkerPcs, goal : Goals \cup {NoGoal},
                                      decision : {"none", "done", "other"}]]

\* A worker that goes on keeps its goal, and the others stay where they are.
LEMMA GotoOutcomes ==
  ASSUME TypeOK, NEW w \in Workers, NEW pc \in WorkerPcs, Goto(w, pc)
  PROVE  /\ WorkerType'
         /\ \A v \in Workers \ {w} : worker'[v] = worker[v]
         /\ worker'[w].pc = pc /\ worker'[w].goal = worker[w].goal
  BY DEF TypeOK, WorkerType, Goto

\* A worker that leaves its goal holds none, and the others stay where they are.
LEMMA LeaveOutcomes ==
  ASSUME TypeOK, NEW w \in Workers, NEW pc \in {"get", "gone"}, Leave(w, pc)
  PROVE  /\ WorkerType'
         /\ \A v \in Workers \ {w} : worker'[v] = worker[v]
         /\ worker'[w].pc = pc /\ worker'[w].goal = NoGoal
  BY DEF TypeOK, WorkerType, WorkerPcs, Leave, At

\* A delivery moves the reports of its goal only.
ReportsType == reports \in [Goals -> Nat] /\ reportedAs \in [Goals -> {"none"} \cup Closed]

LEMMA DeliverOutcomes ==
  ASSUME TypeOK, NEW g \in Goals, NEW st \in Closed, Deliver(g, st) \/ UNCHANGED reporting
  PROVE  /\ ReportsType'
         /\ \A h \in Goals \ {g} : reports'[h] = reports[h]
  BY DEF TypeOK, ReportsType, Deliver, reporting

\* take: an item leaves the queue for one idle worker.
LEMMA TakeIInv ==
  ASSUME IInv, NEW w \in Workers, NEW g \in Goals, phase # "stopping", Take(w, g)
  PROVE  IInv'
<1> USE NoGoalAssumption
<1>1. TypeOK'
  BY DEF Take, IInv, TypeOK, WorkerPcs, At, reporting
<1>2. /\ worker[w].goal = NoGoal
      /\ worker' = [worker EXCEPT ![w] = [pc |-> "load", goal |-> g, decision |-> "none"]]
      /\ queue' = [queue EXCEPT ![g] = "running"]
      /\ queue[g] = "pending" /\ db[g] = "PLANNING" /\ reports[g] = 0
      /\ UNCHANGED <<phase, db, handler, recovering, reports, faults>>
  <2>1. worker[w].pc = "get" /\ queue[g] = "pending"
    BY DEF Take
  <2>2. worker[w].goal = NoGoal /\ db[g] = "PLANNING"
    BY <2>1 DEF IInv, ItemsHaveRows, WorkersHoldGoals
  <2>3. reports[g] = 0
    BY <2>2 DEF IInv, ReportedAreClosed, Closed
  <2>4. [At("load") EXCEPT !.goal = g] =
          [pc |-> "load", goal |-> g, decision |-> "none"]
    BY DEF At
  <2> QED BY <2>1, <2>2, <2>3, <2>4 DEF Take, reporting
<1>3. \A v \in Workers : worker[v].goal # g
  BY <1>2 DEF IInv, WorkersHoldGoals, Holds
<1>4. ItemsHaveRows'
  BY <1>2 DEF IInv, TypeOK, ItemsHaveRows, Handling
<1>5. WorkersHoldGoals'
  BY <1>2, <1>3 DEF IInv, TypeOK, WorkersHoldGoals, Holds
<1>6. ReportedAreClosed' /\ PhaseState'
  <2>1. phase # "down"
    BY <1>2 DEF IInv, PhaseState, EmptyQueue
  <2> QED BY <1>2, <2>1 DEF IInv, ReportedAreClosed, PhaseState
<1>7. OpenAreKept'
  <2> SUFFICES ASSUME phase \in {"recovering", "serving"},
                      NEW h \in Goals, db[h] \in Open
               PROVE  Kept(h)'
    BY <1>2 DEF OpenAreKept
  <2>1. CASE h = g
    BY <1>2, <2>1 DEF Kept, IInv, TypeOK
  <2>2. CASE h # g
    BY <1>2, <2>2 DEF IInv, TypeOK, OpenAreKept, Kept, Stranded, Executing, Handling
  <2> QED BY <2>1, <2>2
<1> QED BY <1>1, <1>4, <1>5, <1>6, <1>7 DEF IInv

\* Every step of a worker at its item.
LEMMA ExecuteIInv ==
  ASSUME IInv, NEW w \in Workers, phase # "stopping", Execute(w)
  PROVE  IInv'
<1> USE NoGoalAssumption
<1>1. worker[w].pc \notin {"get", "gone", "dead"}
  BY DEF Execute, Load, Advance, RunGraph, Finish, Report, FailItem, ReportFailure
<1>3. TypeOK
  BY DEF IInv
<1>4. PICK g \in Goals : worker[w].goal = g
  BY <1>1 DEF IInv, TypeOK, WorkersHoldGoals
<1>2. g # NoGoal /\ Holds(w, g) /\ phase # "down"
  BY <1>1, <1>4 DEF IInv, WorkersHoldGoals, PhaseState, At
<1> DEFINE NoReport == UNCHANGED <<phase, handler, recovering, reporting, restarts>>
           QueueType == queue \in [Goals -> {"none", "pending", "running", "done",
                                             "failed", "interrupted"}]
\* A step that keeps g: what it must leave behind.
<1>5. ASSUME NoReport, DbType', QueueType', faults' \in 0..MaxFaults, faults' >= faults,
             \A h \in Goals \ {g} : db'[h] = db[h] /\ queue'[h] = queue[h],
             db'[g] \notin {"absent", "IDLE", "ROUTING"},
             queue'[g] \notin {"none", "pending"},
             NEW pc \in WorkerPcs \ {"get", "gone"}, WorkerType',
             \A v \in Workers \ {w} : worker'[v] = worker[v],
             worker'[w].pc = pc, worker'[w].goal = g,
             pc \in {"load", "begin", "run", "await", "evaluate", "finish"} =>
               queue'[g] = "running",
             pc = "run" => db'[g] = "EXECUTING",
             pc \in {"report", "reportFailure"} => db'[g] \in Closed,
             pc = "dead" => db'[g] \in Closed \/ faults' > 0
      PROVE  IInv'
  <2>1. TypeOK'
    BY <1>5, <1>3 DEF TypeOK, DbType, WorkerType, reporting
  <2>2. Holds(w, g)'
    BY <1>5, <1>2 DEF Holds, reporting
  <2>3. reports' = reports /\ reports[g] = 0
    BY <1>5, <1>2 DEF Holds, reporting
  <2>4. db'[g] \notin Open \/ (pc = "dead" => faults' > 0)
    BY <1>5 DEF Open, Closed
  <2> QED BY <1>5, <1>2, <1>4, <2>1, <2>2, <2>3, <2>4, WorkerStepIInv
<1>6. /\ QueueType /\ DbType /\ faults \in 0..MaxFaults /\ BoundsAssumption
      /\ \A st \in {"done", "failed", "interrupted"} :
           Mark(g, st) => /\ QueueType'
                          /\ \A h \in Goals \ {g} : queue'[h] = queue[h]
                          /\ queue'[g] \notin {"none", "pending"}
  BY <1>2, <1>3, MarkOutcomes, BoundsAssumption DEF TypeOK, DbType, Holds
<1>7. \A pc \in WorkerPcs :
        Goto(w, pc) => /\ WorkerType'
                       /\ \A v \in Workers \ {w} : worker'[v] = worker[v]
                       /\ worker'[w].pc = pc /\ worker'[w].goal = g
  BY <1>3, <1>4, GotoOutcomes
\* Leaving for get() or for good, with the goal closed.
<1>8. ASSUME UNCHANGED <<phase, handler, recovering, restarts>>,
             DbType', QueueType', ReportsType', faults' \in 0..MaxFaults, faults' >= faults,
             UNCHANGED db, db[g] \in Closed,
             \A h \in Goals \ {g} : queue'[h] = queue[h] /\ reports'[h] = reports[h],
             queue'[g] \notin {"none", "pending"},
             Leave(w, "get")
      PROVE  IInv'
  <2>1. /\ WorkerType'
        /\ \A v \in Workers \ {w} : worker'[v] = worker[v]
        /\ worker'[w].pc = "get" /\ worker'[w].goal = NoGoal
    BY <1>8, <1>3, LeaveOutcomes
  <2>2. TypeOK'
    BY <1>8, <1>3, <2>1 DEF TypeOK, DbType, WorkerType, ReportsType
  <2>3. db'[g] \notin Open /\ db'[g] \notin {"absent", "IDLE", "ROUTING"} /\ db'[g] \in Closed
    BY <1>8 DEF Open, Closed
  <2>4. worker'[w].goal # g
    BY <2>1, <1>2
  <2> QED BY <1>8, <1>2, <1>4, <2>1, <2>2, <2>3, <2>4, WorkerStepIInv
\* A status write goes forward from where it is, so g stays past ROUTING.
<1>9. ASSUME NEW st \in {"EXECUTING", "AWAITING_RESULT", "EVALUATING", "DONE", "FAILED"},
             Written(g, st) \/ Raised(g, st) \/ Works \/ CallRaised
      PROVE  /\ DbType' /\ faults' \in 0..MaxFaults /\ faults' >= faults
             /\ \A h \in Goals \ {g} : db'[h] = db[h]
             /\ db'[g] \in {db[g], st}
             /\ db'[g] \notin {"absent", "IDLE", "ROUTING"}
  <2>1. st \in Open \cup Closed
    BY <1>9 DEF Open, Closed
  <2> QED BY <1>2, <1>3, <1>9, <2>1, CallOutcomes DEF Holds
<1> HIDE DEF NoReport, QueueType
<1>10. CASE Load(w)
  <2>1. NoReport /\ worker[w].pc = "load" /\ queue[g] = "running"
    BY <1>10, <1>2, <1>4 DEF Load, NoReport, Holds
  <2>2. CASE Works /\ db[g] \in Open /\ Goto(w, "begin") /\ UNCHANGED queue
    <3>1. UNCHANGED <<db, faults>>
      BY <2>2 DEF Works
    <3>2. "begin" \in WorkerPcs \ {"get", "gone"}
      BY DEF WorkerPcs
    <3> QED BY <2>1, <2>2, <3>1, <3>2, <1>2, <1>5, <1>6, <1>7 DEF DbType, QueueType, Holds
  <2>3. CASE /\ Works /\ db[g] \notin Open /\ Leave(w, "get")
             /\ Mark(g, IF db[g] = "absent" THEN "failed" ELSE "done")
    <3>1. UNCHANGED <<db, faults>> /\ db[g] \in Closed
      BY <2>3, <1>2, <1>6 DEF Works, DbType, Holds
    <3>2. ReportsType' /\ \A h \in Goals \ {g} : reports'[h] = reports[h]
      BY <2>1, <1>3 DEF NoReport, reporting, TypeOK, ReportsType
    <3> QED BY <2>1, <2>3, <3>1, <3>2, <1>6, <1>8 DEF NoReport, DbType
  <2>4. CASE CallRaised /\ Goto(w, "fail") /\ UNCHANGED queue
    <3>1. UNCHANGED db /\ faults' \in 0..MaxFaults /\ faults' >= faults
      BY <2>4, <1>6, BoundsAssumption DEF CallRaised, Fault
    <3>2. "fail" \in WorkerPcs \ {"get", "gone"}
      BY DEF WorkerPcs
    <3> QED BY <2>1, <2>4, <3>1, <3>2, <1>2, <1>5, <1>6, <1>7 DEF DbType, QueueType, Holds
  <2> QED BY <1>10, <1>4, <2>2, <2>3, <2>4 DEF Load
<1>11. ASSUME NEW from \in {"begin", "await", "evaluate"},
              NEW st \in {"EXECUTING", "AWAITING_RESULT", "EVALUATING"},
              NEW to \in {"run", "evaluate", "finish"},
              to = "run" => st = "EXECUTING",
              Advance(w, from, st, to)
       PROVE  IInv'
  <2>1. /\ NoReport /\ UNCHANGED queue /\ queue[g] = "running"
        /\ \/ Written(g, st) /\ Goto(w, to)
           \/ Raised(g, st) /\ Goto(w, "fail")
    BY <1>11, <1>2, <1>4 DEF Advance, NoReport, Holds
  <2>2. Written(g, st) => db'[g] = st
    BY <1>3 DEF Written, SetStatus, TypeOK
  <2>3. to \in WorkerPcs \ {"get", "gone"} /\ "fail" \in WorkerPcs \ {"get", "gone"}
    BY DEF WorkerPcs
  <2>4. CASE Written(g, st) /\ Goto(w, to)
    <3>1. /\ DbType' /\ faults' \in 0..MaxFaults /\ faults' >= faults
          /\ \A h \in Goals \ {g} : db'[h] = db[h]
          /\ db'[g] \notin {"absent", "IDLE", "ROUTING"}
      BY <1>9, <2>4
    <3>2. to = "run" => db'[g] = "EXECUTING"
      BY <1>11, <2>2, <2>4
    <3> QED BY <1>5, <1>6, <1>7, <2>1, <2>3, <2>4, <3>1, <3>2 DEF QueueType
  <2>5. CASE Raised(g, st) /\ Goto(w, "fail")
    <3>1. /\ DbType' /\ faults' \in 0..MaxFaults /\ faults' >= faults
          /\ \A h \in Goals \ {g} : db'[h] = db[h]
          /\ db'[g] \notin {"absent", "IDLE", "ROUTING"}
      BY <1>9, <2>5
    <3> QED BY <1>5, <1>6, <1>7, <2>1, <2>3, <2>5, <3>1 DEF QueueType
  <2> QED BY <2>1, <2>4, <2>5
<1>12. CASE RunGraph(w)
  <2>1. /\ NoReport /\ UNCHANGED <<db, queue, faults>> /\ queue[g] = "running"
        /\ db[g] \notin {"absent", "IDLE", "ROUTING"}
    BY <1>12, <1>2, <1>4 DEF RunGraph, NoReport, Holds
  <2>2. PICK pc \in {"await", "fail"} :
          /\ WorkerType'
          /\ \A v \in Workers \ {w} : worker'[v] = worker[v]
          /\ worker'[w].pc = pc /\ worker'[w].goal = g
    <3>1. CASE Goto(w, "fail")
      BY <3>1, <1>7 DEF WorkerPcs
    <3>2. CASE \E d \in {"done", "other"} :
                 worker' = [worker EXCEPT ![w].pc = "await", ![w].decision = d]
      <4>1. PICK d \in {"done", "other"} :
              worker' = [worker EXCEPT ![w].pc = "await", ![w].decision = d]
        BY <3>2
      <4>2. worker[w] \in [pc : WorkerPcs, goal : Goals \cup {NoGoal},
                           decision : {"none", "done", "other"}]
        BY <1>3 DEF TypeOK
      <4>3. /\ worker'[w] = [pc |-> "await", goal |-> g, decision |-> d]
            /\ \A v \in Workers \ {w} : worker'[v] = worker[v]
            /\ DOMAIN worker' = Workers
        BY <4>1, <4>2, <1>3, <1>4 DEF TypeOK
      <4>4. WorkerType'
        BY <4>1, <4>3, <1>3 DEF TypeOK, WorkerType, WorkerPcs
      <4> QED BY <4>3, <4>4
    <3> QED BY <1>12, <3>1, <3>2 DEF RunGraph
  <2>3. pc \in WorkerPcs \ {"get", "gone"}
    BY DEF WorkerPcs
  <2> QED BY <1>5, <1>6, <2>1, <2>2, <2>3 DEF QueueType, DbType
<1>13. CASE Finish(w)
  <2>1. PICK st \in Closed, q \in {"done", "failed"} :
          /\ NoReport
          /\ \/ Written(g, st) /\ Mark(g, q) /\ Goto(w, "report")
             \/ Raised(g, st) /\ Goto(w, "fail") /\ UNCHANGED queue
    BY <1>13, <1>4 DEF Finish, NoReport, FinalStatus, Closed
  <2>2. Written(g, st) => db'[g] \in Closed
    BY <1>3 DEF Written, SetStatus, TypeOK
  <2>3. /\ st \in {"DONE", "FAILED"} /\ queue[g] \notin {"none", "pending"}
        /\ {"report", "fail"} \subseteq WorkerPcs \ {"get", "gone"}
    BY <1>2 DEF WorkerPcs, Closed, Holds
  <2> QED BY <1>5, <1>6, <1>7, <1>9, <2>1, <2>2, <2>3 DEF QueueType
<1>14. CASE FailItem(w)
  <2>1. /\ NoReport
        /\ \/ GoalFailed(g) /\ Mark(g, "failed") /\ Goto(w, "reportFailure")
           \/ GoalNotFailed(g) /\ Goto(w, "dead") /\ UNCHANGED queue
    BY <1>14, <1>4 DEF FailItem, NoReport
  <2>2. db[g] \in Closed \/ (db[g] \in Open \ {"IDLE"} /\ "FAILED" \in Allowed(db[g]))
    BY <1>2, <1>6, AllowedFacts DEF Holds, DbType
  <2>3. GoalFailed(g) => /\ Works \/ Written(g, "FAILED")
                         /\ db'[g] \in Closed
    BY <1>3, <2>2 DEF GoalFailed, NothingToFail, Works, Written, SetStatus, TypeOK,
                      Open, Closed
  <2>4. GoalNotFailed(g) => /\ CallRaised \/ Raised(g, "FAILED")
                            /\ faults' > 0
    BY <1>3, <2>2, BoundsAssumption
       DEF GoalNotFailed, NothingToFail, CallRaised, Raised, Fault, MayBecome, TypeOK,
           Open, Closed
  <2>5. /\ queue[g] \notin {"none", "pending"}
        /\ {"reportFailure", "dead"} \subseteq WorkerPcs \ {"get", "gone"}
    BY <1>2 DEF WorkerPcs, Holds
  <2>6. CASE GoalFailed(g) /\ Mark(g, "failed") /\ Goto(w, "reportFailure")
    BY <1>5, <1>6, <1>7, <1>9, <2>1, <2>3, <2>5, <2>6
  <2>7. CASE GoalNotFailed(g) /\ Goto(w, "dead") /\ UNCHANGED queue
    BY <1>5, <1>6, <1>7, <1>9, <2>1, <2>4, <2>5, <2>7 DEF QueueType
  <2> QED BY <2>1, <2>6, <2>7
\* The result is delivered, or the push fails, and the worker returns to get().
<1>15. ASSUME worker[w].pc \in {"report", "reportFailure"}, NEW st \in Closed,
              UNCHANGED <<phase, handler, recovering, queue, restarts>>, Notify(w, st)
       PROVE  IInv'
  <2>1. /\ UNCHANGED db /\ faults' \in 0..MaxFaults /\ faults' >= faults
        /\ Deliver(g, st) \/ UNCHANGED reporting
        /\ Leave(w, "get")
    BY <1>4, <1>6, <1>15 DEF Notify, Works, CallRaised, Fault
  <2>2. db[g] \in Closed /\ queue[g] \notin {"none", "pending"}
    BY <1>2, <1>4, <1>15 DEF Holds
  <2>3. ReportsType' /\ \A h \in Goals \ {g} : reports'[h] = reports[h]
    BY <1>3, <2>1, DeliverOutcomes
  <2> QED BY <1>6, <1>8, <1>15, <2>1, <2>2, <2>3 DEF DbType, QueueType
\* Reading the goal for the report fails.
<1>16. ASSUME worker[w].pc \in {"report", "reportFailure"}, NoReport, UNCHANGED queue,
              CallRaised, NEW pc \in {"fail", "dead"}, Goto(w, pc)
       PROVE  IInv'
  <2>1. UNCHANGED db /\ faults' \in 0..MaxFaults /\ faults' >= faults
    BY <1>6, <1>16 DEF CallRaised, Fault
  <2>2. /\ db[g] \in Closed /\ queue[g] \notin {"none", "pending"}
        /\ db[g] \notin {"absent", "IDLE", "ROUTING"}
        /\ pc \in WorkerPcs \ {"get", "gone"}
    BY <1>2, <1>4, <1>16 DEF Holds, WorkerPcs
  <2> QED BY <1>5, <1>6, <1>7, <1>16, <2>1, <2>2 DEF DbType, QueueType
<1>17. CASE Report(w)
  <2>1. FinalStatus(worker[w].decision) \in Closed
    BY DEF FinalStatus, Closed
  <2> QED BY <1>15, <1>16, <1>17, <2>1 DEF Report, NoReport
<1>18. CASE ReportFailure(w)
  BY <1>15, <1>16, <1>18 DEF ReportFailure, NoReport, Closed
<1> QED BY <1>10, <1>11, <1>12, <1>13, <1>14, <1>17, <1>18 DEF Execute

-----------------------------------------------------------------------------
\* A step about a goal no worker holds, by its handler or by recovery.
LEMMA UnheldStepIInv ==
  ASSUME IInv, TypeOK', NEW g \in Goals,
         \A w \in Workers : worker[w].goal # g,
         phase # "down", UNCHANGED <<phase, worker, reports>>, faults' >= faults,
         recovering' \subseteq recovering,
         \A h \in Goals \ {g} : /\ db'[h] = db[h]
                                /\ queue'[h] = queue[h]
                                /\ handler'[h] = handler[h]
                                /\ h \in recovering' <=> h \in recovering,
         Handling(g)' => g \notin recovering' /\ queue'[g] = "none",
         g \in recovering' => queue'[g] = "none" /\ db'[g] \in Open,
         queue'[g] = "pending" => db'[g] = "PLANNING",
         queue'[g] # "none" => db'[g] # "absent",
         reports[g] # 0 => db'[g] \in Closed,
         \/ db'[g] \notin Open
         \/ Handling(g)' \/ queue'[g] = "pending"
         \/ faults' > 0 /\ handler'[g] = "raised"
  PROVE  IInv'
<1> USE NoGoalAssumption
<1>1. ItemsHaveRows'
  BY DEF IInv, ItemsHaveRows, Handling
<1>2. WorkersHoldGoals'
  <2> SUFFICES ASSUME NEW w \in Workers
               PROVE  /\ worker[w].goal = NoGoal <=> worker[w].pc \in {"get", "gone"}
                      /\ worker[w].goal # NoGoal =>
                           /\ Holds(w, worker[w].goal)'
                           /\ \A v \in Workers : worker[v].goal = worker[w].goal => v = w
    BY DEF WorkersHoldGoals
  <2>1. worker[w].goal # NoGoal => worker[w].goal \in Goals \ {g}
    BY DEF IInv, TypeOK
  <2>2. worker[w].goal # NoGoal => Holds(w, worker[w].goal)
    BY DEF IInv, WorkersHoldGoals
  <2>3. worker[w].goal # NoGoal => Holds(w, worker[w].goal)'
    BY <2>1, <2>2 DEF Holds
  <2> QED BY <2>3 DEF IInv, WorkersHoldGoals
<1>3. ReportedAreClosed' /\ PhaseState'
  BY DEF IInv, ReportedAreClosed, PhaseState
<1>4. OpenAreKept'
  <2> SUFFICES ASSUME phase \in {"recovering", "serving"},
                      NEW h \in Goals, db'[h] \in Open
               PROVE  Kept(h)'
    BY DEF OpenAreKept
  <2>1. CASE h = g
    BY <2>1 DEF Kept, Stranded
  <2>2. CASE h # g
    <3>1. Kept(h)
      BY <2>2 DEF IInv, OpenAreKept
    <3>2. faults > 0 => faults' > 0
      BY DEF IInv, TypeOK
    <3> QED BY <3>1, <3>2, <2>2 DEF Kept, Stranded, Executing, Handling
  <2> QED BY <2>1, <2>2
<1> QED BY <1>1, <1>2, <1>3, <1>4 DEF IInv

\* No worker holds a goal that is absent, being accepted or being recovered.
LEMMA Unheld ==
  ASSUME IInv, NEW g \in Goals, db[g] = "absent" \/ queue[g] = "none"
  PROVE  /\ queue[g] = "none"
         /\ \A w \in Workers : worker[w].goal # g
<1>1. queue[g] = "none"
  BY DEF IInv, ItemsHaveRows
<1>2. \A w \in Workers : worker[w].goal # g
  BY <1>1, NoGoalAssumption DEF IInv, WorkersHoldGoals, Holds
<1> QED BY <1>1, <1>2

\* The first call of handle_message.
LEMMA ReceiveIInv ==
  ASSUME IInv, NEW g \in Goals, Receive(g)
  PROVE  IInv'
<1>1. /\ db[g] = "absent" /\ handler[g] = "none" /\ phase # "down"
      /\ UNCHANGED <<phase, recovering, queue, worker, reports, reportedAs, restarts>>
      /\ \/ SetStatus(g, "IDLE") /\ UNCHANGED faults /\ HandlerAt(g, "route")
         \/ Fault /\ HandlerAt(g, "raised") /\ (UNCHANGED db \/ SetStatus(g, "IDLE"))
  BY DEF Receive, reporting, Connected
<1>2. queue[g] = "none" /\ \A w \in Workers : worker[w].goal # g
  BY <1>1, Unheld
<1>3. g \notin recovering /\ reports[g] = 0
  BY <1>1 DEF IInv, ItemsHaveRows, ReportedAreClosed, Open, Closed
<1>4. TypeOK'
  BY <1>1, BoundsAssumption DEF IInv, TypeOK, SetStatus, HandlerAt, Fault, Open
<1>5. /\ faults' >= faults
      /\ \A h \in Goals \ {g} : db'[h] = db[h] /\ handler'[h] = handler[h]
      /\ handler'[g] \in {"route", "raised"}
      /\ handler'[g] = "raised" => faults' > 0
  BY <1>1, BoundsAssumption DEF IInv, TypeOK, SetStatus, HandlerAt, Fault
<1> QED BY <1>1, <1>2, <1>3, <1>4, <1>5, UnheldStepIInv DEF Handling

\* The rest of handle_message.
LEMMA HandleMessageIInv ==
  ASSUME IInv, NEW g \in Goals, HandleMessage(g)
  PROVE  IInv'
<1>1. /\ Handling(g)
      /\ UNCHANGED <<phase, recovering, worker, reports, reportedAs, restarts>>
  BY DEF HandleMessage, Route, Plan, FailMessage, Handling, reporting
<1>2. phase # "down"
  BY <1>1 DEF IInv, PhaseState, NoHandler, Handling
<1>3. queue[g] = "none" /\ g \notin recovering
  BY <1>1 DEF IInv, ItemsHaveRows
<1>4. \A w \in Workers : worker[w].goal # g
  BY <1>3, Unheld
<1>5. /\ TypeOK
      /\ reports[g] # 0 => db[g] \in Closed
  BY DEF IInv, ReportedAreClosed
\* What the store call of the step does.
<1>6. ASSUME NEW st \in Open \cup Closed,
             Works \/ CallRaised \/ Written(g, st) \/ Raised(g, st)
      PROVE  /\ DbType' /\ faults' \in 0..MaxFaults /\ faults' >= faults
             /\ \A h \in Goals \ {g} : db'[h] = db[h]
             /\ db[g] \in Closed => db'[g] = db[g]
  BY <1>5, <1>6, CallOutcomes, AllowedFacts
\* Not accepted: the item is not submitted, and the goal stays with its handler
\* unless it is closed or the fault is counted.
<1>7. ASSUME DbType' /\ faults' \in 0..MaxFaults /\ faults' >= faults,
             \A h \in Goals \ {g} : db'[h] = db[h],
             db[g] \in Closed => db'[g] = db[g],
             UNCHANGED queue,
             NEW pc \in {"route", "plan", "fail", "raised"}, HandlerAt(g, pc),
             pc = "raised" => db'[g] \notin Open \/ faults' > 0
      PROVE  IInv'
  <2>1. /\ TypeOK'
        /\ \A h \in Goals \ {g} : handler'[h] = handler[h]
        /\ handler'[g] = pc
    BY <1>1, <1>5, <1>7 DEF TypeOK, DbType, HandlerAt
  <2>2. reports[g] # 0 => db'[g] \in Closed
    BY <1>5, <1>7
  <2> QED BY <1>1, <1>2, <1>3, <1>4, <1>7, <2>1, <2>2, UnheldStepIInv DEF Handling
<1>8. CASE Route(g)
  <2>1. "ROUTING" \in Open \cup Closed
    BY DEF Open
  <2>2. /\ UNCHANGED queue
        /\ \/ Written(g, "ROUTING") /\ HandlerAt(g, "plan")
           \/ Raised(g, "ROUTING") /\ HandlerAt(g, "fail")
    BY <1>8 DEF Route
  <2> QED BY <1>6, <1>7, <2>1, <2>2
<1>9. CASE Plan(g)
  <2>1. "PLANNING" \in Open \cup Closed
    BY DEF Open
  <2>2. CASE Raised(g, "PLANNING") /\ HandlerAt(g, "fail") /\ UNCHANGED queue
    BY <1>6, <1>7, <2>1, <2>2
  <2>3. CASE /\ Written(g, "PLANNING")
             /\ queue' = [queue EXCEPT ![g] = "pending"]
             /\ HandlerAt(g, "accepted")
    <3>1. /\ DbType' /\ faults' \in 0..MaxFaults /\ faults' >= faults
          /\ \A h \in Goals \ {g} : db'[h] = db[h]
      BY <1>6, <2>1, <2>3
    <3>2. db'[g] = "PLANNING" /\ db[g] \notin Closed
      BY <1>5, <2>3, AllowedFacts
         DEF TypeOK, Written, SetStatus, MayBecome, Closed
    <3>3. /\ TypeOK'
          /\ \A h \in Goals \ {g} : handler'[h] = handler[h] /\ queue'[h] = queue[h]
          /\ handler'[g] = "accepted" /\ queue'[g] = "pending"
      BY <1>1, <1>5, <2>3, <3>1 DEF TypeOK, DbType, HandlerAt
    <3> QED BY <1>1, <1>2, <1>3, <1>4, <1>5, <3>1, <3>2, <3>3, UnheldStepIInv
            DEF Handling
  <2> QED BY <1>9, <2>2, <2>3 DEF Plan
<1>10. CASE FailMessage(g)
  <2>1. /\ UNCHANGED queue /\ handler[g] = "fail"
        /\ \/ GoalRouted(g) /\ UNCHANGED handler
           \/ GoalFailed(g) /\ HandlerAt(g, "raised")
           \/ GoalNotFailed(g) /\ HandlerAt(g, "raised")
    BY <1>10 DEF FailMessage
  <2>2. "ROUTING" \in Open \cup Closed /\ "FAILED" \in Open \cup Closed
    BY DEF Open, Closed
  <2>3. CASE GoalRouted(g) /\ UNCHANGED handler
    <3>1. HandlerAt(g, "fail")
      BY <1>5, <2>1, <2>3 DEF HandlerAt, TypeOK
    <3> QED BY <1>6, <1>7, <2>1, <2>2, <2>3, <3>1 DEF GoalRouted
  <2>4. CASE GoalFailed(g) /\ HandlerAt(g, "raised")
    <3>1. /\ Works \/ Written(g, "FAILED")
          /\ db'[g] \notin Open
      BY <1>5, <2>4
         DEF GoalFailed, NothingToFail, Works, Written, SetStatus, TypeOK, Open, Closed
    <3> QED BY <1>6, <1>7, <2>1, <2>2, <2>4, <3>1
  <2>5. CASE GoalNotFailed(g) /\ HandlerAt(g, "raised")
    <3>1. CASE NothingToFail(g)
      <4>1. CallRaised /\ UNCHANGED db /\ db[g] \notin Open
        BY <2>5, <3>1 DEF GoalNotFailed, NothingToFail, CallRaised, Open, Closed
      <4> QED BY <1>6, <1>7, <2>1, <2>2, <2>5, <4>1
    <3>2. CASE ~NothingToFail(g) /\ db[g] = "IDLE"
      <4>1. Raised(g, "ROUTING") /\ MayBecome(g, "ROUTING")
        BY <2>5, <3>2 DEF GoalNotFailed, MayBecome, Allowed
      <4>2. faults' > 0
        BY <1>5, <4>1 DEF Raised, CallRaised, Fault, TypeOK
      <4> QED BY <1>6, <1>7, <2>1, <2>2, <2>5, <4>1, <4>2
    <3>3. CASE ~NothingToFail(g) /\ db[g] # "IDLE"
      <4>1. Raised(g, "FAILED") /\ MayBecome(g, "FAILED")
        BY <1>5, <2>5, <3>3, AllowedFacts
           DEF GoalNotFailed, MayBecome, NothingToFail, TypeOK
      <4>2. faults' > 0
        BY <1>5, <4>1 DEF Raised, CallRaised, Fault, TypeOK
      <4> QED BY <1>6, <1>7, <2>1, <2>2, <2>5, <4>1, <4>2
    <3> QED BY <3>1, <3>2, <3>3
  <2> QED BY <2>1, <2>3, <2>4, <2>5
<1> QED BY <1>8, <1>9, <1>10 DEF HandleMessage

\* recover_goals requeues one goal.
LEMMA RecoverIInv ==
  ASSUME IInv, NEW g \in Goals, Recover(g)
  PROVE  IInv'
<1>1. /\ phase # "down" /\ g \in recovering
      /\ UNCHANGED <<phase, handler, worker, reports, reportedAs, faults, restarts>>
      /\ recovering' = recovering \ {g}
  BY DEF Recover, reporting
<1>2. queue[g] = "none" /\ db[g] \in Open /\ ~Handling(g)
  BY <1>1 DEF IInv, ItemsHaveRows
<1>3. /\ db' = [db EXCEPT ![g] = "PLANNING"]
      /\ queue' = [queue EXCEPT ![g] = "pending"]
  BY <1>2 DEF Recover, Reset, SetStatus, IInv, TypeOK
<1>4. TypeOK'
  BY <1>1, <1>3 DEF IInv, TypeOK, Open
<1>5. reports[g] = 0
  BY <1>2 DEF IInv, ReportedAreClosed, Open, Closed
<1>6. \A w \in Workers : worker[w].goal # g
  BY <1>2, Unheld
<1>7. /\ db'[g] = "PLANNING" /\ queue'[g] = "pending"
      /\ \A h \in Goals \ {g} : db'[h] = db[h] /\ queue'[h] = queue[h]
      /\ faults' >= faults
  BY <1>1, <1>3 DEF IInv, TypeOK
<1> QED BY <1>1, <1>2, <1>4, <1>5, <1>6, <1>7, UnheldStepIInv DEF Handling

\* The cancellation of a worker by stop().
LEMMA CancelWorkerIInv ==
  ASSUME IInv, NEW w \in Workers, CancelWorker(w)
  PROVE  IInv'
<1> USE NoGoalAssumption
<1>1. /\ phase = "stopping" /\ worker[w].pc # "gone" /\ Leave(w, "gone")
      /\ UNCHANGED <<phase, handler, recovering, faults, restarts>>
      /\ CarriedOut(w) \/ UNCHANGED <<db, reporting>>
      /\ \/ worker[w].pc \in {"get", "dead", "fail", "reportFailure"} /\ UNCHANGED queue
         \/ Mark(worker[w].goal, "interrupted") /\ worker[w].pc # "get"
  BY DEF CancelWorker
<1>2. /\ WorkerType'
      /\ \A v \in Workers \ {w} : worker'[v] = worker[v]
      /\ worker'[w].pc = "gone" /\ worker'[w].goal = NoGoal
  BY <1>1, LeaveOutcomes DEF IInv
<1>3. CASE worker[w].pc = "get"
  <2>1. /\ UNCHANGED <<db, queue, reports, reportedAs>>
    BY <1>1, <1>3 DEF CarriedOut, StatusWrites, Pushes, reporting
  <2>2. TypeOK'
    BY <1>1, <1>2, <2>1 DEF IInv, TypeOK, WorkerType
  <2>3. ItemsHaveRows' /\ ReportedAreClosed' /\ PhaseState' /\ OpenAreKept'
    BY <1>1, <2>1 DEF IInv, ItemsHaveRows, ReportedAreClosed, PhaseState, OpenAreKept,
                      Handling
  <2>4. WorkersHoldGoals'
    BY <1>2, <2>1 DEF IInv, WorkersHoldGoals, Holds
  <2> QED BY <2>2, <2>3, <2>4 DEF IInv
<1>4. CASE worker[w].pc # "get"
  <2>1. PICK g \in Goals : worker[w].goal = g
    BY <1>1, <1>4 DEF IInv, TypeOK, WorkersHoldGoals
  <2>2. Holds(w, g)
    BY <2>1 DEF IInv, WorkersHoldGoals
  <2>3. /\ \A h \in Goals \ {g} : queue'[h] = queue[h]
        /\ queue'[g] \notin {"none", "pending"}
        /\ queue' \in [Goals -> {"none", "pending", "running", "done", "failed",
                                 "interrupted"}]
    BY <1>1, <2>1, <2>2, MarkOutcomes DEF IInv, Holds, TypeOK
  <2>4. /\ DbType' /\ ReportsType'
        /\ \A h \in Goals \ {g} : db'[h] = db[h] /\ reports'[h] = reports[h]
        /\ db'[g] \notin {"absent", "IDLE", "ROUTING"}
        /\ reports'[g] # 0 => db'[g] \in Closed
    <3>1. TypeOK /\ reports[g] = 0
      BY <2>2 DEF IInv, Holds
    <3>2. CASE UNCHANGED <<db, reporting>>
      BY <3>1, <3>2, <2>2 DEF TypeOK, DbType, ReportsType, reporting, Holds
    <3>3. CASE CarriedOut(w)
      <4>1. CASE \E st \in {"EXECUTING", "AWAITING_RESULT", "EVALUATING", "DONE",
                            "FAILED"} : SetStatus(g, st) /\ UNCHANGED reporting
        BY <3>1, <4>1 DEF TypeOK, DbType, ReportsType, reporting, SetStatus, Open, Closed
      <4>2. CASE /\ worker[w].pc \in {"report", "reportFailure"}
                 /\ UNCHANGED db /\ \E st \in Closed : Deliver(g, st)
        BY <2>1, <2>2, <3>1, <4>2, DeliverOutcomes
           DEF TypeOK, DbType, ReportsType, Holds
      <4>3. FinalStatus(worker[w].decision) \in Closed
        BY DEF FinalStatus, Closed
      <4> QED BY <2>1, <3>3, <4>1, <4>2, <4>3
              DEF CarriedOut, StatusWrites, Pushes, Closed
    <3> QED BY <1>1, <3>2, <3>3
  <2>5. TypeOK'
    BY <1>1, <1>2, <2>3, <2>4 DEF IInv, TypeOK, DbType, ReportsType, WorkerType
  <2>6. faults' >= faults /\ g # NoGoal
    BY <1>1 DEF IInv, TypeOK
  <2> QED BY <1>1, <1>2, <2>1, <2>3, <2>4, <2>5, <2>6, WorkerStepIInv
<1> QED BY <1>3, <1>4

\* The steps of the process: what it forgets, the store still has.
LEMMA ForgetIInv ==
  ASSUME IInv, Forget, phase' = "down", UNCHANGED <<reports, reportedAs>>,
         DbType', faults' \in 0..MaxFaults, restarts' \in 0..MaxRestarts,
         \A g \in Goals : db'[g] = db[g] \/ (db[g] \in Open /\ db'[g] \in Open)
  PROVE  IInv'
<1> USE NoGoalAssumption
<1>1. TypeOK'
  BY DEF IInv, TypeOK, DbType, Forget, NoHandler, EmptyQueue, At, WorkerPcs
<1>2. ItemsHaveRows' /\ PhaseState' /\ OpenAreKept'
  BY DEF ItemsHaveRows, PhaseState, OpenAreKept, Forget, NoHandler, EmptyQueue, Handling
<1>3. WorkersHoldGoals'
  BY DEF WorkersHoldGoals, Forget, At
<1>4. ReportedAreClosed'
  BY DEF IInv, ReportedAreClosed, Open, Closed
<1> QED BY <1>1, <1>2, <1>3, <1>4 DEF IInv

\* The steps of the process keep the invariant.
LEMMA ProcessIInv ==
  ASSUME IInv, Boot \/ RecoverRaises \/ Serve \/ Crash \/ Stop \/ Exit
  PROVE  IInv'
<1> USE NoGoalAssumption
<1>0. TypeOK /\ DbType
  BY DEF IInv, TypeOK, DbType
<1>1. CASE Boot
  <2>1. /\ phase = "down" /\ phase' = "recovering"
        /\ worker' = [w \in Workers |-> At("get")]
        /\ recovering' = {g \in Goals : db[g] \in Open}
        /\ UNCHANGED <<db, handler, queue, reports, reportedAs, faults, restarts>>
        /\ handler = NoHandler /\ queue = EmptyQueue
    BY <1>1 DEF Boot, reporting, IInv, PhaseState
  <2>2. TypeOK'
    BY <1>0, <2>1 DEF TypeOK, At, WorkerPcs
  <2>3. ItemsHaveRows' /\ ReportedAreClosed' /\ PhaseState'
    BY <2>1 DEF IInv, ItemsHaveRows, ReportedAreClosed, PhaseState, NoHandler,
                EmptyQueue, Handling
  <2>4. WorkersHoldGoals'
    BY <2>1 DEF WorkersHoldGoals, At
  <2>5. OpenAreKept'
    BY <2>1 DEF OpenAreKept, Kept
  <2> QED BY <2>2, <2>3, <2>4, <2>5 DEF IInv
<1>2. CASE RecoverRaises
  <2>1. /\ Forget /\ phase' = "down" /\ UNCHANGED <<reports, reportedAs, restarts>>
        /\ faults' \in 0..MaxFaults
    BY <1>0, <1>2, BoundsAssumption DEF RecoverRaises, Fault, reporting, TypeOK
  <2>2. /\ DbType'
        /\ \A g \in Goals : db'[g] = db[g] \/ (db[g] \in Open /\ db'[g] \in Open)
    <3>1. CASE UNCHANGED db
      BY <3>1, <1>0 DEF DbType
    <3>2. CASE \E g \in recovering : Reset(g)
      BY <3>2, <1>0 DEF DbType, TypeOK, Reset, SetStatus, Open
    <3> QED BY <1>2, <3>1, <3>2 DEF RecoverRaises
  <2> QED BY <1>0, <2>1, <2>2, ForgetIInv DEF TypeOK
<1>3. CASE Serve
  <2>1. /\ phase = "recovering" /\ recovering = {} /\ phase' = "serving"
        /\ UNCHANGED <<db, handler, recovering, queue, worker, reports, reportedAs,
                       faults, restarts>>
    BY <1>3 DEF Serve, volatile, reporting
  <2>2. TypeOK' /\ ItemsHaveRows' /\ WorkersHoldGoals' /\ ReportedAreClosed'
        /\ PhaseState'
    BY <2>1 DEF IInv, TypeOK, ItemsHaveRows, WorkersHoldGoals, Holds, ReportedAreClosed,
                PhaseState, Handling
  <2>3. OpenAreKept'
    BY <2>1 DEF IInv, OpenAreKept, Kept, Stranded, Executing, Handling
  <2> QED BY <2>2, <2>3 DEF IInv
<1>4. CASE Stop
  <2>1. /\ phase = "serving" /\ phase' = "stopping"
        /\ UNCHANGED <<db, handler, recovering, queue, worker, reports, reportedAs,
                       faults>>
        /\ restarts' \in 0..MaxRestarts
    BY <1>0, <1>4, BoundsAssumption DEF Stop, Restart, volatile, reporting, TypeOK
  <2> QED BY <2>1 DEF IInv, TypeOK, ItemsHaveRows, WorkersHoldGoals, Holds,
                      ReportedAreClosed, PhaseState, OpenAreKept, Handling
<1>5. CASE Crash \/ Exit
  <2>1. /\ Forget /\ phase' = "down" /\ UNCHANGED <<db, reports, reportedAs, faults>>
        /\ restarts' \in 0..MaxRestarts
    BY <1>0, <1>5, BoundsAssumption DEF Crash, Exit, Restart, reporting, TypeOK
  <2> QED BY <1>0, <2>1, ForgetIInv DEF TypeOK, DbType
<1> QED BY <1>1, <1>2, <1>3, <1>4, <1>5

\* Every step, and stuttering, keeps the invariant.
LEMMA NextIInv == IInv /\ [Next]_vars => IInv'
<1> SUFFICES ASSUME IInv, [Next]_vars PROVE IInv'
  OBVIOUS
<1>1. CASE UNCHANGED vars
  BY <1>1 DEF vars, volatile, reporting, IInv, TypeOK, ItemsHaveRows, WorkersHoldGoals,
              Holds, ReportedAreClosed, PhaseState, OpenAreKept, Kept, Stranded,
              Executing, Handling
<1>2. ASSUME NEW g \in Goals, Receive(g) \/ HandleMessage(g) \/ Recover(g)
      PROVE  IInv'
  BY <1>2, ReceiveIInv, HandleMessageIInv, RecoverIInv
<1>3. ASSUME NEW w \in Workers, Work(w) \/ CancelWorker(w)
      PROVE  IInv'
  BY <1>3, TakeIInv, ExecuteIInv, CancelWorkerIInv DEF Work
<1> QED BY <1>1, <1>2, <1>3, ProcessIInv DEF Next

-----------------------------------------------------------------------------
\* The inductive invariant holds in every behaviour.
THEOREM Invariance == Spec => []IInv
<1> QED BY InitIInv, NextIInv, PTL DEF Spec

\* Every variable keeps its type.
THEOREM TypeCorrect == Spec => []TypeOK
<1>1. IInv => TypeOK
  BY DEF IInv
<1> QED BY <1>1, Invariance, PTL

\* A goal is in the hands of one coroutine at a time, for every number of goals,
\* workers, faults and restarts.
THEOREM GoalsHaveOneOwner == Spec => []OneOwner
<1>1. IInv => OneOwner
  <2> SUFFICES ASSUME IInv, NEW g \in Goals,
                      NEW w \in Workers, worker[w].goal = g
               PROVE  /\ Holds(w, g)
                      /\ \A v \in Workers : worker[v].goal = g => v = w
    BY DEF IInv, ItemsHaveRows, OneOwner, Executing, Holds
  <2> QED BY NoGoalAssumption DEF IInv, WorkersHoldGoals
<1> QED BY <1>1, Invariance, PTL

\* The graph, and with it the tools, runs only for goals the store shows as executing.
THEOREM ExecutionIsOwned == Spec => []RunsOnlyExecutingGoals
<1>1. IInv => RunsOnlyExecutingGoals
  BY DEF IInv, WorkersHoldGoals, Holds, RunsOnlyExecutingGoals
<1> QED BY <1>1, Invariance, PTL

\* No open goal is left without someone to carry it on, except where a counted fault
\* stranded it.
THEOREM NothingIsLost == Spec => []NoGoalIsLost
<1>1. IInv => NoGoalIsLost
  BY DEF IInv, NoGoalIsLost, OpenAreKept, Kept, Executing, PhaseState
<1> QED BY <1>1, Invariance, PTL

-----------------------------------------------------------------------------
\* The refinement.  A step moves one goal at most, and moves it forward: it accepts
\* it, keeps it open, settles it, or delivers its first report once it is settled.
Forward(g) ==
  \/ db'[g] = db[g] /\ reports'[g] = reports[g]
  \/ db[g] = "absent" /\ db'[g] \in Open /\ reports'[g] = reports[g]
  \/ db[g] \in Open /\ db'[g] \in Open \cup Closed /\ reports'[g] = reports[g]
  \/ db[g] \in Closed /\ db'[g] = db[g] /\ reports[g] = 0 /\ reports'[g] = 1

Moves(g) == Forward(g) /\ \A h \in Goals \ {g} : db'[h] = db[h] /\ reports'[h] = reports[h]

\* A step that moves one goal forward is a step of the lifecycle, or a stutter.
LEMMA MoveImplements ==
  ASSUME TypeOK, TypeOK', NEW g \in Goals, Moves(g)
  PROVE  [Lifecycle!Next]_(Lifecycle!vars)
<1> DEFINE outcome == [h \in Goals |-> Outcome(h)]
<1>1. /\ outcome \in [Goals -> {"absent", "open", "done", "failed"}]
      /\ outcome' \in [Goals -> {"absent", "open", "done", "failed"}]
      /\ reports \in [Goals -> Nat] /\ reports' \in [Goals -> Nat]
  BY DEF Outcome, TypeOK
<1>2. \A h \in Goals \ {g} : outcome'[h] = outcome[h] /\ reports'[h] = reports[h]
  BY DEF Moves, Outcome
<1>3. /\ db[g] = "absent" <=> outcome[g] = "absent"
      /\ db[g] \in Open <=> outcome[g] = "open"
      /\ db[g] \in Closed <=> outcome[g] \in {"done", "failed"}
  BY DEF TypeOK, Outcome, Open, Closed
<1>4. /\ db'[g] \in Open => outcome'[g] = "open"
      /\ db'[g] \in Closed => outcome'[g] \in {"done", "failed"}
      /\ db'[g] = db[g] => outcome'[g] = outcome[g]
  BY DEF TypeOK, Outcome, Open, Closed
<1> HIDE DEF outcome
<1>5. \/ outcome' = outcome /\ reports' = reports
      \/ /\ outcome[g] = "absent" /\ outcome' = [outcome EXCEPT ![g] = "open"]
         /\ reports' = reports
      \/ /\ outcome[g] = "open" /\ reports' = reports
         /\ \E result \in {"done", "failed"} : outcome' = [outcome EXCEPT ![g] = result]
      \/ /\ outcome[g] \in {"done", "failed"} /\ outcome' = outcome
         /\ reports[g] = 0 /\ reports' = [reports EXCEPT ![g] = 1]
  <2>1. outcome'[g] = outcome[g] => outcome' = outcome
    BY <1>1, <1>2
  <2>2. reports'[g] = reports[g] => reports' = reports
    BY <1>1, <1>2
  <2>3. outcome' = [outcome EXCEPT ![g] = outcome'[g]]
    BY <1>1, <1>2
  <2>4. reports' = [reports EXCEPT ![g] = reports'[g]]
    BY <1>1, <1>2
  <2> QED BY <2>1, <2>2, <2>3, <2>4, <1>3, <1>4 DEF Moves, Forward
<1> QED BY <1>5 DEF outcome, Lifecycle!Next, Lifecycle!vars, Lifecycle!Accept,
                    Lifecycle!Settle, Lifecycle!Report, Lifecycle!Settled

\* A goal store call about g, whatever its outcome, moves g forward.
LEMMA CallMoves ==
  ASSUME TypeOK, NEW g \in Goals, NEW st \in Open \cup Closed, UNCHANGED reports,
         Works \/ CallRaised \/ Written(g, st) \/ Raised(g, st)
  PROVE  Moves(g)
<1>1. /\ \A h \in Goals \ {g} : db'[h] = db[h]
      /\ db'[g] = db[g] \/ (db'[g] = st /\ st \in Allowed(db[g]))
  BY CallOutcomes
<1>2. st \in Allowed(db[g]) => db[g] \in Open
  BY AllowedFacts DEF TypeOK
<1> QED BY <1>1, <1>2 DEF Moves, Forward

\* So does a delivery by the worker that holds g: it is the first.
LEMMA DeliveryMoves ==
  ASSUME TypeOK, NEW g \in Goals, NEW st \in Closed, UNCHANGED db, reports[g] = 0,
         db[g] \in Closed, Deliver(g, st) \/ UNCHANGED reporting
  PROVE  Moves(g)
  BY DEF TypeOK, Deliver, reporting, Moves, Forward

\* A step of a worker moves its goal forward and no other.
LEMMA ExecuteMoves ==
  ASSUME IInv, NEW w \in Workers, Execute(w)
  PROVE  \E g \in Goals : Moves(g)
<1> USE NoGoalAssumption
<1>1. TypeOK /\ worker[w].pc \notin {"get", "gone", "dead"}
  BY DEF IInv, Execute, Load, Advance, RunGraph, Finish, Report, FailItem, ReportFailure
<1>2. PICK g \in Goals : worker[w].goal = g
  BY <1>1 DEF IInv, TypeOK, WorkersHoldGoals
<1>3. Holds(w, g)
  BY <1>2 DEF IInv, WorkersHoldGoals
<1>4. ASSUME NEW st \in Open \cup Closed, UNCHANGED reports,
             Works \/ CallRaised \/ Written(g, st) \/ Raised(g, st)
      PROVE  Moves(g)
  BY <1>1, <1>4, CallMoves
<1>5. CASE Load(w)
  <2>1. (Works \/ CallRaised) /\ UNCHANGED reports
    BY <1>5 DEF Load, reporting
  <2> QED BY <1>4, <2>1 DEF Open
<1>6. ASSUME NEW from, NEW to, NEW st \in Open, Advance(w, from, st, to)
      PROVE  Moves(g)
  <2>1. (Written(g, st) \/ Raised(g, st)) /\ UNCHANGED reports
    BY <1>2, <1>6 DEF Advance, reporting
  <2> QED BY <1>4, <2>1
<1>7. CASE RunGraph(w)
  <2>1. Works /\ UNCHANGED reports
    BY <1>7 DEF RunGraph, Works, reporting
  <2> QED BY <1>4, <2>1 DEF Open
<1>8. CASE Finish(w)
  <2>1. PICK st \in Closed : (Written(g, st) \/ Raised(g, st)) /\ UNCHANGED reports
    BY <1>2, <1>8 DEF Finish, FinalStatus, Closed, reporting
  <2> QED BY <1>4, <2>1
<1>9. CASE FailItem(w)
  <2>1. (GoalFailed(g) \/ GoalNotFailed(g)) /\ UNCHANGED reports
    BY <1>2, <1>9 DEF FailItem, reporting
  <2>2. \E st \in Open \cup Closed : Works \/ CallRaised \/ Written(g, st) \/ Raised(g, st)
    BY <2>1 DEF GoalFailed, GoalNotFailed, Open, Closed
  <2> QED BY <1>4, <2>1, <2>2
<1>10. CASE Report(w) \/ ReportFailure(w)
  <2>1. /\ db[g] \in Closed /\ reports[g] = 0 /\ UNCHANGED db
        /\ \E st \in Closed : Deliver(g, st) \/ UNCHANGED reporting
    BY <1>2, <1>3, <1>10
       DEF Report, ReportFailure, Notify, Works, CallRaised, Holds, FinalStatus, Closed
  <2> QED BY <1>1, <2>1, DeliveryMoves
<1>11. /\ \A from, to : Advance(w, from, "EXECUTING", to) => Moves(g)
       /\ \A from, to : Advance(w, from, "AWAITING_RESULT", to) => Moves(g)
       /\ \A from, to : Advance(w, from, "EVALUATING", to) => Moves(g)
  BY <1>6 DEF Open
<1> QED BY <1>5, <1>7, <1>8, <1>9, <1>10, <1>11 DEF Execute

\* So does a step of the handler or of recovery.
LEMMA HandlerMoves ==
  ASSUME IInv, NEW g \in Goals, Receive(g) \/ HandleMessage(g) \/ Recover(g)
  PROVE  Moves(g)
<1>1. TypeOK
  BY DEF IInv
<1>2. CASE Receive(g)
  BY <1>1, <1>2 DEF Receive, SetStatus, TypeOK, reporting, Moves, Forward, Open
<1>3. CASE Recover(g)
  BY <1>1, <1>3 DEF Recover, Reset, SetStatus, TypeOK, reporting, Moves, Forward, Open
<1>4. CASE HandleMessage(g)
  <2>1. PICK st \in Open \cup Closed :
          /\ UNCHANGED reports
          /\ Works \/ CallRaised \/ Written(g, st) \/ Raised(g, st)
    BY <1>4 DEF HandleMessage, Route, Plan, FailMessage, GoalRouted, GoalFailed,
                GoalNotFailed, reporting, Open, Closed
  <2> QED BY <1>1, <2>1, CallMoves
<1> QED BY <1>2, <1>3, <1>4

\* So does the cancellation of a worker, whether or not its last call was carried out.
LEMMA CancelMoves ==
  ASSUME IInv, NEW w \in Workers, CancelWorker(w)
  PROVE  UNCHANGED <<db, reports>> \/ \E g \in Goals : Moves(g)
<1> USE NoGoalAssumption
<1>1. TypeOK /\ (CarriedOut(w) \/ UNCHANGED <<db, reporting>>)
  BY DEF IInv, CancelWorker
<1>2. CASE UNCHANGED <<db, reporting>>
  BY <1>2 DEF reporting
<1>3. CASE CarriedOut(w)
  <2>1. worker[w].pc \in {"begin", "await", "evaluate", "finish", "fail", "report",
                          "reportFailure"}
    BY <1>3 DEF CarriedOut, StatusWrites, Pushes
  <2>2. PICK g \in Goals : worker[w].goal = g
    BY <1>1, <2>1 DEF IInv, TypeOK, WorkersHoldGoals
  <2>3. Holds(w, g)
    BY <2>2 DEF IInv, WorkersHoldGoals
  <2>4. \/ \E st \in Open \cup Closed :
              MayBecome(g, st) /\ SetStatus(g, st) /\ UNCHANGED reporting
        \/ /\ worker[w].pc \in {"report", "reportFailure"} /\ UNCHANGED db
           /\ \E st \in Closed : Deliver(g, st)
    BY <1>3, <2>2 DEF CarriedOut, StatusWrites, Pushes, FinalStatus, Open, Closed
  <2>5. ASSUME NEW st \in Open \cup Closed, MayBecome(g, st), SetStatus(g, st),
               UNCHANGED reporting
        PROVE  Moves(g)
    <3>1. st \in Allowed(db[g]) => db[g] \in Open
      BY <1>1, AllowedFacts DEF TypeOK
    <3> QED BY <1>1, <2>5, <3>1 DEF MayBecome, SetStatus, TypeOK, reporting, Moves, Forward
  <2> QED BY <1>1, <2>3, <2>4, <2>5, DeliveryMoves DEF Holds
<1> QED BY <1>1, <1>2, <1>3

\* Every step of the runtime is a step of the lifecycle, or a stutter.
LEMMA StepMoves ==
  ASSUME IInv, [Next]_vars
  PROVE  UNCHANGED <<db, reports>> \/ \E g \in Goals : Moves(g)
<1>1. TypeOK
  BY DEF IInv
<1>2. CASE UNCHANGED vars
  BY <1>2 DEF vars, reporting
<1>3. CASE \E g \in Goals : Receive(g) \/ HandleMessage(g) \/ Recover(g)
  BY <1>3, HandlerMoves
<1>4. CASE \E w \in Workers : Work(w) \/ CancelWorker(w)
  BY <1>4, ExecuteMoves, CancelMoves DEF Work, Take, reporting
<1>5. CASE Boot \/ Serve \/ Crash \/ Stop \/ Exit
  BY <1>5 DEF Boot, Serve, Crash, Stop, Exit, reporting
<1>6. CASE RecoverRaises
  <2>1. UNCHANGED reports /\ (UNCHANGED db \/ \E g \in Goals : Reset(g))
    BY <1>1, <1>6 DEF RecoverRaises, reporting, TypeOK
  <2>2. \A g \in Goals : Reset(g) /\ UNCHANGED reports => Moves(g)
    BY <1>1 DEF Reset, SetStatus, TypeOK, Moves, Forward, Open
  <2> QED BY <2>1, <2>2
<1> QED BY <1>2, <1>3, <1>4, <1>5, <1>6 DEF Next

\* For every set of goals and workers, the runtime implements the goal lifecycle: no
\* interleaving of handlers, workers, recovery, faults, crashes and shutdowns
\* reopens a settled goal, changes its outcome or pushes its result twice.
THEOREM Refinement == Spec => ImplementsLifecycle
<1>1. Init => Lifecycle!Init
  BY DEF Init, Lifecycle!Init, Outcome
<1>2. IInv /\ [Next]_vars => [Lifecycle!Next]_(Lifecycle!vars)
  <2> SUFFICES ASSUME IInv, [Next]_vars PROVE [Lifecycle!Next]_(Lifecycle!vars)
    OBVIOUS
  <2>1. TypeOK /\ TypeOK'
    BY NextIInv DEF IInv
  <2>2. CASE UNCHANGED <<db, reports>>
    BY <2>2 DEF Lifecycle!vars, Outcome
  <2>3. CASE \E g \in Goals : Moves(g)
    BY <2>1, <2>3, MoveImplements
  <2> QED BY <2>2, <2>3, StepMoves
<1> QED BY <1>1, <1>2, Invariance, PTL DEF Spec, ImplementsLifecycle, Lifecycle!Spec

-----------------------------------------------------------------------------
\* RuntimeLifecycle

\* The two orders name each service once.
LEMMA StartOrderFacts ==
  /\ Len(Process!StartOrder) = 7
  /\ \A i \in 1..7 : Process!StartOrder[i] \in Process!Services
  /\ \A i, j \in 1..7 : Process!StartOrder[i] = Process!StartOrder[j] => i = j
  /\ \A s \in Process!Services : \E i \in 1..7 : s = Process!StartOrder[i]
  /\ Process!StartOrder[1] = "db" /\ Process!StartOrder[2] = "runtime" /\ Process!StartOrder[5] = "sdk"
BY DEF Process!StartOrder, Process!Services

LEMMA StopOrderFacts ==
  /\ Len(Process!StopOrder) = 7
  /\ \A i \in 1..7 : Process!StopOrder[i] \in Process!Services
  /\ \A i, j \in 1..7 : Process!StopOrder[i] = Process!StopOrder[j] => i = j
  /\ \A s \in Process!Services : \E i \in 1..7 : s = Process!StopOrder[i]
  /\ Process!StopOrder[7] = "db"
BY DEF Process!StopOrder, Process!Services

\* Where a start or a stop stands tells which services run.
ServicesFollow ==
  /\ stage \in {"starting", "crashed"} =>
       \A i \in 1..7 : service[Process!StartOrder[i]] = "off" <=> i >= pos
  /\ stage = "starting" /\ pos > 2 => recovered
  /\ stage \in {"up", "draining", "stopping", "raised"} => service["db"] = "on"
  /\ stage = "stopping" => \A i \in 1..(pos - 1) : service[Process!StopOrder[i]] = "off"
  /\ stage \in {"ended", "exited"} => \A s \in Process!Services \ {"db"} : service[s] = "off"

ProcessInv == /\ Process!TypeOK /\ ServicesFollow /\ Process!RecoveryFirst
              /\ service["sdk"] # "off" => recovered

LEMMA NamedServices ==
  /\ {"db", "runtime", "sdk", "health", "curator"} \subseteq Process!Services
  /\ Process!UsesDb \subseteq Process!Services \ {"db"}
  /\ Process!Background \subseteq Process!Services
  /\ {"db", "sdk"} \cap Process!Background = {}
BY DEF Process!Services, Process!UsesDb, Process!Background

LEMMA InitProcessInv == Process!Init => ProcessInv
<1> SUFFICES ASSUME Process!Init PROVE ProcessInv
  OBVIOUS
<1>1. Process!TypeOK
  <2>1. pos \in 1..Len(Process!StopOrder)
    BY StopOrderFacts DEF Process!Init
  <2>2. request \in [Messages -> {"none", "active", "done", "cancelled"}]
    BY DEF Process!Init
  <2>3. service \in [Process!Services -> {"off", "on", "failed"}]
    BY DEF Process!Init
  <2>4. \A s \in Process!Services : service[s] # "failed"
    BY DEF Process!Init
  <2>5. mishaps \in 0..MaxMishaps
    BY MishapsAssumption DEF Process!Init
  <2> QED
    BY <2>1, <2>2, <2>3, <2>4, <2>5 DEF Process!Init, Process!TypeOK
<1>2. ServicesFollow
  BY StartOrderFacts DEF Process!Init, ServicesFollow
<1> QED
  BY <1>1, <1>2, NamedServices DEF ProcessInv, Process!Init, Process!RecoveryFirst

LEMMA ProcessSafety == ProcessInv => Process!NobodyOutlivesTheDatabase /\ Process!EndedIsStopped
<1> SUFFICES ASSUME ProcessInv PROVE Process!NobodyOutlivesTheDatabase /\ Process!EndedIsStopped
  OBVIOUS
<1>1. Process!EndedIsStopped
  BY DEF ProcessInv, ServicesFollow, Process!EndedIsStopped
<1>2. ASSUME service["db"] = "off", NEW s \in Process!UsesDb PROVE service[s] = "off"
  BY <1>2, StartOrderFacts, StopOrderFacts, NamedServices
     DEF ProcessInv, ServicesFollow, Process!TypeOK
<1> QED
  BY <1>1, <1>2 DEF Process!NobodyOutlivesTheDatabase

\* Each step, by what it does to the services.
LEMMA StepProcessInv == ProcessInv /\ [Process!Next]_processVars => ProcessInv'
<1> SUFFICES ASSUME ProcessInv, [Process!Next]_processVars PROVE ProcessInv'
  OBVIOUS
<1> USE MishapsAssumption, StopOrderFacts
    DEF Process!TypeOK, ProcessInv, ServicesFollow, Process!RecoveryFirst, Process!Turn, Process!Fault
<1>1. CASE Process!Start
  <2>1. \A i \in 1..7 : service'[Process!StartOrder[i]] =
          IF i = pos THEN "on" ELSE service[Process!StartOrder[i]]
    BY <1>1, StartOrderFacts DEF Process!Start
  <2>2. Process!TypeOK'
    BY <1>1, StartOrderFacts DEF Process!Start
  <2>3. stage = "starting" /\ \A i \in 1..7 : service'[Process!StartOrder[i]] = "off" <=> i > pos
    BY <1>1, <2>1 DEF Process!Start
  <2>4. ServicesFollow'
    <3>1. CASE pos = 7
      <4>1. stage' = "up" /\ service'["db"] # "off"
        BY <1>1, <2>3, <3>1, StartOrderFacts DEF Process!Start
      <4>2. service'["db"] = "on"
        BY <2>2, <4>1, NamedServices
      <4> QED
        BY <4>1, <4>2
    <3>2. CASE pos # 7
      <4>1. stage' = "starting" /\ pos' = pos + 1
        BY <1>1, <3>2, StartOrderFacts DEF Process!Start
      <4>3. pos > 2 => recovered'
        BY <1>1 DEF Process!Start
      <4>4. pos = 2 => recovered'
        BY <1>1, StartOrderFacts DEF Process!Start
      <4>2. \A i \in 1..7 : i > pos <=> i >= pos'
        BY <4>1
      <4> QED
        BY <2>3, <4>1, <4>2, <4>3, <4>4
    <3> QED
      BY <3>1, <3>2
  <2>5. service'["sdk"] # "off" => recovered'
    BY <1>1, <2>3, StartOrderFacts DEF Process!Start
  <2> QED
    BY <1>1, <2>2, <2>4, <2>5 DEF Process!Start
<1>2. CASE Process!StartFails
  BY <1>2 DEF Process!StartFails
<1>3. ASSUME NEW m \in Messages, Process!Arrive(m) PROVE ProcessInv'
  BY <1>3 DEF Process!Arrive
<1>4. ASSUME NEW m \in Messages, Process!Finish(m) PROVE ProcessInv'
  BY <1>4, NamedServices, StopOrderFacts DEF Process!Finish
<1>5. ASSUME NEW s \in Process!Background, Process!TaskFails(s) PROVE ProcessInv'
  BY <1>5, StartOrderFacts, StopOrderFacts, NamedServices DEF Process!TaskFails
<1>6. CASE Process!WriteFails
  BY <1>6 DEF Process!WriteFails
<1>13. CASE Process!Connect
  BY <1>13 DEF Process!Connect
<1>14. CASE Process!Disconnect
  BY <1>14 DEF Process!Disconnect
<1>7. CASE Process!Signal \/ Process!Drained \/ Process!DrainRaises
  BY <1>7
     DEF Process!Signal, Process!Drained, Process!DrainRaises, Process!StopBegins, Process!Active
<1>8. CASE Process!DrainTimesOut
  BY <1>8 DEF Process!DrainTimesOut, Process!StopBegins, Process!Active, Process!Cancel
<1>9. CASE Process!Stop
  <2>1. \A i \in 1..7 : service'[Process!StopOrder[i]] =
          IF i = pos THEN "off" ELSE service[Process!StopOrder[i]]
    BY <1>9, StopOrderFacts DEF Process!Stop, Process!Current
  <2>2. Process!TypeOK'
    BY <1>9, StopOrderFacts DEF Process!Stop, Process!Current
  <2>3. stage = "stopping" /\ \A i \in 1..pos : service'[Process!StopOrder[i]] = "off"
    BY <1>9, <2>1 DEF Process!Stop
  <2>4. ServicesFollow'
    <3>1. CASE pos = 7
      <4>1. stage' = "ended"
        BY <1>9, <3>1, StopOrderFacts DEF Process!Stop
      <4>2. \A s \in Process!Services \ {"db"} : service'[s] = "off"
        BY <2>3, <3>1, StopOrderFacts
      <4> QED
        BY <4>1, <4>2
    <3>2. CASE pos # 7
      <4>1. stage' = "stopping" /\ pos' = pos + 1
        BY <1>9, <3>2, StopOrderFacts DEF Process!Stop
      <4>2. service'["db"] = "on"
        <5>1. service'[Process!StopOrder[7]] = service[Process!StopOrder[7]]
          BY <2>1, <3>2
        <5> QED
          BY <2>3, <5>1, StopOrderFacts
      <4>3. \A i \in 1..(pos' - 1) : service'[Process!StopOrder[i]] = "off"
        BY <2>3, <4>1
      <4> QED
        BY <4>1, <4>2, <4>3
    <3> QED
      BY <3>1, <3>2
  <2>5. service'["sdk"] # "off" => service["sdk"] # "off"
    BY <1>9, NamedServices DEF Process!Stop, Process!Current
  <2> QED
    BY <1>9, <2>2, <2>4, <2>5 DEF Process!Stop
<1>10. CASE Process!StopRaises
  BY <1>10 DEF Process!StopRaises
<1>11. CASE Process!Exit
  BY <1>11, StartOrderFacts DEF Process!Exit, Process!Cancel, Process!Active
<1>12. CASE UNCHANGED processVars
  BY <1>12 DEF processVars
<1> QED
  BY <1>1, <1>2, <1>3, <1>4, <1>5, <1>6, <1>7, <1>8, <1>9, <1>10, <1>11, <1>12, <1>13, <1>14
  DEF Process!Next, Process!Main

-----------------------------------------------------------------------------
\* LarkSdkRunner

\* Each state of the connection that waits to be shown differs from the one before.
Alternates(s) == s \in Seq(BOOLEAN) /\ \A i \in 1..(Len(s) - 1) : s[i] # s[i + 1]

\* What was last said of the connection is what the runner takes it for; nothing waits in
\* a closed loop; only a thread that serves has a connection or a shutdown under way.
ClientFollows ==
  /\ marks # <<>> => marks[Len(marks)] = marked
  /\ app = "closed" => marks = <<>>
  /\ thread \notin {"serving", "unwinding"} => ~marked
  /\ shutdown = "cancelling" => thread = "serving"

ThreadTypes == /\ thread \in Client!Threads /\ bound \in BOOLEAN /\ conn \in BOOLEAN
               /\ watch \in {"none", "apart", "together"}
MarkTypes == marked \in BOOLEAN /\ shown \in BOOLEAN
StopTypes ==
  /\ stop \in {"idle", "scheduling", "waiting", "joining", "joining unbound"} \cup Client!StopOver
  /\ app \in {"open", "closed"}
ShutdownTypes == shutdown \in {"none", "queued", "cancelling", "done", "failed", "withdrawn", "lost"}
MsgTypes == msg \in [Msgs -> {"sent", "scheduled", "handled", "ignored"}]
ClientTypes == ThreadTypes /\ MarkTypes /\ StopTypes /\ ShutdownTypes /\ MsgTypes

ClientInv == ClientTypes /\ Alternates(marks) /\ ClientFollows /\ Client!StoppedIsEnded

LEMMA ClientSafety == ClientInv => Client!TypeOK /\ Client!StoppedIsEnded
BY
   DEF ClientInv, ClientTypes, ThreadTypes, MarkTypes, StopTypes, ShutdownTypes, MsgTypes,
       Client!TypeOK, Alternates

LEMMA InitClientInv == Client!Init => ClientInv
<1> SUFFICES ASSUME Client!Init PROVE ClientInv
  OBVIOUS
<1>1. msg \in [Msgs -> {"sent", "scheduled", "handled", "ignored"}]
  BY DEF Client!Init
<1>2. Alternates(marks)
  BY DEF Client!Init, Alternates
<1> QED
  BY <1>1, <1>2
     DEF Client!Init, ClientInv, ClientTypes, ThreadTypes, MarkTypes, StopTypes, ShutdownTypes,
         MsgTypes, ClientFollows, Client!StoppedIsEnded,
                    Client!Threads, Client!StopOver

\* What is said of the connection is appended only when it says something new.
LEMMA MarkFacts ==
  ASSUME ClientInv, NEW b \in BOOLEAN, Client!Mark(b)
  PROVE  /\ marked' = b /\ Alternates(marks')
         /\ marks' # <<>> => marks'[Len(marks')] = b
         /\ app = "closed" => marks' = <<>>
<1>0. Alternates(marks)
  BY DEF ClientInv, ClientTypes
<1>1. CASE marked = b \/ app = "closed"
  BY <1>0, <1>1 DEF ClientInv, ClientFollows, Client!Mark
<1>2. CASE marked # b /\ app # "closed"
  <2>1. marks' = Append(marks, b) /\ marked' = b
    BY <1>2 DEF Client!Mark
  <2>2. marks # <<>> => marks[Len(marks)] # b
    BY <1>2 DEF ClientInv, ClientFollows
  <2>3. /\ marks' \in Seq(BOOLEAN) /\ Len(marks') = Len(marks) + 1 /\ marks'[Len(marks')] = b
        /\ \A i \in 1..Len(marks) : marks'[i] = marks[i]
    BY <1>0, <2>1 DEF Alternates
  <2>4. Alternates(marks')
    BY <1>0, <2>2, <2>3 DEF Alternates
  <2> QED
    BY <1>2, <2>1, <2>3, <2>4
<1> QED
  BY <1>1, <1>2

LEMMA StepClientInv == ClientInv /\ [Client!Next]_clientVars => ClientInv'
<1> SUFFICES ASSUME ClientInv, [Client!Next]_clientVars PROVE ClientInv'
  OBVIOUS
<1>0. /\ ClientTypes /\ Alternates(marks) /\ ClientFollows /\ Client!StoppedIsEnded
      /\ \A b \in BOOLEAN : Client!Mark(b) =>
        /\ marked' = b /\ Alternates(marks')
        /\ marks' # <<>> => marks'[Len(marks')] = b
        /\ app = "closed" => marks' = <<>>
  BY MarkFacts DEF ClientInv
<1> USE DEF Client!Threads, Client!StopOver, Client!client, Client!Stopping, Client!Runs
<1>1. CASE Client!Start \/ Client!Boot \/ Client!Connect \/ Client!Disconnected
  <2>1. ClientTypes'
    <3>1. ThreadTypes'
      BY <1>0, <1>1
         DEF Client!Start, Client!Boot, Client!Connect, Client!Disconnected, ClientTypes, ThreadTypes,
             MarkTypes, StopTypes, ShutdownTypes, MsgTypes
    <3>2. MarkTypes'
      BY <1>0, <1>1
         DEF Client!Start, Client!Boot, Client!Connect, Client!Disconnected, ClientTypes, MarkTypes
    <3>3. StopTypes'
      BY <1>0, <1>1
         DEF Client!Start, Client!Boot, Client!Connect, Client!Disconnected, ClientTypes, StopTypes,
             MarkTypes
    <3>4. ShutdownTypes'
      BY <1>0, <1>1
         DEF Client!Start, Client!Boot, Client!Connect, Client!Disconnected, ClientTypes, ThreadTypes,
             MarkTypes, StopTypes, ShutdownTypes, MsgTypes
    <3>5. MsgTypes'
      BY <1>0, <1>1
         DEF Client!Start, Client!Boot, Client!Connect, Client!Disconnected, ClientTypes, MsgTypes,
             MarkTypes
    <3> QED
      BY <3>1, <3>2, <3>3, <3>4, <3>5 DEF ClientTypes
  <2>2. Alternates(marks)'
    BY <1>0, <1>1 DEF Client!Start, Client!Boot, Client!Connect, Client!Disconnected, Alternates
  <2>4. ClientFollows'
    BY <1>0, <1>1
       DEF Client!Start, Client!Boot, Client!Connect, Client!Disconnected, ClientTypes, MarkTypes,
           ShutdownTypes, ClientFollows
  <2>3. Client!StoppedIsEnded'
    BY <1>0, <1>1
       DEF Client!Start, Client!Boot, Client!Connect, Client!Disconnected, ClientFollows,
           Client!StoppedIsEnded
  <2> QED
    BY <2>1, <2>2, <2>3, <2>4 DEF ClientInv
<1>2. CASE Client!StartFails \/ Client!ShutdownConnecting \/ Client!Ends
  <2>1. ClientTypes'
    <3>1. ThreadTypes'
      BY <1>0, <1>2
         DEF Client!StartFails, Client!ShutdownConnecting, Client!Ends, Client!Unwind, ClientTypes,
             ThreadTypes, MarkTypes, StopTypes, ShutdownTypes, MsgTypes
    <3>2. MarkTypes'
      BY <1>0, <1>2
         DEF Client!StartFails, Client!ShutdownConnecting, Client!Ends, Client!Unwind, ClientTypes,
             MarkTypes
    <3>3. StopTypes'
      BY <1>0, <1>2
         DEF Client!StartFails, Client!ShutdownConnecting, Client!Ends, Client!Unwind, ClientTypes,
             StopTypes, MarkTypes
    <3>4. ShutdownTypes'
      BY <1>0, <1>2
         DEF Client!StartFails, Client!ShutdownConnecting, Client!Ends, Client!Unwind, ClientTypes,
             ThreadTypes, MarkTypes, StopTypes, ShutdownTypes, MsgTypes
    <3>5. MsgTypes'
      BY <1>0, <1>2
         DEF Client!StartFails, Client!ShutdownConnecting, Client!Ends, Client!Unwind, ClientTypes,
             MsgTypes, MarkTypes
    <3> QED
      BY <3>1, <3>2, <3>3, <3>4, <3>5 DEF ClientTypes
  <2>2. Alternates(marks)'
    BY <1>0, <1>2
       DEF Client!StartFails, Client!ShutdownConnecting, Client!Ends, Client!Unwind, Alternates
  <2>4. ClientFollows'
    BY <1>0, <1>2
       DEF Client!StartFails, Client!ShutdownConnecting, Client!Ends, Client!Unwind, ClientTypes,
           MarkTypes, ShutdownTypes, ClientFollows
  <2>3. Client!StoppedIsEnded'
    BY <1>0, <1>2
       DEF Client!StartFails, Client!ShutdownConnecting, Client!Ends, Client!Unwind, ClientFollows,
           Client!StoppedIsEnded
  <2> QED
    BY <2>1, <2>2, <2>3, <2>4 DEF ClientInv
<1>3. CASE Client!Reconnecting \/ Client!Reconnected
  <2>1. ClientTypes'
    <3>1. ThreadTypes'
      BY <1>0, <1>3
         DEF Client!Reconnecting, Client!Reconnected, ClientTypes, ThreadTypes, MarkTypes, StopTypes,
             ShutdownTypes, MsgTypes
    <3>2. MarkTypes'
      BY <1>0, <1>3 DEF Client!Reconnecting, Client!Reconnected, ClientTypes, MarkTypes
    <3>3. StopTypes'
      BY <1>0, <1>3 DEF Client!Reconnecting, Client!Reconnected, ClientTypes, StopTypes, MarkTypes
    <3>4. ShutdownTypes'
      BY <1>0, <1>3
         DEF Client!Reconnecting, Client!Reconnected, ClientTypes, ThreadTypes, MarkTypes, StopTypes,
             ShutdownTypes, MsgTypes
    <3>5. MsgTypes'
      BY <1>0, <1>3 DEF Client!Reconnecting, Client!Reconnected, ClientTypes, MsgTypes, MarkTypes
    <3> QED
      BY <3>1, <3>2, <3>3, <3>4, <3>5 DEF ClientTypes
  <2>2. Alternates(marks)'
    BY <1>0, <1>3 DEF Client!Reconnecting, Client!Reconnected, Alternates
  <2>4. ClientFollows'
    BY <1>0, <1>3
       DEF Client!Reconnecting, Client!Reconnected, ClientTypes, MarkTypes, ShutdownTypes,
           ClientFollows
  <2>3. Client!StoppedIsEnded'
    BY <1>0, <1>3 DEF Client!Reconnecting, Client!Reconnected, ClientFollows, Client!StoppedIsEnded
  <2> QED
    BY <2>1, <2>2, <2>3, <2>4 DEF ClientInv
<1>4. CASE Client!Watch
  <2>1. ClientTypes'
    <3>1. ThreadTypes'
      BY <1>0, <1>4
         DEF Client!Watch, ClientTypes, ThreadTypes, MarkTypes, StopTypes, ShutdownTypes, MsgTypes
    <3>2. MarkTypes'
      BY <1>0, <1>4 DEF Client!Watch, ClientTypes, MarkTypes
    <3>3. StopTypes'
      BY <1>0, <1>4 DEF Client!Watch, ClientTypes, StopTypes, MarkTypes
    <3>4. ShutdownTypes'
      BY <1>0, <1>4
         DEF Client!Watch, ClientTypes, ThreadTypes, MarkTypes, StopTypes, ShutdownTypes, MsgTypes
    <3>5. MsgTypes'
      BY <1>0, <1>4 DEF Client!Watch, ClientTypes, MsgTypes, MarkTypes
    <3> QED
      BY <3>1, <3>2, <3>3, <3>4, <3>5 DEF ClientTypes
  <2>2. Alternates(marks)'
    BY <1>0, <1>4 DEF Client!Watch, Alternates
  <2>4. ClientFollows'
    BY <1>0, <1>4 DEF Client!Watch, ClientTypes, MarkTypes, ShutdownTypes, ClientFollows
  <2>3. Client!StoppedIsEnded'
    BY <1>0, <1>4 DEF Client!Watch, ClientFollows, Client!StoppedIsEnded
  <2> QED
    BY <2>1, <2>2, <2>3, <2>4 DEF ClientInv
<1>5. CASE Client!Marked
  <2>0. /\ shown' \in BOOLEAN /\ Alternates(marks')
        /\ marks' # <<>> => marks'[Len(marks')] = marks[Len(marks)]
        /\ marks # <<>> /\ app # "closed"
    BY <1>0, <1>5 DEF Client!Marked, ClientTypes, MarkTypes, Alternates
  <2>1. ClientTypes'
    <3>1. ThreadTypes'
      BY <1>0, <1>5, <2>0
         DEF Client!Marked, ClientTypes, ThreadTypes, MarkTypes, StopTypes, ShutdownTypes, MsgTypes
    <3>2. MarkTypes'
      BY <1>0, <1>5, <2>0 DEF Client!Marked, ClientTypes, MarkTypes
    <3>3. StopTypes'
      BY <1>0, <1>5, <2>0 DEF Client!Marked, ClientTypes, StopTypes, MarkTypes
    <3>4. ShutdownTypes'
      BY <1>0, <1>5, <2>0
         DEF Client!Marked, ClientTypes, ThreadTypes, MarkTypes, StopTypes, ShutdownTypes, MsgTypes
    <3>5. MsgTypes'
      BY <1>0, <1>5, <2>0 DEF Client!Marked, ClientTypes, MsgTypes, MarkTypes
    <3> QED
      BY <3>1, <3>2, <3>3, <3>4, <3>5 DEF ClientTypes
  <2>2. Alternates(marks)'
    BY <1>0, <1>5, <2>0 DEF Client!Marked, Alternates
  <2>4. ClientFollows'
    BY <1>0, <1>5, <2>0 DEF Client!Marked, ClientTypes, MarkTypes, ShutdownTypes, ClientFollows
  <2>3. Client!StoppedIsEnded'
    BY <1>0, <1>5, <2>0 DEF Client!Marked, ClientFollows, Client!StoppedIsEnded
  <2> QED
    BY <2>1, <2>2, <2>3, <2>4 DEF ClientInv
<1>6. CASE Client!CancelTasks \/ Client!Disconnect
  <2>1. ClientTypes'
    <3>1. ThreadTypes'
      BY <1>0, <1>6
         DEF Client!CancelTasks, Client!Disconnect, ClientTypes, ThreadTypes, MarkTypes, StopTypes,
             ShutdownTypes, MsgTypes
    <3>2. MarkTypes'
      BY <1>0, <1>6 DEF Client!CancelTasks, Client!Disconnect, ClientTypes, MarkTypes
    <3>3. StopTypes'
      BY <1>0, <1>6 DEF Client!CancelTasks, Client!Disconnect, ClientTypes, StopTypes, MarkTypes
    <3>4. ShutdownTypes'
      BY <1>0, <1>6
         DEF Client!CancelTasks, Client!Disconnect, ClientTypes, ThreadTypes, MarkTypes, StopTypes,
             ShutdownTypes, MsgTypes
    <3>5. MsgTypes'
      BY <1>0, <1>6 DEF Client!CancelTasks, Client!Disconnect, ClientTypes, MsgTypes, MarkTypes
    <3> QED
      BY <3>1, <3>2, <3>3, <3>4, <3>5 DEF ClientTypes
  <2>2. Alternates(marks)'
    BY <1>0, <1>6 DEF Client!CancelTasks, Client!Disconnect, Alternates
  <2>4. ClientFollows'
    BY <1>0, <1>6
       DEF Client!CancelTasks, Client!Disconnect, ClientTypes, MarkTypes, ShutdownTypes, ClientFollows
  <2>3. Client!StoppedIsEnded'
    BY <1>0, <1>6 DEF Client!CancelTasks, Client!Disconnect, ClientFollows, Client!StoppedIsEnded
  <2> QED
    BY <2>1, <2>2, <2>3, <2>4 DEF ClientInv
<1>7. CASE Client!Stop
  <2>1. ClientTypes'
    <3>1. ThreadTypes'
      BY <1>0, <1>7
         DEF Client!Stop, ClientTypes, ThreadTypes, MarkTypes, StopTypes, ShutdownTypes, MsgTypes
    <3>2. MarkTypes'
      BY <1>0, <1>7 DEF Client!Stop, ClientTypes, MarkTypes
    <3>3. StopTypes'
      BY <1>0, <1>7 DEF Client!Stop, ClientTypes, StopTypes, MarkTypes
    <3>4. ShutdownTypes'
      BY <1>0, <1>7
         DEF Client!Stop, ClientTypes, ThreadTypes, MarkTypes, StopTypes, ShutdownTypes, MsgTypes
    <3>5. MsgTypes'
      BY <1>0, <1>7 DEF Client!Stop, ClientTypes, MsgTypes, MarkTypes
    <3> QED
      BY <3>1, <3>2, <3>3, <3>4, <3>5 DEF ClientTypes
  <2>2. Alternates(marks)'
    BY <1>0, <1>7 DEF Client!Stop, Alternates
  <2>4. ClientFollows'
    BY <1>0, <1>7 DEF Client!Stop, ClientTypes, MarkTypes, ShutdownTypes, ClientFollows
  <2>3. Client!StoppedIsEnded'
    BY <1>0, <1>7 DEF Client!Stop, ClientFollows, Client!StoppedIsEnded
  <2> QED
    BY <2>1, <2>2, <2>3, <2>4 DEF ClientInv
<1>8. CASE Client!StopGoesOn
  <2>1. ClientTypes'
    <3>1. ThreadTypes'
      BY <1>0, <1>8
         DEF Client!StopGoesOn, Client!Schedule, Client!ShutdownEnds, Client!ShutdownTimesOut,
             Client!Joined, Client!JoinTimesOut, ClientTypes, ThreadTypes, MarkTypes, StopTypes,
             ShutdownTypes, MsgTypes
    <3>2. MarkTypes'
      BY <1>0, <1>8
         DEF Client!StopGoesOn, Client!Schedule, Client!ShutdownEnds, Client!ShutdownTimesOut,
             Client!Joined, Client!JoinTimesOut, ClientTypes, MarkTypes
    <3>3. StopTypes'
      BY <1>0, <1>8
         DEF Client!StopGoesOn, Client!Schedule, Client!ShutdownEnds, Client!ShutdownTimesOut,
             Client!Joined, Client!JoinTimesOut, ClientTypes, StopTypes, MarkTypes
    <3>4. ShutdownTypes'
      BY <1>0, <1>8
         DEF Client!StopGoesOn, Client!Schedule, Client!ShutdownEnds, Client!ShutdownTimesOut,
             Client!Joined, Client!JoinTimesOut, ClientTypes, ThreadTypes, MarkTypes, StopTypes,
             ShutdownTypes, MsgTypes
    <3>5. MsgTypes'
      BY <1>0, <1>8
         DEF Client!StopGoesOn, Client!Schedule, Client!ShutdownEnds, Client!ShutdownTimesOut,
             Client!Joined, Client!JoinTimesOut, ClientTypes, MsgTypes, MarkTypes
    <3> QED
      BY <3>1, <3>2, <3>3, <3>4, <3>5 DEF ClientTypes
  <2>2. Alternates(marks)'
    BY <1>0, <1>8
       DEF Client!StopGoesOn, Client!Schedule, Client!ShutdownEnds, Client!ShutdownTimesOut,
           Client!Joined, Client!JoinTimesOut, Alternates
  <2>4. ClientFollows'
    <3>1. /\ UNCHANGED <<thread, marked, marks, app>>
          /\ shutdown' \in {shutdown, "queued", "withdrawn", "failed"}
      BY <1>8
         DEF Client!StopGoesOn, Client!Schedule, Client!ShutdownEnds, Client!ShutdownTimesOut,
             Client!Joined, Client!JoinTimesOut
    <3> QED
      BY <1>0, <3>1 DEF ClientFollows
  <2>3. Client!StoppedIsEnded'
    BY <1>0, <1>8
       DEF Client!StopGoesOn, Client!Schedule, Client!ShutdownEnds, Client!ShutdownTimesOut,
           Client!Joined, Client!JoinTimesOut, ClientFollows, Client!StoppedIsEnded
  <2> QED
    BY <2>1, <2>2, <2>3, <2>4 DEF ClientInv
<1>9. CASE Client!AppCloses
  <2>0. Alternates(marks')
    <3>1. marks' = <<>>
      BY <1>9 DEF Client!AppCloses
    <3> QED
      BY <3>1 DEF Alternates
  <2>1. ClientTypes'
    <3>1. ThreadTypes'
      BY <1>0, <1>9, <2>0
         DEF Client!AppCloses, ClientTypes, ThreadTypes, MarkTypes, StopTypes, ShutdownTypes, MsgTypes
    <3>2. MarkTypes'
      BY <1>0, <1>9, <2>0 DEF Client!AppCloses, ClientTypes, MarkTypes
    <3>3. StopTypes'
      BY <1>0, <1>9, <2>0 DEF Client!AppCloses, ClientTypes, StopTypes, MarkTypes
    <3>4. ShutdownTypes'
      BY <1>0, <1>9, <2>0
         DEF Client!AppCloses, ClientTypes, ThreadTypes, MarkTypes, StopTypes, ShutdownTypes, MsgTypes
    <3>5. MsgTypes'
      BY <1>0, <1>9, <2>0 DEF Client!AppCloses, ClientTypes, MsgTypes, MarkTypes
    <3> QED
      BY <3>1, <3>2, <3>3, <3>4, <3>5 DEF ClientTypes
  <2>2. Alternates(marks)'
    BY <1>0, <1>9, <2>0 DEF Client!AppCloses, Alternates
  <2>4. ClientFollows'
    BY <1>0, <1>9, <2>0 DEF Client!AppCloses, ClientTypes, MarkTypes, ShutdownTypes, ClientFollows
  <2>3. Client!StoppedIsEnded'
    BY <1>0, <1>9, <2>0 DEF Client!AppCloses, ClientFollows, Client!StoppedIsEnded
  <2> QED
    BY <2>1, <2>2, <2>3, <2>4 DEF ClientInv
<1>10. ASSUME NEW m \in Msgs, Client!Receive(m) \/ Client!Handle(m) PROVE ClientInv'
  <2>1. ClientTypes'
    <3>1. ThreadTypes'
      BY <1>0, <1>10
         DEF Client!Receive, Client!Handle, ClientTypes, ThreadTypes, MarkTypes, StopTypes,
             ShutdownTypes, MsgTypes
    <3>2. MarkTypes'
      BY <1>0, <1>10 DEF Client!Receive, Client!Handle, ClientTypes, MarkTypes
    <3>3. StopTypes'
      BY <1>0, <1>10 DEF Client!Receive, Client!Handle, ClientTypes, StopTypes, MarkTypes
    <3>4. ShutdownTypes'
      BY <1>0, <1>10
         DEF Client!Receive, Client!Handle, ClientTypes, ThreadTypes, MarkTypes, StopTypes,
             ShutdownTypes, MsgTypes
    <3>5. MsgTypes'
      BY <1>0, <1>10 DEF Client!Receive, Client!Handle, ClientTypes, MsgTypes, MarkTypes
    <3> QED
      BY <3>1, <3>2, <3>3, <3>4, <3>5 DEF ClientTypes
  <2>2. Alternates(marks)'
    BY <1>0, <1>10 DEF Client!Receive, Client!Handle, Alternates
  <2>4. ClientFollows'
    BY <1>0, <1>10
       DEF Client!Receive, Client!Handle, ClientTypes, MarkTypes, ShutdownTypes, ClientFollows
  <2>3. Client!StoppedIsEnded'
    BY <1>0, <1>10 DEF Client!Receive, Client!Handle, ClientFollows, Client!StoppedIsEnded
  <2> QED
    BY <2>1, <2>2, <2>3, <2>4 DEF ClientInv
<1>11. CASE UNCHANGED clientVars
  <2>1. ClientTypes'
    <3>1. ThreadTypes'
      BY <1>0, <1>11
         DEF clientVars, ClientTypes, ThreadTypes, MarkTypes, StopTypes, ShutdownTypes, MsgTypes
    <3>2. MarkTypes'
      BY <1>0, <1>11 DEF clientVars, ClientTypes, MarkTypes
    <3>3. StopTypes'
      BY <1>0, <1>11 DEF clientVars, ClientTypes, StopTypes, MarkTypes
    <3>4. ShutdownTypes'
      BY <1>0, <1>11
         DEF clientVars, ClientTypes, ThreadTypes, MarkTypes, StopTypes, ShutdownTypes, MsgTypes
    <3>5. MsgTypes'
      BY <1>0, <1>11 DEF clientVars, ClientTypes, MsgTypes, MarkTypes
    <3> QED
      BY <3>1, <3>2, <3>3, <3>4, <3>5 DEF ClientTypes
  <2>2. Alternates(marks)'
    BY <1>0, <1>11 DEF clientVars, Alternates
  <2>4. ClientFollows'
    BY <1>0, <1>11 DEF clientVars, ClientTypes, MarkTypes, ShutdownTypes, ClientFollows
  <2>3. Client!StoppedIsEnded'
    BY <1>0, <1>11 DEF clientVars, ClientFollows, Client!StoppedIsEnded
  <2> QED
    BY <2>1, <2>2, <2>3, <2>4 DEF ClientInv
<1> QED
  BY <1>1, <1>2, <1>3, <1>4, <1>5, <1>6, <1>7, <1>8, <1>9, <1>10, <1>11
  DEF Client!Next, Client!Starts, Client!Shutdown

-----------------------------------------------------------------------------
\* The steps of AssistantProcess are the steps of its parts.
LEMMA JointStepOfProcess == [JointNext]_jointVars => [Process!Next]_processVars
BY DEF JointNext, jointVars, processVars

LEMMA JointStepOfClient == [JointNext]_jointVars => [Client!Next]_clientVars
BY DEF JointNext, jointVars, clientVars

\* For any number of messages and mishaps: recovery precedes the first message, no service
\* that uses the database runs while it is closed, a stop that gets through has stopped
\* every service, and a stop of the Lark runner that says so has ended its thread.
THEOREM StartAndStopInOrder == JointSpec => []ServicesInOrder
<1>1. ProcessInv /\ ClientInv => ServicesInOrder
  BY ProcessSafety, ClientSafety DEF ProcessInv, ServicesInOrder
<1>2. JointInit => ProcessInv /\ ClientInv
  BY InitProcessInv, InitClientInv DEF JointInit
<1>3. ProcessInv /\ ClientInv /\ [JointNext]_jointVars => ProcessInv' /\ ClientInv'
  BY StepProcessInv, StepClientInv, JointStepOfProcess, JointStepOfClient
<1> QED
  BY <1>1, <1>2, <1>3, PTL DEF JointSpec

\* The parts run as their own specifications say: what is proved of a part holds of the
\* whole, and the other parts' steps are stutters of it.
THEOREM EachPartBehaves == JointSpec => Spec /\ Process!Spec /\ Client!Spec
<1>1. JointInit => Init /\ Process!Init /\ Client!Init
  BY DEF JointInit
<1>2. [JointNext]_jointVars => [Next]_vars
  BY DEF JointNext, jointVars, clientVars, processVars
<1>3. [JointNext]_jointVars => [Process!Next]_(Process!vars)
  BY DEF JointNext, jointVars, clientVars, processVars, Process!vars
<1>4. [JointNext]_jointVars => [Client!Next]_(Client!vars)
  BY DEF JointNext, jointVars, clientVars, processVars, Client!vars, Client!client
<1> QED
  BY <1>1, <1>2, <1>3, <1>4, PTL DEF JointSpec, Spec, Process!Spec, Client!Spec
=============================================================================
