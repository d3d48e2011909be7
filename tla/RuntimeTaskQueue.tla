---------------------------- MODULE RuntimeTaskQueue ----------------------------
(***************************************************************************)
(* The in-process Goal queue of runtime/task_queue.py.                     *)
(*                                                                         *)
(* Every method of RuntimeTaskQueue is one action.  All of them run on one *)
(* event loop and none suspends inside `async with self._lock` (the heap   *)
(* is unbounded, so its put never blocks), so a locked section is atomic.  *)
(* The only method that suspends is get(): once for a slot, once for a     *)
(* heap entry, and it is split into those two steps.  `waiting` is the set *)
(* of consumers that hold a slot and have no item yet.                     *)
(*                                                                         *)
(* The callers are unconstrained: any method may be called for any goal at *)
(* any time, which covers GraphRuntime, RuntimeWorker and RuntimeManager.  *)
(***************************************************************************)
EXTENDS Integers, FiniteSets

CONSTANTS Goals,       \* goal ids
          Consumers,   \* tasks that call get()
          Tasks,       \* asyncio execution tasks registered with the queue
          NoTask,      \* no execution task registered
          MaxActive,   \* max_active, the number of slots
          Priorities   \* priorities used by the callers

ASSUME MaxActiveAssumption == MaxActive \in Nat \ {0}
ASSUME PrioritiesAssumption == Priorities \subseteq Nat
ASSUME NoTaskAssumption == NoTask \notin Tasks

VARIABLES status,      \* _items[g].status, "none" before submit
          place,       \* heap key of g: its priority and its arrival number
          arrivals,    \* number of items created, the clock of created_at
          heap,        \* goals with an entry in _queue
          finished,    \* _finished_tasks
          active,      \* _active_slots
          slots,       \* free permits of the _slots semaphore
          waiting,     \* consumers inside get() that hold a permit
          unfinished,  \* asyncio.Queue's count of entries without task_done()
          execTask,    \* _execution_tasks
          cancelSent   \* execution tasks on which cancel() was called

slotVars == <<finished, active, slots, unfinished>>
vars == <<status, place, arrivals, heap, slotVars, waiting, execTask, cancelSent>>

Terminal == {"done", "failed", "interrupted", "cancelled"}
Live == {"pending", "running"}
Statuses == {"none"} \cup Live \cup Terminal
Submitted == {g \in Goals : status[g] # "none"}

Init ==
  /\ status = [g \in Goals |-> "none"]
  /\ place = [g \in Goals |-> <<0, 0>>]
  /\ arrivals = 0
  /\ heap = {}
  /\ finished = {}
  /\ active = {}
  /\ slots = MaxActive
  /\ waiting = {}
  /\ unfinished = 0
  /\ execTask = [g \in Goals |-> NoTask]
  /\ cancelSent = {}

-----------------------------------------------------------------------------

\* Mutant of _finish_task: it settles claimed entries only.
FinishTaskIfClaimed(g) ==
  IF g \in finished
  THEN UNCHANGED slotVars
  ELSE /\ finished' = finished \cup {g}
       /\ active' = active \ {g}
       /\ slots' = IF g \in active THEN slots + 1 ELSE slots
       /\ unfinished' = IF g \in active THEN unfinished - 1 ELSE unfinished

\* _finish_task: settle the heap entry of g once and free the slot g uses.
FinishTask(g) ==
  IF g \in finished
  THEN UNCHANGED slotVars
  ELSE /\ finished' = finished \cup {g}
       /\ active' = active \ {g}
       /\ slots' = IF g \in active THEN slots + 1 ELSE slots
       /\ unfinished' = unfinished - 1

\* submit of a new goal.  An item that exists is returned as it is, or the call
\* raises: neither changes the queue.
Submit(g, p) ==
  /\ status[g] = "none"
  /\ status' = [status EXCEPT ![g] = "pending"]
  /\ place' = [place EXCEPT ![g] = <<p, arrivals>>]
  /\ arrivals' = arrivals + 1
  /\ heap' = heap \cup {g}
  /\ unfinished' = unfinished + 1
  /\ UNCHANGED <<finished, active, slots, waiting, execTask, cancelSent>>

Before(g, h) == \/ place[g][1] < place[h][1]
                \/ place[g][1] = place[h][1] /\ place[g][2] < place[h][2]
IsFirst(g) == g \in heap /\ \A h \in heap \ {g} : Before(g, h)

\* get(), first wait: a permit of the semaphore.
AcquireSlot(c) ==
  /\ c \notin waiting
  /\ slots > 0
  /\ slots' = slots - 1
  /\ waiting' = waiting \cup {c}
  /\ UNCHANGED <<status, place, arrivals, heap, finished, active, unfinished,
                 execTask, cancelSent>>

\* get(), second wait ended with the entry of an item that is still pending.
Claim(c, g) ==
  /\ c \in waiting
  /\ IsFirst(g)
  /\ status[g] = "pending"
  /\ heap' = heap \ {g}
  /\ status' = [status EXCEPT ![g] = "running"]
  /\ active' = active \cup {g}
  /\ waiting' = waiting \ {c}
  /\ UNCHANGED <<place, arrivals, finished, slots, unfinished, execTask,
                 cancelSent>>

\* Mutant: get() drops the entry it finds, whatever the status of its item.
SkipAnyEntry(c, g) ==
  /\ c \in waiting
  /\ IsFirst(g)
  /\ heap' = heap \ {g}
  /\ FinishTask(g)
  /\ UNCHANGED <<status, place, arrivals, waiting, execTask, cancelSent>>

\* get(), second wait ended with an entry that was settled meanwhile: get() loops.
SkipEntry(c, g) ==
  /\ c \in waiting
  /\ IsFirst(g)
  /\ status[g] # "pending"
  /\ heap' = heap \ {g}
  /\ FinishTask(g)
  /\ UNCHANGED <<status, place, arrivals, waiting, execTask, cancelSent>>

\* Mutant: the permit of an aborted get() is not given back.
AbortGetKeepsPermit(c) ==
  /\ c \in waiting
  /\ waiting' = waiting \ {c}
  /\ UNCHANGED <<status, place, arrivals, heap, finished, active, slots, unfinished,
                 execTask, cancelSent>>

\* The consumer is cancelled while it waits for an entry: `finally` gives the
\* permit back.
AbortGet(c) ==
  /\ c \in waiting
  /\ waiting' = waiting \ {c}
  /\ slots' = slots + 1
  /\ UNCHANGED <<status, place, arrivals, heap, finished, active, unfinished,
                 execTask, cancelSent>>

-----------------------------------------------------------------------------
\* mark_done, mark_failed, mark_interrupted and mark_cancelled.
AllowedFrom(st) == IF st = "cancelled" THEN Live \cup {"cancelled"} ELSE Live

MarkTerminal(g, st) ==
  /\ g \notin finished
  /\ status[g] \in AllowedFrom(st)
  /\ status' = [status EXCEPT ![g] = st]
  /\ FinishTask(g)
  /\ UNCHANGED <<place, arrivals, heap, waiting, execTask, cancelSent>>

\* Mutants of cancel: a pending item is left to its worker as well; an item that is
\* settled can be cancelled.
CancelLeavesPending(g) ==
  /\ status[g] \in Live
  /\ status' = [status EXCEPT ![g] = "cancelled"]
  /\ cancelSent' = cancelSent \cup ({execTask[g]} \ {NoTask})
  /\ UNCHANGED <<slotVars, place, arrivals, heap, waiting, execTask>>

CancelAny(g) ==
  /\ status[g] # "none"
  /\ status' = [status EXCEPT ![g] = "cancelled"]
  /\ cancelSent' = cancelSent \cup ({execTask[g]} \ {NoTask})
  /\ IF status[g] = "pending" THEN FinishTask(g) ELSE UNCHANGED slotVars
  /\ UNCHANGED <<place, arrivals, heap, waiting, execTask>>

\* cancel: a pending item is settled at once, a running one keeps its slot until
\* its worker settles it; the registered execution task is cancelled.
Cancel(g) ==
  /\ status[g] \in Live
  /\ status' = [status EXCEPT ![g] = "cancelled"]
  /\ cancelSent' = cancelSent \cup ({execTask[g]} \ {NoTask})
  /\ IF status[g] = "pending" THEN FinishTask(g) ELSE UNCHANGED slotVars
  /\ UNCHANGED <<place, arrivals, heap, waiting, execTask>>

\* The status settle_from_goal leaves on an item of status `old` when the goal
\* store says `auth` ("open" is any status that is not a queue status).
SettledStatus(old, auth, cancelledIsAuthoritative) ==
  CASE old = "cancelled" ->
         IF ~cancelledIsAuthoritative /\ auth \in Terminal \ {"cancelled"}
         THEN auth ELSE "cancelled"
    [] old \in Live -> IF auth \in Terminal THEN auth ELSE "failed"
    [] OTHER -> old

SettleFromGoal(g, auth, cancelledIsAuthoritative) ==
  /\ status[g] # "none"
  /\ status' = [status EXCEPT ![g] =
                  SettledStatus(@, auth, cancelledIsAuthoritative)]
  /\ FinishTask(g)
  /\ UNCHANGED <<place, arrivals, heap, waiting, execTask, cancelSent>>

\* register_execution_task refuses, and cancels, the task of a cancelled or
\* unknown item.
RegisterExecutionTask(g, t) ==
  /\ IF status[g] \in {"none", "cancelled"}
     THEN cancelSent' = cancelSent \cup {t} /\ UNCHANGED execTask
     ELSE execTask' = [execTask EXCEPT ![g] = t] /\ UNCHANGED cancelSent
  /\ UNCHANGED <<status, place, arrivals, heap, slotVars, waiting>>

UnregisterExecutionTask(g, t) ==
  /\ execTask[g] = t
  /\ execTask' = [execTask EXCEPT ![g] = NoTask]
  /\ UNCHANGED <<status, place, arrivals, heap, slotVars, waiting, cancelSent>>

-----------------------------------------------------------------------------
Get(c) == \/ AcquireSlot(c)
          \/ \E g \in Goals : Claim(c, g) \/ SkipEntry(c, g)
          \/ AbortGet(c)

Settle(g) ==
  \/ \E st \in Terminal : MarkTerminal(g, st)
  \/ Cancel(g)
  \/ \E auth \in Terminal \cup {"open"}, authoritative \in BOOLEAN :
       SettleFromGoal(g, auth, authoritative)

Next ==
  \/ \E g \in Goals, p \in Priorities : Submit(g, p)
  \/ \E c \in Consumers : Get(c)
  \/ \E g \in Goals : Settle(g)
  \/ \E g \in Goals, t \in Tasks :
       RegisterExecutionTask(g, t) \/ UnregisterExecutionTask(g, t)

Spec == Init /\ [][Next]_vars

-----------------------------------------------------------------------------
TypeOK ==
  /\ status \in [Goals -> Statuses]
  /\ place \in [Goals -> (Priorities \cup {0}) \X Nat]
  /\ arrivals \in Nat
  /\ heap \subseteq Goals
  /\ finished \subseteq Goals
  /\ active \subseteq Goals
  /\ slots \in Nat
  /\ waiting \subseteq Consumers
  /\ unfinished \in Nat
  /\ execTask \in [Goals -> Tasks \cup {NoTask}]
  /\ cancelSent \subseteq Tasks

\* No permit is lost or released twice, whatever the order of cancel, mark, settle
\* and aborted gets: free permits, permits of consumers inside get(), and permits
\* attached to unsettled items always add up to max_active.
SlotsConserved ==
  slots + Cardinality(waiting) + Cardinality(active) = MaxActive

\* task_done() is called exactly once per submitted item: the count asyncio keeps is
\* the number of items not yet settled, so task_done() never raises ValueError and
\* join() returns exactly when everything is settled.
TaskDoneBalanced == unfinished = Cardinality(Submitted \ finished)

\* The slot of an item and its status agree: a slot is held by exactly the items
\* that run, or were cancelled while running and are not settled yet; an item that
\* is done, failed or interrupted was settled, a pending one was not.
SlotsMatchStatus ==
  /\ active = {g \in Goals : g \notin finished
                             /\ status[g] \in {"running", "cancelled"}}
  /\ \A g \in Goals :
       /\ status[g] \in {"done", "failed", "interrupted"} => g \in finished
       /\ status[g] \in {"none", "pending", "running"} => g \notin finished

\* Nothing pending can be lost: its heap entry is still there.  Every other entry
\* belongs to an item settled before it was claimed, so skipping it in get() can
\* neither settle a running goal nor free a slot a second time.
HeapMatchesStatus ==
  /\ \A g \in Goals : status[g] = "pending" => g \in heap
  /\ \A g \in heap : status[g] = "pending" \/ g \in finished

\* A goal is handed to at most one consumer in the life of the queue, and a settled
\* result is final: the only rewrite of a terminal status is settle_from_goal
\* replacing "cancelled" by the result the goal store already has.
StatusDiscipline ==
  [][\A g \in Goals :
       /\ status'[g] = "running" => status[g] \in {"pending", "running"}
       /\ status'[g] = "pending" => status[g] \in {"none", "pending"}
       /\ status[g] \in {"done", "failed", "interrupted"} => status'[g] = status[g]
       /\ g \in finished => g \in finished']_vars
=============================================================================
