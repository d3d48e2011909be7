------------------------ MODULE RuntimeTaskQueueProofs ------------------------
(***************************************************************************)
(* The queue keeps its slot and join accounting for every set of goals,    *)
(* consumers and tasks and every max_active, whatever its callers do.      *)
(***************************************************************************)
EXTENDS RuntimeTaskQueue, FiniteSetTheorems, TLAPS

\* The sets that are counted are finite in every reachable state, even when Goals
\* and Consumers are not.
Finiteness ==
  /\ IsFiniteSet(waiting)
  /\ IsFiniteSet(active)
  /\ IsFiniteSet(Submitted \ finished)

IInv == /\ TypeOK
        /\ Finiteness
        /\ SlotsConserved
        /\ TaskDoneBalanced
        /\ SlotsMatchStatus
        /\ HeapMatchesStatus

-----------------------------------------------------------------------------
\* _finish_task either does nothing or settles g once: the permit of g moves from
\* _active_slots back to the semaphore, so their sum does not change.
LEMMA FinishTaskSlots ==
  ASSUME TypeOK, Finiteness, NEW g \in Goals, FinishTask(g)
  PROVE  /\ finished' = finished \cup {g}
         /\ active' \subseteq Goals /\ finished' \subseteq Goals
         /\ slots' \in Nat
         /\ IsFiniteSet(active')
         /\ slots' + Cardinality(active') = slots + Cardinality(active)
<1>1. CASE g \in finished
  BY <1>1, FS_CardinalityType DEF TypeOK, Finiteness, FinishTask, slotVars
<1>2. CASE g \notin finished
  <2>1. /\ IsFiniteSet(active \ {g})
        /\ Cardinality(active \ {g}) =
             IF g \in active THEN Cardinality(active) - 1 ELSE Cardinality(active)
    BY FS_RemoveElement DEF Finiteness
  <2>2. Cardinality(active) \in Nat
    BY FS_CardinalityType DEF Finiteness
  <2>3. /\ finished' = finished \cup {g}
        /\ active' = active \ {g}
        /\ slots' = IF g \in active THEN slots + 1 ELSE slots
    BY <1>2 DEF FinishTask
  <2> QED BY <2>1, <2>2, <2>3, SMTT(30) DEF TypeOK
<1> QED BY <1>1, <1>2

\* When the set of submitted items is unchanged, _finish_task of a submitted item
\* takes it out of the unsettled ones and calls task_done() exactly then.
LEMMA FinishTaskCount ==
  ASSUME TypeOK, Finiteness, TaskDoneBalanced, NEW g \in Goals, FinishTask(g),
         g \in Submitted, Submitted' = Submitted
  PROVE  /\ IsFiniteSet((Submitted \ finished)')
         /\ unfinished' \in Nat
         /\ TaskDoneBalanced'
<1> DEFINE U == Submitted \ finished
<1>1. CASE g \in finished
  <2>1. UNCHANGED <<finished, unfinished>>
    BY <1>1 DEF FinishTask, slotVars
  <2> QED BY <2>1 DEF TypeOK, Finiteness, TaskDoneBalanced
<1>2. CASE g \notin finished
  <2>1. (Submitted \ finished)' = U \ {g}
    BY <1>2 DEF FinishTask
  <2>2. g \in U
    BY <1>2
  <2>3. /\ IsFiniteSet(U \ {g})
        /\ Cardinality(U \ {g}) = Cardinality(U) - 1
    BY <2>2, FS_RemoveElement DEF Finiteness
  <2>4. unfinished' = unfinished - 1
    BY <1>2 DEF FinishTask
  <2>5. Cardinality(U \ {g}) \in Nat
    BY <2>3, FS_CardinalityType
  <2>6. unfinished' = Cardinality((Submitted \ finished)')
    BY <2>1, <2>3, <2>4 DEF TaskDoneBalanced
  <2> QED BY <2>1, <2>3, <2>5, <2>6 DEF TaskDoneBalanced
<1> QED BY <1>1, <1>2

-----------------------------------------------------------------------------
\* A step that settles g with status st: what is left to check of the invariant is
\* that st is a terminal status.
LEMMA SettleKeepsIInv ==
  ASSUME IInv, NEW g \in Goals, NEW st \in Terminal, status[g] # "none",
         status' = [status EXCEPT ![g] = st], FinishTask(g),
         UNCHANGED <<place, arrivals, waiting, execTask>>,
         heap' \in {heap, heap \ {g}},
         cancelSent' \subseteq Tasks
  PROVE  IInv'
<1> USE DEF IInv
<1>1. /\ finished' = finished \cup {g}
      /\ active' \subseteq Goals /\ finished' \subseteq Goals
      /\ slots' \in Nat
      /\ IsFiniteSet(active')
      /\ slots' + Cardinality(active') = slots + Cardinality(active)
  BY FinishTaskSlots
<1>2. st # "none" /\ st \in Statuses /\ st \notin Live
  BY DEF Terminal, Statuses, Live
<1>3. Submitted' = Submitted
  BY <1>2 DEF Submitted, TypeOK
<1>4. g \in Submitted
  BY DEF Submitted
<1>5. /\ IsFiniteSet((Submitted \ finished)')
      /\ unfinished' \in Nat
      /\ TaskDoneBalanced'
  BY <1>3, <1>4, FinishTaskCount
<1>6. TypeOK'
  BY <1>1, <1>2, <1>5 DEF TypeOK
<1>7. Finiteness'
  BY <1>1, <1>5 DEF Finiteness
<1>8. SlotsConserved'
  <2>1. /\ Cardinality(active) \in Nat
        /\ Cardinality(active') \in Nat
        /\ Cardinality(waiting) \in Nat
    BY <1>1, FS_CardinalityType DEF Finiteness
  <2>2. waiting' = waiting /\ Cardinality(waiting') = Cardinality(waiting)
    OBVIOUS
  <2>3. slots \in Nat /\ slots + Cardinality(waiting) + Cardinality(active) = MaxActive
    BY DEF TypeOK, SlotsConserved
  <2>4. slots' + Cardinality(waiting') + Cardinality(active') = MaxActive
    BY <1>1, <2>1, <2>2, <2>3
  <2> QED BY <2>4 DEF SlotsConserved
<1>9. SlotsMatchStatus'
  <2>1. active' = active \ {g}
    BY DEF FinishTask, slotVars, SlotsMatchStatus
  <2> QED BY <1>1, <1>2, <2>1 DEF SlotsMatchStatus, TypeOK, Terminal, Live
<1>10. HeapMatchesStatus'
  BY <1>1, <1>2 DEF HeapMatchesStatus, TypeOK, Live
<1> QED BY <1>5, <1>6, <1>7, <1>8, <1>9, <1>10

-----------------------------------------------------------------------------
\* Init establishes the invariant.
LEMMA InitIInv == Init => IInv
<1> SUFFICES ASSUME Init PROVE IInv
  OBVIOUS
<1> USE MaxActiveAssumption, NoTaskAssumption DEF Init
<1>1. TypeOK
  BY DEF TypeOK, Statuses
<1>2. Submitted \ finished = {}
  BY DEF Submitted
<1>3. IsFiniteSet({}) /\ Cardinality({}) = 0
  BY FS_EmptySet
<1> QED BY <1>1, <1>2, <1>3 DEF IInv, Finiteness, SlotsConserved,
           TaskDoneBalanced, SlotsMatchStatus, HeapMatchesStatus

\* submit keeps the invariant: the new entry is pending, in the heap and counted.
LEMMA SubmitIInv ==
  ASSUME IInv, NEW g \in Goals, NEW p \in Priorities, Submit(g, p)
  PROVE  IInv'
<1> USE DEF IInv, Submit
<1>1. Submitted' = Submitted \cup {g} /\ g \notin Submitted
  BY DEF Submitted, TypeOK
<1>2. g \notin finished
  BY DEF SlotsMatchStatus
<1>3. (Submitted \ finished)' = (Submitted \ finished) \cup {g}
  BY <1>1, <1>2
<1>4. /\ IsFiniteSet((Submitted \ finished) \cup {g})
      /\ Cardinality((Submitted \ finished) \cup {g}) =
           Cardinality(Submitted \ finished) + 1
  BY <1>1, FS_AddElement DEF Finiteness
<1>5. TypeOK'
  BY PrioritiesAssumption DEF TypeOK, Statuses, Live
<1>6. Finiteness'
  BY <1>3, <1>4 DEF Finiteness
<1>7. TaskDoneBalanced'
  BY <1>3, <1>4 DEF TaskDoneBalanced
<1>8. SlotsConserved'
  BY DEF SlotsConserved
<1>9. SlotsMatchStatus'
  BY DEF SlotsMatchStatus, TypeOK
<1>10. HeapMatchesStatus'
  BY DEF HeapMatchesStatus, TypeOK
<1> QED BY <1>5, <1>6, <1>7, <1>8, <1>9, <1>10

\* The steps of get() keep the invariant.
LEMMA GetIInv ==
  ASSUME IInv, NEW c \in Consumers, Get(c)
  PROVE  IInv'
<1> USE DEF IInv
<1>0. /\ Cardinality(active) \in Nat
      /\ Cardinality(waiting) \in Nat
  BY FS_CardinalityType DEF Finiteness
<1>1. CASE AcquireSlot(c)
  <2> USE <1>1 DEF AcquireSlot
  <2>1. /\ IsFiniteSet(waiting')
        /\ Cardinality(waiting') = Cardinality(waiting) + 1
    BY FS_AddElement DEF Finiteness
  <2>2. Submitted' = Submitted
    BY DEF Submitted
  <2>3. TypeOK'
    BY DEF TypeOK
  <2>4. Finiteness' /\ TaskDoneBalanced'
    BY <2>1, <2>2 DEF Finiteness, TaskDoneBalanced
  <2>5. SlotsConserved'
    BY <1>0, <2>1 DEF SlotsConserved, TypeOK
  <2>6. SlotsMatchStatus' /\ HeapMatchesStatus'
    BY DEF SlotsMatchStatus, HeapMatchesStatus
  <2> QED BY <2>3, <2>4, <2>5, <2>6
<1>2. ASSUME NEW g \in Goals, Claim(c, g)
      PROVE  IInv'
  <2> USE <1>2 DEF Claim
  <2>1. /\ IsFiniteSet(waiting')
        /\ Cardinality(waiting') = Cardinality(waiting) - 1
    BY FS_RemoveElement DEF Finiteness
  <2>2. g \notin active
    BY DEF SlotsMatchStatus
  <2>3. /\ IsFiniteSet(active')
        /\ Cardinality(active') = Cardinality(active) + 1
    BY <2>2, FS_AddElement DEF Finiteness
  <2>4. Submitted' = Submitted
    BY DEF Submitted, TypeOK
  <2>5. TypeOK'
    BY DEF TypeOK, Statuses, Live
  <2>6. Finiteness' /\ TaskDoneBalanced'
    BY <2>1, <2>3, <2>4 DEF Finiteness, TaskDoneBalanced
  <2>7. SlotsConserved'
    BY <1>0, <2>1, <2>3 DEF SlotsConserved, TypeOK
  <2>8. SlotsMatchStatus'
    BY DEF SlotsMatchStatus, TypeOK
  <2>9. HeapMatchesStatus'
    BY DEF HeapMatchesStatus, TypeOK
  <2> QED BY <2>5, <2>6, <2>7, <2>8, <2>9
<1>3. ASSUME NEW g \in Goals, SkipEntry(c, g)
      PROVE  IInv'
  <2> USE <1>3 DEF SkipEntry
  <2>1. CASE g \in finished
    <3>1. UNCHANGED <<status, finished, active, slots, unfinished, waiting>>
      BY <2>1 DEF FinishTask, slotVars
    <3>2. Submitted' = Submitted
      BY DEF Submitted
    <3>3. TypeOK'
      BY <3>1 DEF TypeOK
    <3>4. Finiteness' /\ TaskDoneBalanced' /\ SlotsConserved' /\ SlotsMatchStatus'
      BY <3>1, <3>2 DEF Finiteness, TaskDoneBalanced, SlotsConserved, SlotsMatchStatus
    <3>5. HeapMatchesStatus'
      BY <3>1 DEF HeapMatchesStatus
    <3> QED BY <3>3, <3>4, <3>5
  <2>2. CASE g \notin finished
    \* Impossible: an entry that is not pending is settled.
    BY <2>2 DEF HeapMatchesStatus, IsFirst
  <2> QED BY <2>1, <2>2
<1>4. CASE AbortGet(c)
  <2> USE <1>4 DEF AbortGet
  <2>1. /\ IsFiniteSet(waiting')
        /\ Cardinality(waiting') = Cardinality(waiting) - 1
    BY FS_RemoveElement DEF Finiteness
  <2>2. Submitted' = Submitted
    BY DEF Submitted
  <2>3. TypeOK'
    BY DEF TypeOK
  <2>4. Finiteness' /\ TaskDoneBalanced'
    BY <2>1, <2>2 DEF Finiteness, TaskDoneBalanced
  <2>5. SlotsConserved'
    BY <1>0, <2>1 DEF SlotsConserved, TypeOK
  <2>6. SlotsMatchStatus' /\ HeapMatchesStatus'
    BY DEF SlotsMatchStatus, HeapMatchesStatus
  <2> QED BY <2>3, <2>4, <2>5, <2>6
<1> QED BY <1>1, <1>2, <1>3, <1>4 DEF Get

\* A finished or refused operation of the execution-task registry.
LEMMA TaskIInv ==
  ASSUME IInv, NEW g \in Goals, NEW t \in Tasks,
         RegisterExecutionTask(g, t) \/ UnregisterExecutionTask(g, t)
  PROVE  IInv'
<1> USE DEF IInv
<1>1. UNCHANGED <<status, place, arrivals, heap, slotVars, waiting>>
  BY DEF RegisterExecutionTask, UnregisterExecutionTask
<1>2. TypeOK'
  BY <1>1 DEF TypeOK, RegisterExecutionTask, UnregisterExecutionTask, slotVars
<1>3. Submitted' = Submitted
  BY <1>1 DEF Submitted
<1> QED BY <1>1, <1>2, <1>3 DEF Finiteness, SlotsConserved, TaskDoneBalanced,
           SlotsMatchStatus, HeapMatchesStatus, slotVars

\* cancel() of a running item: the item keeps its slot and stays unsettled.
LEMMA CancelIInv ==
  ASSUME IInv, NEW g \in Goals, Cancel(g)
  PROVE  IInv'
<1> USE DEF IInv
<1>1. cancelSent' \subseteq Tasks
  BY DEF Cancel, TypeOK
<1>2. CASE status[g] = "pending"
  BY <1>1, <1>2, SettleKeepsIInv DEF Cancel, Terminal
<1>3. CASE status[g] = "running"
  <2> USE <1>3 DEF Cancel, slotVars
  <2>1. Submitted' = Submitted
    BY DEF Submitted, TypeOK
  <2>2. TypeOK'
    BY <1>1 DEF TypeOK, Statuses, Terminal
  <2>3. Finiteness' /\ SlotsConserved' /\ TaskDoneBalanced'
    BY <2>1 DEF Finiteness, SlotsConserved, TaskDoneBalanced
  <2>4. SlotsMatchStatus'
    BY DEF SlotsMatchStatus, TypeOK
  <2>5. HeapMatchesStatus'
    BY DEF HeapMatchesStatus, TypeOK
  <2> QED BY <2>2, <2>3, <2>4, <2>5
<1> QED BY <1>2, <1>3 DEF Cancel, Live

\* mark_* and settle_from_goal leave the item with a terminal status.
LEMMA SettleIInv ==
  ASSUME IInv, NEW g \in Goals, Settle(g)
  PROVE  IInv'
<1> USE DEF IInv
<1>1. ASSUME NEW st \in Terminal, MarkTerminal(g, st)
      PROVE  IInv'
  <2>1. status[g] # "none"
    BY <1>1 DEF MarkTerminal, AllowedFrom, Live
  <2> QED BY <1>1, <2>1, SettleKeepsIInv DEF MarkTerminal, TypeOK
<1>2. CASE Cancel(g)
  BY <1>2, CancelIInv
<1>3. ASSUME NEW auth \in Terminal \cup {"open"}, NEW authoritative \in BOOLEAN,
             SettleFromGoal(g, auth, authoritative)
      PROVE  IInv'
  <2> DEFINE st == SettledStatus(status[g], auth, authoritative)
  <2>1. status[g] \in Live \cup Terminal
    BY <1>3 DEF SettleFromGoal, TypeOK, Statuses
  <2>2. st \in Terminal
    BY <2>1 DEF SettledStatus, Terminal, Live
  <2>3. status' = [status EXCEPT ![g] = st]
    BY <1>3 DEF SettleFromGoal, TypeOK
  <2> HIDE DEF st
  <2> QED BY <1>3, <2>2, <2>3, SettleKeepsIInv DEF SettleFromGoal, TypeOK
<1> QED BY <1>1, <1>2, <1>3 DEF Settle

\* Every step, and stuttering, keeps the invariant.
LEMMA NextIInv == IInv /\ [Next]_vars => IInv'
<1> SUFFICES ASSUME IInv, [Next]_vars PROVE IInv'
  OBVIOUS
<1>1. ASSUME NEW g \in Goals, NEW p \in Priorities, Submit(g, p) PROVE IInv'
  BY <1>1, SubmitIInv
<1>2. ASSUME NEW c \in Consumers, Get(c) PROVE IInv'
  BY <1>2, GetIInv
<1>3. ASSUME NEW g \in Goals, Settle(g) PROVE IInv'
  BY <1>3, SettleIInv
<1>4. ASSUME NEW g \in Goals, NEW t \in Tasks,
             RegisterExecutionTask(g, t) \/ UnregisterExecutionTask(g, t)
      PROVE  IInv'
  BY <1>4, TaskIInv
<1>5. CASE UNCHANGED vars
  <2>1. Submitted' = Submitted
    BY <1>5 DEF Submitted, vars
  <2> QED BY <1>5, <2>1 DEF IInv, TypeOK, Finiteness, SlotsConserved,
             TaskDoneBalanced, SlotsMatchStatus, HeapMatchesStatus, vars, slotVars
<1> QED BY <1>1, <1>2, <1>3, <1>4, <1>5 DEF Next

\* Every variable keeps its type.
THEOREM TypeCorrect == Spec => []TypeOK
<1>1. IInv => TypeOK
  BY DEF IInv
<1> QED BY <1>1, InitIInv, NextIInv, PTL DEF Spec

\* No permit of the semaphore is lost or released twice.
THEOREM SlotsAreConserved == Spec => []SlotsConserved
<1>1. IInv => SlotsConserved
  BY DEF IInv
<1> QED BY <1>1, InitIInv, NextIInv, PTL DEF Spec

\* task_done() is called exactly once for every item.
THEOREM TaskDoneIsBalanced == Spec => []TaskDoneBalanced
<1>1. IInv => TaskDoneBalanced
  BY DEF IInv
<1> QED BY <1>1, InitIInv, NextIInv, PTL DEF Spec

\* Slots and item statuses agree: no unsettled execution is without a slot.
THEOREM StatusesAgree == Spec => []SlotsMatchStatus
<1>1. IInv => SlotsMatchStatus
  BY DEF IInv
<1> QED BY <1>1, InitIInv, NextIInv, PTL DEF Spec

\* Heap entries and item statuses agree: nothing pending is lost, and an entry that is
\* not pending when get() pops it was settled before.
THEOREM NothingPendingIsLost == Spec => []HeapMatchesStatus
<1>1. IInv => HeapMatchesStatus
  BY DEF IInv
<1> QED BY <1>1, InitIInv, NextIInv, PTL DEF Spec

\* Consequence of the accounting: never more than max_active unsettled executions.
THEOREM ConcurrencyIsBounded == Spec => [](Cardinality(active) <= MaxActive)
<1>1. IInv => Cardinality(active) <= MaxActive
  BY FS_CardinalityType, MaxActiveAssumption
     DEF IInv, TypeOK, Finiteness, SlotsConserved
<1> QED BY <1>1, InitIInv, NextIInv, PTL DEF Spec

\* A settled result is final and a goal is handed out at most once.
THEOREM StatusesAreDisciplined == Spec => StatusDiscipline
<1> DEFINE Step == \A g \in Goals :
       /\ status'[g] = "running" => status[g] \in {"pending", "running"}
       /\ status'[g] = "pending" => status[g] \in {"none", "pending"}
       /\ status[g] \in {"done", "failed", "interrupted"} => status'[g] = status[g]
       /\ g \in finished => g \in finished'
<1>1. IInv /\ [Next]_vars => [Step]_vars
  <2> SUFFICES ASSUME IInv, Next PROVE Step
    OBVIOUS
  <2> USE DEF IInv, TypeOK
  <2>1. ASSUME NEW g \in Goals, NEW p \in Priorities, Submit(g, p) PROVE Step
    BY <2>1 DEF Submit
  <2>2. ASSUME NEW c \in Consumers, Get(c) PROVE Step
    BY <2>2 DEF Get, AcquireSlot, Claim, SkipEntry, AbortGet, FinishTask, slotVars
  <2>3. ASSUME NEW g \in Goals, Settle(g) PROVE Step
    <3>1. ASSUME NEW st \in Terminal, MarkTerminal(g, st) PROVE Step
      BY <3>1 DEF MarkTerminal, AllowedFrom, FinishTask, slotVars, Live, Terminal
    <3>2. CASE Cancel(g)
      BY <3>2 DEF Cancel, FinishTask, slotVars, Live
    <3>3. ASSUME NEW auth \in Terminal \cup {"open"}, NEW authoritative \in BOOLEAN,
                 SettleFromGoal(g, auth, authoritative)
          PROVE  Step
      BY <3>3 DEF SettleFromGoal, SettledStatus, FinishTask, slotVars, Live,
                  Terminal, Statuses
    <3> QED BY <2>3, <3>1, <3>2, <3>3 DEF Settle
  <2>4. ASSUME NEW g \in Goals, NEW t \in Tasks,
               RegisterExecutionTask(g, t) \/ UnregisterExecutionTask(g, t)
        PROVE  Step
    BY <2>4 DEF RegisterExecutionTask, UnregisterExecutionTask, slotVars
  <2> QED BY <2>1, <2>2, <2>3, <2>4 DEF Next
<1> QED BY <1>1, InitIInv, NextIInv, PTL DEF Spec, StatusDiscipline
=============================================================================
