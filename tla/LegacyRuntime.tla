------------------------------- MODULE LegacyRuntime -------------------------------
(***************************************************************************)
(* The legacy runtime: the plan of one goal (LegacyExecution), the pool    *)
(* that runs goals over the queue (RuntimeWorkerPool), and the messages    *)
(* about their ends (GoalNotifications).  Each models what it needs of the *)
(* others as steps of its own and shares no variable with them, so every   *)
(* property below is about one of them, and it is enough that each         *)
(* behaviour here has the steps of one part.                               *)
(***************************************************************************)
EXTENDS LegacyExecution

CONSTANTS Goals, Workers, MaxActive, NoGoal,
          MaxPoolStops, MaxPoolFaults,      \* bounds of the pool
          Reopenable, MaxSendFailures, MaxSenderStops   \* bounds of the notifications

VARIABLES part,
          status, place, arrivals, heap, finished, active, slots, waiting, unfinished,
          execTask, cancelSent, row, at, on, stopSent, runOf, told, recovering,
          poolStops, poolFaults,
          notification, gate, task, ending, delivered, lost, up, failures, senderStops

poolVars == <<status, place, arrivals, heap, finished, active, slots, waiting, unfinished,
              execTask, cancelSent, row, at, on, stopSent, runOf, told, recovering,
              poolStops, poolFaults>>
notifierVars == <<notification, gate, task, ending, delivered, lost, up, failures,
                  senderStops>>
jointVars == <<part, vars, poolVars, notifierVars>>

Pool == INSTANCE RuntimeWorkerPool WITH
  MaxStops <- MaxPoolStops, MaxFaults <- MaxPoolFaults,
  goal <- row, run <- runOf, stops <- poolStops, faults <- poolFaults

Notifier == INSTANCE GoalNotifications WITH
  MaxFailures <- MaxSendFailures, MaxStops <- MaxSenderStops, row <- notification,
  stops <- senderStops

ASSUME PoolAssumption == Pool!RuntimeWorkerPoolAssumption
ASSUME NotifierAssumption == Notifier!GoalNotificationsAssumption

JointInit == Init /\ Pool!Init /\ Notifier!Init /\ part \in {"plan", "pool", "notifier"}
JointNext ==
  \/ part = "plan" /\ Next /\ UNCHANGED <<part, poolVars, notifierVars>>
  \/ part = "pool" /\ Pool!Next /\ UNCHANGED <<part, vars, notifierVars>>
  \/ part = "notifier" /\ Notifier!Next /\ UNCHANGED <<part, vars, poolVars>>
JointSpec == JointInit /\ [][JointNext]_jointVars

\* The fairness of each part, for the behaviours that have its steps.
PlanFair == WF_vars(part = "plan" /\ RunStep) /\ WF_vars(part = "plan" /\ Recover)
PoolFair ==
  /\ WF_poolVars(part = "pool" /\ Pool!Quiet /\ Pool!Start)
  /\ \A w \in Workers : WF_poolVars(part = "pool" /\ Pool!Work(w))
  /\ \A g \in Goals : /\ WF_poolVars(part = "pool" /\ Pool!Run(g))
                      /\ WF_poolVars(part = "pool" /\ Pool!Quiet /\ Pool!Recover(g))
NotifierFair ==
  /\ WF_notifierVars(part = "notifier" /\ Notifier!Start)
  /\ \A t \in Notifier!Tasks : WF_notifierVars(part = "notifier" /\ Notifier!Notify(t))
  /\ \A g \in Goals : /\ WF_notifierVars(part = "notifier" /\ Notifier!GrowStale(g))
                      /\ WF_notifierVars(part = "notifier" /\ Notifier!Recover(g))
FairJointSpec == JointSpec /\ PlanFair /\ PoolFair /\ NotifierFair

-----------------------------------------------------------------------------
\* The pool, the queue and the store agree: a slot is held for a goal some worker works
\* on, unless the store failed; a run that nobody cancelled holds its slot; a settled
\* item nobody works on says what the store says; an end is told at most once; and a
\* settled goal stays so over cancels, stops and restarts, unless the failure of a run
\* that raised, or of a worker whose store failed, is written over it.
PoolAgrees == /\ [](/\ Pool!TypeOK /\ Pool!SlotsHaveWorkers /\ Pool!RunsHoldSlots
                    /\ Pool!QueueAgreesWithStore /\ Pool!ToldOnce)
              /\ Pool!ResultsAreFinal

\* The worker and the recovery loop never send for one goal at the same time, and the
\* user gets no message beyond the attempts whose success was not recorded.
NotifiedOnce == Notifier!TypeOK /\ Notifier!OneSender /\ Notifier!NoExtraMessages

\* What is taken up comes to its end: a plan nobody interferes with settles its goal; an
\* accepted goal leaves the queue, unless the process ends or the store fails; and a
\* recorded notification is sent, whatever fails and stops, unless its goal was blocked,
\* is taken up again and has not ended since.
WorkSettles == []<>((part = "plan" => IsSettled) /\ Pool!AllSettled /\ Notifier!AllSent)
=====================================================================================
