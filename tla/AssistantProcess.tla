----------------------------- MODULE AssistantProcess -----------------------------
(***************************************************************************)
(* The process around a goal: the goal runtime (GraphRuntime), the order   *)
(* in which main.py starts and stops the services (RuntimeLifecycle), and  *)
(* the thread of the Lark client (LarkSdkRunner).  Each models what it     *)
(* needs of the others as steps of its own and shares no variable with     *)
(* them, so every property below is about one of them, and it is enough    *)
(* that each behaviour here has the steps of one part.                     *)
(***************************************************************************)
EXTENDS GraphRuntime

CONSTANTS Messages, MaxMishaps,     \* of the services
          Msgs, MaxMarks, Prompt    \* of the client

VARIABLES part,
          stage, pos, service, recovered, request, drains, broken, client, mishaps,
          thread, bound, conn, watch, marked, marks, shown, stop, shutdown, app, msg

processVars == <<stage, pos, service, recovered, request, drains, broken, client, mishaps>>
clientVars == <<thread, bound, conn, watch, marked, marks, shown, stop, shutdown, app, msg>>

jointVars == <<part, vars, processVars, clientVars>>

Process == INSTANCE RuntimeLifecycle WITH
  MaxFaults <- MaxMishaps, phase <- stage, msg <- request, faults <- mishaps
Client == INSTANCE LarkSdkRunner

ASSUME MishapsAssumption == MaxMishaps \in Nat
ASSUME ClientAssumption == Client!LarkSdkRunnerAssumption

JointInit == Init /\ Process!Init /\ Client!Init /\ part \in {"goals", "process", "client"}
JointNext ==
  \/ part = "goals" /\ Next /\ UNCHANGED <<part, processVars, clientVars>>
  \/ part = "process" /\ Process!Next /\ UNCHANGED <<part, vars, clientVars>>
  \/ part = "client" /\ Client!Next /\ UNCHANGED <<part, vars, processVars>>
JointSpec == JointInit /\ [][JointNext]_jointVars

\* The fairness of each part, for the behaviours that have its steps.
GoalsFair ==
  /\ \A g \in Goals : /\ WF_vars(part = "goals" /\ HandleMessage(g))
                      /\ WF_vars(part = "goals" /\ Recover(g))
  /\ \A w \in Workers : /\ WF_vars(part = "goals" /\ Work(w))
                        /\ WF_vars(part = "goals" /\ CancelWorker(w))
  /\ WF_vars(part = "goals" /\ Boot)
  /\ WF_vars(part = "goals" /\ Serve)
  /\ WF_vars(part = "goals" /\ Exit)
ProcessFair == /\ WF_processVars(part = "process" /\ Process!Main)
               /\ WF_processVars(part = "process" /\ Process!Disconnect)
ClientFair == /\ WF_clientVars(part = "client" /\ Client!Boot)
              /\ WF_clientVars(part = "client" /\ Client!Watch)
              /\ WF_clientVars(part = "client" /\ Client!Reconnecting)
              /\ WF_clientVars(part = "client" /\ Client!Marked)
              /\ WF_clientVars(part = "client" /\ Client!Shutdown)
              /\ WF_clientVars(part = "client" /\ Client!StopGoesOn)
FairJointSpec == JointSpec /\ GoalsFair /\ ProcessFair /\ ClientFair

-----------------------------------------------------------------------------
\* Services start and stop in order: no message is handled before recovery has read the
\* unfinished goals, no service that uses the database runs while it is closed, a stop
\* that gets through has stopped every service, and a stop of the Lark runner that says
\* so has ended its thread.
ServicesInOrder == /\ Process!TypeOK /\ Process!RecoveryFirst
                   /\ Process!NobodyOutlivesTheDatabase /\ Process!EndedIsStopped
                   /\ Client!TypeOK /\ Client!StoppedIsEnded

\* A signal ends the work of the process when the clients of the health server go away; a
\* stop of the Lark runner ends, also when its thread never answers; and the application
\* comes to see what the connection is.
ServicesSettle == []<>(Process!NoStopUnderWay /\ Client!NoStopUnderWay /\ Client!IsSeen)
===================================================================================
