--------------------------- MODULE ConfirmedRequests ---------------------------
(***************************************************************************)
(* A confirmed request: how it comes in (MessageIntake) and, when it       *)
(* restarts a service, how it is carried out (ServiceOperation).  Each     *)
(* models what it needs of the other as steps of its own and shares no     *)
(* variable with it, so every property below is about one of them, and it  *)
(* is enough that each behaviour here has the steps of one part.           *)
(***************************************************************************)
EXTENDS ServiceOperation

CONSTANTS Messages, Risky, Confirming, Copies, Ttl, MaxSize, MaxTime   \* of the intake

VARIABLES part,
          now, seen, stage, holds, unconfirmed, approved, card, loopUp, ran, askedForText,
          accepted, since, restarts

intakeVars == <<now, seen, stage, holds, unconfirmed, approved, card, loopUp, ran,
                askedForText, accepted, since, restarts>>
jointVars == <<part, vars, intakeVars>>

Intake == INSTANCE MessageIntake WITH at <- stage, pending <- unconfirmed

ASSUME IntakeAssumption == Intake!MessageIntakeAssumption

JointInit == Init /\ Intake!Init /\ part \in {"operation", "intake"}
JointNext == \/ part = "operation" /\ Next /\ UNCHANGED <<part, intakeVars>>
             \/ part = "intake" /\ Intake!Next /\ UNCHANGED <<part, vars>>
JointSpec == JointInit /\ [][JointNext]_jointVars

\* The fairness of each part, for the behaviours that have its steps.
OperationFair == /\ WF_vars(part = "operation" /\ WriteEnds)
                 /\ \A r \in Requests : WF_vars(part = "operation" /\ Handler(r))
IntakeFair == \A t \in Intake!Tokens : WF_intakeVars(part = "intake" /\ Intake!CardWork(t))
FairJointSpec == JointSpec /\ OperationFair /\ IntakeFair

-----------------------------------------------------------------------------
\* An operation runs as it was confirmed: one confirmation is one execution, by whatever
\* way it came, a redelivery inside the window being dropped; on the grant of the request
\* itself, on a target that supports it, and only for the chat whose selection it was.
RunsAsConfirmed == /\ TypeOK /\ RunsOnlyWhereSupported /\ RunsOnUsedGrant /\ SelectionKept
                   /\ Intake!TypeOK /\ Intake!ConfirmedRunsOnce /\ Intake!DedupeWindow

\* A confirmed operation ends, and a click answered "confirmed, executing" is taken up by
\* the loop and answered, unless the loop closed.
RequestsEnd == []<>(NoneUnderWay /\ Intake!NoneOutstanding)
================================================================================
