------------------------------- MODULE UserAccess -------------------------------
(***************************************************************************)
(* What a user may see and change: memories (Mem0Scopes) and read-only     *)
(* Lark access (LarkOAuth).  The two share no state and do not call each   *)
(* other, so a behaviour of both only interleaves one of each, and every   *)
(* property below is about one of them: it is enough that each behaviour   *)
(* here has the steps of one part.                                         *)
(***************************************************************************)
EXTENDS Mem0Scopes

CONSTANTS LarkUsers, NStates, Calls, TTL, Skew, MaxHeld, Lives, MaxTime   \* of the access

VARIABLES part, now, oauthBoot, made, held, callback, tokens, waiting, call, got

oauthVars == <<now, oauthBoot, made, held, callback, tokens, waiting, call, got>>
jointVars == <<part, vars, oauthVars>>

OAuth == INSTANCE LarkOAuth WITH boot <- oauthBoot, Users <- LarkUsers

ASSUME OAuthAssumption == OAuth!LarkOAuthAssumption

JointInit == Init /\ OAuth!Init /\ part \in {"memories", "access"}
JointNext == \/ part = "memories" /\ Next /\ UNCHANGED <<part, oauthVars>>
             \/ part = "access" /\ OAuth!Next /\ UNCHANGED <<part, vars>>
JointSpec == JointInit /\ [][JointNext]_jointVars

-----------------------------------------------------------------------------
\* A user acts with an access of their own: a token comes from an authorization this user
\* started in this process, two commands never refresh with the same token, the lock of
\* all users is never left with a command that ended, and an authorization is exchanged
\* at most once and not after its time.
AccessIsOwn == /\ [](/\ OAuth!TypeOK /\ OAuth!TokenIsOwn
                     /\ OAuth!RefreshedOnce /\ OAuth!LockIsPassedOn)
               /\ OAuth!OneTimeState
=================================================================================
