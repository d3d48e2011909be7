-------------------------------- MODULE AgentWork --------------------------------
(***************************************************************************)
(* A turn of the agent (AgentTurn), what answers it (LLMRouter), what it   *)
(* calls (ShellTool), and the database connection over which it remembers  *)
(* (SharedConnection).  Each models what it needs of the others as steps   *)
(* of its own and shares no variable with them, so every property below is *)
(* about one of them, and it is enough that each behaviour here has the    *)
(* steps of one part.                                                      *)
(***************************************************************************)
EXTENDS SharedConnection

CONSTANTS Turns, Users, MaxActive, TailCount, Settings, MaxMishaps,    \* of the turns
          Order, Invocations, Retries, Threshold, Cooldown, QuotaCooldown, MaxTime,
          Output, JobOutput, Room, Limit                               \* of the shell

VARIABLES part,
          setting, turn, row, chain, broken, refused, history, summary, middle, mishaps,
          now, active, failures, until, request, quotaUntil,
          shell, job, wrote, jobWrote, taken, shown, mark, call

turnVars == <<setting, turn, row, chain, broken, refused, history, summary, middle, mishaps>>
routerVars == <<now, active, failures, until, request, quotaUntil>>
shellVars == <<shell, job, wrote, jobWrote, taken, shown, mark, call>>

jointVars == <<part, vars, turnVars, routerVars, shellVars>>

Turn == INSTANCE AgentTurn WITH MaxFaults <- MaxMishaps, faults <- mishaps
Router == INSTANCE LLMRouter WITH Calls <- Invocations, call <- request
Shell == INSTANCE ShellTool

ASSUME TurnAssumption == Turn!AgentTurnAssumption
ASSUME RouterAssumption == Router!LLMRouterAssumption
ASSUME ShellAssumption == Shell!ShellToolAssumption

\* Where the turns take no step, their setting does not matter.
Any == CHOOSE s \in Settings : TRUE

JointInit == /\ Init /\ Turn!Init /\ Router!Init /\ Shell!Init
             /\ part \in {"connection", "turns", "router", "shell"}
             /\ part # "turns" => setting = Any
JointNext ==
  \/ part = "connection" /\ Next /\ UNCHANGED <<part, turnVars, routerVars, shellVars>>
  \/ part = "turns" /\ Turn!Next /\ UNCHANGED <<part, vars, routerVars, shellVars>>
  \/ part = "router" /\ Router!Next /\ UNCHANGED <<part, vars, turnVars, shellVars>>
  \/ part = "shell" /\ Shell!Next /\ UNCHANGED <<part, vars, turnVars, routerVars>>
JointSpec == JointInit /\ [][JointNext]_jointVars

\* The fairness of each part, for the behaviours that have its steps.  A loop of its own
\* ends with its turn, whatever is left to write: there nothing is assumed.
Turning == part = "turns" /\ ~setting.ownLoops
TurnsFair == /\ WF_turnVars(Turning /\ Turn!Write)
             /\ \A t \in Turns : WF_turnVars(Turning /\ Turn!Work(t))
RouterFair == \A c \in Invocations : WF_routerVars(part = "router" /\ Router!Reply(c))
ShellFair == /\ WF_shellVars(part = "shell" /\ Shell!Waited)
             /\ WF_shellVars(part = "shell" /\ Shell!TimesOut)
             /\ WF_shellVars(part = "shell" /\ Shell!Read)
             /\ WF_shellVars(part = "shell" /\ Shell!Answered)
             /\ WF_shellVars(part = "shell" /\ Shell!ExecutorTimesOut)
FairJointSpec == JointSpec /\ TurnsFair /\ RouterFair /\ ShellFair

-----------------------------------------------------------------------------
\* A status is only written where the store takes it, and a row that is not written yet
\* is behind its turn and not beside it, in every arrangement of users and loops.
TurnsAgree == Turn!TypeOK /\ Turn!WritesAreLegal /\ Turn!RowsAgreeWithTurns

\* A call asks or passes each provider once and gives up only after all, and a count of
\* failures at the threshold has a deadline.
FailoverIsComplete == Router!TypeOK /\ Router!EachProviderOnce /\ Router!CountedOut

\* A good answer has all that the command and its background job wrote, or its beginning
\* with a mark, and no call but a cancelled one is over with its shell still running.
ShellIsHonest == Shell!TypeOK /\ Shell!OkIsWhole /\ Shell!ShellIsGone

\* What a turn starts ends: its goal settles unless something failed, outside of the web
\* interface, where a loop ends with its turn; every call of the router ends; and so does
\* a call of the shell tool, whatever its command leaves behind.
TurnsEnd == []<>(/\ setting.ownLoops \/ Turn!AllSettled
                 /\ Router!NoneAsked
                 /\ part = "shell" => call \in Shell!Results)
==================================================================================
