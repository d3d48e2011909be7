------------------------------- MODULE AgentTurn -------------------------------
(***************************************************************************)
(* core/agent.py: the turns of MinimalAgent, in its graph and its legacy   *)
(* mode, with the conversation they share and the status writes they       *)
(* schedule in memory/goal_store.py without waiting for them.              *)
(*                                                                         *)
(* Each write is a task that first awaits the one scheduled before it, of  *)
(* whatever goal.  "chain" holds the tasks that have not run.  A task that *)
(* fails in a way run_after_previous does not swallow is awaited by its    *)
(* successor, which fails as well: nothing scheduled after it is written.  *)
(* Under interface/web.py every turn has an event loop of its own.         *)
(***************************************************************************)
EXTENDS Integers, FiniteSets, Sequences, SequencesExt

CONSTANTS Turns, Users,
          MaxActive,   \* graph_max_active: graph turns of one user at a time
          TailCount,   \* tail_count: the entries that compression keeps
          Settings,    \* in which the turns may run: see Setting
          MaxFaults    \* failing database or model calls, and cancelled turns

\* execution_mode, whose turns they are, and whether each has an event loop of its own:
\* asyncio.run in the handler of web.py.
Setting == [mode : {"graph", "legacy"}, userOf : [Turns -> Users], ownLoops : BOOLEAN]

AgentTurnAssumption == /\ Settings \subseteq Setting /\ Settings # {}
                       /\ MaxActive \in Nat \ {0} /\ TailCount \in Nat /\ MaxFaults \in Nat

Statuses == {"IDLE", "ROUTING", "PLANNING", "EXECUTING", "AWAITING_RESULT",
             "EVALUATING", "DONE", "FAILED"}
Allowed ==
  {<<"IDLE", "ROUTING">>, <<"ROUTING", "PLANNING">>, <<"ROUTING", "FAILED">>,
   <<"PLANNING", "EXECUTING">>, <<"PLANNING", "EVALUATING">>, <<"PLANNING", "FAILED">>,
   <<"EXECUTING", "AWAITING_RESULT">>, <<"EXECUTING", "FAILED">>,
   <<"AWAITING_RESULT", "EVALUATING">>, <<"AWAITING_RESULT", "FAILED">>,
   <<"EVALUATING", "DONE">>, <<"EVALUATING", "FAILED">>}

VARIABLES setting,     \* which does not change
          turn,        \* where each turn is
          row,         \* the status of its goal in the database
          chain,       \* status writes that have not run, of all goals
          broken,      \* the last scheduled write has failed, or will
          refused,     \* writes the transition table refused
          history,     \* conversation_history: the turn of each entry
          summary,     \* the entries history_summary stands for
          middle,      \* the entries each turn is compressing
          faults

writes == <<row, chain, broken, refused>>
context == <<history, summary, middle>>
vars == <<setting, turn, writes, context, faults>>

Init ==
  /\ setting \in Settings
  /\ turn = [t \in Turns |-> "out"] /\ row = [t \in Turns |-> "none"]
  /\ chain = <<>> /\ broken = FALSE /\ refused = {}
  /\ history = <<>> /\ summary = {} /\ middle = [t \in Turns |-> <<>>] /\ faults = 0

\* An entry is a turn and a side of it.
Entries == Turns \X {"user", "assistant"}
InGraph(u) == {t \in Turns : setting.userOf[t] = u /\ turn[t] \in {"compress", "run"}}

-----------------------------------------------------------------------------
\* schedule_status_update

WritesOf(t, list) == [k \in DOMAIN list |-> [goal |-> t, to |-> list[k]]]

Schedule(t, list) == chain' = IF broken THEN chain ELSE chain \o WritesOf(t, list)

At(t, st) == turn' = [turn EXCEPT ![t] = st]
Fault == faults < MaxFaults /\ faults' = faults + 1

\* The task of chain[k] fails, and with it every task after it.
BreakAt(k) == chain' = SubSeq(chain, 1, k - 1) /\ broken' = TRUE

\* Mutant: any write may run first.
WriteAny ==
  \E k \in DOMAIN chain :
    LET w == chain[k] IN
    /\ chain' = RemoveAt(chain, k)
    /\ IF <<row[w.goal], w.to>> \in Allowed
       THEN row' = [row EXCEPT ![w.goal] = w.to] /\ UNCHANGED refused
       ELSE refused' = refused \cup {w} /\ UNCHANGED row
    /\ UNCHANGED <<setting, turn, broken, context, faults>>

\* update_status, after _validate_transition: a write that is not allowed is dropped.
Write ==
  /\ chain # <<>> /\ chain' = Tail(chain)
  /\ LET w == Head(chain) IN
     IF <<row[w.goal], w.to>> \in Allowed
     THEN row' = [row EXCEPT ![w.goal] = w.to] /\ UNCHANGED refused
     ELSE refused' = refused \cup {w} /\ UNCHANGED row
  /\ UNCHANGED <<setting, turn, broken, context, faults>>

\* OperationalError (a locked or full database) is not swallowed.  A closed database is,
\* with the same effect: nothing after it is written.
WriteFails ==
  /\ chain # <<>> /\ Fault /\ BreakAt(1)
  /\ UNCHANGED <<setting, turn, row, refused, context>>

\* A task cannot await a pending task of another loop: RuntimeError.
ForeignWait ==
  /\ setting.ownLoops
  /\ \E k \in 2..Len(chain) : chain[k].goal # chain[k - 1].goal /\ BreakAt(k)
  /\ UNCHANGED <<setting, turn, row, refused, context, faults>>

\* asyncio.run has the answer and cancels what the turn left behind.
LoopEnds(t) ==
  /\ setting.ownLoops /\ turn[t] = "ended"
  /\ LET k == SelectInSeq(chain, LAMBDA w : w.goal = t) IN k > 0 /\ BreakAt(k)
  /\ UNCHANGED <<setting, turn, row, refused, context, faults>>

-----------------------------------------------------------------------------
\* run_turn

\* _maybe_compress_context up to the model call: the history may exceed its budget as
\* soon as it has entries besides the tail.
MaybeCompress(t) ==
  \/ At(t, "run") /\ UNCHANGED middle
  \/ /\ Len(history) > TailCount /\ At(t, "compress")
     /\ middle' = [middle EXCEPT ![t] = SubSeq(history, 1, Len(history) - TailCount)]

\* The goal is created, ROUTING and PLANNING are scheduled.  A graph turn waits for the
\* semaphore of its user; it may wait forever when the loops differ.
Begin(t) ==
  /\ turn[t] = "out" /\ (setting.mode = "graph" => Cardinality(InGraph(setting.userOf[t])) < MaxActive)
  /\ row' = [row EXCEPT ![t] = "IDLE"] /\ Schedule(t, <<"ROUTING", "PLANNING">>)
  /\ MaybeCompress(t)
  /\ UNCHANGED <<setting, broken, refused, history, summary, faults>>

\* The model's summary replaces the one before it; the tail is taken of what the history
\* has become.
Compressed(t) ==
  /\ turn[t] = "compress" /\ At(t, "run")
  /\ summary' = Range(middle[t]) /\ middle' = [middle EXCEPT ![t] = <<>>]
  /\ history' = IF Len(history) > TailCount
                THEN SubSeq(history, Len(history) - TailCount + 1, Len(history)) ELSE history
  /\ UNCHANGED <<setting, writes, faults>>

\* _record_turn
Record(t) == history' = history \o <<<<t, "user">>, <<t, "assistant">>>>

\* Mutant: the graph turn goes from PLANNING to DONE.
AnswerGraphAtOnce(t) ==
  /\ setting.mode = "graph" /\ turn[t] = "run" /\ At(t, "ended") /\ Record(t)
  /\ Schedule(t, <<"DONE">>)
  /\ UNCHANGED <<setting, row, broken, refused, summary, middle, faults>>

\* The graph returns or raises; either way the turn has an answer.
AnswerGraph(t) ==
  /\ setting.mode = "graph" /\ turn[t] = "run" /\ At(t, "ended") /\ Record(t)
  /\ Schedule(t, <<"EVALUATING", "DONE">>) \/ Schedule(t, <<"FAILED">>)
  /\ UNCHANGED <<setting, row, broken, refused, summary, middle, faults>>

\* _respond without a tool: CHAT and CLARIFY, or CANNOT_COMPLETE and a missing tool call.
AnswerLegacy(t) ==
  /\ setting.mode = "legacy" /\ turn[t] = "run" /\ At(t, "ended") /\ Record(t)
  /\ Schedule(t, <<"EVALUATING", "DONE">>) \/ Schedule(t, <<"FAILED">>)
  /\ UNCHANGED <<setting, row, broken, refused, summary, middle, faults>>

CallTool(t) ==
  /\ setting.mode = "legacy" /\ turn[t] = "run" /\ At(t, "tool")
  /\ Schedule(t, <<"EXECUTING", "AWAITING_RESULT">>)
  /\ UNCHANGED <<setting, row, broken, refused, context, faults>>

ToolReturns(t) ==
  /\ turn[t] = "tool" /\ At(t, "summarise") /\ Schedule(t, <<"EVALUATING">>)
  /\ UNCHANGED <<setting, row, broken, refused, context, faults>>

Summarised(t) ==
  /\ turn[t] = "summarise" /\ At(t, "ended") /\ Record(t)
  /\ \E st \in {"DONE", "FAILED"} : Schedule(t, <<st>>)
  /\ UNCHANGED <<setting, row, broken, refused, summary, middle, faults>>

\* A cancelled turn, or a model that fails outside the graph: the goal stays where it is.
Raises(t) ==
  /\ turn[t] \in {"compress", "run", "tool", "summarise"} /\ Fault /\ At(t, "raised")
  /\ UNCHANGED <<setting, writes, context>>

Work(t) == Compressed(t) \/ AnswerGraph(t) \/ AnswerLegacy(t) \/ CallTool(t)
           \/ ToolReturns(t) \/ Summarised(t)
Next == Write \/ WriteFails \/ ForeignWait
        \/ \E t \in Turns : Begin(t) \/ Work(t) \/ Raises(t) \/ LoopEnds(t)
Spec == Init /\ [][Next]_vars
FairSpec == Spec /\ WF_vars(Write) /\ \A t \in Turns : WF_vars(Work(t))

-----------------------------------------------------------------------------
\* A turn asks for a summary only of something.
TypeOK ==
  /\ setting \in Settings /\ broken \in BOOLEAN /\ faults \in 0..MaxFaults
  /\ turn \in [Turns -> {"out", "compress", "run", "tool", "summarise", "ended", "raised"}]
  /\ row \in [Turns -> Statuses \cup {"none"}]
  /\ chain \in Seq([goal : Turns, to : Statuses]) /\ refused \in SUBSET [goal : Turns, to : Statuses]
  /\ history \in Seq(Entries) /\ summary \subseteq Entries
  /\ middle \in [Turns -> Seq(Entries)]
  /\ \A t \in Turns : turn[t] = "compress" => middle[t] # <<>>

\* Whatever fails, a write that runs finds the status it follows: the goals of
\* concurrent turns are written in the order their turns took.
WritesAreLegal == refused = {}

\* The status of a goal never runs ahead of its turn, and an answered turn whose writes
\* have all been made is final.
RowsAgreeWithTurns ==
  \A t \in Turns :
    /\ row[t] \in {"DONE", "FAILED"} => turn[t] = "ended"
    /\ turn[t] = "ended" /\ ~broken /\ chain = <<>> => row[t] \in {"DONE", "FAILED"}

\* A goal whose turn goes on or has answered settles, unless a write or the turn failed.
AllSettled == faults > 0 \/ \A t \in Turns : row[t] \in {"none", "DONE", "FAILED"}
TurnsSettle == []<>AllSettled

\* Violated: the agent keeps the context of earlier turns, as entries or in the summary.
NothingIsForgotten ==
  \A t \in Turns : turn[t] = "ended" => {<<t, "user">>, <<t, "assistant">>}
                                        \subseteq Range(history) \cup summary

\* Violated with a loop per turn: an answered turn reaches its final status.
AnsweredGoalsSettle ==
  \A t \in Turns : turn[t] = "ended" /\ chain = <<>> /\ faults = 0
                   => row[t] \in {"DONE", "FAILED"}
=============================================================================
