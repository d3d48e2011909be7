--------------------------- MODULE GoalExecutionProofs ---------------------------
(***************************************************************************)
(* For every step cap, retry budget and number of runs and faults: a tool  *)
(* is called only under a receipt, the writes of a goal happen in one run, *)
(* an uncertain write is the last call, and DONE is certain and decided.   *)
(***************************************************************************)
EXTENDS GoalExecution, TLAPS

\* Places of a run between the planner and the end of the tool call.
BeforeCall == {"prepare", "check", "reject", "start", "call"}
AtStep == BeforeCall \cup {"tool", "settle", "supervise"}
InGraph == AtStep \cup {"plan"}

\* A run belongs to an open goal, and its step is under the cap where it plans.
RunIsOpen ==
  pc # "idle" => /\ goal = "open"
                 /\ runs \in Runs
                 /\ pc = "gate" => step = 0
                 /\ pc = "plan" => step < MaxSteps
                 /\ pc \in AtStep => step \in Steps
                 /\ pc = "persist" => decision # "none"

\* Calls belong to the past: to an earlier run, or to a step already taken.
CallsArePast ==
  \A a \in effects :
    /\ a[1] <= runs
    /\ pc # "idle" /\ a[1] = runs => /\ a[2] <= step
                                     /\ pc \in BeforeCall => a[2] < step

CallHasReceipt == pc = "call" => ledger[Current].state = "executing"

\* Past the gate every write that was started is one of this run.
Proceeds == pc \in InGraph \/ (pc = "persist" /\ decision \in {"pass", "retry"})
NoOldWrites == Proceeds => \A a \in Unresolved : a[1] = runs

\* Where a run may still go on, every write it started has a known outcome, except
\* the one under way.
UncertainWrites ==
  {a \in Attempts : ledger[a].effect /\ ledger[a].state \in {"unknown", "executing"}}

Certainty ==
  /\ pc \in {"plan", "prepare", "check", "reject", "start"} => UncertainWrites = {}
  /\ pc \in {"call", "tool", "settle"} => UncertainWrites \subseteq {Current}
  /\ pc = "supervise" /\ result # "uncertain" => UncertainWrites = {}
  /\ pc = "persist" /\ decision # "fail" => UncertainWrites = {}
  /\ pc = "ended" /\ decision = "done" => UncertainWrites = {}
  /\ goal = "DONE" => UncertainWrites = {}

GoesOn(r, s) == \E d \in {"pass", "retry"} : <<r, s, d>> \in decided
PlansAreDecided ==
  /\ pc = "plan" /\ step > 0 => GoesOn(runs, step)
  /\ pc \in AtStep /\ step > 1 => GoesOn(runs, step - 1)
  /\ pc = "ended" /\ decision = "done" => <<runs, step, "done">> \in decided

IInv == /\ TypeOK
        /\ RunIsOpen
        /\ CallsArePast
        /\ CallHasReceipt
        /\ EffectsHaveReceipts
        /\ NoOldWrites
        /\ WritesInOneRun
        /\ Certainty
        /\ UnknownWriteIsLast
        /\ PlansAreDecided
        /\ StepsHaveDecisions

-----------------------------------------------------------------------------
\* Init establishes the invariant.
LEMMA InitIInv == Init => IInv
<1> SUFFICES ASSUME Init PROVE IInv
  OBVIOUS
<1> USE StepsAssumption, RunBoundsAssumption
<1>1. TypeOK
  BY DEF Init, TypeOK, Pcs, AttemptStates
<1>2. /\ RunIsOpen /\ CallsArePast /\ CallHasReceipt /\ EffectsHaveReceipts
      /\ NoOldWrites /\ WritesInOneRun /\ UnknownWriteIsLast /\ PlansAreDecided
  BY DEF Init, RunIsOpen, CallsArePast, CallHasReceipt, EffectsHaveReceipts,
         NoOldWrites, Proceeds, InGraph, AtStep, BeforeCall, WritesInOneRun,
         UnknownWriteIsLast, PlansAreDecided
<1>3. Certainty /\ StepsHaveDecisions
  BY DEF Init, Certainty, StepsHaveDecisions, Attempts
<1> QED BY <1>1, <1>2, <1>3 DEF IInv

\* The ledger at the attempt under way, and nowhere else, after a step.
Rest == \A a \in Attempts \ {Current} : ledger'[a] = ledger[a]
LedgerType == ledger \in [Attempts -> [state : AttemptStates, effect : BOOLEAN]]

\* Recording a state moves the attempt under way only, and keeps what it may do.
LEMMA RecordOutcomes ==
  ASSUME TypeOK, Current \in Attempts, NEW st \in AttemptStates, Record(st)
  PROVE  /\ LedgerType' /\ Rest
         /\ ledger'[Current].state = st
         /\ ledger'[Current].effect = ledger[Current].effect
  BY DEF TypeOK, LedgerType, Rest, Record

\* Types and control, for every step.
LEMMA StepTypeOK ==
  ASSUME IInv, [Next]_vars
  PROVE  TypeOK' /\ RunIsOpen'
<1> USE StepsAssumption, RunBoundsAssumption
<1>0. TypeOK /\ RunIsOpen
  BY DEF IInv
<1>1. CASE UNCHANGED vars
  BY <1>0, <1>1 DEF vars, durable, TypeOK, RunIsOpen
<1>2. CASE Begin \/ Gate
  BY <1>0, <1>2 DEF Begin, Gate, Goto, End, Fault, durable, TypeOK, RunIsOpen, Runs, Pcs,
                    AtStep, BeforeCall
<1>3. CASE Plan \/ GraphRaises
  BY <1>0, <1>3 DEF Plan, GraphRaises, Goto, End, durable, TypeOK, RunIsOpen, Runs, Steps,
                    Pcs, AtStep, BeforeCall
<1>4. CASE Check \/ Call \/ Return
  BY <1>0, <1>4 DEF Check, Call, Return, Goto, durable, TypeOK, RunIsOpen, Current, Attempts,
                    Runs, Steps, Pcs, AtStep, BeforeCall
<1>5. CASE Prepare
  BY <1>0, <1>5, SMTT(30) DEF Prepare, Goto, Fault, TypeOK, RunIsOpen, Current, Attempts,
                    Pcs, AtStep, BeforeCall, AttemptStates
<1>6. CASE Start \/ Settle \/ Cancel
  <2>1. Current \in Attempts
    BY <1>0, <1>6 DEF Start, Settle, Cancel, RunIsOpen, Current, Attempts, AtStep, BeforeCall
  <2>2. LedgerType'
    <3>1. UNCHANGED ledger \/ \E st \in AttemptStates : Record(st)
      BY <1>6 DEF Start, Settle, Cancel, MaybeRecord, FinalState, AttemptStates, StartedStates
    <3> QED BY <1>0, <2>1, <3>1, RecordOutcomes DEF TypeOK, LedgerType
  <2> QED BY <1>0, <1>6, <2>2
          DEF Start, Settle, Cancel, Goto, Fault, Forget, TypeOK, LedgerType, RunIsOpen,
              Pcs, AtStep, BeforeCall
<1>7. CASE Supervise \/ Persist
  BY <1>0, <1>7 DEF Supervise, Persist, Verdict, Route, Goto, Fault, durable, TypeOK,
                    RunIsOpen, Runs, Pcs, AtStep, BeforeCall
<1>8. CASE Finish \/ Crash
  BY <1>0, <1>8 DEF Finish, Crash, Goto, Fault, Forget, durable, TypeOK, RunIsOpen, Pcs
<1> QED BY <1>1, <1>2, <1>3, <1>4, <1>5, <1>6, <1>7, <1>8 DEF Next, Execute, ToolExecutor

\* The attempt under way is one of the model's, and its step is not over before the
\* tool was called.
LEMMA CurrentFacts ==
  ASSUME IInv
  PROVE  /\ pc \in AtStep => Current \in Attempts
         /\ pc \in BeforeCall => Current \notin effects
  BY DEF IInv, TypeOK, RunIsOpen, CallsArePast, Current, Attempts, AtStep, BeforeCall

\* What the steps that write the ledger leave at the attempt under way.
LEMMA WriteOutcomes ==
  ASSUME IInv, Prepare \/ Start \/ Settle \/ Cancel
  PROVE  /\ pc \in AtStep /\ Current \in Attempts
         /\ Rest /\ UNCHANGED <<goal, effects, decided, runs>>
         /\ ledger'[Current] = ledger[Current] \/ ledger'[Current].state # "none"
         /\ ~Prepare => /\ ledger'[Current].effect = ledger[Current].effect
                        /\ \/ ledger'[Current] = ledger[Current]
                           \/ ledger'[Current].state \in StartedStates
                           \/ pc = "reject" /\ ledger'[Current].state = "rejected"
         /\ Prepare => \/ ledger'[Current] = ledger[Current]
                       \/ ledger'[Current].state = "prepared"
<1>0. TypeOK
  BY DEF IInv
<1>1. pc \in AtStep /\ UNCHANGED <<goal, effects, decided, runs>>
  BY DEF Prepare, Start, Settle, Cancel, AtStep, BeforeCall
<1>2. Current \in Attempts
  BY <1>1, CurrentFacts
<1>3. CASE Prepare
  BY <1>0, <1>1, <1>2, <1>3 DEF Prepare, Rest, TypeOK
<1>4. CASE Start \/ Settle \/ Cancel
  <2>1. \/ UNCHANGED ledger
        \/ \E st \in StartedStates : Record(st)
        \/ pc = "reject" /\ Record("rejected")
    BY <1>4 DEF Start, Settle, Cancel, MaybeRecord, FinalState, StartedStates
  <2>2. ~Prepare
    BY <1>4 DEF Prepare, Start, Settle, Cancel
  <2> QED BY <1>0, <1>1, <1>2, <2>1, <2>2, RecordOutcomes
          DEF Rest, AttemptStates, StartedStates
<1> QED BY <1>3, <1>4

\* The steps that touch neither the ledger nor the calls.
Control == Begin \/ Gate \/ Plan \/ GraphRaises \/ Check \/ Return \/ Supervise
           \/ Persist \/ Finish \/ Crash

\* Every step stutters, touches neither, calls the tool, or writes the ledger.
LEMMA ControlOutcomes ==
  ASSUME [Next]_vars
  PROVE  \/ UNCHANGED vars
         \/ Control /\ UNCHANGED <<ledger, effects>>
         \/ Call
         \/ Prepare \/ Start \/ Settle \/ Cancel
  BY DEF Next, Execute, ToolExecutor, Control, Begin, Gate, Plan, GraphRaises, Check,
         Return, Supervise, Persist, Finish, Crash, durable

-----------------------------------------------------------------------------
\* A call comes after all the others and under a receipt that no step takes back.
LEMMA StepReceipts ==
  ASSUME IInv, [Next]_vars, TypeOK'
  PROVE  CallsArePast' /\ CallHasReceipt' /\ EffectsHaveReceipts'
<1>0. TypeOK /\ RunIsOpen /\ CallsArePast /\ CallHasReceipt /\ EffectsHaveReceipts
  BY DEF IInv
<1>1. CASE UNCHANGED vars
  BY <1>0, <1>1 DEF vars, durable, CallsArePast, CallHasReceipt, EffectsHaveReceipts, Current
<1>2. CASE Control /\ UNCHANGED <<ledger, effects>>
  <2>1. CallsArePast' /\ CallHasReceipt'
    BY <1>0, <1>2
       DEF Control, Begin, Gate, Plan, GraphRaises, Check, Return, Supervise, Persist,
           Finish, Crash, Route, Goto, End, Forget, TypeOK, RunIsOpen, CallsArePast,
           CallHasReceipt, Attempts, Steps, Runs, BeforeCall
  <2> QED BY <1>0, <1>2, <2>1 DEF EffectsHaveReceipts
<1>3. CASE Call
  <2>1. pc = "call" /\ Current \in Attempts /\ ledger[Current].state = "executing"
    BY <1>0, <1>3, CurrentFacts DEF Call, CallHasReceipt, AtStep, BeforeCall
  <2>2. effects' = effects \cup {Current} /\ pc' = "tool" /\ UNCHANGED <<ledger, runs, step>>
    BY <1>3 DEF Call, Goto
  <2>3. CallsArePast'
    BY <1>0, <2>1, <2>2 DEF TypeOK, CallsArePast, Current, Attempts, Runs, Steps, BeforeCall
  <2> QED BY <1>0, <2>1, <2>2, <2>3 DEF CallHasReceipt, EffectsHaveReceipts, StartedStates
<1>4. CASE Prepare \/ Start \/ Settle \/ Cancel
  <2>1. /\ pc \in AtStep /\ Current \in Attempts /\ Rest /\ UNCHANGED <<effects, runs>>
        /\ pc' = "idle" \/ step' = step
        /\ pc' \in BeforeCall => pc \in BeforeCall
    BY <1>4, WriteOutcomes
       DEF Prepare, Start, Settle, Cancel, Goto, Forget, BeforeCall
  <2>2. CallsArePast'
    BY <1>0, <2>1 DEF TypeOK, CallsArePast, AtStep, BeforeCall
  <2>3. CallHasReceipt'
    <3> SUFFICES ASSUME pc' = "call" PROVE ledger'[Current'].state = "executing"
      BY DEF CallHasReceipt
    <3>1. Record("executing") /\ Current' = Current
      BY <1>4 DEF Prepare, Start, Settle, Cancel, Goto, Forget, Current
    <3> QED BY <1>0, <2>1, <3>1, RecordOutcomes DEF AttemptStates, StartedStates
  <2>4. ASSUME NEW a \in effects PROVE ledger'[a].state \in StartedStates
    <3>1. a \in Attempts /\ ledger[a].state \in StartedStates
      BY <1>0, <2>4 DEF TypeOK, EffectsHaveReceipts
    <3>2. CASE a # Current
      BY <2>1, <3>1, <3>2 DEF Rest
    <3>3. CASE a = Current
      <4>1. pc \notin BeforeCall
        BY <2>4, <3>3, CurrentFacts
      <4> QED BY <1>4, <3>1, <3>3, <4>1, WriteOutcomes DEF Prepare, BeforeCall
    <3> QED BY <3>2, <3>3
  <2> QED BY <2>1, <2>2, <2>3, <2>4 DEF EffectsHaveReceipts
<1> QED BY <1>1, <1>2, <1>3, <1>4, ControlOutcomes

\* Past the gate the started writes are those of the run, so a call is too.
LEMMA StepWrites ==
  ASSUME IInv, [Next]_vars, TypeOK', EffectsHaveReceipts'
  PROVE  NoOldWrites' /\ WritesInOneRun'
<1>0. TypeOK /\ RunIsOpen /\ EffectsHaveReceipts /\ NoOldWrites /\ WritesInOneRun
  BY DEF IInv
<1>1. CASE UNCHANGED vars
  BY <1>0, <1>1 DEF vars, durable, NoOldWrites, Proceeds, WritesInOneRun, Unresolved
<1>2. CASE Control /\ UNCHANGED <<ledger, effects>>
  <2>1. WritesInOneRun'
    BY <1>0, <1>2 DEF WritesInOneRun
  <2>2. Unresolved' = Unresolved
    BY <1>2 DEF Unresolved
  <2>3. Proceeds' => (Proceeds \/ Unresolved = {}) /\ runs' = runs
    BY <1>0, <1>2
       DEF Control, Begin, Gate, Plan, GraphRaises, Check, Return, Supervise, Persist,
           Finish, Crash, Route, Goto, End, Forget, TypeOK, RunIsOpen, Proceeds, InGraph,
           AtStep, BeforeCall
  <2> QED BY <1>0, <2>1, <2>2, <2>3 DEF NoOldWrites
<1>3. CASE Call
  <2>1. /\ pc = "call" /\ effects' = effects \cup {Current} /\ UNCHANGED <<ledger, runs>>
    BY <1>3 DEF Call
  <2>2. Unresolved' = Unresolved
    BY <2>1 DEF Unresolved
  <2>3. \A a \in Unresolved : a[1] = runs
    BY <1>0, <2>1 DEF NoOldWrites, Proceeds, InGraph, AtStep, BeforeCall
  <2>4. NoOldWrites'
    BY <2>1, <2>2, <2>3 DEF NoOldWrites
  <2>5. \A a \in effects' : ledger'[a].effect => a \in Unresolved
    BY <2>1 DEF EffectsHaveReceipts, Unresolved, TypeOK
  <2> QED BY <2>3, <2>4, <2>5 DEF WritesInOneRun
<1>4. CASE Prepare \/ Start \/ Settle \/ Cancel
  <2>1. /\ pc \in AtStep /\ Current \in Attempts /\ Rest /\ UNCHANGED <<effects, runs>>
        /\ Current \in effects => ledger'[Current].effect = ledger[Current].effect
    BY <1>4, WriteOutcomes, CurrentFacts DEF Prepare, BeforeCall
  <2>2. \A a \in Unresolved' : a = Current \/ a \in Unresolved
    BY <2>1 DEF Unresolved, Rest
  <2>3. NoOldWrites'
    BY <1>0, <2>1, <2>2 DEF NoOldWrites, Proceeds, InGraph, Current
  <2>4. \A a \in effects' : ledger'[a].effect = ledger[a].effect
    BY <1>0, <2>1 DEF Rest, TypeOK
  <2> QED BY <1>0, <2>1, <2>3, <2>4 DEF WritesInOneRun
<1> QED BY <1>1, <1>2, <1>3, <1>4, ControlOutcomes

\* A run goes on only while the outcome of every write is known.
LEMMA StepCertainty ==
  ASSUME IInv, [Next]_vars, TypeOK'
  PROVE  Certainty'
<1>0. TypeOK /\ RunIsOpen /\ Certainty
  BY DEF IInv
<1>1. CASE UNCHANGED vars
  BY <1>0, <1>1 DEF vars, durable, Certainty, UncertainWrites, Current
<1>2. CASE Control /\ UNCHANGED <<ledger, effects>>
  <2>1. UncertainWrites' = UncertainWrites
    BY <1>2 DEF UncertainWrites
  <2>2. Unresolved = {} => UncertainWrites = {}
    BY DEF Unresolved, UncertainWrites, StartedStates
  <2>3. CASE Begin \/ Gate \/ Plan \/ GraphRaises
    BY <1>0, <2>1, <2>2, <2>3
       DEF Begin, Gate, Plan, GraphRaises, Goto, End, durable, Certainty
  <2>4. CASE Check \/ Return
    BY <1>0, <2>1, <2>4 DEF Check, Return, Goto, durable, Certainty, Current
  <2>5. CASE Supervise
    <3>1. result = "uncertain" => decision' = "fail"
      BY <2>5 DEF Supervise, Verdict
    <3> QED BY <1>0, <2>1, <2>5, <3>1 DEF Supervise, Goto, durable, Certainty
  <2>6. CASE Persist
    <3>1. pc' \in {"plan", "ended"} /\ (decision' = decision \/ decision' = "fail")
      BY <2>6 DEF Persist, Route, Goto
    <3>2. pc' = "plan" => decision' # "fail"
      BY <2>6 DEF Persist, Route, Goto
    <3> QED BY <1>0, <2>1, <2>6, <3>1, <3>2 DEF Persist, Certainty
  <2>7. CASE Finish \/ Crash
    BY <1>0, <2>1, <2>7 DEF Finish, Crash, Goto, Forget, durable, RunIsOpen, Certainty
  <2> QED BY <1>2, <2>3, <2>4, <2>5, <2>6, <2>7 DEF Control
<1>3. CASE Call
  <2>1. UncertainWrites' = UncertainWrites /\ Current' = Current
    BY <1>3 DEF Call, UncertainWrites, Current
  <2> QED BY <1>0, <1>3, <2>1 DEF Call, Goto, Certainty
<1>4. CASE Prepare \/ Start \/ Settle \/ Cancel
  <2>1. /\ pc \in AtStep /\ Current \in Attempts /\ Rest /\ goal' = goal /\ goal # "DONE"
    BY <1>0, <1>4, WriteOutcomes DEF RunIsOpen, AtStep, BeforeCall
  <2>2. UncertainWrites' \subseteq UncertainWrites \cup {Current}
    BY <2>1 DEF UncertainWrites, Rest
  <2>3. ledger'[Current].state \notin {"unknown", "executing"} =>
          UncertainWrites' \subseteq UncertainWrites \ {Current}
    BY <2>1 DEF UncertainWrites, Rest
  <2>4. CASE Prepare
    <3>1. pc = "prepare" /\ UncertainWrites = {}
      BY <1>0, <2>4 DEF Prepare, Certainty
    <3>2. UncertainWrites' = {}
      BY <2>2, <2>3, <2>4, <3>1, WriteOutcomes DEF UncertainWrites
    <3> QED BY <2>1, <2>4, <3>2 DEF Prepare, Goto, Certainty
  <2>5. CASE Start
    <3>1. UncertainWrites = {} /\ pc' \in {"call", "settle"} /\ Current' = Current
      BY <1>0, <2>5 DEF Start, Goto, Certainty, Current
    <3> QED BY <2>1, <2>2, <3>1 DEF Certainty
  <2>6. CASE Settle
    <3>1. pc' = "supervise"
      BY <2>6 DEF Settle, Goto
    <3>2. CASE pc = "reject"
      <4>1. UncertainWrites = {}
        BY <1>0, <3>2 DEF Certainty
      <4>2. UNCHANGED ledger \/ Record("rejected")
        BY <2>6, <3>2 DEF Settle, FinalState, MaybeRecord
      <4>3. UNCHANGED ledger \/ ledger'[Current].state = "rejected"
        BY <1>0, <2>1, <4>2, RecordOutcomes DEF AttemptStates
      <4>4. UncertainWrites' = {}
        BY <2>3, <4>1, <4>3 DEF UncertainWrites
      <4> QED BY <2>1, <3>1, <4>4 DEF Certainty
    <3>3. CASE pc = "settle" /\ result' # "uncertain"
      <4>1. Record(FinalState) /\ result # "uncertain"
        BY <2>6, <3>3 DEF Settle
      <4>2. ledger'[Current].state \notin {"unknown", "executing"}
        BY <1>0, <2>1, <3>3, <4>1, RecordOutcomes
           DEF FinalState, AttemptStates, StartedStates
      <4>3. UncertainWrites' = {}
        BY <1>0, <2>3, <3>3, <4>2 DEF Certainty
      <4> QED BY <2>1, <3>1, <4>3 DEF Certainty
    <3>4. CASE pc = "settle" /\ result' = "uncertain"
      BY <2>1, <3>1, <3>4 DEF Certainty
    <3> QED BY <2>6, <3>2, <3>3, <3>4 DEF Settle
  <2>7. CASE Cancel
    BY <2>1, <2>7 DEF Cancel, Forget, Goto, Certainty
  <2> QED BY <1>4, <2>4, <2>5, <2>6, <2>7
<1> QED BY <1>1, <1>2, <1>3, <1>4, ControlOutcomes

\* So nothing is called after a write whose outcome is unknown.
LEMMA StepUnknownIsLast ==
  ASSUME IInv, [Next]_vars, TypeOK', CallsArePast'
  PROVE  UnknownWriteIsLast'
<1>0. TypeOK /\ RunIsOpen /\ CallsArePast /\ Certainty /\ UnknownWriteIsLast
  BY DEF IInv
\* The attempt under way is not earlier than any call.
<1>1. ASSUME pc \in AtStep, NEW b \in effects \cup {Current}
      PROVE  ~Later(Current, b)
  BY <1>0, <1>1 DEF TypeOK, CallsArePast, Later, Current, Attempts, Runs, Steps, RunIsOpen,
                    AtStep, BeforeCall
<1>2. CASE UNCHANGED vars
  BY <1>0, <1>2 DEF vars, durable, UnknownWriteIsLast
<1>3. CASE Control /\ UNCHANGED <<ledger, effects>>
  BY <1>0, <1>3 DEF UnknownWriteIsLast
<1>4. CASE Call
  <2>1. effects' = effects \cup {Current} /\ UNCHANGED ledger /\ pc = "call"
    BY <1>4 DEF Call
  <2>2. \A a \in effects' : ledger[a].effect /\ ledger[a].state \in {"unknown", "executing"}
                            => a = Current
    BY <1>0, <2>1, CurrentFacts DEF Certainty, UncertainWrites, TypeOK, AtStep, BeforeCall
  <2> QED BY <1>1, <2>1, <2>2 DEF UnknownWriteIsLast, AtStep, BeforeCall
<1>5. CASE Prepare \/ Start \/ Settle \/ Cancel
  <2>1. pc \in AtStep /\ Current \in Attempts /\ Rest /\ UNCHANGED effects
    BY <1>5, WriteOutcomes
  <2>2. \A a \in effects : a = Current \/ ledger'[a] = ledger[a]
    BY <1>0, <2>1 DEF Rest, TypeOK
  <2> QED BY <1>0, <1>1, <2>1, <2>2 DEF UnknownWriteIsLast
<1> QED BY <1>2, <1>3, <1>4, <1>5, ControlOutcomes

\* Steps follow recorded decisions.
LEMMA StepDecisions ==
  ASSUME IInv, [Next]_vars, TypeOK'
  PROVE  PlansAreDecided' /\ StepsHaveDecisions'
<1>0. TypeOK /\ RunIsOpen /\ PlansAreDecided /\ StepsHaveDecisions
  BY DEF IInv
<1>1. decided \subseteq decided'
  BY DEF Next, vars, Execute, ToolExecutor, Begin, Gate, Plan, GraphRaises, Prepare, Check,
         Start, Call, Return, Settle, Supervise, Persist, Finish, Crash, Cancel, durable
<1>2. PlansAreDecided'
  <2>1. CASE UNCHANGED vars
    BY <1>0, <2>1 DEF vars, durable, PlansAreDecided, GoesOn
  <2>2. CASE Begin \/ Gate \/ Plan \/ GraphRaises
    BY <1>0, <2>2 DEF Begin, Gate, Plan, GraphRaises, Goto, End, durable, TypeOK, RunIsOpen,
                      PlansAreDecided, GoesOn, AtStep, BeforeCall
  <2>3. CASE Prepare \/ Check \/ Start \/ Call \/ Return \/ Settle
    BY <1>0, <2>3 DEF Prepare, Check, Start, Call, Return, Settle, Goto, durable,
                      PlansAreDecided, GoesOn, AtStep, BeforeCall
  <2>4. CASE Supervise \/ Finish \/ Crash \/ Cancel
    BY <1>0, <2>4 DEF Supervise, Finish, Crash, Cancel, Goto, Forget, PlansAreDecided,
                      AtStep, BeforeCall
  <2>5. CASE Persist
    <3>1. /\ pc' = Route(decision') /\ UNCHANGED <<runs, step>> /\ decision # "none"
          /\ decision' = "fail" \/ (decision' = decision /\ <<runs, step, decision>> \in decided')
      BY <1>0, <2>5 DEF Persist, Goto, RunIsOpen
    <3> QED BY <1>0, <3>1 DEF Route, TypeOK, PlansAreDecided, GoesOn, AtStep, BeforeCall
  <2> QED BY <2>1, <2>2, <2>3, <2>4, <2>5 DEF Next, Execute, ToolExecutor
<1>3. ASSUME NEW r \in Runs, NEW s \in Steps, s > 1, ledger'[<<r, s>>].state # "none"
      PROVE  GoesOn(r, s - 1)'
  <2>1. CASE ledger'[<<r, s>>] = ledger[<<r, s>>]
    BY <1>0, <1>1, <1>3, <2>1 DEF StepsHaveDecisions, GoesOn
  <2>2. CASE ledger'[<<r, s>>] # ledger[<<r, s>>]
    <3>1. /\ Prepare \/ Start \/ Settle \/ Cancel
          /\ <<r, s>> \in Attempts
      BY <1>3, <2>2, ControlOutcomes DEF Call, vars, durable, Attempts
    <3>2. <<r, s>> = Current /\ pc \in AtStep
      BY <2>2, <3>1, WriteOutcomes DEF Rest
    <3>3. r = runs /\ s = step
      BY <3>2 DEF Current
    <3> QED BY <1>0, <1>1, <1>3, <3>2, <3>3 DEF PlansAreDecided, GoesOn
  <2> QED BY <2>1, <2>2
<1>4. goal' = "DONE" => <<runs, step, "done">>' \in decided'
  <2>1. CASE goal = "DONE"
    <3>1. pc = "idle"
      BY <1>0, <2>1 DEF RunIsOpen
    <3>2. UNCHANGED <<runs, step>>
      BY <2>1, <3>1 DEF Next, vars, Execute, ToolExecutor, Begin, Gate, Plan, GraphRaises,
                        Prepare, Check, Start, Call, Return, Settle, Supervise, Persist,
                        Finish, Crash, Cancel
    <3> QED BY <1>0, <1>1, <2>1, <3>2 DEF StepsHaveDecisions
  <2>2. CASE goal # "DONE" /\ goal' = "DONE"
    <3>1. Finish
      BY <2>2 DEF Next, vars, Execute, ToolExecutor, Begin, Gate, Plan, GraphRaises,
                  Prepare, Check, Start, Call, Return, Settle, Supervise, Persist, Crash,
                  Cancel, durable
    <3> QED BY <1>0, <2>2, <3>1 DEF Finish, PlansAreDecided
  <2> QED BY <2>1, <2>2
<1> QED BY <1>2, <1>3, <1>4 DEF StepsHaveDecisions, GoesOn

\* Every step, and stuttering, keeps the invariant.
LEMMA NextIInv == IInv /\ [Next]_vars => IInv'
<1> SUFFICES ASSUME IInv, [Next]_vars PROVE IInv'
  OBVIOUS
<1>1. TypeOK' /\ RunIsOpen'
  BY StepTypeOK
<1>2. CallsArePast' /\ CallHasReceipt' /\ EffectsHaveReceipts'
  BY <1>1, StepReceipts
<1>3. NoOldWrites' /\ WritesInOneRun'
  BY <1>1, <1>2, StepWrites
<1>4. Certainty' /\ UnknownWriteIsLast'
  BY <1>1, <1>2, StepCertainty, StepUnknownIsLast
<1>5. PlansAreDecided' /\ StepsHaveDecisions'
  BY <1>1, StepDecisions
<1> QED BY <1>1, <1>2, <1>3, <1>4, <1>5 DEF IInv

-----------------------------------------------------------------------------
\* The inductive invariant holds in every behaviour.
THEOREM Invariance == Spec => []IInv
<1> QED BY InitIInv, NextIInv, PTL DEF Spec

\* Every variable keeps its type, and a run never takes more than max_steps steps.
THEOREM TypeCorrect == Spec => []TypeOK
<1>1. IInv => TypeOK
  BY DEF IInv
<1> QED BY <1>1, Invariance, PTL

\* Every call of tool code is on record as started, for ever, whatever fails.
THEOREM CallsAreRecorded == Spec => []EffectsHaveReceipts
<1>1. IInv => EffectsHaveReceipts
  BY DEF IInv
<1> QED BY <1>1, Invariance, PTL

\* No write is replayed by a later run, for any number of runs, steps and faults.
THEOREM NoWriteIsReplayed == Spec => []WritesInOneRun
<1>1. IInv => WritesInOneRun
  BY DEF IInv
<1> QED BY <1>1, Invariance, PTL

\* A write whose outcome is unknown is the last call of its goal.
THEOREM NothingFollowsAnUnknownWrite == Spec => []UnknownWriteIsLast
<1>1. IInv => UnknownWriteIsLast
  BY DEF IInv
<1> QED BY <1>1, Invariance, PTL

\* A goal is DONE only when the outcome of each of its writes is recorded.
THEOREM DoneGoalsAreCertain == Spec => []DoneIsCertain
<1>1. IInv => DoneIsCertain
  BY DEF IInv, Certainty, UncertainWrites, DoneIsCertain
<1> QED BY <1>1, Invariance, PTL

\* Every step follows a recorded decision to go on, and DONE a recorded "done".
THEOREM DecisionsAreRecorded == Spec => []StepsHaveDecisions
<1>1. IInv => StepsHaveDecisions
  BY DEF IInv
<1> QED BY <1>1, Invariance, PTL
=============================================================================
