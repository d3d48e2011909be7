------------------------ MODULE ConfirmedRequestsProofs ------------------------
(***************************************************************************)
(* What the two parts of ConfirmedRequests keep: a confirmed service       *)
(* operation, for every set of requests, chats and targets and every       *)
(* number of selections and restarts, and the intake of messages, for      *)
(* every number of deliveries and every size and age of the deduper.       *)
(***************************************************************************)
EXTENDS ConfirmedRequests, FiniteSetTheorems, WellFoundedInduction, TLAPS

Write == [chat : Chats, target : Targets, by : Requests \cup {Nobody}]

Typed ==
  /\ registry \in Targets /\ selections \in 0..MaxSelections
  /\ pending \in [Chats -> Targets \cup {NoTarget}] /\ stored \in [Chats -> Targets \cup {NoTarget}]
  /\ writes \in Seq(Write) /\ req \in [Requests -> Request]
  /\ grant \in [Requests -> {"none", "pending", "granted", "used", "lost"}]
  /\ ledger \in [Requests -> Receipts]
  /\ process \in [Requests -> [exit : Exits, on : Targets \cup {NoTarget}]]
  /\ \A r \in Requests : req[r].at # "new" => req[r].chat \in Chats

\* Where nothing has been written down for the request yet, and where it has.
Before == {"new", "asked", "restoring", "storing", "reading", "checking", "targeting", "preparing"}
Prepared == {"auditing", "rejecting", "starting"}
Begun == {"launching", "running", "finishing"}

\* How the handler, the confirmation, the receipt and the process of a request agree.
Agree(r) ==
  /\ req[r].at \in Before => ledger[r] = "none" /\ process[r].exit = "none" /\ grant[r] # "used"
  /\ req[r].at \in Prepared => ledger[r] = "prepared" /\ process[r].exit = "none"
  /\ req[r].at \in Begun => ledger[r] = "executing"
  /\ req[r].at \in Begun \cup {"starting"} => grant[r] = "used"
  /\ req[r].at = "launching" => process[r].exit = "none"
  /\ req[r].at = "running" => process[r].exit = "running"
  /\ req[r].at = "finishing" => process[r].exit # "running"
  /\ grant[r] = "used" => Matches(r)
  /\ req[r].at \in {"refused", "failed"} => process[r].exit = "none"
  /\ req[r].at = "ok" => process[r].exit = "zero" /\ ledger[r] = "returned_ok"
  /\ process[r].exit # "none" => /\ process[r].on \in Supported /\ grant[r] = "used"
                                 /\ ledger[r] \in {"executing", "unknown", "returned_ok"}
  /\ ledger[r] = "returned_ok" => process[r].exit = "zero"

IInv == Typed /\ \A r \in Requests : Agree(r)

-----------------------------------------------------------------------------
LEMMA InitIInv == Init => IInv
<1> SUFFICES ASSUME Init PROVE IInv
  OBVIOUS
<1>1. Typed
  <2>1. writes \in Seq(Write)
    BY DEF Init
  <2> QED
    BY <2>1, ServiceOperationAssumption DEF Init, Typed, Request, Steps, Waits, Receipts, Exits
<1>2. \A r \in Requests : Agree(r)
  BY DEF Init, Agree, Before, Prepared, Begun
<1> QED
  BY <1>1, <1>2 DEF IInv

\* What concerns a request changes in its own steps only.
Same(r) == /\ req'[r] = req[r] /\ grant'[r] = grant[r] /\ ledger'[r] = ledger[r]
           /\ process'[r] = process[r]

LEMMA SameAgree == ASSUME NEW r \in Requests, Agree(r), Same(r) PROVE Agree(r)'
BY DEF Agree, Same, Matches

\* The steps of a request's handler that only move it.
LEMMA MovesAgree ==
  ASSUME Typed, NEW r \in Requests, Agree(r), NEW at \in Before, req[r].at \in Before,
         req'[r].at \in {at, "gone", "refused"}, req'[r].names = req[r].names,
         grant'[r] = grant[r], ledger'[r] = ledger[r], process'[r] = process[r]
  PROVE  Agree(r)'
BY DEF Agree, Before, Prepared, Begun

\* Goto changes the place of one request.
LEMMA GotoFacts ==
  ASSUME Typed, NEW r \in Requests, NEW at \in Steps, Goto(r, at)
  PROVE  /\ req' \in [Requests -> Request] /\ req'[r].at = at
         /\ req'[r].names = req[r].names /\ req'[r].target = req[r].target
         /\ req'[r].chat = req[r].chat
         /\ \A d \in Requests : d # r => req'[d] = req[d]
<1>1. req[r] \in Request /\ req' = [req EXCEPT ![r] = [req[r] EXCEPT !.at = at]]
  BY DEF Typed, Goto
<1>2. [req[r] EXCEPT !.at = at] \in Request
  BY <1>1 DEF Request
<1>3. req' \in [Requests -> Request] /\ req'[r] = [req[r] EXCEPT !.at = at]
  BY <1>1, <1>2 DEF Typed
<1>4. \A d \in Requests : d # r => req'[d] = req[d]
  BY <1>1 DEF Typed
<1> QED
  BY <1>1, <1>3, <1>4 DEF Request

-----------------------------------------------------------------------------
\* The steps of a request, each for the request itself

LEMMA AskAgree ==
  ASSUME IInv, NEW r \in Requests, NEW c \in Chats, NEW names \in Targets \cup {NoTarget},
         Ask(r, c, names)
  PROVE  Agree(r)'
<1>1. req'[r].at = "asked" /\ req[r].at = "new" /\ grant'[r] = "pending"
  BY DEF IInv, Typed, Request, Ask
<1>2. ledger' = ledger /\ process' = process /\ Agree(r)
  BY DEF IInv, Ask
<1> QED
  BY <1>1, <1>2 DEF Agree, Before, Prepared, Begun

LEMMA GrantAgree ==
  ASSUME IInv, NEW r \in Requests, Confirm(r) \/ GrantLost(r)
  PROVE  Agree(r)'
<1> USE DEF IInv
<1>1. CASE Confirm(r)
  <2>1. req'[r].at = "restoring" /\ req[r].at = "asked" /\ grant'[r] = "granted"
    BY <1>1, GotoFacts DEF Confirm, Typed, Steps
  <2>2. ledger' = ledger /\ process' = process /\ Agree(r)
    BY <1>1 DEF Confirm
  <2> QED
    BY <2>1, <2>2 DEF Agree, Before, Prepared, Begun
<1>2. CASE GrantLost(r)
  <2>1. grant'[r] = "lost" /\ grant[r] # "used" /\ UNCHANGED <<req, ledger, process>>
    BY <1>2 DEF GrantLost, Typed
  <2> QED
    BY <2>1 DEF Agree, Begun
<1> QED
  BY <1>1, <1>2

\* Up to the receipt only the place of the handler changes.
LEMMA EarlyAgree ==
  ASSUME IInv, NEW r \in Requests, Restore(r) \/ Read(r) \/ Restored(r) \/ Check(r)
  PROVE  Agree(r)'
<1> USE DEF IInv
<1>1. grant' = grant /\ ledger' = ledger /\ process' = process /\ req[r].at \in Before
  BY DEF Restore, Read, Restored, Check, Before
<1>2. CASE Restore(r)
  <2>1. PICK at \in {"reading", "storing"} : Goto(r, at)
    BY <1>2 DEF Restore
  <2> QED
    BY <1>1, <2>1, GotoFacts, MovesAgree DEF Before, Steps, Waits
<1>3. CASE Read(r)
  <2>1. req'[r].at \in {"checking", "gone"} /\ req'[r].names = req[r].names
    BY <1>3 DEF Read, Goto, Typed, Request
  <2> QED
    BY <1>1, <2>1, MovesAgree DEF Before
<1>4. CASE Restored(r)
  BY <1>1, <1>4, GotoFacts, MovesAgree DEF Restored, Before, Steps, Waits
<1>5. CASE Check(r)
  <2>1. req'[r].at \in {"preparing", "refused"} /\ req'[r].names = req[r].names
    BY <1>5 DEF Check, Goto, Typed, Request
  <2> QED
    BY <1>1, <2>1, MovesAgree DEF Before
<1> QED
  BY <1>2, <1>3, <1>4, <1>5

\* The target of the receipt is fixed before anything is confirmed against it.
LEMMA TargetAgree == ASSUME IInv, NEW r \in Requests, Target(r) PROVE Agree(r)'
<1>1. req'[r].at = "preparing" /\ req[r].at = "preparing" /\ UNCHANGED <<grant, ledger, process>>
  BY DEF IInv, Typed, Request, Target
<1> QED
  BY <1>1 DEF IInv, Agree, Before, Prepared, Begun

LEMMA PrepareAgree == ASSUME IInv, NEW r \in Requests, Prepare(r) PROVE Agree(r)'
<1> USE DEF IInv
<1>1. req[r].at = "preparing" /\ process' = process
  BY DEF Prepare
<1>2. CASE ledger' = [ledger EXCEPT ![r] = "prepared"] /\ Goto(r, "auditing")
           /\ grant' = [grant EXCEPT ![r] = IF @ # "granted" THEN @
                                            ELSE IF Matches(r) THEN "used" ELSE "lost"]
  <2>1. /\ req'[r].at = "auditing" /\ req'[r].names = req[r].names /\ req'[r].target = req[r].target
        /\ ledger'[r] = "prepared"
    BY <1>2, GotoFacts DEF Typed, Steps, Waits
  <2>2. grant'[r] = "used" => Matches(r)'
    BY <1>1, <1>2, <2>1 DEF Typed, Agree, Before, Matches
  <2>3. process[r].exit = "none"
    BY <1>1 DEF Agree, Before
  <2> QED
    BY <1>1, <2>1, <2>2, <2>3 DEF Agree, Before, Prepared, Begun
<1>3. CASE Goto(r, "refused") /\ UNCHANGED <<ledger, grant>>
  <2>1. req'[r].at = "refused" /\ req'[r].names = req[r].names /\ req'[r].target = req[r].target
    BY <1>3, GotoFacts DEF Steps
  <2> QED
    BY <1>1, <1>3, <2>1 DEF Agree, Before, Prepared, Begun
<1> QED
  BY <1>2, <1>3 DEF Prepare

\* After it the confirmation is used up, and every refusal comes before the process.
LEMMA LateAgree ==
  ASSUME IInv, NEW r \in Requests, Audit(r) \/ Reject(r) \/ Start(r)
  PROVE  Agree(r)'
<1> USE DEF IInv
<1>1. grant' = grant /\ process' = process /\ req[r].at \in Prepared
  BY DEF Audit, Reject, Start, Prepared
<1>2. process[r].exit = "none" /\ ledger[r] = "prepared"
  BY <1>1 DEF Agree
<1>3. CASE Audit(r)
  <2>1. PICK at \in {"starting", "rejecting"} : Goto(r, at) /\ (at = "starting" => grant[r] = "used")
    BY <1>3 DEF Audit
  <2>2. /\ req'[r].at = at /\ req'[r].names = req[r].names /\ req'[r].target = req[r].target
        /\ ledger' = ledger
    BY <1>3, <2>1, GotoFacts DEF Audit, Steps, Waits
  <2> QED
    BY <1>1, <1>2, <2>1, <2>2 DEF Agree, Matches, Before, Prepared, Begun
<1>4. CASE Reject(r)
  <2>1. /\ req'[r].at = "refused" /\ req'[r].names = req[r].names /\ req'[r].target = req[r].target
        /\ ledger'[r] \in {"prepared", "rejected"}
    BY <1>2, <1>4, GotoFacts DEF Reject, Steps, Typed
  <2> QED
    BY <1>1, <1>2, <2>1 DEF Agree, Matches, Before, Prepared, Begun
<1>5. CASE Start(r)
  <2>1. /\ req'[r].names = req[r].names /\ req'[r].target = req[r].target
        /\ \/ req'[r].at = "launching" /\ ledger'[r] = "executing"
           \/ req'[r].at = "refused" /\ ledger'[r] = "prepared"
    BY <1>2, <1>5, GotoFacts DEF Start, Steps, Typed
  <2>2. grant[r] = "used"
    BY <1>5 DEF Start, Agree, Begun
  <2> QED
    BY <1>1, <1>2, <2>1, <2>2 DEF Agree, Matches, Before, Prepared, Begun
<1> QED
  BY <1>3, <1>4, <1>5

-----------------------------------------------------------------------------
\* The process runs where the target is checked last.
LEMMA LaunchAgree == ASSUME IInv, NEW r \in Requests, Launch(r) PROVE Agree(r)'
<1> USE DEF IInv
<1>1. /\ req[r].at = "launching" /\ UNCHANGED <<grant, ledger>> /\ grant[r] = "used"
      /\ ledger[r] = "executing" /\ process[r].exit = "none" /\ Matches(r)
  BY DEF Launch, Agree, Begun
<1>2. CASE /\ MayRun(r) /\ process' = [process EXCEPT ![r] = [exit |-> "running", on |-> registry]]
           /\ Goto(r, "running")
  <2>1. /\ req'[r].at = "running" /\ req'[r].names = req[r].names /\ req'[r].target = req[r].target
        /\ process'[r].exit = "running" /\ process'[r].on = registry /\ registry \in Supported
    BY <1>2, GotoFacts DEF MayRun, Steps, Waits, Typed
  <2> QED
    BY <1>1, <2>1 DEF Agree, Matches, Before, Prepared, Begun
<1>3. CASE Goto(r, "finishing") /\ UNCHANGED process
  <2>1. req'[r].at = "finishing" /\ req'[r].names = req[r].names /\ req'[r].target = req[r].target
    BY <1>3, GotoFacts DEF Steps, Waits
  <2> QED
    BY <1>1, <1>3, <2>1 DEF Agree, Matches, Before, Prepared, Begun
<1> QED
  BY <1>2, <1>3 DEF Launch

LEMMA ExitedAgree ==
  ASSUME IInv, NEW r \in Requests, NEW how \in {"zero", "other", "killed"}, Exited(r, how)
  PROVE  Agree(r)'
<1> USE DEF IInv
<1>1. /\ req[r].at = "running" /\ UNCHANGED <<grant, ledger>> /\ grant[r] = "used"
      /\ ledger[r] = "executing" /\ Agree(r)
  BY DEF Exited, Agree, Begun
<1>2. /\ req'[r].at = "finishing" /\ req'[r].names = req[r].names /\ req'[r].target = req[r].target
      /\ process'[r].exit = how /\ process'[r].on = process[r].on
  BY GotoFacts DEF Exited, Steps, Waits, Typed
<1> QED
  BY <1>1, <1>2 DEF Agree, Matches, Before, Prepared, Begun

\* The receipt at the end tells what the process did, and the answer needs the receipt.
LEMMA FinishAgree == ASSUME IInv, NEW r \in Requests, Finish(r) PROVE Agree(r)'
<1> USE DEF IInv
<1>1. /\ req[r].at = "finishing" /\ UNCHANGED <<grant, process>> /\ grant[r] = "used" /\ Agree(r)
      /\ ledger[r] = "executing" /\ process[r].exit \in {"none", "zero", "other", "killed"}
  BY DEF Finish, Agree, Begun, Typed, Exits
<1>2. PICK at \in {"ok", "failed", "unsure"} :
        /\ Goto(r, at)
        /\ \/ at = "unsure" /\ ledger' = ledger
           \/ at = Answer(r) /\ ledger' = [ledger EXCEPT ![r] = Outcome(r)]
  BY DEF Finish, Answer, Outcome
<1>3. req'[r].at = at /\ req'[r].names = req[r].names /\ req'[r].target = req[r].target
  BY <1>2, GotoFacts DEF Steps
<1>4. CASE at = "unsure" /\ ledger' = ledger
  BY <1>1, <1>3, <1>4 DEF Agree, Matches, Before, Prepared, Begun
<1>5. CASE at = Answer(r) /\ ledger' = [ledger EXCEPT ![r] = Outcome(r)]
  <2>1. ledger'[r] = Outcome(r)
    BY <1>5 DEF Typed
  <2> QED
    BY <1>1, <1>3, <1>5, <2>1 DEF Agree, Matches, Before, Prepared, Begun, Answer, Outcome
<1> QED
  BY <1>2, <1>4, <1>5

\* A cancelled handler leaves at most the receipt it was writing.
LEMMA CancelAgree == ASSUME IInv, NEW r \in Requests, Cancel(r) PROVE Agree(r)'
<1> USE DEF IInv
<1>1. UNCHANGED <<grant, process>> /\ Agree(r) /\ req[r].at \in Waits
  BY DEF Cancel
<1>2. req'[r].at = "gone" /\ req'[r].names = req[r].names /\ req'[r].target = req[r].target
  BY GotoFacts DEF Cancel, Steps
<1>3. ledger'[r] \in {ledger[r], LastReceipt(r)}
  BY DEF Cancel, Typed
<1>4. CASE ledger'[r] = ledger[r]
  BY <1>1, <1>2, <1>4 DEF Agree, Matches, Before, Prepared, Begun
<1>5. CASE ledger'[r] = LastReceipt(r)
  <2>1. CASE req[r].at \in {"preparing", "rejecting", "starting"}
    <3>1. process[r].exit = "none" /\ ledger'[r] \in {"prepared", "rejected", "executing"}
      BY <1>1, <1>5, <2>1 DEF LastReceipt, Agree, Before, Prepared
    <3> QED
      BY <1>1, <1>2, <3>1 DEF Agree, Matches, Before, Prepared, Begun
  <2>2. CASE req[r].at = "running"
    <3>1. ledger'[r] = "unknown"
      BY <1>5, <2>2 DEF LastReceipt
    <3> QED
      BY <1>1, <1>2, <2>2, <3>1 DEF Agree, Matches, Before, Prepared, Begun
  <2>3. CASE req[r].at = "finishing"
    <3>1. ledger'[r] = Outcome(r) /\ process[r].exit # "running"
      BY <1>1, <1>5, <2>3 DEF LastReceipt, Agree
    <3> QED
      BY <1>1, <1>2, <2>3, <3>1 DEF Agree, Matches, Before, Prepared, Begun, Outcome
  <2>4. CASE req[r].at \in {"storing", "reading", "auditing"}
    BY <1>1, <1>2, <1>5, <2>4 DEF LastReceipt, Agree, Matches, Before, Prepared, Begun
  <2> QED
    BY <1>1, <2>1, <2>2, <2>3, <2>4 DEF Waits
<1> QED
  BY <1>3, <1>4, <1>5

-----------------------------------------------------------------------------
\* A write that ends lets its own handler go on, if it still waits.
LEMMA WriteEndsAgree == ASSUME IInv, WriteEnds, NEW r \in Requests PROVE Agree(r)'
<1> USE DEF IInv
<1>1. grant' = grant /\ ledger' = ledger /\ process' = process /\ Agree(r)
  BY DEF WriteEnds
<1>2. CASE req'[r] = req[r]
  BY <1>1, <1>2, SameAgree DEF Same
<1>3. CASE /\ req[r].at = "storing" /\ req'[r].at \in {"reading", "gone"}
           /\ req'[r].names = req[r].names
  BY <1>1, <1>3, MovesAgree DEF Before
<1>4. req'[r] = req[r] \/ /\ req[r].at = "storing" /\ req'[r].at \in {"reading", "gone"}
                          /\ req'[r].names = req[r].names
  <2> DEFINE w == Head(writes)
             Resumed == /\ req[r].at = "storing" /\ req'[r].at \in {"reading", "gone"}
                        /\ req'[r].names = req[r].names
  <2>1. \/ req' = req
        \/ req[w.by].at = "storing" /\ \E at \in {"reading", "gone"} : Goto(w.by, at)
    BY DEF WriteEnds
  <2>2. CASE req' = req
    BY <2>2
  <2>3. ASSUME NEW at \in {"reading", "gone"}, Goto(w.by, at), req[w.by].at = "storing"
        PROVE  req'[r] = req[r] \/ Resumed
    <3> HIDE DEF w
    <3>1. CASE w.by = r
      BY <2>3, <3>1, GotoFacts DEF Steps, Waits
    <3>2. CASE w.by # r
      BY <2>3, <3>2 DEF Goto, Typed
    <3> QED
      BY <3>1, <3>2
  <2> QED
    BY <2>1, <2>2, <2>3
<1> QED
  BY <1>2, <1>3, <1>4

\* A restart ends every handler where it is and forgets what was not used up.
LEMMA RestartAgree == ASSUME IInv, Restart, NEW r \in Requests PROVE Agree(r)'
<1> USE DEF IInv
<1>1. ledger' = ledger /\ process' = process /\ Agree(r)
  BY DEF Restart
<1>2. /\ req'[r].names = req[r].names /\ req'[r].target = req[r].target
      /\ req'[r].at = req[r].at \/ req'[r].at = "gone"
  BY DEF Restart, Typed, Request
<1>3. grant'[r] = IF grant[r] \in {"pending", "granted"} THEN "lost" ELSE grant[r]
  BY DEF Restart
<1>4. CASE req'[r].at = req[r].at
  BY <1>1, <1>2, <1>3, <1>4 DEF Agree, Matches, Before, Prepared, Begun
<1>5. CASE req'[r].at = "gone"
  BY <1>1, <1>2, <1>3, <1>5 DEF Agree, Matches, Before, Prepared, Begun
<1> QED
  BY <1>2, <1>4, <1>5

-----------------------------------------------------------------------------
\* The steps of one request leave the others alone.
Own(s) == \/ \E c \in Chats, names \in Targets \cup {NoTarget} : Ask(s, c, names)
          \/ Handler(s) \/ Confirm(s) \/ GrantLost(s) \/ ProcessEnds(s) \/ Cancel(s)

LEMMA OthersSame ==
  ASSUME IInv, NEW s \in Requests, Own(s), NEW r \in Requests, r # s
  PROVE  Same(r)
<1> USE DEF IInv, Typed, Same, Goto
<1>1. CASE \E c \in Chats, names \in Targets \cup {NoTarget} : Ask(s, c, names)
  BY <1>1 DEF Ask
<1>2. CASE Restore(s) \/ Read(s) \/ Restored(s) \/ Check(s) \/ Target(s)
  BY <1>2 DEF Restore, Read, Restored, Check, Target
<1>3. CASE Prepare(s)
  BY <1>3 DEF Prepare
<1>4. CASE Audit(s) \/ Reject(s) \/ Start(s)
  BY <1>4 DEF Audit, Reject, Start
<1>5. CASE Launch(s)
  BY <1>5 DEF Launch
<1>6. CASE Timeout(s) \/ ProcessEnds(s)
  BY <1>6 DEF Timeout, ProcessEnds, Exited
<1>7. CASE Finish(s)
  BY <1>7 DEF Finish
<1>8. CASE Confirm(s) \/ GrantLost(s) \/ Cancel(s)
  BY <1>8 DEF Confirm, GrantLost, Cancel
<1> QED
  BY <1>1, <1>2, <1>3, <1>4, <1>5, <1>6, <1>7, <1>8 DEF Own, Handler

LEMMA OwnAgree == ASSUME IInv, NEW s \in Requests, Own(s) PROVE Agree(s)'
<1>1. CASE \E c \in Chats, names \in Targets \cup {NoTarget} : Ask(s, c, names)
  BY <1>1, AskAgree
<1>2. CASE Restore(s) \/ Read(s) \/ Restored(s) \/ Check(s)
  BY <1>2, EarlyAgree
<1>3. CASE Timeout(s) \/ ProcessEnds(s)
  BY <1>3, ExitedAgree DEF Timeout, ProcessEnds
<1>4. CASE Audit(s) \/ Reject(s) \/ Start(s)
  BY <1>4, LateAgree
<1>5. CASE Confirm(s) \/ GrantLost(s)
  BY <1>5, GrantAgree
<1> QED
  BY <1>1, <1>2, <1>3, <1>4, <1>5, TargetAgree, PrepareAgree, LaunchAgree, FinishAgree, CancelAgree
  DEF Own, Handler

\* Every step keeps the agreement of every request.
LEMMA StepAgree == ASSUME IInv, [Next]_vars PROVE (\A r \in Requests : Agree(r))'
<1>1. CASE \E s \in Requests : Own(s)
  <2>1. PICK s \in Requests : Own(s)
    BY <1>1
  <2> QED
    BY <2>1, OthersSame, OwnAgree, SameAgree DEF IInv
<1>2. CASE (\E c \in Chats, t \in Targets : Select(c, t)) \/ (\E c \in Chats : Persist(c))
  BY <1>2, SameAgree DEF Select, Persist, Same, IInv
<1>3. CASE WriteEnds
  BY <1>3, WriteEndsAgree
<1>4. CASE Restart
  BY <1>4, RestartAgree
<1>5. CASE UNCHANGED vars
  BY <1>5, SameAgree DEF vars, Same, IInv
<1> QED
  BY <1>1, <1>2, <1>3, <1>4, <1>5 DEF Next, Own

-----------------------------------------------------------------------------
\* Types

LEMMA OutcomeTyped == \A r \in Requests : Outcome(r) \in Receipts
BY DEF Outcome, Receipts

\* The changes of a request's record keep its type.
LEMMA MovedTyped ==
  ASSUME NEW q \in Request, NEW at \in Steps
  PROVE  [q EXCEPT !.at = at] \in Request /\ [q EXCEPT !.at = at].chat = q.chat
BY DEF Request

LEMMA AimedTyped ==
  ASSUME NEW q \in Request, NEW t \in Targets
  PROVE  [q EXCEPT !.target = t] \in Request /\ [q EXCEPT !.target = t].chat = q.chat
BY DEF Request

LEMMA TakeTyped ==
  ASSUME Typed, NEW c \in Chats, NEW by \in Requests \cup {Nobody}, Take(c, by)
  PROVE  pending' \in [Chats -> Targets \cup {NoTarget}] /\ writes' \in Seq(Write)
<1>1. [chat |-> c, target |-> pending[c], by |-> by] \in Write
  BY DEF Take, Typed, Write
<1> QED
  BY <1>1 DEF Take, Typed

LEMMA OwnTyped == ASSUME IInv, NEW r \in Requests, Own(r) PROVE Typed'
<1> USE DEF IInv, Typed
<1>1. CASE \E c \in Chats, names \in Targets \cup {NoTarget} : Ask(r, c, names)
  <2>1. PICK c \in Chats, names \in Targets \cup {NoTarget} : Ask(r, c, names)
    BY <1>1
  <2>2. /\ req' = [req EXCEPT ![r] = [@ EXCEPT !.at = "asked", !.chat = c, !.names = names,
                                              !.shown = registry, !.after = selections]]
        /\ UNCHANGED <<selecting, ledger, process>> /\ grant' = [grant EXCEPT ![r] = "pending"]
    BY <2>1 DEF Ask, Request
  <2>3. req'[r] \in Request /\ req'[r].chat = c
    <3>1. /\ "asked" \in Steps /\ req[r] \in Request
          /\ registry \in Targets /\ selections \in 0..MaxSelections
      BY DEF Steps
    <3>2. req'[r] = [req[r] EXCEPT !.at = "asked", !.chat = c, !.names = names,
                                  !.shown = registry, !.after = selections]
      BY <2>2
    <3> HIDE DEF Typed, IInv
    <3>3. /\ [req[r] EXCEPT !.at = "asked", !.chat = c, !.names = names,
                            !.shown = registry, !.after = selections] \in Request
          /\ [req[r] EXCEPT !.at = "asked", !.chat = c, !.names = names,
                            !.shown = registry, !.after = selections].chat = c
      BY <3>1 DEF Request
    <3> QED
      BY <3>2, <3>3
  <2>4. req' \in [Requests -> Request] /\ \A d \in Requests : d # r => req'[d] = req[d]
    BY <2>2, <2>3
  <2> QED
    BY <2>2, <2>3, <2>4 DEF selecting
<1>2. CASE Restore(r)
  <2>1. PICK at \in {"reading", "storing"} : Goto(r, at)
    BY <1>2 DEF Restore
  <2>2. pending' \in [Chats -> Targets \cup {NoTarget}] /\ writes' \in Seq(Write)
    BY <1>2, TakeTyped DEF Restore
  <2>3. UNCHANGED <<registry, stored, selections, grant, ledger, process>> /\ req[r].at # "new"
    BY <1>2 DEF Restore
  <2>4. at \in Steps
    BY DEF Steps, Waits
  <2>5. /\ req' \in [Requests -> Request]
        /\ \A x \in Requests : req'[x].at # "new" => req'[x].chat \in Chats
    <3> HIDE DEF Typed
    <3>1. /\ req' \in [Requests -> Request] /\ req'[r].chat = req[r].chat
          /\ \A d \in Requests : d # r => req'[d] = req[d]
      BY <2>1, <2>4, GotoFacts
    <3> QED
      BY <2>3, <3>1 DEF Typed
  <2> QED
    BY <2>2, <2>3, <2>5
<1>3. CASE Read(r)
  <2>1. UNCHANGED <<selecting, grant, ledger, process>> /\ req[r].chat \in Chats
    BY <1>3 DEF Read
  <2>2. /\ req' \in [Requests -> Request] /\ req'[r].chat = req[r].chat
        /\ \A d \in Requests : d # r => req'[d] = req[d]
    <3>1. CASE Goto(r, "gone")
      BY <3>1, GotoFacts DEF Steps
    <3>2. CASE req' = [req EXCEPT ![r].read = stored[req[r].chat], ![r].at = "checking"]
      <4>1. /\ req'[r] = [req[r] EXCEPT !.read = stored[req[r].chat], !.at = "checking"]
            /\ req' = [req EXCEPT ![r] = req'[r]]
        BY <3>2 DEF Request
      <4>2. req'[r] \in Request /\ req'[r].chat = req[r].chat
        <5>1. /\ "checking" \in Steps /\ stored[req[r].chat] \in Targets \cup {NoTarget}
              /\ req[r] \in Request
          BY <2>1 DEF Steps
        <5> HIDE DEF Typed, IInv
        <5>2. /\ [req[r] EXCEPT !.read = stored[req[r].chat], !.at = "checking"] \in Request
              /\ [req[r] EXCEPT !.read = stored[req[r].chat], !.at = "checking"].chat = req[r].chat
          BY <5>1 DEF Request
        <5> QED
          BY <4>1, <5>2
      <4> QED
        BY <4>1, <4>2
    <3> QED
      BY <1>3, <3>1, <3>2 DEF Read
  <2> QED
    BY <2>1, <2>2 DEF selecting
<1>4. CASE Restored(r)
  <2>1. registry' \in Targets
    BY <1>4 DEF Restored, Reselect, Request
  <2> QED
    BY <1>4, <2>1, GotoFacts DEF Restored, Steps, Waits
<1>5. CASE Check(r) \/ Target(r)
  <2>1. /\ req' \in [Requests -> Request] /\ req'[r].chat = req[r].chat /\ req[r].at # "new"
        /\ \A d \in Requests : d # r => req'[d] = req[d]
    <3>1. CASE Check(r)
      <4>1. PICK at \in {"preparing", "refused"} : Goto(r, at)
        BY <3>1 DEF Check, Goto
      <4> QED
        BY <3>1, <4>1, GotoFacts DEF Check, Steps, Waits
    <3>2. CASE Target(r)
      <4>1. /\ req'[r] = [req[r] EXCEPT !.target = registry] /\ req' = [req EXCEPT ![r] = req'[r]]
            /\ req[r].at = "preparing"
        BY <3>2 DEF Target
      <4>2. req'[r] \in Request /\ req'[r].chat = req[r].chat
        BY <4>1, AimedTyped
      <4> QED
        BY <4>1, <4>2
    <3> QED
      BY <1>5, <3>1, <3>2
  <2> QED
    BY <1>5, <2>1 DEF Check, Target, selecting
<1>6. CASE Prepare(r) \/ Audit(r) \/ Reject(r) \/ Start(r)
  <2>1. PICK at \in Steps : Goto(r, at)
    BY <1>6 DEF Prepare, Audit, Reject, Start, Steps, Waits
  <2>2. UNCHANGED <<selecting, process>> /\ req[r].at # "new"
    BY <1>6 DEF Prepare, Audit, Reject, Start
  <2>3. /\ ledger' \in [Requests -> Receipts]
        /\ grant' \in [Requests -> {"none", "pending", "granted", "used", "lost"}]
    BY <1>6 DEF Prepare, Audit, Reject, Start, Receipts
  <2>4. /\ req' \in [Requests -> Request]
        /\ \A x \in Requests : req'[x].at # "new" => req'[x].chat \in Chats
    <3> HIDE DEF Typed
    <3>1. /\ req' \in [Requests -> Request] /\ req'[r].chat = req[r].chat
          /\ \A d \in Requests : d # r => req'[d] = req[d]
      BY <2>1, GotoFacts
    <3> QED
      BY <2>2, <3>1 DEF Typed
  <2> QED
    BY <2>2, <2>3, <2>4 DEF selecting
<1>7. CASE Launch(r) \/ Timeout(r) \/ ProcessEnds(r)
  <2>1. PICK at \in Steps : Goto(r, at)
    BY <1>7 DEF Launch, Timeout, ProcessEnds, Exited, Steps, Waits
  <2>2. UNCHANGED <<selecting, grant, ledger>> /\ req[r].at # "new"
    BY <1>7 DEF Launch, Timeout, ProcessEnds, Exited
  <2>3. process' \in [Requests -> [exit : Exits, on : Targets \cup {NoTarget}]]
    BY <1>7 DEF Launch, Timeout, ProcessEnds, Exited, Exits
  <2> QED
    BY <2>1, <2>2, <2>3, GotoFacts DEF selecting
<1>8. CASE Finish(r) \/ Cancel(r)
  <2>1. PICK at \in Steps : Goto(r, at)
    BY <1>8 DEF Finish, Cancel, Answer, Steps
  <2>2. UNCHANGED <<selecting, grant, process>> /\ req[r].at # "new"
    BY <1>8 DEF Finish, Cancel, Waits
  <2>3. LastReceipt(r) \in Receipts
    BY OutcomeTyped DEF LastReceipt, Receipts
  <2>4. ledger' \in [Requests -> Receipts]
    BY <1>8, <2>3, OutcomeTyped DEF Finish, Cancel
  <2> QED
    BY <2>1, <2>2, <2>4, GotoFacts DEF selecting
<1>9. CASE Confirm(r)
  BY <1>9, GotoFacts DEF Confirm, selecting, Steps
<1>10. CASE GrantLost(r)
  BY <1>10 DEF GrantLost, selecting
<1> QED
  BY <1>1, <1>2, <1>3, <1>4, <1>5, <1>6, <1>7, <1>8, <1>9, <1>10 DEF Own, Handler

LEMMA StepTyped == ASSUME IInv, [Next]_vars PROVE Typed'
<1> USE DEF IInv, Typed
<1>1. CASE \E r \in Requests : Own(r)
  BY <1>1, OwnTyped
<1>2. CASE \E c \in Chats, t \in Targets : Select(c, t)
  BY <1>2, ServiceOperationAssumption DEF Select, Pend
<1>3. CASE \E c \in Chats : Persist(c)
  BY <1>3, TakeTyped DEF Persist
<1>4. CASE WriteEnds
  <2> DEFINE w == Head(writes)
  <2>1. w \in Write /\ writes' \in Seq(Write)
    BY <1>4 DEF WriteEnds
  <2>2. UNCHANGED <<registry, pending, selections, grant, ledger, process>>
    BY <1>4 DEF WriteEnds
  <2>3. stored' \in [Chats -> Targets \cup {NoTarget}]
    BY <1>4, <2>1 DEF WriteEnds, Write
  <2>4. \/ req' = req
        \/ /\ w.by \in Requests /\ req[w.by].at = "storing"
           /\ \E at \in {"reading", "gone"} : Goto(w.by, at)
    BY <1>4, <2>1 DEF WriteEnds, Write
  <2>5. CASE req' = req
    BY <2>1, <2>2, <2>3, <2>5
  <2>6. ASSUME NEW s \in Requests, NEW at \in {"reading", "gone"}, Goto(s, at), req[s].at = "storing"
        PROVE  Typed'
    <3> HIDE DEF w
    <3> QED
      BY <2>1, <2>2, <2>3, <2>6, GotoFacts DEF Steps, Waits
  <2> QED
    BY <2>4, <2>5, <2>6
<1>5. CASE Restart
  <2>1. /\ req' \in [Requests -> Request]
        /\ \A r \in Requests : req'[r].chat = req[r].chat /\ (req[r].at = "new" => req'[r] = req[r])
    <3>1. req' = [r \in Requests |-> IF req[r].at \in Ended \cup {"new"} THEN req[r]
                                     ELSE [req[r] EXCEPT !.at = "gone"]]
      BY <1>5 DEF Restart
    <3>2. \A r \in Requests : [req[r] EXCEPT !.at = "gone"] \in Request
                             /\ [req[r] EXCEPT !.at = "gone"].chat = req[r].chat
      <4>1. "gone" \in Steps
        BY DEF Steps
      <4> QED
        BY <4>1, MovedTyped
    <3> QED
      BY <3>1, <3>2
  <2>2. writes' \in Seq(Write) /\ pending' \in [Chats -> Targets \cup {NoTarget}]
    BY <1>5 DEF Restart
  <2>3. grant' \in [Requests -> {"none", "pending", "granted", "used", "lost"}]
    BY <1>5 DEF Restart
  <2>4. \A r \in Requests : req'[r].at # "new" => req[r].at # "new"
    BY <2>1
  <2> QED
    BY <1>5, <2>1, <2>2, <2>3, <2>4, ServiceOperationAssumption DEF Restart
<1>6. CASE UNCHANGED vars
  BY <1>6 DEF vars, selecting
<1> QED
  BY <1>1, <1>2, <1>3, <1>4, <1>5, <1>6 DEF Next, Own

LEMMA StepIInv == IInv /\ [Next]_vars => IInv'
BY StepTyped, StepAgree DEF IInv

-----------------------------------------------------------------------------
\* How the last selection of a chat gets to the table: it is still to be taken, or the
\* last of the writes under way for the chat, or stored.
Kept(c, p, w, s, h) ==
  \/ p[c] # NoTarget /\ p[c] = h[c]
  \/ /\ p[c] = NoTarget
     /\ \E i \in 1..Len(w) : /\ w[i].chat = c /\ w[i].target = h[c]
                             /\ \A j \in (i + 1)..Len(w) : w[j].chat # c
  \/ p[c] = NoTarget /\ s[c] = h[c] /\ \A i \in 1..Len(w) : w[i].chat # c

\* Each selection is to be taken or is being written at most once.
Waiting(p) == {c \in Chats : p[c] # NoTarget}
Counted(p, w, n) == IsFiniteSet(Waiting(p)) /\ Len(w) + Cardinality(Waiting(p)) <= n

Selection ==
  /\ loop \in Requests \cup {Nobody} /\ boot \in 0..MaxRestarts /\ dropped \subseteq Chats
  /\ chosen \in [Chats -> Targets \cup {NoTarget}]
  /\ Counted(pending, writes, selections)
  /\ \A c \in Chats : c \in dropped \/ Kept(c, pending, writes, stored, chosen)

LEMMA SelectionSafety == IInv /\ Selection => TypeOK /\ SelectionKept
<1> SUFFICES ASSUME IInv, Selection PROVE TypeOK /\ SelectionKept
  OBVIOUS
<1>1. Len(writes) <= selections
  <2>1. Cardinality(Waiting(pending)) \in Nat /\ Len(writes) \in Nat /\ selections \in Nat
    BY FS_CardinalityType, ServiceOperationAssumption DEF IInv, Typed, Selection, Counted
  <2> QED
    BY <2>1 DEF Selection, Counted
<1>2. TypeOK
  BY <1>1 DEF IInv, Typed, Selection, TypeOK, Write
<1>3. SelectionKept
  <2>1. DOMAIN writes = 1..Len(writes)
    BY DEF IInv, Typed
  <2> QED
    BY <2>1 DEF Selection, SelectionKept, Kept
<1> QED
  BY <1>2, <1>3

LEMMA InitSelection == Init => Selection
<1> SUFFICES ASSUME Init PROVE Selection
  OBVIOUS
<1>1. Waiting(pending) = {} /\ writes = <<>> /\ selections = 0
  BY DEF Init, Waiting
<1>2. Counted(pending, writes, selections)
  <2>1. IsFiniteSet({}) /\ Cardinality({}) = 0 /\ Len(<<>>) = 0
    BY FS_EmptySet
  <2> QED
    BY <1>1, <2>1 DEF Counted
<1>3. \A c \in Chats : Kept(c, pending, writes, stored, chosen)
  BY <1>1 DEF Init, Kept
<1> QED
  BY <1>2, <1>3, ServiceOperationAssumption DEF Init, Selection

\* A selection that is taken is the last of its chat to be written.
LEMMA TakeSelection ==
  ASSUME IInv, Selection, NEW c \in Chats, NEW by \in Requests \cup {Nobody}, Take(c, by),
         UNCHANGED <<stored, chosen, dropped, selections, boot>>, loop' \in Requests \cup {Nobody}
  PROVE  Selection'
<1> DEFINE w == [chat |-> c, target |-> pending[c], by |-> by]
<1>0. /\ pending \in [Chats -> Targets \cup {NoTarget}] /\ writes \in Seq(Write) /\ Len(writes) \in Nat
      /\ pending[c] # NoTarget /\ selections \in Nat
  BY ServiceOperationAssumption DEF IInv, Typed, Take
<1>1. w \in Write /\ w.chat = c /\ w.target = pending[c]
  BY <1>0 DEF Write
<1>2. /\ pending' = [pending EXCEPT ![c] = NoTarget] /\ writes' = Append(writes, w)
  BY DEF Take
<1> HIDE DEF w
<1>3. /\ Len(writes') = Len(writes) + 1 /\ writes'[Len(writes) + 1] = w
      /\ \A i \in 1..Len(writes) : writes'[i] = writes[i]
  BY <1>0, <1>1, <1>2
<1>4. \A d \in Chats : pending'[d] = IF d = c THEN NoTarget ELSE pending[d]
  BY <1>0, <1>2
<1>5. Counted(pending', writes', selections)
  <2>1. Waiting(pending') = Waiting(pending) \ {c} /\ c \in Waiting(pending)
    BY <1>0, <1>4 DEF Waiting
  <2>2. IsFiniteSet(Waiting(pending)) /\ Len(writes) + Cardinality(Waiting(pending)) <= selections
    BY DEF Selection, Counted
  <2>3. /\ IsFiniteSet(Waiting(pending')) /\ Cardinality(Waiting(pending)) \in Nat
        /\ Cardinality(Waiting(pending')) = Cardinality(Waiting(pending)) - 1
    BY <2>1, <2>2, FS_RemoveElement, FS_CardinalityType
  <2>4. Len(writes') + Cardinality(Waiting(pending')) <= selections
    BY <1>0, <1>3, <2>2, <2>3
  <2> QED
    BY <2>3, <2>4 DEF Counted
<1>6. ASSUME NEW d \in Chats, Kept(d, pending, writes, stored, chosen)
      PROVE  Kept(d, pending', writes', stored, chosen)
  <2>1. CASE d = c
    <3>1. pending[c] = chosen[c]
      BY <1>0, <1>6, <2>1 DEF Kept
    <3>2. Len(writes) + 1 \in 1..Len(writes') /\ ((Len(writes) + 1) + 1)..Len(writes') = {}
      BY <1>0, <1>3
    <3> QED
      BY <1>1, <1>3, <1>4, <2>1, <3>1, <3>2 DEF Kept
  <2>2. CASE d # c
    <3>1. pending'[d] = pending[d]
      BY <1>4, <2>2
    <3>2. \A i \in 1..Len(writes') : i \in 1..Len(writes) \/ (i = Len(writes) + 1 /\ writes'[i].chat # d)
      BY <1>0, <1>1, <1>3, <2>2
    <3>3. ASSUME NEW i \in 1..Len(writes), writes[i].chat = d, writes[i].target = chosen[d],
                 \A j \in (i + 1)..Len(writes) : writes[j].chat # d
          PROVE  \A j \in (i + 1)..Len(writes') : writes'[j].chat # d
      <4> SUFFICES ASSUME NEW j \in (i + 1)..Len(writes') PROVE writes'[j].chat # d
        OBVIOUS
      <4>1. j \in 1..Len(writes')
        BY <1>0, <1>3
      <4>2. CASE j \in 1..Len(writes)
        <5>1. j \in (i + 1)..Len(writes)
          BY <1>0, <4>2
        <5> QED
          BY <1>3, <3>3, <4>2, <5>1
      <4> QED
        BY <3>2, <4>1, <4>2
    <3>4. 1..Len(writes) \subseteq 1..Len(writes')
      BY <1>0, <1>3
    <3>5. CASE pending[d] # NoTarget /\ pending[d] = chosen[d]
      BY <3>1, <3>5 DEF Kept
    <3>6. CASE /\ pending[d] = NoTarget
               /\ \E i \in 1..Len(writes) : /\ writes[i].chat = d /\ writes[i].target = chosen[d]
                                            /\ \A j \in (i + 1)..Len(writes) : writes[j].chat # d
      BY <1>3, <3>1, <3>3, <3>4, <3>6 DEF Kept
    <3>7. CASE pending[d] = NoTarget /\ stored[d] = chosen[d] /\ \A i \in 1..Len(writes) : writes[i].chat # d
      <4>1. \A i \in 1..Len(writes') : writes'[i].chat # d
        BY <1>3, <3>2, <3>7
      <4> QED
        BY <3>1, <3>7, <4>1 DEF Kept
    <3> QED
      BY <1>6, <3>5, <3>6, <3>7 DEF Kept
  <2> QED
    BY <2>1, <2>2
<1> QED
  BY <1>5, <1>6 DEF Selection

\* The oldest write is stored, or lost with the selection of its chat.
LEMMA WriteEndsSelection == ASSUME IInv, Selection, WriteEnds PROVE Selection'
<1> DEFINE w == writes[1]
           v == Tail(writes)
<1>0. /\ writes \in Seq(Write) /\ writes # <<>> /\ Len(writes) \in Nat \ {0} /\ selections \in Nat
      /\ stored \in [Chats -> Targets \cup {NoTarget}]
  BY ServiceOperationAssumption DEF IInv, Typed, WriteEnds
<1>1. /\ w \in Write /\ w = Head(writes) /\ w.chat \in Chats /\ Len(v) = Len(writes) - 1
      /\ \A i \in 1..Len(v) : i + 1 \in 1..Len(writes) /\ v[i] = writes[i + 1]
  <2>1. w \in Write /\ w = Head(writes)
    BY <1>0
  <2> QED
    BY <1>0, <2>1 DEF Write
<1>2. /\ writes' = v /\ UNCHANGED <<pending, chosen, selections, loop, boot>>
      /\ \/ stored' = [stored EXCEPT ![w.chat] = w.target] /\ dropped' = dropped
         \/ stored' = stored /\ dropped' = dropped \cup {w.chat}
  BY <1>1 DEF WriteEnds
<1> HIDE DEF w, v
<1>3. Counted(pending, v, selections)
  <2>1. Cardinality(Waiting(pending)) \in Nat
    BY FS_CardinalityType DEF Selection, Counted
  <2> QED
    BY <1>0, <1>1, <2>1 DEF Selection, Counted
<1>4. ASSUME NEW c \in Chats, Kept(c, pending, writes, stored, chosen)
      PROVE  c \in dropped' \/ Kept(c, pending, v, stored', chosen)
  <2>1. CASE pending[c] # NoTarget /\ pending[c] = chosen[c]
    BY <2>1 DEF Kept
  <2>2. ASSUME pending[c] = NoTarget, NEW i \in 1..Len(writes), writes[i].chat = c,
               writes[i].target = chosen[c], \A j \in (i + 1)..Len(writes) : writes[j].chat # c
        PROVE  c \in dropped' \/ Kept(c, pending, v, stored', chosen)
    <3>1. ASSUME NEW j \in i..Len(v) PROVE v[j].chat # c
      <4>1. j \in 1..Len(v) /\ j + 1 \in (i + 1)..Len(writes)
        BY <1>0, <1>1
      <4> QED
        BY <1>1, <2>2, <4>1
    <3>2. CASE i = 1
      <4>1. w.chat = c /\ w.target = chosen[c]
        BY <2>2, <3>2 DEF w
      <4>2. c \in dropped' \/ stored'[c] = chosen[c]
        BY <1>0, <1>2, <4>1
      <4> QED
        BY <2>2, <3>1, <3>2, <4>2 DEF Kept
    <3>3. CASE i # 1
      <4>1. PICK m \in 1..Len(v) : m + 1 = i
        <5>1. i - 1 \in 1..Len(v) /\ (i - 1) + 1 = i
          BY <1>0, <1>1, <3>3
        <5> QED
          BY <5>1
      <4>2. v[m] = writes[i]
        BY <1>1, <4>1
      <4> QED
        BY <2>2, <3>1, <4>1, <4>2 DEF Kept
    <3> QED
      BY <3>2, <3>3
  <2>3. CASE pending[c] = NoTarget /\ stored[c] = chosen[c] /\ \A i \in 1..Len(writes) : writes[i].chat # c
    <3>1. \A i \in 1..Len(v) : v[i].chat # c
      BY <1>1, <2>3
    <3>2. w.chat # c
      <4>1. 1 \in 1..Len(writes)
        BY <1>0
      <4> QED
        BY <2>3, <4>1 DEF w
    <3>3. stored'[c] = chosen[c]
      BY <1>0, <1>1, <1>2, <2>3, <3>2
    <3> QED
      BY <2>3, <3>1, <3>3 DEF Kept
  <2> QED
    BY <1>4, <2>1, <2>2, <2>3 DEF Kept
<1>5. dropped \subseteq dropped' /\ dropped' \subseteq Chats
  BY <1>1, <1>2 DEF Selection
<1> QED
  BY <1>2, <1>3, <1>4, <1>5 DEF Selection

LEMMA SelectSelection ==
  ASSUME IInv, Selection, NEW c \in Chats, NEW t \in Targets, Select(c, t)
  PROVE  Selection'
<1>0. /\ pending \in [Chats -> Targets \cup {NoTarget}] /\ chosen \in [Chats -> Targets \cup {NoTarget}]
      /\ Len(writes) \in Nat /\ selections \in Nat /\ t # NoTarget
  BY ServiceOperationAssumption DEF IInv, Typed, Selection
<1>1. /\ pending' = [pending EXCEPT ![c] = t] /\ chosen' = [chosen EXCEPT ![c] = t]
      /\ selections' = selections + 1 /\ UNCHANGED <<stored, writes, dropped, loop, boot>>
  BY DEF Select, Pend
<1>2. Counted(pending', writes', selections')
  <2>1. Waiting(pending') = Waiting(pending) \cup {c}
    BY <1>0, <1>1 DEF Waiting
  <2>2. IsFiniteSet(Waiting(pending)) /\ Len(writes) + Cardinality(Waiting(pending)) <= selections
    BY DEF Selection, Counted
  <2>3. /\ IsFiniteSet(Waiting(pending')) /\ Cardinality(Waiting(pending)) \in Nat
        /\ Cardinality(Waiting(pending')) \in {Cardinality(Waiting(pending)), Cardinality(Waiting(pending)) + 1}
    BY <2>1, <2>2, FS_AddElement, FS_CardinalityType
  <2>4. Len(writes') + Cardinality(Waiting(pending')) <= selections'
    BY <1>0, <1>1, <2>2, <2>3
  <2> QED
    BY <2>3, <2>4 DEF Counted
<1>3. ASSUME NEW d \in Chats PROVE d \in dropped' \/ Kept(d, pending', writes', stored', chosen')
  <2>1. CASE d = c
    BY <1>0, <1>1, <2>1 DEF Kept
  <2>2. CASE d # c
    <3>1. pending'[d] = pending[d] /\ chosen'[d] = chosen[d]
      BY <1>0, <1>1, <2>2
    <3>2. d \in dropped \/ Kept(d, pending, writes, stored, chosen)
      BY DEF Selection
    <3> QED
      BY <1>1, <3>1, <3>2 DEF Kept
  <2> QED
    BY <2>1, <2>2
<1>4. chosen' \in [Chats -> Targets \cup {NoTarget}]
  BY <1>0, <1>1
<1> QED
  BY <1>1, <1>2, <1>3, <1>4 DEF Selection

LEMMA RestartSelection == ASSUME IInv, Selection, Restart PROVE Selection'
<1>0. /\ Len(writes) \in Nat /\ selections \in Nat /\ writes \in Seq(Write) /\ DOMAIN writes = 1..Len(writes)
      /\ \A i \in 1..Len(writes) : writes[i].chat \in Chats
  <2>1. /\ writes \in Seq(Write) /\ Len(writes) \in Nat /\ selections \in Nat /\ DOMAIN writes = 1..Len(writes)
        /\ \A i \in 1..Len(writes) : writes[i] \in Write
    BY ServiceOperationAssumption DEF IInv, Typed
  <2> QED
    BY <2>1 DEF Write
<1>1. /\ pending' = [c \in Chats |-> NoTarget] /\ writes' = <<>> /\ loop' = Nobody
      /\ dropped' = dropped \cup {c \in Chats : pending[c] # NoTarget}
                            \cup {writes[i].chat : i \in DOMAIN writes}
      /\ boot' = boot + 1 /\ boot < MaxRestarts /\ UNCHANGED <<stored, chosen, selections>>
  BY DEF Restart
<1>2. Counted(pending', writes', selections)
  <2>1. Waiting(pending') = {} /\ Len(writes') = 0
    BY <1>1 DEF Waiting
  <2> QED
    BY <1>0, <2>1, FS_EmptySet DEF Counted
<1>3. ASSUME NEW c \in Chats, c \notin dropped' PROVE Kept(c, pending', writes', stored', chosen')
  <2>1. pending[c] = NoTarget /\ \A i \in 1..Len(writes) : writes[i].chat # c
    BY <1>0, <1>1, <1>3
  <2>2. stored[c] = chosen[c]
    BY <1>1, <1>3, <2>1 DEF Selection, Kept
  <2>3. pending'[c] = NoTarget /\ 1..Len(writes') = {}
    BY <1>1
  <2> QED
    BY <1>1, <2>2, <2>3 DEF Kept
<1>4. dropped' \subseteq Chats /\ boot' \in 0..MaxRestarts
  BY <1>0, <1>1, ServiceOperationAssumption DEF Selection
<1> QED
  BY <1>1, <1>2, <1>3, <1>4 DEF Selection

LEMMA StepSelection == IInv /\ Selection /\ [Next]_vars => Selection'
<1> SUFFICES ASSUME IInv, Selection, [Next]_vars PROVE Selection'
  OBVIOUS
<1> DEFINE Still == /\ UNCHANGED <<pending, writes, stored, chosen, dropped, selections, boot>>
                    /\ loop' \in Requests \cup {Nobody}
<1>1. CASE Still
  BY <1>1 DEF Selection
<1>2. ASSUME NEW r \in Requests, Own(r) PROVE Selection'
  <2>1. CASE Restore(r)
    <3>1. req[r].chat \in Chats
      BY <2>1 DEF Restore, IInv, Typed
    <3>2. UNCHANGED <<stored, chosen, dropped, selections, boot, loop>>
      BY <2>1 DEF Restore
    <3>3. \/ Take(req[r].chat, r)
          \/ UNCHANGED <<pending, writes>>
      BY <2>1 DEF Restore
    <3>4. CASE UNCHANGED <<pending, writes>>
      BY <1>1, <3>2, <3>4 DEF Selection
    <3> QED
      BY <3>1, <3>2, <3>3, <3>4, TakeSelection DEF Selection
  <2>2. CASE ~Restore(r)
    <3>1. Still
      BY <1>2, <2>2
         DEF Own, Handler, Read, Restored, Check, Target, Prepare, Audit, Reject, Start, Launch,
             Timeout, Exited, Finish, Ask, Confirm, GrantLost, ProcessEnds, Cancel, selecting, Selection
    <3> QED
      BY <1>1, <3>1
  <2> QED
    BY <2>1, <2>2
<1>3. ASSUME NEW c \in Chats, Persist(c) PROVE Selection'
  BY <1>3, TakeSelection DEF Persist, Selection
<1>4. CASE UNCHANGED vars
  BY <1>1, <1>4 DEF vars, selecting, Selection
<1> QED
  BY <1>2, <1>3, <1>4, WriteEndsSelection, SelectSelection, RestartSelection DEF Next, Own

-----------------------------------------------------------------------------
\* An operation runs only where its contract and the allowlist let it, whatever is
\* selected in whatever chat between the checks and the start.
THEOREM SupportedTarget == Spec => []RunsOnlyWhereSupported
<1>1. IInv => RunsOnlyWhereSupported
  BY DEF IInv, Agree, RunsOnlyWhereSupported
<1> QED
  BY <1>1, InitIInv, StepIInv, PTL DEF Spec

\* Whatever fails, is cancelled or restarted, no receipt denies an effect and a good
\* one is of a process that ended well.
THEOREM ReceiptIsTrue == Spec => []ReceiptTellsTheEffect
<1>1. IInv => ReceiptTellsTheEffect
  BY DEF IInv, Agree, ReceiptTellsTheEffect
<1> QED
  BY <1>1, InitIInv, StepIInv, PTL DEF Spec

\* The user is never told that nothing ran when something did, nor that it went well
\* without the receipt.
THEOREM AnswerTrue == Spec => []AnswerIsTrue
<1>1. IInv => AnswerIsTrue
  BY DEF IInv, Agree, AnswerIsTrue
<1> QED
  BY <1>1, InitIInv, StepIInv, PTL DEF Spec

\* Nothing runs on a confirmation that was not used up for it.
THEOREM GrantUsed == Spec => []RunsOnUsedGrant
<1>1. IInv => RunsOnUsedGrant
  BY DEF IInv, Agree, RunsOnUsedGrant
<1> QED
  BY <1>1, InitIInv, StepIInv, PTL DEF Spec

-----------------------------------------------------------------------------
\* MessageIntake

Entry == Intake!Ids \X (0..MaxTime)

\* The entries s of the deduper at the time n: in the order of their times, each id once.
Ordered(s, n) ==
  /\ s \in Seq(Entry)
  /\ \A i \in 1..Len(s) : s[i][2] <= n
  /\ \A i, j \in 1..Len(s) : i <= j => s[i][2] <= s[j][2]
  /\ \A i, j \in 1..Len(s) : s[i][1] = s[j][1] => i = j

\* An id accepted at the time a, with the ids b accepted after it, has expired, was
\* followed by too many, or is there with none but these after it.
Remembered(s, n, i, a, b) ==
  \/ n - a > Ttl
  \/ ~(Cardinality(b) < MaxSize)
  \/ \E k \in 1..Len(s) : s[k] = <<i, a>> /\ \A j \in (k + 1)..Len(s) : s[j][1] \in b

LEMMA LeastExists ==
  ASSUME NEW S \in SUBSET Nat, S # {}
  PROVE  \E x \in S : \A y \in S : x <= y
<1> DEFINE R == {ss \in Nat \X Nat : ss[1] < ss[2]}
<1>1. IsWellFoundedOn(R, Nat)
  BY NatLessThanWellFounded DEF OpToRel
<1>2. \E x \in S : \A y \in S : ~(<<y, x>> \in R)
  <2> HIDE DEF R
  <2> QED
    BY <1>1, WFMin
<1>3. PICK x \in S : \A y \in S : ~(<<y, x>> \in R)
  BY <1>2
<1>4. ASSUME NEW y \in S PROVE x <= y
  <2>1. x \in Nat /\ y \in Nat /\ <<y, x>> \notin R
    BY <1>3
  <2> QED
    BY <2>1
<1> QED
  BY <1>4

LEMMA IntakeConstants ==
  /\ Ttl \in Nat /\ MaxSize \in Nat /\ MaxTime \in Nat /\ MaxRestarts \in Nat
  /\ Intake!Tokens \subseteq Intake!Ids /\ Messages \subseteq Intake!Ids
  /\ \A d \in Intake!Deliveries : d[1] \in Messages /\ d # Intake!NoToken /\ d[1] \notin Intake!Tokens
  /\ Intake!Tokens \subseteq Intake!Deliveries
BY IntakeAssumption
   DEF Intake!MessageIntakeAssumption, Intake!Deliveries, Intake!Tokens, Intake!Ids, Intake!NoToken

\* Where what has not expired begins.
LEMMA FirstFresh ==
  ASSUME NEW s, NEW n \in Nat, Ordered(s, n)
  PROVE  \E k \in 1..(Len(s) + 1) : \A j \in 1..Len(s) : k <= j <=> n - s[j][2] <= Ttl
<1> DEFINE S == {j \in 1..Len(s) : n - s[j][2] <= Ttl}
<1>1. /\ Len(s) \in Nat /\ Ttl \in Nat
      /\ \A j \in 1..Len(s) : s[j] \in Entry
      /\ \A i, j \in 1..Len(s) : i <= j => s[i][2] <= s[j][2]
  BY IntakeConstants DEF Ordered
<1>2. \A j \in 1..Len(s) : s[j][2] \in Nat
  BY <1>1 DEF Entry
<1>3. CASE S = {}
  <2>1. Len(s) + 1 \in 1..(Len(s) + 1) /\ \A j \in 1..Len(s) : ~(Len(s) + 1 <= j)
    BY <1>1
  <2> QED
    BY <1>3, <2>1
<1>4. CASE S # {}
  <2>1. PICK k \in S : \A y \in S : k <= y
    <3>1. S \in SUBSET Nat
      BY <1>1
    <3> HIDE DEF S
    <3> QED
      BY <1>4, <3>1, LeastExists
  <2>2. k \in 1..(Len(s) + 1) /\ k \in 1..Len(s) /\ n - s[k][2] <= Ttl
    BY <1>1, <2>1
  <2>3. ASSUME NEW j \in 1..Len(s), k <= j PROVE n - s[j][2] <= Ttl
    <3>1. s[k][2] <= s[j][2]
      BY <1>1, <2>2, <2>3
    <3> QED
      BY <1>1, <1>2, <2>2, <3>1
  <2>4. ASSUME NEW j \in 1..Len(s), n - s[j][2] <= Ttl PROVE k <= j
    BY <2>1, <2>4
  <2> QED
    BY <2>2, <2>3, <2>4
<1> QED
  BY <1>3, <1>4

LEMMA FreshFacts ==
  ASSUME now \in Nat, Ordered(seen, now)
  PROVE  /\ Ordered(Intake!Fresh, now) /\ Len(Intake!Fresh) <= Len(seen)
         /\ \A k \in 1..Len(Intake!Fresh) : Intake!Fresh[k] \in Entry /\ now - Intake!Fresh[k][2] <= Ttl
         /\ \A i, a, b : Remembered(seen, now, i, a, b) => Remembered(Intake!Fresh, now, i, a, b)
<1> DEFINE P(k) == \A j \in 1..Len(seen) : k <= j <=> now - seen[j][2] <= Ttl
           first == CHOOSE k \in 1..(Len(seen) + 1) : P(k)
           f == Intake!Fresh
<1>0. /\ seen \in Seq(Entry) /\ Len(seen) \in Nat
      /\ \A j \in 1..Len(seen) : seen[j] \in Entry /\ seen[j][2] \in Nat /\ seen[j][2] <= now
      /\ \A i, j \in 1..Len(seen) : i <= j => seen[i][2] <= seen[j][2]
      /\ \A i, j \in 1..Len(seen) : seen[i][1] = seen[j][1] => i = j
  BY DEF Ordered, Entry
<1>1. first \in 1..(Len(seen) + 1) /\ P(first)
  <2>1. \E k \in 1..(Len(seen) + 1) : P(k)
    BY FirstFresh
  <2> HIDE DEF P
  <2> QED
    BY <2>1
<1>2. f = SubSeq(seen, first, Len(seen))
  <2>1. DOMAIN seen = 1..Len(seen)
    BY <1>0
  <2> QED
    BY <2>1 DEF Intake!Fresh
<1> HIDE DEF first, f
<1>3. /\ f \in Seq(Entry) /\ Len(f) = Len(seen) - first + 1 /\ Len(f) \in Nat /\ Len(f) <= Len(seen)
      /\ \A k \in 1..Len(f) : k + first - 1 \in 1..Len(seen) /\ f[k] = seen[k + first - 1]
  BY <1>0, <1>1, <1>2
<1>4. Ordered(f, now)
  <2>1. \A i, j \in 1..Len(f) : i <= j => i + first - 1 <= j + first - 1
    BY <1>1, <1>3
  <2>2. \A i, j \in 1..Len(f) : i + first - 1 = j + first - 1 => i = j
    BY <1>1, <1>3
  <2>3. \A i \in 1..Len(f) : f[i][2] <= now
    BY <1>0, <1>3
  <2>4. ASSUME NEW i \in 1..Len(f), NEW j \in 1..Len(f), i <= j PROVE f[i][2] <= f[j][2]
    <3>1. /\ f[i] = seen[i + first - 1] /\ i + first - 1 \in 1..Len(seen)
          /\ f[j] = seen[j + first - 1] /\ j + first - 1 \in 1..Len(seen)
      BY <1>3
    <3> QED
      BY <1>0, <2>1, <2>4, <3>1
  <2>5. \A i, j \in 1..Len(f) : f[i][1] = f[j][1] => i = j
    BY <1>0, <1>3, <2>2
  <2> QED
    BY <1>3, <2>3, <2>4, <2>5 DEF Ordered
<1>5. ASSUME NEW k \in 1..Len(f) PROVE f[k] \in Entry /\ now - f[k][2] <= Ttl
  <2>1. first <= k + first - 1
    BY <1>1
  <2> QED
    BY <1>0, <1>1, <1>3, <2>1
<1>6. ASSUME NEW i, NEW a, NEW b, Remembered(seen, now, i, a, b)
      PROVE  Remembered(f, now, i, a, b)
  <2> SUFFICES ASSUME ~(now - a > Ttl), Cardinality(b) < MaxSize
               PROVE  \E k \in 1..Len(f) : f[k] = <<i, a>> /\ \A j \in (k + 1)..Len(f) : f[j][1] \in b
    BY DEF Remembered
  <2>1. PICK k \in 1..Len(seen) : seen[k] = <<i, a>> /\ \A j \in (k + 1)..Len(seen) : seen[j][1] \in b
    BY <1>6 DEF Remembered
  <2>2. seen[k][2] = a /\ a \in Nat
    BY <1>0, <2>1
  <2>3. first <= k
    BY <1>1, <2>2, IntakeConstants
  <2>4. PICK m \in 1..Len(f) : m + first - 1 = k
    <3>1. k - first + 1 \in 1..Len(f) /\ (k - first + 1) + first - 1 = k
      BY <1>1, <1>3, <2>3
    <3> QED
      BY <3>1
  <2>5. f[m] = <<i, a>>
    BY <1>3, <2>1, <2>4
  <2>6. ASSUME NEW j \in (m + 1)..Len(f) PROVE f[j][1] \in b
    <3>1. j \in 1..Len(f) /\ j + first - 1 \in (k + 1)..Len(seen)
      BY <1>1, <1>3, <2>4
    <3> QED
      BY <1>3, <2>1, <3>1
  <2> QED
    BY <2>5, <2>6
<1> QED
  BY <1>3, <1>4, <1>5, <1>6 DEF f

\* Those that come after the oldest of s are as many.
LEMMA OthersAreMany ==
  ASSUME NEW s, NEW n, Ordered(s, n), s # <<>>, NEW b, IsFiniteSet(b),
         \A j \in 2..Len(s) : s[j][1] \in b
  PROVE  Cardinality(b) \in Nat /\ Cardinality(b) >= Len(s) - 1
<1> DEFINE f == [j \in 2..Len(s) |-> s[j][1]]
<1>1. /\ Len(s) \in Nat \ {0} /\ \A i, j \in 1..Len(s) : s[i][1] = s[j][1] => i = j
      /\ 2..Len(s) \subseteq 1..Len(s)
  BY DEF Ordered
<1>2. f \in Injection(2..Len(s), b)
  BY <1>1 DEF Injection, IsInjective
<1>3. Cardinality(2..Len(s)) = Len(s) - 1
  BY <1>1, FS_Interval
<1>4. Cardinality(2..Len(s)) <= Cardinality(b) /\ Cardinality(b) \in Nat
  <2> HIDE DEF f
  <2> QED
    BY <1>2, FS_Injection, FS_CardinalityType
<1> QED
  BY <1>1, <1>3, <1>4

\* should_process drops the oldest where there is no room.
LEMMA KeepFacts ==
  ASSUME NEW s, NEW n, Ordered(s, n), Len(s) <= MaxSize + 1
  PROVE  /\ Ordered(Intake!Keep(s), n) /\ Len(Intake!Keep(s)) <= MaxSize
         /\ \A i, a, b : IsFiniteSet(b) /\ Remembered(s, n, i, a, b) => Remembered(Intake!Keep(s), n, i, a, b)
<1> DEFINE d == Tail(s)
<1>0. Len(s) \in Nat /\ MaxSize \in Nat /\ s \in Seq(Entry)
  BY IntakeConstants DEF Ordered
<1>1. CASE Len(s) <= MaxSize
  <2>1. Intake!Keep(s) = s
    BY <1>0, <1>1 DEF Intake!Keep
  <2> QED
    BY <1>1, <2>1
<1>2. CASE Len(s) > MaxSize
  <2>1. /\ Intake!Keep(s) = d /\ d \in Seq(Entry) /\ Len(d) = Len(s) - 1 /\ s # <<>>
        /\ \A i \in 1..Len(d) : i + 1 \in 1..Len(s) /\ d[i] = s[i + 1]
    BY <1>0, <1>2 DEF Intake!Keep
  <2> HIDE DEF d
  <2>2. Ordered(d, n)
    <3>1. \A i, j \in 1..Len(d) : i <= j => i + 1 <= j + 1
      OBVIOUS
    <3>2. \A i, j \in 1..Len(d) : i + 1 = j + 1 => i = j
      OBVIOUS
    <3>3. \A i \in 1..Len(d) : d[i][2] <= n
      BY <2>1 DEF Ordered
    <3>4. ASSUME NEW i \in 1..Len(d), NEW j \in 1..Len(d), i <= j PROVE d[i][2] <= d[j][2]
      BY <2>1, <3>1, <3>4 DEF Ordered
    <3>5. ASSUME NEW i \in 1..Len(d), NEW j \in 1..Len(d), d[i][1] = d[j][1] PROVE i = j
      BY <2>1, <3>2, <3>5 DEF Ordered
    <3> QED
      BY <2>1, <3>3, <3>4, <3>5 DEF Ordered
  <2>3. ASSUME NEW i, NEW a, NEW b, IsFiniteSet(b), Remembered(s, n, i, a, b)
        PROVE  Remembered(d, n, i, a, b)
    <3> SUFFICES ASSUME ~(n - a > Ttl), Cardinality(b) < MaxSize
                 PROVE  \E k \in 1..Len(d) : d[k] = <<i, a>> /\ \A j \in (k + 1)..Len(d) : d[j][1] \in b
      BY DEF Remembered
    <3>1. PICK k \in 1..Len(s) : s[k] = <<i, a>> /\ \A j \in (k + 1)..Len(s) : s[j][1] \in b
      BY <2>3 DEF Remembered
    <3>2. k # 1
      <4>1. SUFFICES ASSUME k = 1 PROVE FALSE
        OBVIOUS
      <4>2. \A j \in 2..Len(s) : s[j][1] \in b
        BY <3>1, <4>1
      <4>3. Cardinality(b) \in Nat /\ Cardinality(b) >= Len(s) - 1
        BY <2>1, <2>3, <4>2, OthersAreMany
      <4> QED
        BY <1>0, <1>2, <4>3
    <3>3. PICK m \in 1..Len(d) : m + 1 = k
      <4>1. k - 1 \in 1..Len(d) /\ (k - 1) + 1 = k
        BY <1>0, <2>1, <3>2
      <4> QED
        BY <4>1
    <3>4. d[m] = <<i, a>>
      BY <2>1, <3>1, <3>3
    <3>5. ASSUME NEW j \in (m + 1)..Len(d) PROVE d[j][1] \in b
      <4>1. j + 1 \in (k + 1)..Len(s) /\ j \in 1..Len(d)
        BY <1>0, <2>1, <3>3
      <4> QED
        BY <2>1, <3>1, <4>1
    <3> QED
      BY <3>4, <3>5
  <2>4. Len(d) <= MaxSize
    BY <1>0, <2>1
  <2> QED
    BY <2>1, <2>2, <2>3, <2>4
<1> QED
  BY <1>0, <1>1, <1>2

\* An id that is not there is added.
LEMMA AddFacts ==
  ASSUME NEW n \in 0..MaxTime, NEW s, Ordered(s, n), NEW i \in Intake!Ids,
         \A k \in 1..Len(s) : s[k][1] # i
  PROVE  LET d == Append(s, <<i, n>>)
         IN  /\ Ordered(d, n) /\ Len(d) = Len(s) + 1 /\ Remembered(d, n, i, n, {})
             /\ \A j, a, b : IsFiniteSet(b) /\ Remembered(s, n, j, a, b)
                             => Remembered(d, n, j, a, b \cup {i})
<1> DEFINE d == Append(s, <<i, n>>)
<1>0. /\ Len(s) \in Nat /\ MaxSize \in Nat /\ s \in Seq(Entry) /\ n \in Nat /\ <<i, n>> \in Entry
      /\ \A k \in 1..Len(s) : s[k] \in Entry
  BY IntakeConstants DEF Ordered, Entry
<1>1. /\ d \in Seq(Entry) /\ Len(d) = Len(s) + 1 /\ d[Len(s) + 1] = <<i, n>>
      /\ \A k \in 1..Len(s) : d[k] = s[k]
  BY <1>0
<1> HIDE DEF d
<1>2. \A k \in 1..Len(d) : k \in 1..Len(s) \/ k = Len(s) + 1
  BY <1>0, <1>1
<1>3. Ordered(d, n)
  <2>1. ASSUME NEW k \in 1..Len(d) PROVE d[k][2] <= n
    BY <1>0, <1>1, <1>2 DEF Ordered
  <2>2. ASSUME NEW k \in 1..Len(d), NEW j \in 1..Len(d), k <= j PROVE d[k][2] <= d[j][2]
    <3>1. CASE j = Len(s) + 1
      BY <1>1, <2>1, <3>1
    <3>2. CASE j \in 1..Len(s)
      <4>1. k \in 1..Len(s)
        BY <1>0, <2>2, <3>2
      <4> QED
        BY <1>1, <2>2, <3>2, <4>1 DEF Ordered
    <3> QED
      BY <1>2, <3>1, <3>2
  <2>3. ASSUME NEW k \in 1..Len(d), NEW j \in 1..Len(d), d[k][1] = d[j][1] PROVE k = j
    <3>1. CASE k \in 1..Len(s) /\ j \in 1..Len(s)
      BY <1>1, <2>3, <3>1 DEF Ordered
    <3>2. CASE ~(k \in 1..Len(s) /\ j \in 1..Len(s))
      BY <1>1, <1>2, <2>3, <3>2
    <3> QED
      BY <3>1, <3>2
  <2> QED
    BY <1>1, <2>1, <2>2, <2>3 DEF Ordered
<1>4. Remembered(d, n, i, n, {})
  <2>1. Len(s) + 1 \in 1..Len(d) /\ ((Len(s) + 1) + 1)..Len(d) = {}
    BY <1>0, <1>1
  <2> QED
    BY <1>1, <2>1 DEF Remembered
<1>5. ASSUME NEW j, NEW a, NEW b, IsFiniteSet(b), Remembered(s, n, j, a, b)
      PROVE  Remembered(d, n, j, a, b \cup {i})
  <2>1. CASE n - a > Ttl
    BY <2>1 DEF Remembered
  <2>2. CASE ~(Cardinality(b) < MaxSize)
    <3>0. Cardinality(b) \in Nat
      BY <1>5, FS_CardinalityType
    <3>1. Cardinality(b) <= Cardinality(b \cup {i}) /\ Cardinality(b \cup {i}) \in Nat
      <4>1. Cardinality(b \cup {i}) \in {Cardinality(b), Cardinality(b) + 1}
        BY <1>5, FS_AddElement
      <4> QED
        BY <3>0, <4>1
    <3>2. ~(Cardinality(b \cup {i}) < MaxSize)
      BY <1>0, <2>2, <3>0, <3>1
    <3> QED
      BY <3>2 DEF Remembered
  <2>3. CASE \E k \in 1..Len(s) : s[k] = <<j, a>> /\ \A l \in (k + 1)..Len(s) : s[l][1] \in b
    <3>1. PICK k \in 1..Len(s) : s[k] = <<j, a>> /\ \A l \in (k + 1)..Len(s) : s[l][1] \in b
      BY <2>3
    <3>2. k \in 1..Len(d) /\ d[k] = <<j, a>>
      BY <1>0, <1>1, <3>1
    <3>3. ASSUME NEW l \in (k + 1)..Len(d) PROVE d[l][1] \in b \cup {i}
      <4>1. l \in (k + 1)..Len(s) \/ l = Len(s) + 1
        BY <1>0, <1>1
      <4>2. CASE l \in (k + 1)..Len(s)
        <5>1. l \in 1..Len(s)
          BY <1>0, <4>2
        <5> QED
          BY <1>1, <3>1, <4>2, <5>1
      <4>3. CASE l = Len(s) + 1
        BY <1>1, <4>3
      <4> QED
        BY <4>1, <4>2, <4>3
    <3> QED
      BY <3>2, <3>3 DEF Remembered
  <2> QED
    BY <1>5, <2>1, <2>2, <2>3 DEF Remembered
<1> QED
  BY <1>1, <1>3, <1>4, <1>5 DEF d

-----------------------------------------------------------------------------
Deduper ==
  /\ now \in 0..MaxTime /\ Ordered(seen, now) /\ Len(seen) <= MaxSize
  /\ accepted \in [Intake!Ids -> Intake!Never..MaxTime] /\ since \in [Intake!Ids -> SUBSET Intake!Ids]
  /\ \A i \in Intake!Ids : /\ IsFiniteSet(since[i])
                          /\ Remembered(seen, now, i, accepted[i], since[i])

HandlerTypes ==
  /\ stage \in [Intake!Deliveries -> {"out", "dispatch", "ended"}]
  /\ holds \in [Intake!Deliveries -> Intake!Tokens \cup {Intake!NoToken}]
  /\ card \in [Intake!Tokens -> {"none", "confirmed", "scheduled", "dispatch", "dropped", "ended"}]
  /\ loopUp \in BOOLEAN /\ ran \in [Intake!Ids -> Nat] /\ askedForText \subseteq Intake!Tokens
  /\ restarts \in 0..MaxRestarts
  /\ unconfirmed \subseteq Intake!Tokens /\ approved \subseteq Intake!Tokens

\* A token is issued once; it waits, then is granted, then executed.
OneWay(t) ==
  /\ t \in unconfirmed => t \notin approved
  /\ t \in unconfirmed \cup approved => ran[t] = 0
  /\ t \in unconfirmed \cup approved \/ ran[t] > 0 => stage[t] # "out"
  /\ ran[t] <= 1

IntakeInv == Deduper /\ HandlerTypes /\ \A t \in Intake!Tokens : OneWay(t)

LEMMA SameCardinality == \A S : Intake!Cardinality(S) = Cardinality(S)
BY Zenon DEF Intake!Cardinality, Cardinality

LEMMA WindowFacts == Deduper => Intake!DedupeWindow
<1> SUFFICES ASSUME Deduper PROVE Intake!DedupeWindow
  OBVIOUS
<1>1. ASSUME NEW i \in Intake!Ids, now - accepted[i] <= Ttl, Cardinality(since[i]) < MaxSize
      PROVE  Intake!Known(i)
  <2>1. now \in Nat /\ now \in Int /\ accepted[i] \in Int /\ Ttl \in Nat
    BY IntakeConstants DEF Deduper, Intake!Never
  <2>2. Remembered(Intake!Fresh, now, i, accepted[i], since[i]) /\ Ordered(Intake!Fresh, now)
    BY <2>1, FreshFacts DEF Deduper
  <2>3. PICK k \in 1..Len(Intake!Fresh) : Intake!Fresh[k] = <<i, accepted[i]>>
    BY <1>1, <2>1, <2>2 DEF Remembered
  <2>4. DOMAIN Intake!Fresh = 1..Len(Intake!Fresh)
    BY <2>2 DEF Ordered
  <2> QED
    BY <2>3, <2>4 DEF Intake!Known
<1> QED
  BY <1>1, SameCardinality, Zenon DEF Intake!DedupeWindow

LEMMA IntakeSafety ==
  IntakeInv => Intake!TypeOK /\ Intake!ConfirmedRunsOnce /\ Intake!DedupeWindow
<1> SUFFICES ASSUME IntakeInv
             PROVE  Intake!TypeOK /\ Intake!ConfirmedRunsOnce /\ Intake!DedupeWindow
  OBVIOUS
<1>1. seen \in Seq(Intake!Ids \X (0..MaxTime))
  BY DEF IntakeInv, Deduper, Ordered, Entry
<1> QED
  BY <1>1, WindowFacts
  DEF IntakeInv, Deduper, HandlerTypes, OneWay, Intake!TypeOK, Intake!ConfirmedRunsOnce

LEMMA InitIntakeInv == Intake!Init => IntakeInv
<1> SUFFICES ASSUME Intake!Init PROVE IntakeInv
  OBVIOUS
<1>0. /\ Ttl \in Nat /\ MaxTime \in Nat /\ MaxSize \in Nat /\ MaxRestarts \in Nat
      /\ Intake!Never = -Ttl - 1
  BY IntakeConstants DEF Intake!Never
<1>1. /\ seen = <<>> /\ now = 0 /\ accepted = [i \in Intake!Ids |-> Intake!Never]
      /\ since = [i \in Intake!Ids |-> {}]
  BY DEF Intake!Init
<1>2. Deduper
  <2>1. Ordered(seen, now)
    BY <1>1 DEF Ordered
  <2>2. ASSUME NEW i \in Intake!Ids PROVE Remembered(seen, now, i, accepted[i], since[i])
    BY <1>0, <1>1 DEF Remembered
  <2>3. Intake!Never \in Intake!Never..MaxTime
    BY <1>0
  <2> QED
    BY <1>0, <1>1, <2>1, <2>2, <2>3, FS_EmptySet DEF Deduper
<1>3. HandlerTypes
  BY <1>0 DEF Intake!Init, HandlerTypes
<1>4. ASSUME NEW t \in Intake!Tokens PROVE OneWay(t)
  BY IntakeConstants DEF Intake!Init, OneWay
<1> QED
  BY <1>2, <1>3, <1>4 DEF IntakeInv

LEMMA AcceptFacts ==
  ASSUME Deduper, NEW i \in Intake!Ids, Intake!Accept(i), now' = now
  PROVE  Deduper'
<1> DEFINE f == Intake!Fresh
           d == Append(f, <<i, now>>)
<1>0. /\ now \in 0..MaxTime /\ now \in Nat /\ MaxSize \in Nat /\ Ordered(seen, now) /\ Ttl \in Nat
      /\ Len(seen) <= MaxSize
  BY IntakeConstants DEF Deduper
<1>1. /\ Ordered(f, now) /\ Len(f) <= Len(seen)
      /\ \A j, a, b : Remembered(seen, now, j, a, b) => Remembered(f, now, j, a, b)
  BY <1>0, FreshFacts
<1>2. f \in Seq(Entry) /\ Len(f) \in Nat /\ Len(seen) \in Nat /\ DOMAIN f = 1..Len(f)
  BY <1>0, <1>1 DEF Ordered
<1>3. /\ \A k \in 1..Len(f) : f[k][1] # i
      /\ seen' = Intake!Keep(d)
      /\ accepted' = [accepted EXCEPT ![i] = now]
      /\ since' = [j \in Intake!Ids |-> IF j = i THEN {} ELSE since[j] \cup {i}]
  BY <1>2 DEF Intake!Accept, Intake!Known
<1> HIDE DEF f
<1>4. /\ Ordered(d, now) /\ Len(d) = Len(f) + 1 /\ Remembered(d, now, i, now, {})
      /\ \A j, a, b : IsFiniteSet(b) /\ Remembered(f, now, j, a, b)
                      => Remembered(d, now, j, a, b \cup {i})
  BY <1>0, <1>1, <1>3, AddFacts
<1> HIDE DEF d
<1>5. Len(d) <= MaxSize + 1
  BY <1>0, <1>1, <1>2, <1>4
<1>6. /\ Ordered(seen', now) /\ Len(seen') <= MaxSize
      /\ \A j, a, b : IsFiniteSet(b) /\ Remembered(d, now, j, a, b) => Remembered(seen', now, j, a, b)
  BY <1>3, <1>4, <1>5, KeepFacts
<1>7. ASSUME NEW j \in Intake!Ids
      PROVE  IsFiniteSet(since'[j]) /\ Remembered(seen', now, j, accepted'[j], since'[j])
  <2>1. IsFiniteSet(since[j]) /\ Remembered(seen, now, j, accepted[j], since[j])
    BY DEF Deduper
  <2>2. CASE j = i
    <3>1. accepted'[j] = now /\ since'[j] = {}
      BY <1>3, <2>2 DEF Deduper
    <3> QED
      BY <1>4, <1>6, <2>2, <3>1, FS_EmptySet
  <2>3. CASE j # i
    <3>1. accepted'[j] = accepted[j] /\ since'[j] = since[j] \cup {i}
      BY <1>3, <2>3 DEF Deduper
    <3>2. IsFiniteSet(since[j] \cup {i})
      BY <2>1, FS_AddElement
    <3>3. Remembered(d, now, j, accepted[j], since[j] \cup {i})
      BY <1>1, <1>4, <2>1
    <3> QED
      BY <1>6, <3>1, <3>2, <3>3
  <2> QED
    BY <2>2, <2>3
<1>8. accepted' \in [Intake!Ids -> Intake!Never..MaxTime] /\ since' \in [Intake!Ids -> SUBSET Intake!Ids]
  <2>1. now \in Intake!Never..MaxTime
    BY <1>0 DEF Intake!Never
  <2> QED
    BY <1>3, <2>1 DEF Deduper
<1> QED
  BY <1>0, <1>6, <1>7, <1>8 DEF Deduper

LEMMA DropFacts ==
  ASSUME Deduper, NEW i, Intake!Drop(i), now' = now
  PROVE  Deduper'
<1>0. now \in Nat /\ Ordered(seen, now) /\ MaxSize \in Nat /\ Len(seen) <= MaxSize /\ Len(seen) \in Nat
  BY IntakeConstants DEF Deduper, Ordered
<1>1. seen' = Intake!Fresh /\ UNCHANGED <<accepted, since>>
  BY DEF Intake!Drop
<1>2. /\ Ordered(seen', now) /\ Len(seen') <= Len(seen)
      /\ \A j, a, b : Remembered(seen, now, j, a, b) => Remembered(seen', now, j, a, b)
  BY <1>0, <1>1, FreshFacts
<1>3. Len(seen') \in Nat
  BY <1>2 DEF Ordered
<1>4. Len(seen') <= MaxSize
  BY <1>0, <1>2, <1>3
<1> QED
  BY <1>1, <1>2, <1>4 DEF Deduper

\* What concerns a token changes in its own steps only.
Quiet == UNCHANGED <<stage, holds, card, loopUp, ran, askedForText, restarts, unconfirmed, approved>>

LEMMA StepDeduper == Deduper /\ HandlerTypes /\ [Intake!Next]_intakeVars => Deduper'
<1> SUFFICES ASSUME Deduper, HandlerTypes, [Intake!Next]_intakeVars PROVE Deduper'
  OBVIOUS
<1>1. ASSUME NEW d \in Intake!Deliveries, Intake!Handle(d) PROVE Deduper'
  <2>1. now' = now /\ d[1] \in Intake!Ids
    BY <1>1, IntakeConstants
       DEF Intake!Handle, Intake!HandleDuplicate, Intake!HandleDenied, Intake!HandlePlain,
           Intake!HandleRisky, Intake!HandleConfirm
  <2>2. Intake!Accept(d[1]) \/ Intake!Drop(d[1])
    BY <1>1
       DEF Intake!Handle, Intake!HandleDuplicate, Intake!HandleDenied, Intake!HandlePlain,
           Intake!HandleRisky, Intake!HandleConfirm
  <2> QED
    BY <2>1, <2>2, AcceptFacts, DropFacts
<1>2. ASSUME NEW t \in Intake!Tokens, Intake!HandleCard(t) PROVE Deduper'
  <2>1. now' = now /\ t \in Intake!Ids /\ (Intake!Accept(t) \/ Intake!Drop(t))
    BY <1>2, IntakeConstants DEF Intake!HandleCard
  <2> QED
    BY <2>1, AcceptFacts, DropFacts
<1>3. ASSUME UNCHANGED <<now, seen, accepted, since>> PROVE Deduper'
  BY <1>3 DEF Deduper
<1>4. ASSUME NEW d \in Intake!Deliveries, Intake!Dispatch(d) PROVE Deduper'
  BY <1>3, <1>4 DEF Intake!Dispatch, Intake!dedupe
<1>5. ASSUME NEW t \in Intake!Tokens, Intake!Click(t) \/ Intake!Hand(t) \/ Intake!DispatchCard(t)
      PROVE  Deduper'
  BY <1>3, <1>5 DEF Intake!Click, Intake!Hand, Intake!DispatchCard, Intake!dedupe
<1>6. CASE Intake!CancelAll \/ Intake!CloseLoop \/ UNCHANGED intakeVars
  BY <1>3, <1>6 DEF Intake!CancelAll, Intake!CloseLoop, Intake!dedupe, intakeVars
<1>7. CASE Intake!Restart
  <2>1. /\ seen' = <<>> /\ accepted' = [i \in Intake!Ids |-> Intake!Never]
        /\ since' = [i \in Intake!Ids |-> {}] /\ now' = now
    BY <1>7 DEF Intake!Restart
  <2>2. now \in 0..MaxTime /\ Ttl \in Nat /\ MaxSize \in Nat /\ MaxTime \in Nat
    BY IntakeConstants DEF Deduper
  <2>3. Ordered(<<>>, now)
    BY DEF Ordered
  <2>4. \A i \in Intake!Ids : Remembered(<<>>, now, i, Intake!Never, {})
    BY <2>2 DEF Remembered, Intake!Never
  <2>5. Intake!Never \in Intake!Never..MaxTime
    BY <2>2 DEF Intake!Never
  <2> QED
    BY <2>1, <2>2, <2>3, <2>4, <2>5, FS_EmptySet DEF Deduper
<1>8. CASE Intake!Tick
  <2>1. now \in 0..MaxTime /\ now' = now + 1 /\ now' \in 0..MaxTime /\ UNCHANGED <<seen, accepted, since>>
    BY <1>8, IntakeConstants DEF Intake!Tick, Deduper, Intake!dedupe
  <2>2. ASSUME NEW i \in Intake!Ids PROVE Remembered(seen, now', i, accepted[i], since[i])
    <3>1. accepted[i] \in Int /\ Ttl \in Nat
      BY IntakeConstants DEF Deduper, Intake!Never
    <3>2. Remembered(seen, now, i, accepted[i], since[i])
      BY DEF Deduper
    <3>3. now - accepted[i] > Ttl => now' - accepted[i] > Ttl
      BY <2>1, <3>1
    <3> QED
      BY <3>2, <3>3 DEF Remembered
  <2>3. Ordered(seen, now')
    <3>1. /\ seen \in Seq(Entry) /\ \A i \in 1..Len(seen) : seen[i] \in Entry /\ seen[i][2] <= now
      BY DEF Deduper, Ordered
    <3>2. \A i \in 1..Len(seen) : seen[i][2] <= now'
      BY <2>1, <3>1 DEF Entry
    <3> QED
      BY <3>1, <3>2 DEF Deduper, Ordered
  <2> QED
    BY <2>1, <2>2, <2>3 DEF Deduper
<1> QED
  BY <1>1, <1>2, <1>4, <1>5, <1>6, <1>7, <1>8 DEF Intake!Next, Intake!CardWork

\* The request of a token is executed on its grant.
LEMMA ExecuteFacts ==
  ASSUME HandlerTypes, \A s \in Intake!Tokens : OneWay(s), NEW t \in Intake!Tokens, Intake!Execute(t),
         \A s \in Intake!Tokens : stage[s] # "out" => stage'[s] # "out", unconfirmed' = unconfirmed
  PROVE  /\ ran' \in [Intake!Ids -> Nat] /\ approved' \subseteq Intake!Tokens
         /\ \A s \in Intake!Tokens : OneWay(s)'
<1>0. t \in Intake!Ids
  BY IntakeConstants
<1>1. CASE t \in approved /\ approved' = approved \ {t} /\ ran' = [ran EXCEPT ![t] = @ + 1]
  <2>1. ran' = [ran EXCEPT ![t] = @ + 1] /\ approved' = approved \ {t} /\ ran[t] = 0
    BY <1>1 DEF OneWay
  <2>2. \A s \in Intake!Tokens : ran'[s] = IF s = t THEN 1 ELSE ran[s]
    BY <1>0, <2>1, IntakeConstants DEF HandlerTypes
  <2>3. ran' \in [Intake!Ids -> Nat] /\ approved' \subseteq Intake!Tokens
    BY <1>0, <2>1 DEF HandlerTypes
  <2>4. ASSUME NEW s \in Intake!Tokens PROVE OneWay(s)'
    BY <1>1, <2>1, <2>2 DEF OneWay
  <2> QED
    BY <2>3, <2>4
<1>2. CASE ran' = ran /\ approved' \in {approved, approved \ {t}}
  BY <1>2 DEF HandlerTypes, OneWay
<1> QED
  BY <1>1, <1>2 DEF Intake!Execute

LEMMA StepHandlers ==
  IntakeInv /\ [Intake!Next]_intakeVars => HandlerTypes' /\ \A t \in Intake!Tokens : OneWay(t)'
<1> DEFINE Goal == HandlerTypes' /\ \A t \in Intake!Tokens : OneWay(t)'
<1> SUFFICES ASSUME IntakeInv, [Intake!Next]_intakeVars PROVE Goal
  OBVIOUS
<1>0. /\ HandlerTypes /\ \A t \in Intake!Tokens : OneWay(t)
      /\ Intake!Tokens \subseteq Intake!Deliveries /\ MaxRestarts \in Nat
  BY IntakeConstants DEF IntakeInv
<1>1. ASSUME NEW d \in Intake!Deliveries, Intake!Handle(d) PROVE Goal
  <2>1. PICK st \in {"dispatch", "ended"} : stage' = [stage EXCEPT ![d] = st]
    BY <1>1
       DEF Intake!Handle, Intake!HandleDuplicate, Intake!HandleDenied, Intake!HandlePlain,
           Intake!HandleRisky, Intake!HandleConfirm, Intake!At
  <2>2. /\ stage[d] = "out" /\ UNCHANGED <<card, loopUp, ran, askedForText, restarts>>
    BY <1>1
       DEF Intake!Handle, Intake!HandleDuplicate, Intake!HandleDenied, Intake!HandlePlain,
           Intake!HandleRisky, Intake!HandleConfirm
  <2>3. /\ stage' \in [Intake!Deliveries -> {"out", "dispatch", "ended"}] /\ stage'[d] # "out"
        /\ \A t \in Intake!Tokens : stage[t] # "out" => stage'[t] # "out"
    BY <1>0, <2>1 DEF HandlerTypes
  <2>4. CASE UNCHANGED <<holds, unconfirmed, approved>>
    BY <1>0, <2>2, <2>3, <2>4 DEF HandlerTypes, OneWay
  <2>5. CASE Intake!HandleRisky(d)
    <3>1. d \in Intake!Tokens /\ unconfirmed' = unconfirmed \cup {d} /\ UNCHANGED <<holds, approved>>
      BY <2>5 DEF Intake!HandleRisky, Intake!Tokens
    <3>2. ran[d] = 0 /\ d \notin approved
      BY <1>0, <2>2, <3>1, IntakeConstants DEF OneWay, HandlerTypes
    <3> QED
      BY <1>0, <2>2, <2>3, <3>1, <3>2 DEF HandlerTypes, OneWay
  <2>6. ASSUME NEW t \in unconfirmed, Intake!Confirm(t), holds' = [holds EXCEPT ![d] = t] PROVE Goal
    <3>1. /\ unconfirmed' = unconfirmed \ {t} /\ approved' = approved \cup {t} /\ t \in Intake!Tokens
      BY <1>0, <2>6 DEF Intake!Confirm, HandlerTypes
    <3>2. holds' \in [Intake!Deliveries -> Intake!Tokens \cup {Intake!NoToken}]
      BY <1>0, <2>6, <3>1 DEF HandlerTypes
    <3>3. HandlerTypes'
      BY <1>0, <2>2, <2>3, <3>1, <3>2 DEF HandlerTypes
    <3>4. ASSUME NEW s \in Intake!Tokens PROVE OneWay(s)'
      BY <1>0, <2>2, <2>3, <2>6, <3>1 DEF OneWay
    <3> QED
      BY <3>3, <3>4
  <2> QED
    BY <1>1, <2>4, <2>5, <2>6
       DEF Intake!Handle, Intake!HandleDuplicate, Intake!HandleDenied, Intake!HandlePlain,
           Intake!HandleConfirm, Intake!tables
<1>2. ASSUME NEW d \in Intake!Deliveries, Intake!Dispatch(d) PROVE Goal
  <2>1. /\ stage[d] = "dispatch" /\ stage' = [stage EXCEPT ![d] = "ended"]
        /\ UNCHANGED <<holds, unconfirmed, card, loopUp, askedForText, restarts>>
    BY <1>2 DEF Intake!Dispatch, Intake!At
  <2>2. /\ stage' \in [Intake!Deliveries -> {"out", "dispatch", "ended"}]
        /\ \A t \in Intake!Tokens : stage[t] # "out" => stage'[t] # "out"
    BY <1>0, <2>1 DEF HandlerTypes
  <2>3. CASE holds[d] = Intake!NoToken
    <3>1. /\ ran' = [ran EXCEPT ![d[1]] = @ + 1] /\ approved' = approved
          /\ d[1] \in Intake!Ids /\ d[1] \notin Intake!Tokens
      BY <1>2, <2>3, IntakeConstants DEF Intake!Dispatch
    <3>2. ran' \in [Intake!Ids -> Nat] /\ \A t \in Intake!Tokens : ran'[t] = ran[t]
      BY <1>0, <3>1, IntakeConstants DEF HandlerTypes
    <3>3. HandlerTypes'
      BY <1>0, <2>1, <2>2, <3>1, <3>2 DEF HandlerTypes
    <3>4. ASSUME NEW t \in Intake!Tokens PROVE OneWay(t)'
      BY <1>0, <2>1, <2>2, <3>1, <3>2 DEF OneWay
    <3> QED
      BY <3>3, <3>4
  <2>4. CASE holds[d] # Intake!NoToken
    <3>1. holds[d] \in Intake!Tokens /\ Intake!Execute(holds[d])
      BY <1>0, <1>2, <2>4 DEF Intake!Dispatch, HandlerTypes
    <3>2. /\ ran' \in [Intake!Ids -> Nat] /\ approved' \subseteq Intake!Tokens
          /\ \A s \in Intake!Tokens : OneWay(s)'
      BY <1>0, <2>1, <2>2, <3>1, ExecuteFacts
    <3> QED
      BY <1>0, <2>1, <2>2, <3>2 DEF HandlerTypes
  <2> QED
    BY <2>3, <2>4
<1>3. ASSUME NEW t \in Intake!Tokens, Intake!Click(t) PROVE Goal
  <2>1. /\ t \in unconfirmed /\ unconfirmed' = unconfirmed \ {t} /\ approved' = approved \cup {t}
        /\ card' = [card EXCEPT ![t] = "confirmed"]
        /\ UNCHANGED <<stage, holds, loopUp, ran, askedForText, restarts>>
    BY <1>3 DEF Intake!Click, Intake!Confirm, Intake!Card
  <2>2. HandlerTypes'
    BY <1>0, <2>1 DEF HandlerTypes
  <2>3. ASSUME NEW s \in Intake!Tokens PROVE OneWay(s)'
    BY <1>0, <2>1 DEF OneWay
  <2> QED
    BY <2>2, <2>3
<1>4. ASSUME NEW t \in Intake!Tokens, Intake!Hand(t) \/ Intake!HandleCard(t) PROVE Goal
  <2>1. /\ UNCHANGED <<stage, holds, loopUp, ran, restarts, unconfirmed, approved>>
        /\ askedForText' \in {askedForText, askedForText \cup {t}}
        /\ \E st \in {"scheduled", "dispatch", "dropped", "ended"} :
             card' = [card EXCEPT ![t] = st]
    BY <1>4 DEF Intake!Hand, Intake!HandleCard, Intake!Card, Intake!tables
  <2>2. HandlerTypes'
    BY <1>0, <2>1 DEF HandlerTypes
  <2> QED
    BY <1>0, <2>1, <2>2 DEF OneWay
<1>5. ASSUME NEW t \in Intake!Tokens, Intake!DispatchCard(t) PROVE Goal
  <2>1. /\ UNCHANGED <<stage, holds, loopUp, askedForText, restarts, unconfirmed>>
        /\ card' = [card EXCEPT ![t] = "ended"] /\ Intake!Execute(t)
    BY <1>5 DEF Intake!DispatchCard, Intake!Card
  <2>2. /\ ran' \in [Intake!Ids -> Nat] /\ approved' \subseteq Intake!Tokens
        /\ \A s \in Intake!Tokens : OneWay(s)'
    BY <1>0, <2>1, ExecuteFacts
  <2> QED
    BY <1>0, <2>1, <2>2 DEF HandlerTypes
<1>6. CASE Intake!CancelAll
  BY <1>0, <1>6 DEF Intake!CancelAll, HandlerTypes, OneWay
<1>7. CASE Intake!CloseLoop
  <2>1. /\ UNCHANGED <<holds, unconfirmed, approved, ran, askedForText>> /\ loopUp' = FALSE
        /\ restarts' = restarts + 1 /\ restarts < MaxRestarts
        /\ stage' = [d \in Intake!Deliveries |-> IF stage[d] = "out" THEN "out" ELSE "ended"]
        /\ card' = [t \in Intake!Tokens |-> IF card[t] \in {"none", "confirmed"} THEN card[t]
                                            ELSE "ended"]
    BY <1>7 DEF Intake!CloseLoop, Intake!tables
  <2>2. restarts' \in 0..MaxRestarts
    BY <1>0, <2>1 DEF HandlerTypes
  <2>3. HandlerTypes'
    BY <1>0, <2>1, <2>2 DEF HandlerTypes
  <2>4. ASSUME NEW t \in Intake!Tokens PROVE OneWay(t)'
    BY <1>0, <2>1 DEF OneWay, HandlerTypes
  <2> QED
    BY <2>3, <2>4
<1>8. CASE Intake!Restart
  <2>1. /\ loopUp' = TRUE /\ unconfirmed' = {} /\ approved' = {} /\ askedForText' = {}
        /\ card' = [t \in Intake!Tokens |-> IF card[t] = "none" THEN "none" ELSE "ended"]
        /\ UNCHANGED <<stage, holds, ran, restarts>>
    BY <1>8 DEF Intake!Restart
  <2> QED
    BY <1>0, <2>1 DEF HandlerTypes, OneWay
<1>9. CASE Intake!Tick \/ UNCHANGED intakeVars
  <2>1. Quiet
    BY <1>9 DEF Intake!Tick, Intake!tables, intakeVars, Quiet
  <2> QED
    BY <1>0, <2>1 DEF Quiet, HandlerTypes, OneWay
<1> QED
  BY <1>1, <1>2, <1>3, <1>4, <1>5, <1>6, <1>7, <1>8, <1>9 DEF Intake!Next, Intake!CardWork

LEMMA StepIntakeInv == IntakeInv /\ [Intake!Next]_intakeVars => IntakeInv'
BY StepDeduper, StepHandlers DEF IntakeInv

-----------------------------------------------------------------------------
LEMMA JointStep == [JointNext]_jointVars => [Next]_vars /\ [Intake!Next]_intakeVars
BY DEF JointNext, jointVars

\* One confirmation is one execution, whatever is delivered again, clicked or restarted;
\* a redelivery inside the window is dropped; an operation runs on the grant of its
\* request, on a target that supports it; and what a chat selected last is what it keeps.
THEOREM ConfirmedOnce == JointSpec => []RunsAsConfirmed
<1> DEFINE Inv == IInv /\ Selection /\ IntakeInv
<1>1. JointInit => Inv
  BY InitIInv, InitSelection, InitIntakeInv DEF JointInit
<1>2. Inv /\ [JointNext]_jointVars => Inv'
  <2>1. Inv /\ [JointNext]_jointVars => IInv' /\ IntakeInv'
    BY JointStep, StepIInv, StepIntakeInv
  <2>2. Inv /\ [JointNext]_jointVars => Selection'
    BY JointStep, StepSelection
  <2> QED
    BY <2>1, <2>2
<1>3. Inv => RunsAsConfirmed
  <2>1. IInv => RunsOnlyWhereSupported /\ RunsOnUsedGrant
    BY DEF IInv, Agree, RunsOnlyWhereSupported, RunsOnUsedGrant
  <2> QED
    BY <2>1, SelectionSafety, IntakeSafety DEF RunsAsConfirmed
<1> QED
  BY <1>1, <1>2, <1>3, PTL DEF JointSpec

\* The parts run as their own specifications say: what is proved of a part holds of the
\* whole, and the other parts' steps are stutters of it.
THEOREM EachPartBehaves == JointSpec => Spec /\ Intake!Spec
<1>1. JointInit => Init /\ Intake!Init
  BY DEF JointInit
<1>2. [JointNext]_jointVars => [Next]_vars
  BY DEF JointNext, jointVars, intakeVars
<1>3. [JointNext]_jointVars => [Intake!Next]_(Intake!vars)
  BY DEF JointNext, jointVars, intakeVars, Intake!vars, Intake!dedupe, Intake!tables
<1> QED
  BY <1>1, <1>2, <1>3, PTL DEF JointSpec, Spec, Intake!Spec
=============================================================================
