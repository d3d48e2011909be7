---------------------------- MODULE ServiceOperation ----------------------------
(***************************************************************************)
(* `/vps service SERVICE restart|backup` of one user, from the confirmed   *)
(* message to its receipt (QuickCommandRouter in interface/lark_commands,  *)
(* VpsSysopsAdapter in tools/vps_sysops), with the selection of the target *)
(* it runs on: the registry knows one target per user, the database one    *)
(* per user and chat, and a card selects from the SDK's thread while the   *)
(* handlers run on the loop.                                               *)
(***************************************************************************)
EXTENDS Naturals, Sequences

CONSTANTS Requests, Chats, Targets,
          Default,      \* the registry's default target
          Supported,    \* where the operation's contract and the allowlist let it run
          Bound,        \* the targets the router binds the service to
          NoTarget, Nobody,
          MaxSelections, MaxRestarts

ASSUME ServiceOperationAssumption ==
  /\ Default \in Targets /\ Supported \subseteq Targets /\ Bound \subseteq Targets
  /\ NoTarget \notin Targets /\ Nobody \notin Requests
  /\ MaxSelections \in Nat /\ MaxRestarts \in Nat

VARIABLES registry,     \* VpsTargetRegistry._selected of the user
          pending,      \* _pending_target_selections
          stored,       \* the table target_selections
          writes,       \* its writes under way, in their order
          req,          \* each request and its handler
          loop,         \* the handler that has the loop and may not be interleaved with
          grant,        \* the confirmation of each request
          ledger,       \* the receipt of each request
          process,      \* what the service operation of each request did
          chosen,       \* the last target selected in each chat
          dropped,      \* the chats where a write of the selection was lost
          selections, boot

selecting == <<registry, pending, stored, writes, chosen, dropped, selections>>
vars == <<selecting, req, loop, grant, ledger, process, boot>>

Waits == {"storing", "reading", "preparing", "auditing", "rejecting", "starting", "running", "finishing"}
Steps == Waits \cup {"new", "asked", "restoring", "checking", "targeting", "launching",
                     "refused", "failed", "ok", "unsure", "gone"}
Ended == {"refused", "failed", "ok", "unsure", "gone"}
Receipts == {"none", "prepared", "executing", "rejected", "returned_ok", "returned_error", "unknown"}
Exits == {"none", "running", "zero", "other", "killed"}

Init ==
  /\ registry = Default /\ pending = [c \in Chats |-> NoTarget]
  /\ stored = [c \in Chats |-> NoTarget] /\ writes = <<>>
  /\ req = [r \in Requests |-> [at |-> "new", chat |-> Nobody, names |-> NoTarget, after |-> 0,
                                shown |-> NoTarget, read |-> NoTarget, target |-> NoTarget]]
  /\ loop = Nobody /\ grant = [r \in Requests |-> "none"]
  /\ ledger = [r \in Requests |-> "none"]
  /\ process = [r \in Requests |-> [exit |-> "none", on |-> NoTarget]]
  /\ chosen = [c \in Chats |-> NoTarget] /\ dropped = {} /\ selections = 0 /\ boot = 0

-----------------------------------------------------------------------------
\* The selection of a target

Pend(c, t) == pending' = [pending EXCEPT ![c] = t]

\* _select_target, on the SDK's thread for a card, in a handler for `/target`.
Select(c, t) ==
  /\ selections < MaxSelections /\ selections' = selections + 1
  /\ registry' = t /\ Pend(c, t) /\ chosen' = [chosen EXCEPT ![c] = t]
  /\ UNCHANGED <<stored, writes, dropped, req, loop, grant, ledger, process, boot>>

\* persist_target_selection, up to its await.
Take(c, by) ==
  /\ pending[c] # NoTarget /\ writes' = Append(writes, [chat |-> c, target |-> pending[c], by |-> by])
  /\ pending' = [pending EXCEPT ![c] = NoTarget]

\* The task a card schedules, or the end of `/target`.
Persist(c) ==
  /\ loop = Nobody /\ Take(c, Nobody)
  /\ UNCHANGED <<registry, stored, chosen, dropped, selections, req, loop, grant, ledger, process, boot>>

Goto(r, at) == req' = [req EXCEPT ![r].at = at]

\* The oldest write ends; when it fails, so does the handler that awaits it.
WriteEnds ==
  /\ writes # <<>> /\ writes' = Tail(writes)
  /\ LET w == Head(writes)
         waits == IF w.by = Nobody THEN FALSE ELSE req[w.by].at = "storing"
         resumes(at) == IF waits THEN Goto(w.by, at) ELSE UNCHANGED req
     IN  \/ /\ stored' = [stored EXCEPT ![w.chat] = w.target]
            /\ resumes("reading") /\ UNCHANGED dropped
         \/ /\ dropped' = dropped \cup {w.chat}
            /\ resumes("gone") /\ UNCHANGED stored
  /\ UNCHANGED <<registry, pending, chosen, selections, loop, grant, ledger, process, boot>>

-----------------------------------------------------------------------------
\* The request

\* A message that needs a confirmation: the card shows the target the registry has.
Ask(r, c, names) ==
  /\ req[r].at = "new" /\ loop = Nobody
  /\ req' = [req EXCEPT ![r].at = "asked", ![r].chat = c, ![r].names = names,
                        ![r].shown = registry, ![r].after = selections]
  /\ grant' = [grant EXCEPT ![r] = "pending"]
  /\ UNCHANGED <<selecting, loop, ledger, process, boot>>

\* The confirmation, by its card or its code: a handler runs the request.
Confirm(r) ==
  /\ req[r].at = "asked" /\ grant[r] = "pending"
  /\ grant' = [grant EXCEPT ![r] = "granted"] /\ Goto(r, "restoring")
  /\ UNCHANGED <<selecting, loop, ledger, process, boot>>

\* It expires, or the user cancels it.
GrantLost(r) ==
  /\ grant[r] \in {"pending", "granted"} /\ grant' = [grant EXCEPT ![r] = "lost"]
  /\ UNCHANGED <<selecting, req, loop, ledger, process, boot>>

\* _restore_target_selection stores what its chat selected, then reads it back.
Restore(r) ==
  /\ req[r].at = "restoring" /\ loop = Nobody
  /\ IF pending[req[r].chat] = NoTarget
       THEN Goto(r, "reading") /\ UNCHANGED <<pending, writes>>
       ELSE Goto(r, "storing") /\ Take(req[r].chat, r)
  /\ UNCHANGED <<registry, stored, chosen, dropped, selections, loop, grant, ledger, process, boot>>

\* The row is read by the database's thread, which may fail the handler.
Read(r) ==
  /\ req[r].at = "reading"
  /\ \/ req' = [req EXCEPT ![r].read = stored[req[r].chat], ![r].at = "checking"]
     \/ Goto(r, "gone")
  /\ UNCHANGED <<selecting, loop, grant, ledger, process, boot>>

\* VpsTargetRegistry.select of what was read, if there is any.
Reselect(r) == registry' = IF req[r].read = NoTarget THEN registry ELSE req[r].read

\* The handler goes on with what it read, and has the loop up to its next await.
Restored(r) ==
  /\ req[r].at = "checking" /\ loop = Nobody /\ Reselect(r)
  /\ loop' = r /\ Goto(r, "targeting")
  /\ UNCHANGED <<pending, stored, writes, chosen, dropped, selections, grant, ledger, process, boot>>

\* _service looks at the target the user has now.
Check(r) ==
  /\ req[r].at = "targeting" /\ loop = r
  /\ IF registry \in Supported \cap Bound
       THEN /\ req' = [req EXCEPT ![r].at = "preparing"] /\ UNCHANGED loop
       ELSE /\ Goto(r, "refused") /\ loop' = Nobody
  /\ UNCHANGED <<selecting, grant, ledger, process, boot>>

\* _service_operation reads the target again, for the confirmation and the receipt.
Target(r) ==
  /\ req[r].at = "preparing" /\ loop = r /\ loop' = Nobody
  /\ req' = [req EXCEPT ![r].target = registry]
  /\ UNCHANGED <<selecting, grant, ledger, process, boot>>

\* consume_grant: a target the request named has to be the one it would run on.
Matches(r) == req[r].names \in {NoTarget, req[r].target}

\* The receipt is prepared, and then the grant consumed, whatever it covers.
Prepare(r) ==
  /\ req[r].at = "preparing" /\ loop = Nobody
  /\ \/ /\ ledger' = [ledger EXCEPT ![r] = "prepared"] /\ Goto(r, "auditing")
        /\ grant' = [grant EXCEPT ![r] = IF @ # "granted" THEN @
                                         ELSE IF Matches(r) THEN "used" ELSE "lost"]
     \/ /\ Goto(r, "refused") /\ UNCHANGED <<ledger, grant>>
  /\ UNCHANGED <<selecting, loop, process, boot>>

\* _audit_service_operation swallows its failure.
Audit(r) ==
  /\ req[r].at = "auditing"
  /\ Goto(r, IF grant[r] = "used" THEN "starting" ELSE "rejecting")
  /\ UNCHANGED <<selecting, loop, grant, ledger, process, boot>>

Reject(r) ==
  /\ req[r].at = "rejecting" /\ Goto(r, "refused")
  /\ \/ ledger' = [ledger EXCEPT ![r] = "rejected"]
     \/ UNCHANGED ledger
  /\ UNCHANGED <<selecting, loop, grant, process, boot>>

\* Mutant: the operation goes on without its receipt.
StartAnyway(r) ==
  /\ req[r].at = "starting" /\ Goto(r, "launching")
  /\ \/ ledger' = [ledger EXCEPT ![r] = "executing"]
     \/ UNCHANGED ledger
  /\ UNCHANGED <<selecting, loop, grant, process, boot>>

\* attempt.executing
Start(r) ==
  /\ req[r].at = "starting"
  /\ \/ ledger' = [ledger EXCEPT ![r] = "executing"] /\ Goto(r, "launching")
     \/ Goto(r, "refused") /\ UNCHANGED ledger
  /\ UNCHANGED <<selecting, loop, grant, process, boot>>

-----------------------------------------------------------------------------
\* _run_service_operation

MayRun(r) == registry \in Supported

\* It reads the target once more and runs there; an operation the target does not
\* take, and a process that cannot be started, are an error without an effect.
Launch(r) ==
  /\ req[r].at = "launching" /\ loop = Nobody
  /\ \/ /\ MayRun(r) /\ process' = [process EXCEPT ![r] = [exit |-> "running", on |-> registry]]
        /\ Goto(r, "running")
     \/ Goto(r, "finishing") /\ UNCHANGED process
  /\ UNCHANGED <<selecting, loop, grant, ledger, boot>>

Exited(r, how) ==
  /\ req[r].at = "running" /\ Goto(r, "finishing")
  /\ process' = [process EXCEPT ![r].exit = how]
  /\ UNCHANGED <<selecting, loop, grant, ledger, boot>>

ProcessEnds(r) == \E how \in {"zero", "other"} : Exited(r, how)

\* Mutant: the output of the process is awaited for ever.
NoTimeout(r) == FALSE /\ UNCHANGED vars

\* timeout_seconds pass: the process is killed.
Timeout(r) == Exited(r, "killed")

\* The receipt an outcome leads to: whatever ran and did not end well is uncertain.
Outcome(r) == CASE process[r].exit = "none" -> "returned_error"
                [] process[r].exit = "zero" -> "returned_ok"
                [] OTHER -> "unknown"

\* The receipt and the answer; without the receipt the answer is that nobody knows.
Answer(r) == CASE Outcome(r) = "returned_ok" -> "ok"
               [] Outcome(r) = "returned_error" -> "failed"
               [] OTHER -> "unsure"

\* Mutant: the answer does not depend on the receipt.
FinishAnyway(r) ==
  /\ req[r].at = "finishing" /\ Goto(r, Answer(r))
  /\ ledger' \in {ledger, [ledger EXCEPT ![r] = Outcome(r)]}
  /\ UNCHANGED <<selecting, loop, grant, process, boot>>

Finish(r) ==
  /\ req[r].at = "finishing"
  /\ \/ ledger' = [ledger EXCEPT ![r] = Outcome(r)] /\ Goto(r, Answer(r))
     \/ Goto(r, "unsure") /\ UNCHANGED ledger
  /\ UNCHANGED <<selecting, loop, grant, process, boot>>

\* The receipt that the database may still write when its handler is cancelled.  An
\* operation under way is written down as unknown, within 2 s or not at all.
LastReceipt(r) == CASE req[r].at = "preparing" -> "prepared" [] req[r].at = "rejecting" -> "rejected"
                    [] req[r].at = "starting" -> "executing" [] req[r].at = "running" -> "unknown"
                    [] req[r].at = "finishing" -> Outcome(r) [] OTHER -> ledger[r]

\* The interface stops and cancels the handler at an await.
Cancel(r) ==
  /\ req[r].at \in Waits /\ loop # r /\ Goto(r, "gone")
  /\ ledger' \in {ledger, [ledger EXCEPT ![r] = LastReceipt(r)]}
  /\ UNCHANGED <<selecting, loop, grant, process, boot>>

\* A restart, such as the one `/vps service luck-agent restart` schedules.
Restart ==
  /\ boot < MaxRestarts /\ boot' = boot + 1
  /\ req' = [r \in Requests |-> IF req[r].at \in Ended \cup {"new"} THEN req[r]
                                ELSE [req[r] EXCEPT !.at = "gone"]]
  /\ grant' = [r \in Requests |-> IF grant[r] \in {"pending", "granted"} THEN "lost" ELSE grant[r]]
  /\ dropped' = dropped \cup {c \in Chats : pending[c] # NoTarget}
                        \cup {writes[i].chat : i \in DOMAIN writes}
  /\ registry' = Default /\ pending' = [c \in Chats |-> NoTarget] /\ writes' = <<>>
  /\ loop' = Nobody
  /\ UNCHANGED <<stored, chosen, selections, ledger, process>>

-----------------------------------------------------------------------------
Handler(r) ==
  \/ Restore(r) \/ Read(r) \/ Restored(r) \/ Check(r) \/ Target(r) \/ Prepare(r) \/ Audit(r)
  \/ Reject(r) \/ Start(r) \/ Launch(r) \/ Timeout(r) \/ Finish(r)

Next ==
  \/ \E c \in Chats, t \in Targets : Select(c, t)
  \/ \E c \in Chats : Persist(c)
  \/ WriteEnds
  \/ \E r \in Requests, c \in Chats, names \in Targets \cup {NoTarget} : Ask(r, c, names)
  \/ \E r \in Requests : Handler(r) \/ Confirm(r) \/ GrantLost(r) \/ ProcessEnds(r) \/ Cancel(r)
  \/ Restart

Spec == Init /\ [][Next]_vars

\* The database answers and timers fire; nothing is assumed of the process.
FairSpec == Spec /\ WF_vars(WriteEnds) /\ \A r \in Requests : WF_vars(Handler(r))
-----------------------------------------------------------------------------
Request == [at : Steps, chat : Chats \cup {Nobody}, names : Targets \cup {NoTarget},
            after : 0..MaxSelections, shown : Targets \cup {NoTarget}, read : Targets \cup {NoTarget},
            target : Targets \cup {NoTarget}]

\* Types; a selection is written at most once.
TypeOK ==
  /\ registry \in Targets /\ pending \in [Chats -> Targets \cup {NoTarget}]
  /\ stored \in [Chats -> Targets \cup {NoTarget}] /\ chosen \in [Chats -> Targets \cup {NoTarget}]
  /\ writes \in Seq([chat : Chats, target : Targets, by : Requests \cup {Nobody}])
  /\ Len(writes) <= selections /\ selections \in 0..MaxSelections /\ boot \in 0..MaxRestarts
  /\ req \in [Requests -> Request] /\ loop \in Requests \cup {Nobody}
  /\ grant \in [Requests -> {"none", "pending", "granted", "used", "lost"}]
  /\ ledger \in [Requests -> Receipts] /\ dropped \subseteq Chats
  /\ process \in [Requests -> [exit : Exits, on : Targets \cup {NoTarget}]]

\* The target may be selected anew while the receipt, the confirmation and the audit
\* are awaited, so what was checked before them no longer holds: an operation still
\* runs only where its contract and the allowlist let it.
RunsOnlyWhereSupported == \A r \in Requests : process[r].exit # "none" => process[r].on \in Supported

\* Whatever fails, is cancelled or is cut off by a restart, an operation that ran has
\* a receipt that says so or leaves it open, and a good receipt is of a process that
\* ended well: "prepared", "rejected" and "returned_error" mean nothing ran.
ReceiptTellsTheEffect ==
  \A r \in Requests :
    /\ process[r].exit # "none" => ledger[r] \in {"executing", "unknown", "returned_ok"}
    /\ ledger[r] = "returned_ok" => process[r].exit = "zero"

\* The user is told that nothing ran only if nothing did, and that it went well only
\* if it did and the receipt is there.
AnswerIsTrue ==
  \A r \in Requests :
    /\ req[r].at \in {"refused", "failed"} => process[r].exit = "none"
    /\ req[r].at = "ok" => process[r].exit = "zero" /\ ledger[r] = "returned_ok"

\* An operation runs only on a confirmation that was used up for it, and that covers
\* the target of its receipt.
RunsOnUsedGrant ==
  \A r \in Requests : process[r].exit # "none" => grant[r] = "used" /\ Matches(r)

\* The last target selected in a chat, by card or by text, is the one its next
\* commands restore, or is still on its way to the table, unless a write of that
\* chat failed or a restart came before it.
SelectionKept ==
  \A c \in Chats :
    \/ c \in dropped \/ chosen[c] \in {pending[c], stored[c]}
    \/ \E i \in DOMAIN writes : writes[i].chat = c /\ writes[i].target = chosen[c]

\* Every confirmed operation ends, whatever its process does.
NoneUnderWay == \A r \in Requests : req[r].at \in {"new", "asked"} \cup Ended
ConfirmedEnds == []<>NoneUnderWay

\* Violated: when no target is selected after the confirmation card was shown, the operation
\* runs on the target of the card.
RunsOnShownTarget ==
  \A r \in Requests : process[r].exit # "none" /\ selections = req[r].after
                       => process[r].on = req[r].shown

\* Violated: an operation of a service that is bound to a target runs on no other.
RunsOnlyWhereBound == \A r \in Requests : process[r].exit # "none" => process[r].on \in Bound
=============================================================================
