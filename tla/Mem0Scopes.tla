------------------------------- MODULE Mem0Scopes -------------------------------
(***************************************************************************)
(* The /mem0 commands of interface/lark_commands.py over tools/mem0_client *)
(* with MEM0_SCOPE_MODE=lark_user: a record of the Mem0 service belongs to *)
(* a user and a project, the project is selected per user and chat, and a  *)
(* record may be deleted only by a user who was shown it in the project.   *)
(* The service itself deletes whatever id it is given.  Requests end, are  *)
(* refused, or time out with or without their effect.  The confirmation of *)
(* a save or a delete is ApprovalManager's.                                *)
(***************************************************************************)
EXTENDS Naturals, FiniteSets

CONSTANTS Places,       \* the pairs of a user and a chat
          UserOf,       \* [Places -> users]
          Projects, Default,
          Commands,
          NRecords,     \* how many records the service ever gives an id
          MaxSwitches, MaxRestarts

Ids == 1..NRecords
Users == {UserOf[p] : p \in Places}

ASSUME Mem0ScopesAssumption ==
  /\ Places # {} /\ Default \in Projects /\ NRecords \in Nat /\ MaxSwitches \in Nat /\ MaxRestarts \in Nat

VARIABLES records,      \* the service: the scope of each id it gave
          alive,        \* the ids it still has
          visible,      \* _visible_memory_ids
          selected,     \* MemoryScopeStore
          cmd,          \* each command's handler
          switches, boot

vars == <<records, alive, visible, selected, cmd, switches, boot>>

Scopes == [user : Users, project : Projects]
Kinds == {"list", "save", "delete", "smoke"}
Requests == {"list", "add", "search", "delete"}
Ended == {"ok", "unsure", "failed", "refused", "lost"}

\* A command: where it is, its kind and place, the project it read, the record it
\* deletes, the records it knows it added and has not deleted, the request under way, the
\* ids of its answer, and, as a history, the record the service stored for it.
Idle(p) == [at |-> "idle", kind |-> "list", place |-> p, project |-> Default, id |-> 0,
            added |-> {}, stored |-> {}, request |-> "list", got |-> {}]

Init ==
  /\ records = <<>> /\ alive = {}
  /\ visible = [s \in Scopes |-> {}]
  /\ selected = [p \in Places |-> Default]
  /\ cmd = [k \in Commands |-> Idle(CHOOSE p \in Places : TRUE)]
  /\ switches = 0 /\ boot = 0

-----------------------------------------------------------------------------
ScopeOf(k) == [user |-> UserOf[cmd[k].place], project |-> cmd[k].project]
InScope(s) == {i \in alive : records[i] = s}
Goto(k, at) == cmd' = [cmd EXCEPT ![k].at = at]
Send(k, request) == cmd' = [cmd EXCEPT ![k].at = "sent", ![k].request = request, ![k].got = {}]
Service == <<records, alive>>

\* A command, confirmed where it has to be, asks for the project of its chat.
Begin(k, p, kind, id) ==
  /\ cmd[k].at = "idle" /\ (kind = "delete" <=> id # 0)
  /\ cmd' = [cmd EXCEPT ![k].at = "scoping", ![k].kind = kind, ![k].place = p, ![k].id = id]
  /\ UNCHANGED <<Service, visible, selected, switches, boot>>

\* Mutant: any record the user was shown, in whatever project, may be deleted.
SeenAnywhere(k, id) == \E s \in Scopes : s.user = ScopeOf(k).user /\ id \in visible[s]
Seen(k, id) == id \in visible[ScopeOf(k)]

\* _current_mem0_project answers, and the command goes on with that project.
Scoped(k) ==
  /\ cmd[k].at = "scoping"
  /\ cmd' = [cmd EXCEPT ![k].at = "scoped", ![k].project = selected[cmd[k].place]]
  /\ UNCHANGED <<Service, visible, selected, switches, boot>>

\* Its first request; a delete is refused for a record not seen in the scope.
Request(k) ==
  /\ cmd[k].at = "scoped"
  /\ CASE cmd[k].kind = "list" -> \E r \in {"list", "search"} : Send(k, r)
       [] cmd[k].kind \in {"save", "smoke"} -> Send(k, "add")
       [] OTHER -> IF Seen(k, cmd[k].id) THEN Send(k, "delete") ELSE Goto(k, "refused")
  /\ UNCHANGED <<Service, visible, selected, switches, boot>>

\* `/mem0 scope PROJECT` in a chat.
Switch(p, project) ==
  /\ switches < MaxSwitches /\ switches' = switches + 1
  /\ selected' = [selected EXCEPT ![p] = project]
  /\ UNCHANGED <<Service, visible, cmd, boot>>

-----------------------------------------------------------------------------
\* The service

Answers(k, ids) == cmd' = [cmd EXCEPT ![k].at = "served", ![k].got = ids]
Target(k) == IF cmd[k].kind = "smoke" THEN CHOOSE i \in cmd[k].added : TRUE ELSE cmd[k].id

\* A list or a search shows some of the records of the scope.
Show(k) ==
  /\ cmd[k].at = "sent" /\ cmd[k].request \in {"list", "search"}
  /\ \E ids \in SUBSET InScope(ScopeOf(k)) : Answers(k, ids)
  /\ UNCHANGED <<Service, visible, selected, switches, boot>>

\* An add stores a record; the inference of a save may find nothing to store, and the
\* answer of a service need not give the id.
Store(k) ==
  /\ cmd[k].at = "sent" /\ cmd[k].request = "add"
  /\ \/ cmd[k].kind = "save" /\ Answers(k, {}) /\ UNCHANGED Service
     \/ LET id == Cardinality(DOMAIN records) + 1
        IN  /\ id \in Ids
            /\ records' = [i \in 1..id |-> IF i = id THEN ScopeOf(k) ELSE records[i]]
            /\ alive' = alive \cup {id}
            /\ \E ids \in {{}, {id}} :
                 cmd' = [cmd EXCEPT ![k].at = "served", ![k].got = ids, ![k].stored = {id}]
  /\ UNCHANGED <<visible, selected, switches, boot>>

\* A delete looks at the id alone.
Delete(k) ==
  /\ cmd[k].at = "sent" /\ cmd[k].request = "delete" /\ Target(k) \in alive
  /\ alive' = alive \ {Target(k)} /\ Answers(k, {})
  /\ UNCHANGED <<records, visible, selected, switches, boot>>

-----------------------------------------------------------------------------
\* The client

\* _remember_visible_ids, of the scope the request was for; a delete forgets its id.
Remember(k) ==
  visible' = [visible EXCEPT ![ScopeOf(k)] =
                IF cmd[k].request = "delete" THEN @ \ {Target(k)} ELSE @ \cup cmd[k].got]

\* smoke: an answer that gave no id cannot be cleaned up.
NothingToClean(k) == Goto(k, "unsure")

\* What a smoke test does after its search: it deletes what it added, one by one.
SmokeGoesOn(k) ==
  LET left == IF cmd[k].request = "delete" THEN cmd[k].added \ {Target(k)} ELSE cmd[k].added
  IN  IF left # {}
        THEN cmd' = [cmd EXCEPT ![k].at = "cleaning", ![k].added = left]
        ELSE IF cmd[k].request = "delete"
               THEN cmd' = [cmd EXCEPT ![k].at = "ok", ![k].added = {}]
               ELSE NothingToClean(k)

\* The response arrives.
Respond(k) ==
  /\ cmd[k].at = "served" /\ Remember(k)
  /\ IF cmd[k].kind # "smoke" THEN Goto(k, "ok")
     ELSE IF cmd[k].request = "add"
       THEN cmd' = [cmd EXCEPT ![k].at = "sent", ![k].request = "search",
                               ![k].added = cmd[k].got, ![k].got = {}]
       ELSE SmokeGoesOn(k)
  /\ UNCHANGED <<Service, selected, switches, boot>>

\* The next delete of a smoke test passes the same check as any other.
Clean(k) ==
  /\ cmd[k].at = "cleaning"
  /\ IF Seen(k, Target(k)) THEN Send(k, "delete") ELSE Goto(k, "failed")
  /\ UNCHANGED <<Service, visible, selected, switches, boot>>

\* The request fails or times out, before or after its effect, or a response is an error.
Fail(k) ==
  /\ cmd[k].at \in {"sent", "served"} /\ Goto(k, "failed")
  /\ UNCHANGED <<Service, visible, selected, switches, boot>>

\* The project cannot be read: the command answers that it failed.
NoScope(k) ==
  /\ cmd[k].at = "scoping" /\ Goto(k, "failed")
  /\ UNCHANGED <<Service, visible, selected, switches, boot>>

\* A restart keeps the selections and forgets what was visible.
Restart ==
  /\ boot < MaxRestarts /\ boot' = boot + 1
  /\ visible' = [s \in Scopes |-> {}]
  /\ cmd' = [k \in Commands |-> IF cmd[k].at \in Ended \cup {"idle"} THEN cmd[k]
                                ELSE [cmd[k] EXCEPT !.at = "lost"]]
  /\ UNCHANGED <<Service, selected, switches>>

-----------------------------------------------------------------------------
Handler(k) == Scoped(k) \/ Request(k) \/ Respond(k) \/ Clean(k) \/ Fail(k) \/ NoScope(k)
Serve(k) == Show(k) \/ Store(k) \/ Delete(k)

Next ==
  \/ \E k \in Commands, p \in Places, kind \in Kinds, id \in {0} \cup DOMAIN records : Begin(k, p, kind, id)
  \/ \E p \in Places, project \in Projects : Switch(p, project)
  \/ \E k \in Commands : Handler(k) \/ Serve(k)
  \/ Restart

Spec == Init /\ [][Next]_vars

-----------------------------------------------------------------------------
\* Types; a record is visible only in the scope it belongs to.
TypeOK ==
  /\ DOMAIN records = 1..Cardinality(DOMAIN records) /\ DOMAIN records \subseteq Ids
  /\ \A i \in DOMAIN records : records[i] \in Scopes
  /\ alive \subseteq DOMAIN records
  /\ \A s \in Scopes : \A i \in visible[s] : records[i] = s
  /\ selected \in [Places -> Projects] /\ switches \in 0..MaxSwitches /\ boot \in 0..MaxRestarts
  /\ \A k \in Commands : /\ cmd[k].at \in Ended \cup {"idle", "scoping", "scoped", "sent", "served", "cleaning"}
                         /\ cmd[k].kind \in Kinds /\ cmd[k].place \in Places
                         /\ cmd[k].project \in Projects /\ cmd[k].id \in {0} \cup Ids
                         /\ cmd[k].added \subseteq cmd[k].stored /\ cmd[k].got \subseteq Ids
                         /\ cmd[k].request \in Requests

\* A delete that reaches the service, which looks at the id alone, is of a record of
\* the user and the project of its command, whatever chats switch meanwhile.
DeletesOwnRecords ==
  \A k \in Commands : cmd[k].at = "sent" /\ cmd[k].request = "delete"
                      => records[Target(k)] = ScopeOf(k)

\* A smoke test that says it is clean left nothing: a failure, an answer without an id
\* or another command's delete in between is said.
CleanSmokeLeftNothing ==
  \A k \in Commands : cmd[k].kind = "smoke" /\ cmd[k].at = "ok"
                      => cmd[k].stored # {} /\ cmd[k].stored \cap alive = {}
=============================================================================
