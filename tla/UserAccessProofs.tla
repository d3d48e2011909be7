---------------------------- MODULE UserAccessProofs ----------------------------
(***************************************************************************)
(* What the two parts of UserAccess keep: the isolation of the records of  *)
(* Mem0, for every set of users, chats, projects and commands and every    *)
(* number of records, and the access of every user to Lark, for every      *)
(* number of authorizations, of calls, and size and age of the states.     *)
(***************************************************************************)
EXTENDS UserAccess, Sequences, FiniteSetTheorems, WellFoundedInduction, TLAPS

CommandSteps == Ended \cup {"idle", "scoping", "scoped", "sent", "served", "cleaning"}

Command == [at : CommandSteps, kind : Kinds, place : Places, project : Projects, id : {0} \cup Ids,
            added : SUBSET Ids, stored : SUBSET Ids, request : Requests, got : SUBSET Ids]

Typed ==
  /\ \E n \in Nat : DOMAIN records = 1..n
  /\ records \in [DOMAIN records -> Scopes] /\ DOMAIN records \subseteq Ids
  /\ alive \subseteq DOMAIN records
  /\ visible \in [Scopes -> SUBSET Ids] /\ selected \in [Places -> Projects]
  /\ cmd \in [Commands -> Command]
  /\ switches \in 0..MaxSwitches /\ boot \in 0..MaxRestarts

\* The service has given the id to a record of the scope.
Of(i, s) == i \in DOMAIN records /\ records[i] = s

\* A record is visible only in its scope.
Shown == \A s \in Scopes : \A i \in visible[s] : Of(i, s)

\* What a command's requests and answers are about.
Requested(k) ==
  /\ cmd[k].at = "sent" /\ cmd[k].request = "delete" => Of(Target(k), ScopeOf(k))
  /\ cmd[k].at = "served" => \A i \in cmd[k].got : Of(i, ScopeOf(k))

\* What a command has stored, and what it knows of it.
Added(k) ==
  /\ cmd[k].added \subseteq cmd[k].stored /\ cmd[k].stored \subseteq DOMAIN records
  /\ \/ cmd[k].at \in {"idle", "scoping", "scoped"}
     \/ cmd[k].at = "sent" /\ cmd[k].request = "add"
     => cmd[k].stored = {} /\ cmd[k].added = {}

Deleting(k) == cmd[k].at \in {"sent", "served"} /\ cmd[k].request = "delete"

\* A smoke test stores one record, and has deleted it when it says so.
Smoke(k) ==
  cmd[k].kind = "smoke" =>
    /\ cmd[k].at = "served" /\ cmd[k].request = "add" => cmd[k].got \subseteq cmd[k].stored
    /\ \/ cmd[k].at \in {"served", "cleaning", "ok"}
       \/ cmd[k].at = "sent" /\ cmd[k].request # "add"
       => \E i \in Ids : cmd[k].stored = {i}
    /\ cmd[k].at = "cleaning" \/ Deleting(k) => cmd[k].added # {}
    /\ cmd[k].at = "served" /\ cmd[k].request = "delete" => Target(k) \notin alive
    /\ cmd[k].at = "ok" => cmd[k].stored \cap alive = {}

Kept(k) == Requested(k) /\ Added(k) /\ Smoke(k)

IInv == Typed /\ Shown /\ \A k \in Commands : Kept(k)

-----------------------------------------------------------------------------
LEMMA InitIInv == Init => IInv
<1> SUFFICES ASSUME Init PROVE IInv
  OBVIOUS
<1>1. Typed
  <2>1. records = <<>> /\ DOMAIN records = 1..0
    BY DEF Init
  <2>2. cmd \in [Commands -> Command]
    <3>1. PICK p \in Places : cmd = [k \in Commands |-> Idle(p)]
      BY Mem0ScopesAssumption DEF Init
    <3> QED
      BY <3>1, Mem0ScopesAssumption DEF Idle, Command, CommandSteps, Kinds, Requests
  <2>3. /\ visible \in [Scopes -> SUBSET Ids] /\ selected \in [Places -> Projects]
        /\ switches \in 0..MaxSwitches /\ boot \in 0..MaxRestarts /\ alive = {}
    BY Mem0ScopesAssumption DEF Init
  <2> QED
    BY <2>1, <2>2, <2>3 DEF Typed
<1>2. Shown
  BY DEF Init, Shown
<1>3. ASSUME NEW k \in Commands PROVE Kept(k)
  <2>1. PICK p \in Places : cmd[k] = Idle(p)
    BY Mem0ScopesAssumption DEF Init
  <2> QED
    BY <2>1 DEF Idle, Kept, Requested, Added, Smoke, Deleting
<1> QED
  BY <1>1, <1>2, <1>3 DEF IInv

-----------------------------------------------------------------------------
\* The service gives ids to new records only, and does not bring a record back.
Grows ==
  \A i \in DOMAIN records :
    /\ i \in DOMAIN records' /\ records'[i] = records[i]
    /\ i \notin alive => i \notin alive'

LEMMA UnchangedGrows == ASSUME UNCHANGED Service PROVE Grows
BY DEF Service, Grows

\* A command that does not move keeps what it has.
LEMMA TargetAdded ==
  ASSUME NEW k \in Commands, cmd[k].kind = "smoke", cmd[k].added # {}
  PROVE  Target(k) \in cmd[k].added
<1>1. \E i : i \in cmd[k].added
  OBVIOUS
<1>2. (CHOOSE i \in cmd[k].added : TRUE) \in cmd[k].added
  BY <1>1
<1> QED
  BY <1>2 DEF Target

LEMMA StillKept ==
  ASSUME NEW k \in Commands, Kept(k), cmd'[k] = cmd[k], Grows
  PROVE  Kept(k)'
<1>1. Target(k)' = Target(k) /\ ScopeOf(k)' = ScopeOf(k)
  BY DEF Target, ScopeOf
<1>2. \A i, s : Of(i, s) => Of(i, s)'
  BY DEF Of, Grows
<1>3. Requested(k)'
  BY <1>1, <1>2 DEF Kept, Requested
<1>4. Added(k)'
  BY DEF Kept, Added, Grows
<1>5. Smoke(k)'
  <2> SUFFICES ASSUME cmd[k].kind = "smoke" PROVE Smoke(k)'
    BY DEF Smoke
  <2> USE DEF Kept, Smoke
  <2>1. Deleting(k)' = Deleting(k)
    BY DEF Deleting
  <2>2. cmd[k].at = "served" /\ cmd[k].request = "delete" => Target(k) \notin alive'
    BY TargetAdded DEF Added, Deleting, Grows
  <2>3. cmd[k].at = "ok" => cmd[k].stored \cap alive' = {}
    BY DEF Added, Grows
  <2> QED
    BY <1>1, <2>1, <2>2, <2>3
<1> QED
  BY <1>3, <1>4, <1>5 DEF Kept

\* What is visible stays so when the ids do.
LEMMA StillShown == ASSUME Shown, UNCHANGED visible, Grows PROVE Shown'
<1>1. \A i, s : Of(i, s) => Of(i, s)'
  BY DEF Of, Grows
<1> QED
  BY <1>1 DEF Shown

\* A step of one command leaves the others alone.
LEMMA OthersKept ==
  ASSUME IInv, NEW k \in Commands, Grows, Kept(k)',
         \A j \in Commands : j # k => cmd'[j] = cmd[j]
  PROVE  \A j \in Commands : Kept(j)'
BY StillKept DEF IInv

-----------------------------------------------------------------------------
\* The moves of a command

OthersSame(k) == \A j \in Commands : j # k => cmd'[j] = cmd[j]

LEMMA GotoFacts ==
  ASSUME Typed, NEW k \in Commands, NEW at \in CommandSteps, Goto(k, at)
  PROVE  /\ cmd' \in [Commands -> Command] /\ OthersSame(k)
         /\ cmd'[k] = [cmd[k] EXCEPT !.at = at]
<1>1. cmd[k] \in Command /\ cmd' = [cmd EXCEPT ![k] = [cmd[k] EXCEPT !.at = at]]
  BY DEF Typed, Goto
<1>2. [cmd[k] EXCEPT !.at = at] \in Command
  BY <1>1 DEF Command
<1> QED
  BY <1>1, <1>2 DEF Typed, OthersSame

LEMMA SendFacts ==
  ASSUME Typed, NEW k \in Commands, NEW r \in Requests, Send(k, r)
  PROVE  /\ cmd' \in [Commands -> Command] /\ OthersSame(k)
         /\ cmd'[k] = [cmd[k] EXCEPT !.at = "sent", !.request = r, !.got = {}]
<1>1. cmd'[k] = [cmd[k] EXCEPT !.at = "sent", !.request = r, !.got = {}] /\ OthersSame(k)
  BY DEF Typed, Send, OthersSame
<1>2. cmd[k] \in Command /\ {} \in SUBSET Ids
  BY DEF Typed
<1>3. [cmd[k] EXCEPT !.at = "sent", !.request = r, !.got = {}] \in Command
  BY <1>2 DEF Command, CommandSteps
<1>4. cmd' = [cmd EXCEPT ![k] = cmd'[k]]
  BY DEF Typed, Send
<1> QED
  BY <1>1, <1>3, <1>4 DEF Typed

LEMMA AnswersFacts ==
  ASSUME Typed, NEW k \in Commands, NEW ids \in SUBSET Ids, Answers(k, ids)
  PROVE  /\ cmd' \in [Commands -> Command] /\ OthersSame(k)
         /\ cmd'[k] = [cmd[k] EXCEPT !.at = "served", !.got = ids]
<1>1. cmd'[k] = [cmd[k] EXCEPT !.at = "served", !.got = ids] /\ OthersSame(k)
  BY DEF Typed, Answers, OthersSame
<1>2. cmd[k] \in Command /\ {} \in SUBSET Ids
  BY DEF Typed
<1>3. [cmd[k] EXCEPT !.at = "served", !.got = ids] \in Command
  BY <1>2 DEF Command, CommandSteps
<1>4. cmd' = [cmd EXCEPT ![k] = cmd'[k]]
  BY DEF Typed, Answers
<1> QED
  BY <1>1, <1>3, <1>4 DEF Typed

\* A command with no request under way has nothing but its records to answer for.
Quiet == {"scoping", "scoped", "refused", "failed", "lost", "unsure"}

LEMMA QuietKept ==
  ASSUME Typed, NEW k \in Commands, Kept(k), Grows,
         cmd'[k].at \in Quiet, cmd'[k].added = cmd[k].added, cmd'[k].stored = cmd[k].stored,
         cmd'[k].at \in {"scoping", "scoped"} => cmd[k].stored = {}
  PROVE  Kept(k)'
<1>1. Requested(k)'
  BY DEF Quiet, Requested
<1>2. Added(k)'
  BY DEF Quiet, Kept, Added, Grows
<1>3. Smoke(k)'
  BY DEF Quiet, Smoke, Deleting
<1> QED
  BY <1>1, <1>2, <1>3 DEF Kept

\* A step of a command: what it does to the command, and to the rest.
Moves(k) == cmd' \in [Commands -> Command] /\ OthersSame(k) /\ Kept(k)'

LEMMA GotoMoves ==
  ASSUME IInv, NEW k \in Commands, NEW at \in Quiet \ {"scoping", "scoped"}, Goto(k, at), Grows
  PROVE  Moves(k)
<1>1. Typed /\ at \in CommandSteps /\ Kept(k)
  BY DEF IInv, Quiet, CommandSteps, Ended
<1>2. /\ cmd' \in [Commands -> Command] /\ OthersSame(k)
      /\ cmd'[k] = [cmd[k] EXCEPT !.at = at]
  BY <1>1, GotoFacts
<1>3. cmd[k] \in Command
  BY <1>1 DEF Typed
<1>4. cmd'[k].at = at /\ cmd'[k].added = cmd[k].added /\ cmd'[k].stored = cmd[k].stored
  BY <1>2, <1>3 DEF Command
<1> QED
  BY <1>1, <1>2, <1>4, QuietKept DEF Moves

LEMMA BeginMoves ==
  ASSUME IInv, NEW k \in Commands, NEW p \in Places, NEW kind \in Kinds,
         NEW id \in {0} \cup DOMAIN records, Begin(k, p, kind, id)
  PROVE  Moves(k)
<1>1. Typed /\ Kept(k) /\ cmd[k] \in Command /\ id \in {0} \cup Ids
  BY DEF IInv, Typed
<1>2. cmd'[k] = [cmd[k] EXCEPT !.at = "scoping", !.kind = kind, !.place = p, !.id = id]
  BY <1>1 DEF Begin, Typed
<1>3. cmd' \in [Commands -> Command] /\ OthersSame(k)
  <2>1. cmd' = [cmd EXCEPT ![k] = cmd'[k]] /\ OthersSame(k)
    BY <1>1 DEF Begin, Typed, OthersSame
  <2>2. [cmd[k] EXCEPT !.at = "scoping", !.kind = kind, !.place = p, !.id = id] \in Command
    BY <1>1 DEF Command, CommandSteps
  <2> QED
    BY <1>1, <1>2, <2>1, <2>2 DEF Typed
<1>4. Kept(k)'
  <2>1. cmd'[k].at = "scoping" /\ cmd'[k].added = cmd[k].added /\ cmd'[k].stored = cmd[k].stored
    BY <1>1, <1>2 DEF Command
  <2>2. cmd[k].stored = {} /\ Grows
    BY <1>1, UnchangedGrows DEF Begin, Kept, Added
  <2> QED
    BY <1>1, <2>1, <2>2, QuietKept DEF Quiet
<1> QED
  BY <1>3, <1>4 DEF Moves

LEMMA ScopedMoves ==
  ASSUME IInv, NEW k \in Commands, Scoped(k)
  PROVE  Moves(k)
<1>1. Typed /\ Kept(k) /\ cmd[k] \in Command /\ selected[cmd[k].place] \in Projects
  BY DEF IInv, Typed, Command
<1>2. cmd'[k] = [cmd[k] EXCEPT !.at = "scoped", !.project = selected[cmd[k].place]]
  BY <1>1 DEF Scoped, Typed
<1>3. cmd' \in [Commands -> Command] /\ OthersSame(k)
  <2>1. cmd' = [cmd EXCEPT ![k] = cmd'[k]] /\ OthersSame(k)
    BY <1>1 DEF Scoped, Typed, OthersSame
  <2>2. [cmd[k] EXCEPT !.at = "scoped", !.project = selected[cmd[k].place]] \in Command
    BY <1>1 DEF Command, CommandSteps
  <2> QED
    BY <1>1, <1>2, <2>1, <2>2 DEF Typed
<1>4. Kept(k)'
  <2>1. cmd'[k].at = "scoped" /\ cmd'[k].added = cmd[k].added /\ cmd'[k].stored = cmd[k].stored
    BY <1>1, <1>2 DEF Command
  <2>2. cmd[k].stored = {} /\ Grows
    BY <1>1, UnchangedGrows DEF Scoped, Kept, Added
  <2> QED
    BY <1>1, <2>1, <2>2, QuietKept DEF Quiet
<1> QED
  BY <1>3, <1>4 DEF Moves

\* What may be deleted was shown in the scope of the command, so it belongs there.
LEMMA SeenIsOf ==
  ASSUME IInv, NEW k \in Commands, NEW id, Seen(k, id)
  PROVE  Of(id, ScopeOf(k))
<1>1. ScopeOf(k) \in Scopes
  BY DEF IInv, Typed, Command, ScopeOf, Scopes, Users
<1> QED
  BY <1>1 DEF IInv, Shown, Seen

\* A request for a delete, of a command or of a smoke test that cleans up.
LEMMA SendDeleteMoves ==
  ASSUME IInv, NEW k \in Commands, Send(k, "delete"), Seen(k, Target(k)), Grows,
         cmd[k].kind = "smoke" => cmd[k].at = "cleaning"
  PROVE  Moves(k)
<1>1. Typed /\ Kept(k) /\ cmd[k] \in Command /\ Of(Target(k), ScopeOf(k))
  BY SeenIsOf DEF IInv, Typed
<1>2. /\ cmd' \in [Commands -> Command] /\ OthersSame(k)
      /\ cmd'[k] = [cmd[k] EXCEPT !.at = "sent", !.request = "delete", !.got = {}]
  BY <1>1, SendFacts DEF Requests
<1>3. /\ cmd'[k].at = "sent" /\ cmd'[k].request = "delete"
      /\ cmd'[k].kind = cmd[k].kind /\ cmd'[k].place = cmd[k].place /\ cmd'[k].id = cmd[k].id
      /\ cmd'[k].project = cmd[k].project /\ cmd'[k].added = cmd[k].added
      /\ cmd'[k].stored = cmd[k].stored
  BY <1>1, <1>2 DEF Command
<1>4. Requested(k)'
  <2>1. Of(Target(k), ScopeOf(k))'
    BY <1>1, <1>3 DEF Of, Grows, Target, ScopeOf
  <2> QED
    BY <1>3, <2>1 DEF Requested
<1>5. Added(k)'
  BY <1>1, <1>3 DEF Kept, Added, Grows
<1>6. Smoke(k)'
  BY <1>1, <1>3 DEF Kept, Smoke, Deleting
<1> QED
  BY <1>2, <1>4, <1>5, <1>6 DEF Moves, Kept

\* The first request that is not a delete: a command has stored nothing before it.
LEMMA SendFirstMoves ==
  ASSUME IInv, NEW k \in Commands, NEW r \in {"list", "search", "add"}, Send(k, r), Grows,
         cmd[k].at = "scoped", cmd[k].kind = "smoke" => r = "add"
  PROVE  Moves(k)
<1>1. Typed /\ Kept(k) /\ cmd[k] \in Command /\ r \in Requests
  BY DEF IInv, Typed, Requests
<1>2. /\ cmd' \in [Commands -> Command] /\ OthersSame(k)
      /\ cmd'[k] = [cmd[k] EXCEPT !.at = "sent", !.request = r, !.got = {}]
  BY <1>1, SendFacts
<1>3. /\ cmd'[k].at = "sent" /\ cmd'[k].request = r /\ cmd'[k].kind = cmd[k].kind
      /\ cmd'[k].added = cmd[k].added /\ cmd'[k].stored = cmd[k].stored
  BY <1>1, <1>2 DEF Command
<1>4. cmd[k].stored = {} /\ cmd[k].added = {}
  BY <1>1 DEF Kept, Added
<1>5. Requested(k)' /\ Added(k)' /\ Smoke(k)'
  BY <1>3, <1>4 DEF Requested, Added, Smoke, Deleting
<1> QED
  BY <1>2, <1>5 DEF Moves, Kept

LEMMA RequestMoves ==
  ASSUME IInv, NEW k \in Commands, Request(k)
  PROVE  Moves(k)
<1>1. Grows /\ cmd[k].at = "scoped" /\ cmd[k].kind \in Kinds
  BY UnchangedGrows DEF Request, IInv, Typed, Command
<1>2. CASE cmd[k].kind = "list"
  <2>1. PICK r \in {"list", "search"} : Send(k, r)
    BY <1>2 DEF Request
  <2> QED
    BY <1>1, <1>2, <2>1, SendFirstMoves
<1>3. CASE cmd[k].kind \in {"save", "smoke"}
  <2>1. Send(k, "add")
    BY <1>3 DEF Request
  <2> QED
    BY <1>1, <2>1, SendFirstMoves
<1>4. CASE cmd[k].kind = "delete"
  <2>1. Target(k) = cmd[k].id
    BY <1>4 DEF Target
  <2>2. CASE Seen(k, cmd[k].id)
    <3>1. Send(k, "delete")
      BY <1>4, <2>2 DEF Request
    <3> QED
      BY <1>1, <1>4, <2>1, <2>2, <3>1, SendDeleteMoves
  <2>3. CASE ~Seen(k, cmd[k].id)
    <3>1. Goto(k, "refused")
      BY <1>4, <2>3 DEF Request
    <3> QED
      BY <1>1, <3>1, GotoMoves DEF Quiet
  <2> QED
    BY <2>2, <2>3
<1> QED
  BY <1>1, <1>2, <1>3, <1>4 DEF Kinds

LEMMA CleanMoves ==
  ASSUME IInv, NEW k \in Commands, Clean(k)
  PROVE  Moves(k)
<1>1. Grows /\ cmd[k].at = "cleaning"
  BY UnchangedGrows DEF Clean
<1>2. CASE Seen(k, Target(k))
  BY <1>1, <1>2, SendDeleteMoves DEF Clean
<1>3. CASE ~Seen(k, Target(k))
  BY <1>1, <1>3, GotoMoves DEF Clean, Quiet
<1> QED
  BY <1>2, <1>3

LEMMA FailMoves ==
  ASSUME IInv, NEW k \in Commands, Fail(k) \/ NoScope(k)
  PROVE  Moves(k)
BY UnchangedGrows, GotoMoves DEF Fail, NoScope, Quiet

-----------------------------------------------------------------------------
\* The steps of the service

LEMMA ShowMoves ==
  ASSUME IInv, NEW k \in Commands, Show(k)
  PROVE  Moves(k)
<1>1. Typed /\ Kept(k) /\ cmd[k] \in Command /\ Grows
  BY UnchangedGrows DEF IInv, Typed, Show
<1>2. PICK ids \in SUBSET InScope(ScopeOf(k)) : Answers(k, ids)
  BY DEF Show
<1>3. ids \in SUBSET Ids /\ \A i \in ids : Of(i, ScopeOf(k))
  BY <1>1 DEF InScope, Of, Typed
<1>4. /\ cmd' \in [Commands -> Command] /\ OthersSame(k)
      /\ cmd'[k] = [cmd[k] EXCEPT !.at = "served", !.got = ids]
  BY <1>1, <1>2, <1>3, AnswersFacts
<1>5. /\ cmd'[k].at = "served" /\ cmd'[k].got = ids /\ cmd'[k].request = cmd[k].request
      /\ cmd'[k].kind = cmd[k].kind /\ cmd'[k].place = cmd[k].place
      /\ cmd'[k].project = cmd[k].project /\ cmd'[k].added = cmd[k].added
      /\ cmd'[k].stored = cmd[k].stored
  BY <1>1, <1>4 DEF Command
<1>6. Requested(k)'
  <2>1. \A i \in ids : Of(i, ScopeOf(k))'
    BY <1>1, <1>3, <1>5 DEF Of, Grows, ScopeOf
  <2> QED
    BY <1>5, <2>1 DEF Requested
<1>7. Added(k)'
  BY <1>1, <1>5 DEF Kept, Added, Grows
<1>8. Smoke(k)'
  BY <1>1, <1>5 DEF Show, Kept, Smoke, Deleting
<1> QED
  BY <1>4, <1>6, <1>7, <1>8 DEF Moves, Kept

LEMMA DeleteMoves ==
  ASSUME IInv, NEW k \in Commands, Delete(k)
  PROVE  Moves(k) /\ Grows
<1>1. Typed /\ Kept(k) /\ cmd[k] \in Command /\ Grows
  BY DEF IInv, Typed, Delete, Grows
<1>2. /\ cmd' \in [Commands -> Command] /\ OthersSame(k)
      /\ cmd'[k] = [cmd[k] EXCEPT !.at = "served", !.got = {}]
  BY <1>1, AnswersFacts DEF Delete
<1>3. /\ cmd'[k].at = "served" /\ cmd'[k].got = {} /\ cmd'[k].request = "delete"
      /\ cmd'[k].kind = cmd[k].kind /\ cmd'[k].id = cmd[k].id
      /\ cmd'[k].added = cmd[k].added /\ cmd'[k].stored = cmd[k].stored
  BY <1>1, <1>2 DEF Command, Delete
<1>4. Target(k) \notin alive' /\ Target(k)' = Target(k)
  BY <1>3 DEF Delete, Target
<1>5. Requested(k)'
  BY <1>3 DEF Requested
<1>6. Added(k)'
  BY <1>1, <1>3 DEF Kept, Added, Grows
<1>7. Smoke(k)'
  BY <1>1, <1>3, <1>4 DEF Delete, Kept, Smoke, Deleting
<1> QED
  BY <1>1, <1>2, <1>5, <1>6, <1>7 DEF Moves, Kept

\* A record the service stores has a new id and the scope of its command.
Stores(k, id) ==
  /\ id \in Ids /\ \E n \in Nat : DOMAIN records = 1..n /\ id = n + 1
  /\ records' = [i \in 1..id |-> IF i = id THEN ScopeOf(k) ELSE records[i]]
  /\ alive' = alive \cup {id}

LEMMA StoreCases ==
  ASSUME IInv, NEW k \in Commands, Store(k)
  PROVE  \/ cmd[k].kind = "save" /\ Answers(k, {}) /\ UNCHANGED Service
         \/ \E id \in Ids : \E ids \in {{}, {id}} :
              /\ Stores(k, id)
              /\ cmd' = [cmd EXCEPT ![k].at = "served", ![k].got = ids, ![k].stored = {id}]
<1>1. PICK n \in Nat : DOMAIN records = 1..n
  BY DEF IInv, Typed
<1>2. Cardinality(DOMAIN records) = n
  BY <1>1, FS_Interval
<1>3. CASE cmd[k].kind = "save" /\ Answers(k, {}) /\ UNCHANGED Service
  BY <1>3
<1>4. CASE /\ n + 1 \in Ids
           /\ records' = [i \in 1..(n + 1) |-> IF i = n + 1 THEN ScopeOf(k) ELSE records[i]]
           /\ alive' = alive \cup {n + 1}
           /\ \E ids \in {{}, {n + 1}} :
                cmd' = [cmd EXCEPT ![k].at = "served", ![k].got = ids, ![k].stored = {n + 1}]
  <2>1. Stores(k, n + 1)
    BY <1>1, <1>4 DEF Stores
  <2> QED
    BY <1>4, <2>1
<1> QED
  BY <1>2, <1>3, <1>4 DEF Store

LEMMA StoresFacts ==
  ASSUME Typed, NEW k \in Commands, NEW id \in Ids, Stores(k, id), ScopeOf(k) \in Scopes
  PROVE  /\ Grows /\ id \in DOMAIN records' /\ records'[id] = ScopeOf(k)
         /\ \E n \in Nat : DOMAIN records' = 1..n
         /\ records' \in [DOMAIN records' -> Scopes] /\ DOMAIN records' \subseteq Ids
         /\ alive' \subseteq DOMAIN records'
<1>1. PICK n \in Nat : DOMAIN records = 1..n /\ id = n + 1
  BY DEF Stores
<1>2. DOMAIN records' = 1..id /\ records'[id] = ScopeOf(k) /\ id \in 1..id /\ id \in Nat
  BY <1>1 DEF Stores
<1>3. \A i \in 1..n : i \in 1..id /\ i # id /\ records'[i] = records[i]
  BY <1>1 DEF Stores
<1>4. Grows
  BY <1>1, <1>2, <1>3 DEF Stores, Grows
<1>5. records' \in [1..id -> Scopes]
  BY <1>1 DEF Stores, Typed
<1>6. 1..id \subseteq Ids
  BY Mem0ScopesAssumption DEF Ids
<1>7. alive' \subseteq 1..id
  BY <1>1, <1>2 DEF Stores, Typed
<1> QED
  BY <1>2, <1>4, <1>5, <1>6, <1>7

LEMMA StoreMoves ==
  ASSUME IInv, NEW k \in Commands, Store(k)
  PROVE  Moves(k) /\ Grows
<1>1. Typed /\ Kept(k) /\ cmd[k] \in Command /\ cmd[k].at = "sent" /\ cmd[k].request = "add"
  BY DEF IInv, Typed, Store
<1>2. cmd[k].stored = {} /\ cmd[k].added = {}
  BY <1>1 DEF Kept, Added
<1>3. CASE cmd[k].kind = "save" /\ Answers(k, {}) /\ UNCHANGED Service
  <2>1. /\ cmd' \in [Commands -> Command] /\ OthersSame(k)
        /\ cmd'[k] = [cmd[k] EXCEPT !.at = "served", !.got = {}]
    BY <1>1, <1>3, AnswersFacts
  <2>2. /\ cmd'[k].kind = "save" /\ cmd'[k].request = "add" /\ cmd'[k].got = {}
        /\ cmd'[k].stored = {} /\ cmd'[k].added = {}
    BY <1>1, <1>2, <1>3, <2>1 DEF Command
  <2>3. Requested(k)' /\ Added(k)' /\ Smoke(k)'
    BY <2>2 DEF Requested, Added, Smoke
  <2> QED
    BY <1>3, <2>1, <2>3, UnchangedGrows DEF Moves, Kept
<1>4. ASSUME NEW id \in Ids, NEW ids \in {{}, {id}}, Stores(k, id),
             cmd' = [cmd EXCEPT ![k].at = "served", ![k].got = ids, ![k].stored = {id}]
      PROVE  Moves(k) /\ Grows
  <2>1. cmd'[k] = [cmd[k] EXCEPT !.at = "served", !.got = ids, !.stored = {id}]
    BY <1>4 DEF IInv, Typed
  <2>2. OthersSame(k) /\ cmd' = [cmd EXCEPT ![k] = cmd'[k]]
    BY <1>4 DEF IInv, Typed, OthersSame
  <2>3. ids \in SUBSET Ids /\ {id} \in SUBSET Ids
    OBVIOUS
  <2>4. [cmd[k] EXCEPT !.at = "served", !.got = ids, !.stored = {id}] \in Command
    BY <1>1, <2>3 DEF Command, CommandSteps
  <2>5. cmd' \in [Commands -> Command]
    BY <2>1, <2>2, <2>4 DEF IInv, Typed
  <2>6. /\ cmd'[k].at = "served" /\ cmd'[k].request = "add" /\ cmd'[k].got = ids
        /\ cmd'[k].stored = {id} /\ cmd'[k].added = {}
        /\ cmd'[k].place = cmd[k].place /\ cmd'[k].project = cmd[k].project
    BY <1>1, <1>2, <2>1 DEF Command
  <2>7. /\ Grows /\ id \in DOMAIN records' /\ records'[id] = ScopeOf(k)
    BY <1>1, <1>4, StoresFacts DEF ScopeOf, Scopes, Users, Command
  <2>8. ScopeOf(k)' = ScopeOf(k)
    BY <2>6 DEF ScopeOf
  <2>9. Requested(k)' /\ Added(k)' /\ Smoke(k)'
    BY <2>6, <2>7, <2>8 DEF Requested, Added, Smoke, Deleting, Of
  <2> QED
    BY <2>2, <2>5, <2>7, <2>9 DEF Moves, Kept
<1> QED
  BY <1>3, <1>4, StoreCases

-----------------------------------------------------------------------------
\* The response

\* A smoke test that goes on after its first answer.
LEMMA SmokeMoves ==
  ASSUME IInv, NEW k \in Commands, cmd[k].kind = "smoke", cmd[k].at = "served",
         NEW at \in {"sent", "cleaning", "ok"}, NEW r \in {"search", cmd[k].request},
         NEW added, NEW answer \in {{}, cmd[k].got}, Grows, alive' = alive,
         cmd' = [cmd EXCEPT ![k] = [@ EXCEPT !.at = at, !.request = r, !.added = added, !.got = answer]],
         added \subseteq cmd[k].stored,
         at = "sent" => r = "search", at = "cleaning" => added # {},
         at = "ok" => cmd[k].stored \cap alive = {}
  PROVE  Moves(k)
<1>1. Typed /\ Kept(k) /\ cmd[k] \in Command
  BY DEF IInv, Typed
<1>2. /\ OthersSame(k) /\ cmd' = [cmd EXCEPT ![k] = cmd'[k]]
      /\ cmd'[k] = [cmd[k] EXCEPT !.at = at, !.request = r, !.added = added, !.got = answer]
  BY <1>1 DEF Typed, OthersSame
<1>3. added \in SUBSET Ids /\ answer \in SUBSET Ids /\ r \in Requests /\ at \in CommandSteps
  BY <1>1 DEF Command, Requests, CommandSteps, Ended
<1>4. [cmd[k] EXCEPT !.at = at, !.request = r, !.added = added, !.got = answer] \in Command
  BY <1>1, <1>3 DEF Command
<1>5. cmd' \in [Commands -> Command]
  BY <1>1, <1>2, <1>4 DEF Typed
<1>6. /\ cmd'[k].at = at /\ cmd'[k].request = r /\ cmd'[k].added = added
      /\ cmd'[k].stored = cmd[k].stored /\ cmd'[k].kind = "smoke"
  <2> DEFINE q == [cmd[k] EXCEPT !.at = at, !.request = r, !.added = added, !.got = answer]
  <2>1. /\ q.at = at /\ q.request = r /\ q.added = added
        /\ q.stored = cmd[k].stored /\ q.kind = cmd[k].kind
    BY <1>1 DEF Command
  <2>2. cmd'[k] = q
    BY <1>2
  <2> HIDE DEF q
  <2> QED
    BY <2>1, <2>2
<1>7. \E i \in Ids : cmd[k].stored = {i}
  BY <1>1 DEF Kept, Smoke
<1>8. Requested(k)'
  BY <1>6 DEF Requested
<1>9. Added(k)'
  BY <1>1, <1>6 DEF Kept, Added, Grows
<1>10. Smoke(k)'
  BY <1>6, <1>7 DEF Smoke, Deleting
<1> QED
  BY <1>2, <1>5, <1>8, <1>9, <1>10 DEF Moves, Kept

LEMMA RespondMoves ==
  ASSUME IInv, NEW k \in Commands, Respond(k)
  PROVE  Moves(k)
<1>1. /\ Typed /\ Kept(k) /\ cmd[k] \in Command /\ Grows /\ alive' = alive
      /\ cmd[k].at = "served"
  BY UnchangedGrows DEF IInv, Typed, Respond, Service
<1>2. CASE cmd[k].kind # "smoke"
  <2>1. Goto(k, "ok")
    BY <1>2 DEF Respond
  <2>2. /\ cmd' \in [Commands -> Command] /\ OthersSame(k)
        /\ cmd'[k] = [cmd[k] EXCEPT !.at = "ok"]
    BY <1>1, <2>1, GotoFacts DEF CommandSteps, Ended
  <2>3. /\ cmd'[k].at = "ok" /\ cmd'[k].kind # "smoke"
        /\ cmd'[k].added = cmd[k].added /\ cmd'[k].stored = cmd[k].stored
    BY <1>1, <1>2, <2>2 DEF Command
  <2>4. Requested(k)' /\ Added(k)' /\ Smoke(k)'
    BY <1>1, <2>3 DEF Kept, Requested, Added, Smoke, Grows
  <2> QED
    BY <2>2, <2>4 DEF Moves, Kept
<1>3. CASE cmd[k].kind = "smoke" /\ cmd[k].request = "add"
  <2>1. cmd' = [cmd EXCEPT ![k] = [@ EXCEPT !.at = "sent", !.request = "search",
                                           !.added = cmd[k].got, !.got = {}]]
    BY <1>1, <1>3 DEF Respond, Typed, Command
  <2>2. cmd[k].got \subseteq cmd[k].stored
    BY <1>1, <1>3 DEF Kept, Smoke
  <2> QED
    BY <1>1, <1>3, <2>1, <2>2, SmokeMoves
<1>4. CASE cmd[k].kind = "smoke" /\ cmd[k].request = "delete"
  <2>1. cmd[k].added \ {Target(k)} = {} /\ cmd[k].stored \cap alive = {}
    <3>1. PICK i \in Ids : cmd[k].stored = {i}
      BY <1>1, <1>4 DEF Kept, Smoke
    <3>2. Target(k) \in cmd[k].added /\ Target(k) \notin alive /\ cmd[k].added \subseteq {i}
      BY <1>1, <1>4, <3>1, TargetAdded DEF Kept, Smoke, Added, Deleting
    <3> QED
      BY <3>1, <3>2
  <2>2. cmd' = [cmd EXCEPT ![k].at = "ok", ![k].added = {}]
    BY <1>4, <2>1 DEF Respond, SmokeGoesOn
  <2>3. cmd' = [cmd EXCEPT ![k] = [@ EXCEPT !.at = "ok", !.request = cmd[k].request,
                                           !.added = {}, !.got = cmd[k].got]]
    BY <1>1, <2>2 DEF Typed, Command
  <2> QED
    BY <1>1, <1>4, <2>1, <2>3, SmokeMoves
<1>5. CASE cmd[k].kind = "smoke" /\ cmd[k].request \notin {"add", "delete"}
  <2>1. CASE cmd[k].added = {}
    <3>1. Goto(k, "unsure")
      BY <1>5, <2>1 DEF Respond, SmokeGoesOn, NothingToClean
    <3> QED
      BY <1>1, <3>1, GotoMoves DEF Quiet
  <2>2. CASE cmd[k].added # {}
    <3>1. cmd' = [cmd EXCEPT ![k].at = "cleaning", ![k].added = cmd[k].added]
      BY <1>5, <2>2 DEF Respond, SmokeGoesOn
    <3>2. cmd' = [cmd EXCEPT ![k] = [@ EXCEPT !.at = "cleaning", !.request = cmd[k].request,
                                             !.added = cmd[k].added, !.got = cmd[k].got]]
      BY <1>1, <3>1 DEF Typed, Command
    <3>3. cmd[k].added \subseteq cmd[k].stored
      BY <1>1 DEF Kept, Added
    <3> QED
      BY <1>1, <1>5, <2>2, <3>2, <3>3, SmokeMoves
  <2> QED
    BY <2>1, <2>2
<1> QED
  BY <1>2, <1>3, <1>4, <1>5

\* What an answer makes visible is of the scope the request was for.
LEMMA RememberShown ==
  ASSUME IInv, NEW k \in Commands, Respond(k)
  PROVE  Shown' /\ visible' \in [Scopes -> SUBSET Ids]
<1>1. Typed /\ Kept(k) /\ cmd[k] \in Command /\ UNCHANGED Service
  BY DEF IInv, Typed, Respond
<1>2. ScopeOf(k) \in Scopes
  BY <1>1 DEF Command, ScopeOf, Scopes, Users
<1>3. \A i \in cmd[k].got : Of(i, ScopeOf(k))
  BY DEF IInv, Kept, Requested, Respond
<1>4. visible' \in [Scopes -> SUBSET Ids]
  BY <1>1 DEF Respond, Remember, Typed, Command
<1>5. ASSUME NEW s \in Scopes, NEW i \in visible'[s] PROVE Of(i, s)
  <2>1. i \in visible[s] \/ (s = ScopeOf(k) /\ i \in cmd[k].got)
    BY <1>1, <1>2, <1>5 DEF Respond, Remember, Typed
  <2> QED
    BY <1>3, <2>1 DEF IInv, Shown
<1> QED
  BY <1>1, <1>4, <1>5 DEF Shown, Of, Service

-----------------------------------------------------------------------------
\* A step of a command keeps the invariant, with what it does to the rest.
LEMMA CommandIInv ==
  ASSUME IInv, NEW k \in Commands, Moves(k), Grows,
         Shown', visible' \in [Scopes -> SUBSET Ids],
         /\ \E n \in Nat : DOMAIN records' = 1..n
         /\ records' \in [DOMAIN records' -> Scopes] /\ DOMAIN records' \subseteq Ids
         /\ alive' \subseteq DOMAIN records',
         UNCHANGED <<selected, switches, boot>>
  PROVE  IInv'
<1>1. Typed'
  BY DEF IInv, Typed, Moves
<1>2. \A j \in Commands : Kept(j)'
  BY OthersKept DEF Moves, OthersSame
<1> QED
  BY <1>1, <1>2 DEF IInv

LEMMA HandlerIInv ==
  ASSUME IInv, NEW k \in Commands, Handler(k) \/ Show(k)
  PROVE  IInv'
<1>1. UNCHANGED Service /\ UNCHANGED <<selected, switches, boot>> /\ Grows
  BY UnchangedGrows DEF Handler, Scoped, Request, Respond, Clean, Fail, NoScope, Show
<1>2. Moves(k)
  BY ScopedMoves, RequestMoves, RespondMoves, CleanMoves, FailMoves, ShowMoves DEF Handler
<1>3. Shown' /\ visible' \in [Scopes -> SUBSET Ids]
  <2>1. CASE Respond(k)
    BY <2>1, RememberShown
  <2>2. CASE ~Respond(k)
    <3>1. UNCHANGED visible
      BY <2>2 DEF Handler, Scoped, Request, Clean, Fail, NoScope, Show
    <3> QED
      BY <1>1, <3>1, StillShown DEF IInv, Typed
  <2> QED
    BY <2>1, <2>2
<1>4. /\ \E n \in Nat : DOMAIN records' = 1..n
      /\ records' \in [DOMAIN records' -> Scopes] /\ DOMAIN records' \subseteq Ids
      /\ alive' \subseteq DOMAIN records'
  BY <1>1 DEF IInv, Typed, Service
<1> QED
  BY <1>1, <1>2, <1>3, <1>4, CommandIInv

LEMMA ServiceIInv ==
  ASSUME IInv, NEW k \in Commands, Store(k) \/ Delete(k)
  PROVE  IInv'
<1>1. Moves(k) /\ Grows
  BY StoreMoves, DeleteMoves
<1>2. UNCHANGED <<visible, selected, switches, boot>>
  BY DEF Store, Delete
<1>3. Shown' /\ visible' \in [Scopes -> SUBSET Ids]
  BY <1>1, <1>2, StillShown DEF IInv, Typed
<1>4. /\ \E n \in Nat : DOMAIN records' = 1..n
      /\ records' \in [DOMAIN records' -> Scopes] /\ DOMAIN records' \subseteq Ids
      /\ alive' \subseteq DOMAIN records'
  <2>1. CASE Delete(k) \/ UNCHANGED Service
    BY <2>1 DEF IInv, Typed, Delete, Service
  <2>2. CASE Store(k) /\ ~(UNCHANGED Service)
    <3>1. PICK id \in Ids : Stores(k, id)
      BY <2>2, StoreCases
    <3>2. Typed /\ ScopeOf(k) \in Scopes
      BY DEF IInv, Typed, Command, ScopeOf, Scopes, Users
    <3> QED
      BY <3>1, <3>2, StoresFacts
  <2> QED
    BY <2>1, <2>2
<1> QED
  BY <1>1, <1>2, <1>3, <1>4, CommandIInv

LEMMA RestartIInv == ASSUME IInv, Restart PROVE IInv'
<1>1. Grows /\ UNCHANGED Service
  BY UnchangedGrows DEF Restart
<1>2. ASSUME NEW k \in Commands PROVE cmd'[k] \in Command /\ Kept(k)'
  <2>1. cmd[k] \in Command /\ Typed /\ Kept(k)
    BY DEF IInv, Typed
  <2>2. CASE cmd[k].at \in Ended \cup {"idle"}
    <3>1. cmd'[k] = cmd[k]
      BY <2>2 DEF Restart
    <3> QED
      BY <1>1, <2>1, <3>1, StillKept
  <2>3. CASE cmd[k].at \notin Ended \cup {"idle"}
    <3>1. cmd'[k] = [cmd[k] EXCEPT !.at = "lost"]
      BY <2>3 DEF Restart
    <3>2. /\ cmd'[k] \in Command /\ cmd'[k].at = "lost"
          /\ cmd'[k].added = cmd[k].added /\ cmd'[k].stored = cmd[k].stored
      BY <2>1, <3>1 DEF Command, CommandSteps, Ended
    <3> QED
      BY <1>1, <2>1, <3>2, QuietKept DEF Quiet
  <2> QED
    BY <2>2, <2>3
<1>3. cmd' \in [Commands -> Command]
  BY <1>2 DEF Restart
<1>4. Typed'
  BY <1>1, <1>3, Mem0ScopesAssumption DEF Restart, IInv, Typed, Service
<1>5. Shown'
  BY DEF Restart, Shown
<1> QED
  BY <1>2, <1>4, <1>5 DEF IInv

LEMMA NextIInv == ASSUME IInv, [Next]_vars PROVE IInv'
<1>1. CASE \E k \in Commands, p \in Places, kind \in Kinds, id \in {0} \cup DOMAIN records :
             Begin(k, p, kind, id)
  <2>1. PICK k \in Commands, p \in Places, kind \in Kinds, id \in {0} \cup DOMAIN records :
               Begin(k, p, kind, id)
    BY <1>1
  <2>2. UNCHANGED <<Service, visible, selected, switches, boot>> /\ Grows /\ Moves(k)
    BY <2>1, UnchangedGrows, BeginMoves DEF Begin
  <2>3. Shown'
    BY <2>2, StillShown DEF IInv
  <2> QED
    BY <2>2, <2>3, CommandIInv DEF IInv, Typed, Service
<1>2. CASE \E p \in Places, project \in Projects : Switch(p, project)
  <2>1. PICK p \in Places, project \in Projects : Switch(p, project)
    BY <1>2
  <2>2. UNCHANGED <<Service, visible, cmd, boot>> /\ Grows
    BY <2>1, UnchangedGrows DEF Switch
  <2>3. Typed'
    BY <2>1, <2>2, Mem0ScopesAssumption DEF Switch, IInv, Typed, Service
  <2>4. Shown' /\ \A k \in Commands : Kept(k)'
    BY <2>2, StillShown, StillKept DEF IInv
  <2> QED
    BY <2>3, <2>4 DEF IInv
<1>3. CASE \E k \in Commands : Handler(k) \/ Serve(k)
  BY <1>3, HandlerIInv, ServiceIInv DEF Serve
<1>4. CASE Restart
  BY <1>4, RestartIInv
<1>5. CASE UNCHANGED vars
  <2>1. Grows /\ UNCHANGED Service /\ UNCHANGED <<visible, selected, cmd, switches, boot>>
    BY <1>5, UnchangedGrows DEF vars, Service
  <2>2. Typed'
    BY <2>1 DEF IInv, Typed, Service
  <2>3. Shown' /\ \A k \in Commands : Kept(k)'
    BY <2>1, StillShown, StillKept DEF IInv
  <2> QED
    BY <2>2, <2>3 DEF IInv
<1> QED
  BY <1>1, <1>2, <1>3, <1>4, <1>5 DEF Next

-----------------------------------------------------------------------------
\* A delete reaches the service only for a record of the user and the project of its
\* command, whatever the chats of the user switch to.
THEOREM OwnRecordsOnly == Spec => []DeletesOwnRecords
<1>1. IInv => DeletesOwnRecords
  BY DEF IInv, Kept, Requested, Of, DeletesOwnRecords
<1> QED
  BY <1>1, InitIInv, NextIInv, PTL DEF Spec

\* A smoke test that says it is clean has stored a record, and it is gone.
THEOREM CleanIsClean == Spec => []CleanSmokeLeftNothing
<1>1. IInv => CleanSmokeLeftNothing
  BY DEF IInv, Kept, Smoke, CleanSmokeLeftNothing
<1> QED
  BY <1>1, InitIInv, NextIInv, PTL DEF Spec

\* Types, and that a record is visible only in its scope.
THEOREM TypeCorrect == Spec => []TypeOK
<1>1. IInv => TypeOK
  <2> SUFFICES ASSUME IInv PROVE TypeOK
    OBVIOUS
  <2>1. DOMAIN records = 1..Cardinality(DOMAIN records)
    <3>1. PICK n \in Nat : DOMAIN records = 1..n
      BY DEF IInv, Typed
    <3>2. Cardinality(1..n) = n
      BY FS_Interval
    <3> QED
      BY <3>1, <3>2
  <2>2. \A k \in Commands : /\ cmd[k] \in Command /\ cmd[k].added \subseteq cmd[k].stored
    BY DEF IInv, Typed, Kept, Added
  <2> QED
    BY <2>1, <2>2 DEF IInv, Typed, Shown, Of, TypeOK, Command, CommandSteps
<1> QED
  BY <1>1, InitIInv, NextIInv, PTL DEF Spec

-----------------------------------------------------------------------------
(***************************************************************************)
(* The access to Lark.                                                     *)
(***************************************************************************)

AccessCall == [at : {"idle", "waiting", "refreshing"} \cup OAuth!Ended,
               user : LarkUsers \cup {"nobody"}, token : OAuth!Token]

AccessTyped ==
  /\ now \in 0..MaxTime /\ oauthBoot \in 0..MaxRestarts
  /\ made \in Seq(OAuth!Start) /\ Len(made) <= NStates
  /\ callback \in [OAuth!States -> OAuth!Callbacks]
  /\ tokens \in [LarkUsers -> OAuth!Token] /\ waiting \in Seq(Calls)
  /\ call \in [Calls -> AccessCall] /\ got \subseteq [call : Calls, old : OAuth!Token]

\* The states in the table.
Held == held \subseteq 1..Len(made) /\ IsFiniteSet(held) /\ Cardinality(held) <= MaxHeld

\* How far an authorization has come: its state is held until its callback, and an
\* exchange under way began in this process.
Authorized(s) ==
  /\ s \in held \/ s > Len(made) => callback[s] = "none"
  /\ s \in held \/ callback[s] = "exchanging" => made[s].boot = oauthBoot

\* The token comes from a completed authorization of the user, in this process.
Own(t, u) ==
  /\ t.auth \in 1..Len(made) /\ callback[t.auth] = "stored"
  /\ made[t.auth].user = u /\ made[t.auth].boot = oauthBoot

TokensOwn == \A u \in LarkUsers : tokens[u] # OAuth!NoToken => Own(tokens[u], u)

\* The lock: no call waits twice, and only calls under way do.
Queued ==
  /\ \A i, j \in 1..Len(waiting) : waiting[i] = waiting[j] => i = j
  /\ \A i \in 1..Len(waiting) : call[waiting[i]].at \in {"waiting", "refreshing"}

\* A call that refreshes is first in the lock and refreshes with a token of its user.
Under(c) ==
  /\ call[c].at \in {"waiting", "refreshing"} => call[c].user \in LarkUsers
  /\ call[c].at = "refreshing" => OAuth!Holds(c) /\ Own(call[c].token, call[c].user)

\* A token of the authorization t comes from is newer than t.
Newer(t) ==
  /\ \A u \in LarkUsers :
       tokens[u] # OAuth!NoToken /\ tokens[u].auth = t.auth => t.gen < tokens[u].gen
  /\ \A c \in Calls :
       call[c].at = "refreshing" /\ call[c].token.auth = t.auth => t.gen < call[c].token.gen

\* What a refresh consumed is older than what is in use, and nobody else consumed it.
Used ==
  /\ \A g \in got : /\ g.old.auth \in 1..Len(made) /\ callback[g.old.auth] = "stored"
                    /\ Newer(g.old)
  /\ \A g, h \in got : g.old = h.old => g = h

AccessInv ==
  /\ AccessTyped /\ Held /\ TokensOwn /\ Queued /\ Used
  /\ \A s \in OAuth!States : Authorized(s)
  /\ \A c \in Calls : Under(c)

-----------------------------------------------------------------------------
LEMMA InitAccessInv == OAuth!Init => AccessInv
<1> SUFFICES ASSUME OAuth!Init PROVE AccessInv
  OBVIOUS
<1>1. AccessTyped
  <2>1. OAuth!NoToken \in OAuth!Token
    BY OAuthAssumption DEF OAuth!LarkOAuthAssumption, OAuth!NoToken, OAuth!Token
  <2> QED
    BY <2>1, OAuthAssumption DEF OAuth!LarkOAuthAssumption, OAuth!Init, AccessTyped, AccessCall,
       OAuth!Callbacks
<1>2. Held
  BY FS_EmptySet, OAuthAssumption DEF OAuth!LarkOAuthAssumption, OAuth!Init, Held
<1>3. TokensOwn /\ Queued /\ Used
  BY DEF OAuth!Init, TokensOwn, Queued, Used
<1>4. \A s \in OAuth!States : Authorized(s)
  BY DEF OAuth!Init, Authorized
<1>5. \A c \in Calls : Under(c)
  BY DEF OAuth!Init, Under
<1> QED
  BY <1>1, <1>2, <1>3, <1>4, <1>5 DEF AccessInv

\* The steps that leave the authorizations as they are.
Authorizations == <<oauthBoot, made, held, callback>>

LEMMA StillAuthorized ==
  ASSUME UNCHANGED Authorizations
  PROVE  /\ Held => Held'
         /\ \A s \in OAuth!States : Authorized(s) => Authorized(s)'
         /\ \A t, u : Own(t, u) <=> Own(t, u)'
BY DEF Authorizations, Held, Authorized, Own

\* A step of the clock, or none.
LEMMA ClockAccess ==
  ASSUME AccessInv, OAuth!Tick \/ UNCHANGED oauthVars
  PROVE  AccessInv'
<1>1. UNCHANGED Authorizations /\ UNCHANGED <<tokens, waiting, call, got>> /\ now' \in 0..MaxTime
  BY OAuthAssumption
  DEF OAuth!LarkOAuthAssumption, OAuth!Tick, oauthVars, Authorizations, AccessInv, AccessTyped
<1>2. AccessTyped' /\ Held'
  BY <1>1, StillAuthorized DEF AccessInv, AccessTyped, Authorizations
<1>3. TokensOwn' /\ Queued'
  BY <1>1, StillAuthorized DEF AccessInv, TokensOwn, Queued
<1>4. Used'
  BY <1>1 DEF AccessInv, Used, Newer, Authorizations
<1>5. \A s \in OAuth!States : Authorized(s)'
  BY <1>1, StillAuthorized DEF AccessInv
<1>6. \A c \in Calls : Under(c)'
  BY <1>1, StillAuthorized DEF AccessInv, Under, OAuth!Holds
<1> QED
  BY <1>2, <1>3, <1>4, <1>5, <1>6 DEF AccessInv

-----------------------------------------------------------------------------
LEMMA LeastExists ==
  ASSUME NEW S \in SUBSET Nat, S # {}
  PROVE  \E x \in S : \A y \in S : x <= y
<1> DEFINE R == {ss \in Nat \X Nat : ss[1] < ss[2]}
<1>1. IsWellFoundedOn(R, Nat)
  BY NatLessThanWellFounded DEF OpToRel
<1>2. \E x \in S : \A y \in S : ~(<<y, x>> \in R)
  <2> HIDE DEF R
  <2> QED
    BY <1>1, WFMin
<1>3. PICK x \in S : \A y \in S : ~(<<y, x>> \in R)
  BY <1>2
<1>4. ASSUME NEW y \in S PROVE x <= y
  <2>1. x \in Nat /\ y \in Nat /\ <<y, x>> \notin R
    BY <1>3
  <2> QED
    BY <2>1
<1> QED
  BY <1>4

LEMMA SameCardinality == ASSUME NEW S PROVE OAuth!Cardinality(S) = Cardinality(S)
BY Zenon DEF OAuth!Cardinality, Cardinality

LEMMA MinIsIn ==
  ASSUME NEW S \in SUBSET Nat, S # {}
  PROVE  OAuth!Min(S) \in S
BY LeastExists DEF OAuth!Min

\* The table with one more state is no larger than max_states.
LEMMA HeldWithFacts ==
  ASSUME NEW s \in Nat, held \subseteq 1..s, IsFiniteSet(held), Cardinality(held) <= MaxHeld,
         MaxHeld \in Nat \ {0}
  PROVE  /\ OAuth!HeldWith(s) \subseteq held \cup {s}
         /\ IsFiniteSet(OAuth!HeldWith(s)) /\ Cardinality(OAuth!HeldWith(s)) <= MaxHeld
<1> DEFINE some == {t \in held : ~OAuth!Expired(t)}
           kept == some \cup {s}
<1>0. OAuth!HeldWith(s) = IF Cardinality(kept) > MaxHeld THEN kept \ {OAuth!Min(kept)} ELSE kept
  BY SameCardinality DEF OAuth!HeldWith
<1>1. IsFiniteSet(some) /\ Cardinality(some) <= Cardinality(held) /\ some \subseteq held
  BY FS_Subset
<1> HIDE DEF some
<1>2. /\ IsFiniteSet(kept) /\ Cardinality(kept) \in Nat
      /\ Cardinality(kept) <= MaxHeld + 1
  <2>1. Cardinality(some) \in Nat /\ Cardinality(held) \in Nat
    BY <1>1, FS_CardinalityType
  <2>2. /\ IsFiniteSet(kept)
        /\ Cardinality(kept) = (IF s \in some THEN Cardinality(some) ELSE Cardinality(some) + 1)
    BY <1>1, FS_AddElement
  <2>3. Cardinality(kept) \in {Cardinality(some), Cardinality(some) + 1}
    BY <2>2
  <2> HIDE DEF kept
  <2> QED
    BY <1>1, <2>1, <2>2, <2>3
<1>3. kept \subseteq held \cup {s} /\ kept \in SUBSET Nat /\ kept # {}
  BY <1>1
<1>4. OAuth!Min(kept) \in kept
  BY <1>3, MinIsIn
<1> HIDE DEF kept
<1>5. /\ IsFiniteSet(kept \ {OAuth!Min(kept)})
      /\ Cardinality(kept \ {OAuth!Min(kept)}) = Cardinality(kept) - 1
  BY <1>2, <1>4, FS_RemoveElement
<1>6. CASE Cardinality(kept) > MaxHeld
  <2>1. OAuth!HeldWith(s) = kept \ {OAuth!Min(kept)}
    BY <1>0, <1>6
  <2>2. Cardinality(kept) - 1 <= MaxHeld
    BY <1>2
  <2> QED
    BY <1>3, <1>5, <2>1, <2>2
<1>7. CASE ~(Cardinality(kept) > MaxHeld)
  BY <1>0, <1>2, <1>3, <1>7
<1> QED
  BY <1>6, <1>7

LEMMA AuthorizeAccess ==
  ASSUME AccessInv, NEW u \in LarkUsers, OAuth!Authorize(u)
  PROVE  AccessInv'
<1> DEFINE n == Len(made) + 1
           start == [user |-> u, at |-> now, boot |-> oauthBoot]
<1>1. /\ n \in OAuth!States /\ made' = Append(made, start) /\ held' = OAuth!HeldWith(n)
      /\ UNCHANGED <<now, oauthBoot, callback, tokens, waiting, call, got>>
  BY DEF OAuth!Authorize
<1>2. AccessTyped
  BY DEF AccessInv
<1>3. /\ made \in Seq(OAuth!Start) /\ Len(made) \in Nat /\ start \in OAuth!Start
  BY <1>2 DEF AccessTyped, OAuth!Start
<1> HIDE DEF start
<1>4. /\ made' \in Seq(OAuth!Start) /\ Len(made') = n /\ made'[n] = start
      /\ \A i \in 1..Len(made) : made'[i] = made[i]
  BY <1>1, <1>3
<1>5. /\ held' \subseteq held \cup {n} /\ IsFiniteSet(held') /\ Cardinality(held') <= MaxHeld
  <2>1. n \in Nat /\ held \subseteq 1..n /\ IsFiniteSet(held) /\ Cardinality(held) <= MaxHeld
    BY <1>3 DEF AccessInv, Held
  <2> QED
    BY <1>1, <2>1, HeldWithFacts, OAuthAssumption DEF OAuth!LarkOAuthAssumption
<1>6. held \subseteq 1..Len(made)
  BY DEF AccessInv, Held
<1>7. AccessTyped'
  BY <1>1, <1>2, <1>4, OAuthAssumption DEF OAuth!LarkOAuthAssumption, AccessTyped, OAuth!States
<1>8. Held'
  BY <1>3, <1>4, <1>5, <1>6 DEF Held
<1>9. ASSUME NEW t, NEW w, Own(t, w) PROVE Own(t, w)'
  BY <1>1, <1>3, <1>4, <1>9 DEF Own
<1>10. TokensOwn' /\ Queued'
  BY <1>1, <1>9 DEF AccessInv, TokensOwn, Queued
<1>11. Used'
  BY <1>1, <1>3, <1>4 DEF AccessInv, Used, Newer
<1>12. ASSUME NEW s \in OAuth!States PROVE Authorized(s)'
  <2>1. Authorized(s) /\ s \in Nat
    BY DEF AccessInv, OAuth!States
  <2>2. CASE s = n
    <3>1. callback[s] = "none"
      BY <2>1, <2>2, <1>3 DEF Authorized
    <3> QED
      BY <2>2, <3>1, <1>1, <1>4 DEF Authorized, start
  <2>3. CASE s \in 1..Len(made)
    <3>1. made'[s] = made[s] /\ ~(s > Len(made')) /\ (s \in held' => s \in held)
      BY <2>3, <1>3, <1>4, <1>5
    <3> QED
      BY <2>1, <3>1, <1>1 DEF Authorized
  <2>4. CASE s > n
    <3>1. callback[s] = "none" /\ s \notin held'
      BY <2>1, <2>4, <1>3, <1>4, <1>5, <1>6 DEF Authorized
    <3> QED
      BY <3>1, <1>1 DEF Authorized
  <2> QED
    BY <2>1, <2>2, <2>3, <2>4, <1>3 DEF OAuth!States
<1>13. ASSUME NEW c \in Calls PROVE Under(c)'
  BY <1>1, <1>9 DEF AccessInv, Under, OAuth!Holds
<1> QED
  BY <1>7, <1>8, <1>10, <1>11, <1>12, <1>13 DEF AccessInv

-----------------------------------------------------------------------------
\* A call joins the end of the lock.
LEMMA AskAccess ==
  ASSUME AccessInv, NEW c \in Calls, NEW u \in LarkUsers, OAuth!Ask(c, u)
  PROVE  AccessInv'
<1>1. /\ call[c].at = "idle" /\ waiting' = Append(waiting, c)
      /\ call' = [call EXCEPT ![c] = [at |-> "waiting", user |-> u, token |-> OAuth!NoToken]]
      /\ UNCHANGED Authorizations /\ UNCHANGED <<now, tokens, got>>
  BY DEF OAuth!Ask, Authorizations
<1>2. AccessTyped /\ Queued
  BY DEF AccessInv
<1>3. OAuth!NoToken \in OAuth!Token
  BY OAuthAssumption DEF OAuth!LarkOAuthAssumption, OAuth!NoToken, OAuth!Token
<1>4. /\ call' \in [Calls -> AccessCall]
      /\ call'[c].at = "waiting" /\ call'[c].user = u
      /\ \A d \in Calls : d # c => call'[d] = call[d]
  BY <1>1, <1>2, <1>3 DEF AccessTyped, AccessCall
<1>5. /\ waiting' \in Seq(Calls) /\ Len(waiting') = Len(waiting) + 1 /\ Len(waiting) \in Nat
      /\ waiting'[Len(waiting) + 1] = c
      /\ \A i \in 1..Len(waiting) : waiting'[i] = waiting[i] /\ waiting[i] \in Calls
  BY <1>1, <1>2 DEF AccessTyped
<1>6. \A i \in 1..Len(waiting) : waiting[i] # c
  BY <1>1, <1>2 DEF Queued
<1>7. AccessTyped'
  BY <1>1, <1>2, <1>4, <1>5 DEF AccessTyped, Authorizations
<1>8. Queued'
  <2>1. \A i \in 1..Len(waiting') : i \in 1..Len(waiting) \/ i = Len(waiting) + 1
    BY <1>5
  <2>2. ASSUME NEW i \in 1..Len(waiting'), NEW j \in 1..Len(waiting'), waiting'[i] = waiting'[j]
        PROVE  i = j
    BY <1>2, <1>5, <1>6, <2>1, <2>2 DEF Queued
  <2>3. ASSUME NEW i \in 1..Len(waiting') PROVE call'[waiting'[i]].at \in {"waiting", "refreshing"}
    BY <1>2, <1>4, <1>5, <1>6, <2>1 DEF Queued
  <2> QED
    BY <2>2, <2>3 DEF Queued
<1>9. Held' /\ \A s \in OAuth!States : Authorized(s)'
  BY <1>1, StillAuthorized DEF AccessInv
<1>10. TokensOwn'
  BY <1>1, StillAuthorized DEF AccessInv, TokensOwn
<1>11. Used'
  BY <1>1, <1>4 DEF AccessInv, Used, Newer, Authorizations
<1>12. ASSUME NEW d \in Calls PROVE Under(d)'
  <2>1. Under(d) /\ (OAuth!Holds(d) => OAuth!Holds(d)')
    BY <1>2, <1>5 DEF AccessInv, OAuth!Holds, AccessTyped
  <2> QED
    BY <1>1, <1>4, <2>1, StillAuthorized DEF Under
<1> QED
  BY <1>7, <1>8, <1>9, <1>10, <1>11, <1>12 DEF AccessInv

\* A step of one callback that takes its state out of the table.
LEMMA CallbackAccess ==
  ASSUME AccessInv, NEW s \in OAuth!States, OAuth!Callback(s) \/ OAuth!ExchangeFails(s)
  PROVE  AccessInv'
<1>1. PICK next \in OAuth!Callbacks :
        /\ callback' = [callback EXCEPT ![s] = next] /\ callback[s] # "stored"
        /\ held' \subseteq held /\ s \notin held' /\ s \in 1..Len(made)
        /\ next = "exchanging" => made[s].boot = oauthBoot
        /\ UNCHANGED <<now, oauthBoot, made, tokens, waiting, call, got>>
  <2>1. Authorized(s) /\ held \subseteq 1..Len(made) /\ s \in Nat /\ Len(made) \in Nat
    <3>1. made \in Seq(OAuth!Start)
      BY DEF AccessInv, AccessTyped
    <3> QED
      BY <3>1 DEF AccessInv, Held, OAuth!States
  <2>2. CASE OAuth!Callback(s)
    <3>1. s \in held /\ callback[s] = "none" /\ made[s].boot = oauthBoot
      BY <2>1, <2>2 DEF OAuth!Callback, Authorized
    <3>2. PICK next \in {"failed", "exchanging"} : callback' = [callback EXCEPT ![s] = next]
      BY <2>2, Zenon DEF OAuth!Callback
    <3> QED
      BY <2>1, <2>2, <3>1, <3>2 DEF OAuth!Callback, OAuth!Callbacks
  <2>3. CASE OAuth!ExchangeFails(s)
    <3>1. callback[s] = "exchanging" /\ s \notin held /\ s \in 1..Len(made)
      <4>1. callback[s] = "exchanging"
        BY <2>3 DEF OAuth!ExchangeFails
      <4>2. s \notin held /\ ~(s > Len(made)) /\ s >= 1
        BY <2>1, <4>1 DEF Authorized, OAuth!States
      <4> QED
        BY <2>1, <4>1, <4>2
    <3>2. PICK how \in {"failed", "timeout"} : callback' = [callback EXCEPT ![s] = how]
      BY <2>3 DEF OAuth!ExchangeFails
    <3> QED
      BY <2>3, <3>1, <3>2 DEF OAuth!ExchangeFails, OAuth!Callbacks
  <2> QED
    BY <2>2, <2>3
<1>2. AccessTyped
  BY DEF AccessInv
<1>3. AccessTyped' /\ \A x \in OAuth!States : callback'[x] = IF x = s THEN next ELSE callback[x]
  BY <1>1, <1>2 DEF AccessTyped
<1>4. Held'
  <2>1. IsFiniteSet(held) /\ Cardinality(held) <= MaxHeld /\ held \subseteq 1..Len(made)
    BY DEF AccessInv, Held
  <2>2. /\ IsFiniteSet(held') /\ Cardinality(held') <= Cardinality(held)
        /\ Cardinality(held) \in Nat /\ Cardinality(held') \in Nat
    BY <1>1, <2>1, FS_Subset, FS_CardinalityType
  <2> QED
    BY <1>1, <2>1, <2>2, OAuthAssumption DEF Held, OAuth!LarkOAuthAssumption
<1>5. 1..Len(made) \subseteq OAuth!States
  BY <1>2, OAuthAssumption DEF AccessTyped, OAuth!States, OAuth!LarkOAuthAssumption
<1>6. ASSUME NEW t, NEW w, Own(t, w) PROVE Own(t, w)'
  BY <1>1, <1>3, <1>5, <1>6 DEF Own
<1>7. TokensOwn' /\ Queued'
  BY <1>1, <1>6 DEF AccessInv, TokensOwn, Queued
<1>8. Used'
  BY <1>1, <1>3, <1>5 DEF AccessInv, Used, Newer
<1>9. ASSUME NEW x \in OAuth!States PROVE Authorized(x)'
  <2>1. Authorized(x)
    BY DEF AccessInv
  <2>2. CASE x = s
    <3>1. ~(s > Len(made))
      BY <1>1, <1>2 DEF AccessTyped
    <3> QED
      BY <1>1, <1>3, <2>2, <3>1 DEF Authorized
  <2>3. CASE x # s
    BY <1>1, <1>3, <2>1, <2>3 DEF Authorized
  <2> QED
    BY <2>2, <2>3
<1>10. ASSUME NEW c \in Calls PROVE Under(c)'
  BY <1>1, <1>6 DEF AccessInv, Under, OAuth!Holds
<1> QED
  BY <1>3, <1>4, <1>7, <1>8, <1>9, <1>10 DEF AccessInv

\* The exchange stores a token of its authorization: nothing was refreshed with one yet.
LEMMA ExchangedAccess ==
  ASSUME AccessInv, NEW s \in OAuth!States, OAuth!Exchanged(s)
  PROVE  AccessInv'
<1>2. /\ callback[s] = "exchanging" /\ callback' = [callback EXCEPT ![s] = "stored"]
      /\ UNCHANGED <<now, oauthBoot, made, held, waiting, call, got>>
  BY DEF OAuth!Exchanged
<1>3. AccessTyped /\ Authorized(s) /\ made \in Seq(OAuth!Start) /\ Len(made) \in Nat
  BY DEF AccessInv, AccessTyped
<1>4. s \in 1..Len(made) /\ s \notin held /\ made[s].boot = oauthBoot
  <2>1. s \notin held /\ ~(s > Len(made)) /\ made[s].boot = oauthBoot
    BY <1>2, <1>3 DEF Authorized
  <2> QED
    BY <1>3, <2>1 DEF OAuth!States
<1>5. PICK u \in LarkUsers, new \in OAuth!Token :
        /\ made[s].user = u /\ new.auth = s /\ new.gen = 0
        /\ tokens' = [tokens EXCEPT ![u] = new]
  <2>1. made[s] \in OAuth!Start
    BY <1>3, <1>4
  <2>2. PICK l \in Lives, r \in Lives :
          tokens' = [tokens EXCEPT ![made[s].user] = OAuth!NewToken(s, 0, l, r)]
    BY DEF OAuth!Exchanged
  <2>3. /\ OAuth!NewToken(s, 0, l, r) \in OAuth!Token
        /\ OAuth!NewToken(s, 0, l, r).auth = s /\ OAuth!NewToken(s, 0, l, r).gen = 0
    BY <1>3, OAuthAssumption
    DEF OAuth!LarkOAuthAssumption, AccessTyped, OAuth!Token, OAuth!NewToken, OAuth!States
  <2> QED
    BY <2>1, <2>2, <2>3 DEF OAuth!Start
<1>7. \A w \in LarkUsers : tokens'[w] = IF w = u THEN new ELSE tokens[w]
  BY <1>3, <1>5 DEF AccessTyped
<1>8. \A x \in OAuth!States : callback'[x] = IF x = s THEN "stored" ELSE callback[x]
  BY <1>2, <1>3 DEF AccessTyped
<1>9. 1..Len(made) \subseteq OAuth!States
  BY <1>3, OAuthAssumption DEF AccessTyped, OAuth!States, OAuth!LarkOAuthAssumption
<1>10. ASSUME NEW t, NEW w, Own(t, w) PROVE Own(t, w)'
  BY <1>2, <1>8, <1>9, <1>10 DEF Own
<1>11. AccessTyped'
  <2>1. tokens' \in [LarkUsers -> OAuth!Token]
    BY <1>3, <1>5 DEF AccessTyped
  <2>2. callback' \in [OAuth!States -> OAuth!Callbacks]
    BY <1>2, <1>3 DEF AccessTyped, OAuth!Callbacks
  <2> QED
    BY <1>2, <1>3, <2>1, <2>2 DEF AccessTyped
<1>12. Held' /\ Queued'
  BY <1>2 DEF AccessInv, Held, Queued
<1>13. TokensOwn'
  <2>1. Own(new, u)'
    BY <1>2, <1>4, <1>5, <1>8 DEF Own
  <2> QED
    BY <1>7, <1>10, <2>1 DEF AccessInv, TokensOwn
<1>14. Used'
  <2>1. ASSUME NEW g \in got PROVE g.old.auth # s /\ g.old.auth \in OAuth!States
    BY <1>2, <1>9 DEF AccessInv, Used
  <2>2. ASSUME NEW g \in got PROVE Newer(g.old)'
    BY <1>2, <1>5, <1>7, <2>1 DEF AccessInv, Used, Newer
  <2> QED
    BY <1>2, <1>8, <2>1, <2>2 DEF AccessInv, Used
<1>15. ASSUME NEW x \in OAuth!States PROVE Authorized(x)'
  <2>1. Authorized(x) /\ ~(s > Len(made))
    BY <1>3, <1>4 DEF AccessInv
  <2> QED
    BY <1>2, <1>4, <1>8, <2>1 DEF Authorized
<1>16. ASSUME NEW c \in Calls PROVE Under(c)'
  BY <1>2, <1>10 DEF AccessInv, Under, OAuth!Holds
<1> QED
  BY <1>11, <1>12, <1>13, <1>14, <1>15, <1>16 DEF AccessInv

-----------------------------------------------------------------------------
\* A call that returns passes the lock on, and nobody refreshes.
LEMMA ReturnFacts ==
  ASSUME AccessInv, NEW c \in Calls, NEW how \in OAuth!Ended, OAuth!Holds(c), OAuth!Return(c, how)
  PROVE  /\ waiting' \in Seq(Calls) /\ call' \in [Calls -> AccessCall] /\ Queued'
         /\ \A d \in Calls : /\ call'[d].at # "refreshing"
                             /\ call'[d].at = "waiting" => call'[d].user \in LarkUsers
<1> DEFINE end == [at |-> how, user |-> "nobody", token |-> OAuth!NoToken]
<1>1. /\ call' = [call EXCEPT ![c] = end] /\ waiting' = Tail(waiting)
      /\ waiting # <<>> /\ waiting[1] = c
  BY DEF OAuth!Return, OAuth!Holds
<1>2. /\ waiting \in Seq(Calls) /\ call \in [Calls -> AccessCall] /\ Queued
      /\ \A d \in Calls : Under(d)
  BY DEF AccessInv, AccessTyped
<1>3. end \in AccessCall /\ end.at \notin {"waiting", "refreshing"}
  <2>1. OAuth!NoToken \in OAuth!Token
    BY OAuthAssumption DEF OAuth!LarkOAuthAssumption, OAuth!NoToken, OAuth!Token
  <2> QED
    BY <2>1 DEF AccessCall, OAuth!Ended
<1> HIDE DEF end
<1>4. call' \in [Calls -> AccessCall] /\ \A d \in Calls : call'[d] = IF d = c THEN end ELSE call[d]
  BY <1>1, <1>2, <1>3
<1>5. /\ waiting' \in Seq(Calls) /\ Len(waiting) \in Nat /\ Len(waiting) >= 1
      /\ Len(waiting') = Len(waiting) - 1
      /\ \A i \in 1..Len(waiting') : /\ waiting'[i] = waiting[i + 1] /\ i + 1 \in 1..Len(waiting)
                                     /\ waiting[i + 1] \in Calls
  BY <1>1, <1>2
<1>6. \A i \in 1..Len(waiting') : waiting[i + 1] # c
  <2>1. \A i \in 1..Len(waiting') : i + 1 \in 1..Len(waiting) /\ i + 1 # 1 /\ 1 \in 1..Len(waiting)
    BY <1>5
  <2> QED
    BY <1>1, <1>2, <2>1 DEF Queued
<1>7. Queued'
  <2>1. ASSUME NEW i \in 1..Len(waiting'), NEW j \in 1..Len(waiting'), waiting'[i] = waiting'[j]
        PROVE  i = j
    <3>1. i + 1 = j + 1
      BY <1>2, <1>5, <2>1 DEF Queued
    <3> QED
      BY <1>5, <3>1
  <2>2. ASSUME NEW i \in 1..Len(waiting') PROVE call'[waiting'[i]].at \in {"waiting", "refreshing"}
    BY <1>2, <1>4, <1>5, <1>6 DEF Queued
  <2> QED
    BY <2>1, <2>2 DEF Queued
<1>8. ASSUME NEW d \in Calls PROVE call'[d].at # "refreshing"
  <2>1. d # c => call[d].at # "refreshing"
    BY <1>1, <1>2 DEF Under, OAuth!Holds
  <2> QED
    BY <1>3, <1>4, <2>1
<1>9. \A d \in Calls : call'[d].at = "waiting" => call'[d].user \in LarkUsers
  BY <1>2, <1>3, <1>4 DEF Under
<1> QED
  BY <1>4, <1>5, <1>7, <1>8, <1>9

\* A call returns and leaves the authorizations and what refreshes consumed as they are:
\* its user's token stays, or is forgotten.
LEMMA ReturnAccess ==
  ASSUME AccessInv, NEW c \in Calls, NEW how \in OAuth!Ended, OAuth!Holds(c), OAuth!Return(c, how),
         UNCHANGED Authorizations, UNCHANGED <<now, got>>,
         UNCHANGED tokens \/ \E u : tokens' = [tokens EXCEPT ![u] = OAuth!NoToken]
  PROVE  AccessInv'
<1>1. /\ waiting' \in Seq(Calls) /\ call' \in [Calls -> AccessCall] /\ Queued'
      /\ \A d \in Calls : /\ call'[d].at # "refreshing"
                          /\ call'[d].at = "waiting" => call'[d].user \in LarkUsers
  BY ReturnFacts
<1>2. /\ tokens' \in [LarkUsers -> OAuth!Token]
      /\ \A u \in LarkUsers : tokens'[u] \in {tokens[u], OAuth!NoToken}
  <2>1. tokens \in [LarkUsers -> OAuth!Token]
    BY DEF AccessInv, AccessTyped
  <2>2. OAuth!NoToken \in OAuth!Token
    BY OAuthAssumption DEF OAuth!LarkOAuthAssumption, OAuth!NoToken, OAuth!Token
  <2>3. CASE UNCHANGED tokens
    BY <2>1, <2>3
  <2>4. CASE \E u : tokens' = [tokens EXCEPT ![u] = OAuth!NoToken]
    <3> HIDE DEF OAuth!NoToken
    <3> QED
      BY <2>1, <2>2, <2>4
  <2> QED
    BY <2>3, <2>4
<1>3. AccessTyped'
  BY <1>1, <1>2 DEF AccessInv, AccessTyped, Authorizations
<1>4. Held' /\ \A s \in OAuth!States : Authorized(s)'
  BY StillAuthorized DEF AccessInv
<1>5. TokensOwn'
  BY <1>2, StillAuthorized DEF AccessInv, TokensOwn
<1>6. Used'
  <2>1. ASSUME NEW g \in got PROVE Newer(g.old)'
    <3>1. Newer(g.old)
      BY DEF AccessInv, Used
    <3> QED
      BY <1>1, <1>2, <3>1 DEF Newer
  <2> QED
    BY <2>1 DEF AccessInv, Used, Authorizations
<1>7. ASSUME NEW d \in Calls PROVE Under(d)'
  <2>1. /\ call'[d].at # "refreshing"
        /\ call'[d].at = "waiting" => call'[d].user \in LarkUsers
    BY <1>1
  <2> QED
    BY <2>1 DEF Under
<1> QED
  BY <1>1, <1>3, <1>4, <1>5, <1>6, <1>7 DEF AccessInv

\* The first call in the lock begins to refresh with the token of its user.
LEMMA RefreshBegins ==
  ASSUME AccessInv, NEW c \in Calls, OAuth!Holds(c), call[c].at = "waiting",
         NEW t, t = tokens[call[c].user], t # OAuth!NoToken,
         call' = [call EXCEPT ![c].at = "refreshing", ![c].token = t],
         UNCHANGED Authorizations, UNCHANGED <<now, tokens, waiting, got>>
  PROVE  AccessInv'
<1>1. AccessTyped /\ Queued /\ TokensOwn /\ Used /\ \A d \in Calls : Under(d)
  BY DEF AccessInv
<1>2. call[c].user \in LarkUsers /\ Own(t, call[c].user) /\ t \in OAuth!Token
  BY <1>1 DEF Under, TokensOwn, AccessTyped
<1>3. /\ call' \in [Calls -> AccessCall]
      /\ call'[c].at = "refreshing" /\ call'[c].token = t /\ call'[c].user = call[c].user
      /\ \A d \in Calls : d # c => call'[d] = call[d]
  BY <1>1, <1>2 DEF AccessTyped, AccessCall
<1>4. AccessTyped'
  BY <1>1, <1>3 DEF AccessTyped, Authorizations
<1>5. Held' /\ \A s \in OAuth!States : Authorized(s)'
  BY StillAuthorized DEF AccessInv
<1>6. TokensOwn'
  BY <1>1, StillAuthorized DEF TokensOwn
<1>7. Queued'
  <2>1. \A i \in 1..Len(waiting) : waiting[i] \in Calls
    BY <1>1 DEF AccessTyped
  <2> QED
    BY <1>1, <1>3, <2>1 DEF Queued
<1>8. Used'
  <2>1. ASSUME NEW g \in got PROVE Newer(g.old)'
    BY <1>1, <1>2, <1>3 DEF Used, Newer
  <2> QED
    BY <1>1, <2>1 DEF Used, Authorizations
<1>9. ASSUME NEW d \in Calls PROVE Under(d)'
  <2>1. OAuth!Holds(c)' /\ (OAuth!Holds(d) => OAuth!Holds(d)') /\ Under(d)
    BY <1>1 DEF OAuth!Holds
  <2> QED
    BY <1>2, <1>3, <2>1, StillAuthorized DEF Under
<1> QED
  BY <1>4, <1>5, <1>6, <1>7, <1>8, <1>9 DEF AccessInv

LEMMA ReadAccess ==
  ASSUME AccessInv, NEW c \in Calls, OAuth!Read(c)
  PROVE  AccessInv'
<1>1. /\ OAuth!Holds(c) /\ call[c].at = "waiting"
      /\ UNCHANGED Authorizations /\ UNCHANGED <<now, got>>
  BY DEF OAuth!Read, Authorizations
<1>2. \/ /\ tokens[call[c].user] # OAuth!NoToken /\ UNCHANGED <<tokens, waiting>>
         /\ call' = [call EXCEPT ![c].at = "refreshing", ![c].token = tokens[call[c].user]]
      \/ OAuth!Return(c, "answered") /\ UNCHANGED tokens
      \/ /\ OAuth!Return(c, "refused")
         /\ tokens' = [tokens EXCEPT ![call[c].user] = OAuth!NoToken]
  BY DEF OAuth!Read
<1>3. CASE /\ tokens[call[c].user] # OAuth!NoToken /\ UNCHANGED <<tokens, waiting>>
           /\ call' = [call EXCEPT ![c].at = "refreshing", ![c].token = tokens[call[c].user]]
  <2>1. PICK t : t = tokens[call[c].user]
    OBVIOUS
  <2> QED
    BY <1>1, <1>3, <2>1, RefreshBegins
<1>4. CASE OAuth!Return(c, "answered") /\ UNCHANGED tokens
  BY <1>1, <1>4, ReturnAccess DEF OAuth!Ended
<1>5. CASE /\ OAuth!Return(c, "refused")
           /\ tokens' = [tokens EXCEPT ![call[c].user] = OAuth!NoToken]
  BY <1>1, <1>5, ReturnAccess DEF OAuth!Ended
<1> QED
  BY <1>2, <1>3, <1>4, <1>5

-----------------------------------------------------------------------------
LEMMA RefreshFailsAccess ==
  ASSUME AccessInv, NEW c \in Calls, OAuth!RefreshFails(c)
  PROVE  AccessInv'
<1>1. OAuth!Holds(c)
  BY DEF OAuth!RefreshFails, AccessInv, Under
<1>2. /\ OAuth!Return(c, "failed") /\ UNCHANGED tokens
      /\ UNCHANGED Authorizations /\ UNCHANGED <<now, got>>
  BY DEF OAuth!RefreshFails, Authorizations
<1> QED
  BY <1>1, <1>2, ReturnAccess DEF OAuth!Ended

\* The refresh stores a token newer than the one it consumed, which nobody consumed before.
LEMMA RefreshedAccess ==
  ASSUME AccessInv, NEW c \in Calls, OAuth!Refreshed(c)
  PROVE  AccessInv'
<1>1. PICK t, u : t = call[c].token /\ u = call[c].user
  OBVIOUS
<1>2. PICK g : g = [call |-> c, old |-> t]
  OBVIOUS
<1>3. /\ AccessTyped /\ TokensOwn /\ Used
      /\ OAuth!Holds(c) /\ Own(t, u) /\ u \in LarkUsers /\ t \in OAuth!Token
      /\ call[c].at = "refreshing"
  <2>1. AccessTyped /\ TokensOwn /\ Used /\ Under(c) /\ call[c].at = "refreshing"
    BY DEF OAuth!Refreshed, AccessInv
  <2> QED
    BY <1>1, <2>1 DEF Under, AccessTyped, AccessCall
<1>4. PICK new \in OAuth!Token :
        /\ new.auth = t.auth /\ new.gen = t.gen + 1
        /\ tokens' = [tokens EXCEPT ![u] = new] /\ OAuth!Return(c, "answered")
  <2>1. PICK l \in Lives, r \in Lives :
          /\ tokens' = [tokens EXCEPT ![u] = OAuth!NewToken(t.auth, t.gen + 1, l, r)]
          /\ OAuth!Return(c, "answered")
    BY <1>1 DEF OAuth!Refreshed
  <2>2. /\ OAuth!NewToken(t.auth, t.gen + 1, l, r) \in OAuth!Token
        /\ OAuth!NewToken(t.auth, t.gen + 1, l, r).auth = t.auth
        /\ OAuth!NewToken(t.auth, t.gen + 1, l, r).gen = t.gen + 1
    BY <1>3, OAuthAssumption
    DEF OAuth!LarkOAuthAssumption, AccessTyped, OAuth!Token, OAuth!NewToken
  <2> QED
    BY <2>1, <2>2
<1>5. got' = got \cup {g} /\ UNCHANGED Authorizations /\ UNCHANGED now
  BY <1>1, <1>2 DEF OAuth!Refreshed, Authorizations
<1>6. /\ waiting' \in Seq(Calls) /\ call' \in [Calls -> AccessCall] /\ Queued'
      /\ \A d \in Calls : /\ call'[d].at # "refreshing"
                          /\ call'[d].at = "waiting" => call'[d].user \in LarkUsers
  BY <1>3, <1>4, ReturnFacts DEF OAuth!Ended
<1>7. /\ tokens' \in [LarkUsers -> OAuth!Token]
      /\ \A w \in LarkUsers : tokens'[w] = IF w = u THEN new ELSE tokens[w]
  BY <1>3, <1>4 DEF AccessTyped
<1>8. AccessTyped'
  BY <1>2, <1>3, <1>5, <1>6, <1>7 DEF AccessTyped, Authorizations
<1>9. Held' /\ \A s \in OAuth!States : Authorized(s)'
  BY <1>5, StillAuthorized DEF AccessInv
<1>10. Own(new, u)'
  BY <1>3, <1>4, <1>5 DEF Own, Authorizations
<1>11. TokensOwn'
  BY <1>3, <1>5, <1>7, <1>10, StillAuthorized DEF TokensOwn
<1>12. \A d \in Calls : Under(d)'
  <2>1. ASSUME NEW d \in Calls PROVE Under(d)'
    <3>1. /\ call'[d].at # "refreshing"
          /\ call'[d].at = "waiting" => call'[d].user \in LarkUsers
      BY <1>6
    <3> QED
      BY <3>1 DEF Under
  <2> QED
    BY <2>1
<1>13. Used'
  <2>1. t.auth \in 1..Len(made) /\ callback[t.auth] = "stored" /\ t.gen \in Nat
    BY <1>3 DEF Own, OAuth!Token
  <2>2. ASSUME NEW w \in LarkUsers, tokens[w] # OAuth!NoToken, tokens[w].auth = t.auth
        PROVE  w = u
    BY <1>3, <2>2 DEF TokensOwn, Own
  <2>3. Newer(t)'
    BY <1>4, <1>6, <1>7, <2>1, <2>2 DEF Newer
  <2>4. ASSUME NEW h \in got PROVE Newer(h.old)' /\ h.old # t
    <3>1. Newer(h.old) /\ h.old \in OAuth!Token
      BY <1>3 DEF Used, AccessTyped
    <3>2. h.old.auth = t.auth => h.old.gen < t.gen
      BY <1>1, <1>3, <3>1 DEF Newer
    <3>3. h.old.gen \in Nat
      BY <3>1 DEF OAuth!Token
    <3>4. Newer(h.old)'
      BY <1>4, <1>6, <1>7, <2>1, <3>1, <3>2, <3>3 DEF Newer
    <3> QED
      BY <2>1, <3>2, <3>3, <3>4
  <2>5. ASSUME NEW h \in got', NEW k \in got', h.old = k.old PROVE h = k
    BY <1>2, <1>3, <1>5, <2>4, <2>5 DEF Used
  <2>6. ASSUME NEW h \in got'
        PROVE  /\ h.old.auth \in 1..Len(made') /\ callback'[h.old.auth] = "stored"
               /\ Newer(h.old)'
    BY <1>2, <1>3, <1>5, <2>1, <2>3, <2>4 DEF Used, Authorizations
  <2> QED
    BY <2>5, <2>6 DEF Used
<1> QED
  BY <1>6, <1>8, <1>9, <1>11, <1>12, <1>13 DEF AccessInv

\* A restart forgets states, tokens and the lock; what had been consumed stays so.
LEMMA RestartAccess ==
  ASSUME AccessInv, OAuth!Restart
  PROVE  AccessInv'
<1>1. /\ oauthBoot < MaxRestarts /\ oauthBoot' = oauthBoot + 1 /\ held' = {} /\ waiting' = <<>>
      /\ tokens' = [u \in LarkUsers |-> OAuth!NoToken] /\ UNCHANGED <<now, made, got>>
      /\ \A s \in OAuth!States :
           callback'[s] = IF callback[s] = "exchanging" THEN "lost" ELSE callback[s]
      /\ \A c \in Calls : call'[c] = IF call[c].at \in {"waiting", "refreshing"}
                                    THEN OAuth!Lost ELSE call[c]
  BY DEF OAuth!Restart
<1>2. AccessTyped /\ Used
  BY DEF AccessInv
<1>3. OAuth!NoToken \in OAuth!Token /\ OAuth!Lost \in AccessCall /\ OAuth!Lost.at = "lost"
  <2>1. OAuth!NoToken \in OAuth!Token
    BY OAuthAssumption DEF OAuth!LarkOAuthAssumption, OAuth!NoToken, OAuth!Token
  <2> QED
    BY <2>1 DEF AccessCall, OAuth!Lost, OAuth!Ended
<1>4. /\ call' \in [Calls -> AccessCall]
      /\ \A c \in Calls : call'[c].at \notin {"waiting", "refreshing"}
  <2>1. call' = [c \in Calls |-> IF call[c].at \in {"waiting", "refreshing"} THEN OAuth!Lost ELSE call[c]]
    BY DEF OAuth!Restart
  <2> HIDE DEF OAuth!Lost
  <2> QED
    BY <1>2, <1>3, <2>1 DEF AccessTyped
<1>5. callback' \in [OAuth!States -> OAuth!Callbacks]
  BY <1>2 DEF AccessTyped, OAuth!Callbacks, OAuth!Restart
<1>6. AccessTyped'
  <2>1. oauthBoot' \in 0..MaxRestarts
    BY <1>1, <1>2, OAuthAssumption DEF AccessTyped, OAuth!LarkOAuthAssumption
  <2>2. tokens' \in [LarkUsers -> OAuth!Token]
    BY <1>1, <1>3
  <2> QED
    BY <1>1, <1>2, <1>4, <1>5, <2>1, <2>2 DEF AccessTyped
<1>7. Held' /\ TokensOwn' /\ Queued'
  BY <1>1, FS_EmptySet, OAuthAssumption DEF Held, TokensOwn, Queued, OAuth!LarkOAuthAssumption
<1>8. Used'
  <2>1. 1..Len(made) \subseteq OAuth!States
    BY <1>2, OAuthAssumption DEF AccessTyped, OAuth!States, OAuth!LarkOAuthAssumption
  <2>2. \A t : Newer(t)'
    BY <1>1, <1>4 DEF Newer
  <2> QED
    BY <1>1, <1>2, <2>1, <2>2 DEF Used
<1>9. ASSUME NEW s \in OAuth!States PROVE Authorized(s)'
  <2>1. Authorized(s)
    BY DEF AccessInv
  <2> QED
    BY <1>1, <2>1 DEF Authorized
<1>10. \A c \in Calls : Under(c)'
  BY <1>4 DEF Under
<1> QED
  BY <1>6, <1>7, <1>8, <1>9, <1>10 DEF AccessInv

-----------------------------------------------------------------------------
LEMMA NextAccessInv == ASSUME AccessInv, OAuth!Next PROVE AccessInv'
<1>1. CASE OAuth!Tick
  BY <1>1, ClockAccess
<1>2. CASE OAuth!Restart
  BY <1>2, RestartAccess
<1>3. CASE \E u \in LarkUsers : OAuth!Authorize(u) \/ \E c \in Calls : OAuth!Ask(c, u)
  BY <1>3, AuthorizeAccess, AskAccess
<1>4. CASE \E s \in OAuth!States : OAuth!Callback(s) \/ OAuth!ExchangeEnds(s)
  BY <1>4, CallbackAccess, ExchangedAccess DEF OAuth!ExchangeEnds
<1>5. CASE \E c \in Calls : OAuth!Read(c) \/ OAuth!RefreshEnds(c)
  BY <1>5, ReadAccess, RefreshedAccess, RefreshFailsAccess DEF OAuth!RefreshEnds
<1> QED
  BY <1>1, <1>2, <1>3, <1>4, <1>5 DEF OAuth!Next

LEMMA JointAccessInv == ASSUME AccessInv, [JointNext]_jointVars PROVE AccessInv'
<1>1. OAuth!Next \/ UNCHANGED oauthVars
  BY DEF JointNext, jointVars, oauthVars
<1> QED
  BY <1>1, NextAccessInv, ClockAccess

\* An exchange begins with a state in the table, whose callback has not come, in its time.
LEMMA ExchangeBegins ==
  ASSUME AccessInv, OAuth!Next, NEW s \in OAuth!States, callback'[s] = "exchanging",
         callback[s] # "exchanging"
  PROVE  callback[s] = "none" /\ ~OAuth!Expired(s) /\ s \notin held'
<1>1. callback \in [OAuth!States -> OAuth!Callbacks] /\ Authorized(s)
  BY DEF AccessInv, AccessTyped
<1>2. PICK x \in OAuth!States : OAuth!Callback(x)
  BY <1>1 DEF OAuth!Next, OAuth!Tick, OAuth!Restart, OAuth!Authorize, OAuth!Ask, OAuth!ExchangeEnds,
     OAuth!Exchanged, OAuth!ExchangeFails, OAuth!Read, OAuth!RefreshEnds, OAuth!Refreshed,
     OAuth!RefreshFails
<1>3. x = s
  BY <1>1, <1>2 DEF OAuth!Callback
<1> QED
  BY <1>1, <1>2, <1>3 DEF OAuth!Callback, Authorized

\* AccessIsOwn: every user acts with a token of their own, refreshed with once, and an
\* authorization is exchanged once and in time.
THEOREM AccessOfEachUser == JointSpec => AccessIsOwn
<1>1. JointInit => AccessInv
  BY InitAccessInv DEF JointInit
<1>2. AccessInv /\ [JointNext]_jointVars => AccessInv'
  BY JointAccessInv
<1>3. AccessInv => /\ OAuth!TypeOK /\ OAuth!TokenIsOwn
                   /\ OAuth!RefreshedOnce /\ OAuth!LockIsPassedOn
  <2> SUFFICES ASSUME AccessInv
               PROVE  /\ OAuth!TypeOK /\ OAuth!TokenIsOwn
                      /\ OAuth!RefreshedOnce /\ OAuth!LockIsPassedOn
    OBVIOUS
  <2>1. /\ AccessTyped /\ Held /\ TokensOwn /\ Queued /\ Used /\ waiting \in Seq(Calls)
        /\ \A c \in Calls : Under(c)
    BY DEF AccessInv, AccessTyped
  <2>2. OAuth!TypeOK
    <3>1. OAuth!Cardinality(held) <= MaxHeld
      BY <2>1, SameCardinality DEF Held
    <3>2. OAuth!IsInjective(waiting)
      BY <2>1 DEF Queued, OAuth!IsInjective
    <3> QED
      BY <2>1, <3>1, <3>2 DEF AccessTyped, AccessCall, Held, OAuth!TypeOK
  <2>3. OAuth!TokenIsOwn
    BY <2>1 DEF TokensOwn, Own, OAuth!TokenIsOwn
  <2>4. OAuth!RefreshedOnce
    BY <2>1 DEF Under, Used, OAuth!Holds, OAuth!RefreshedOnce
  <2>5. OAuth!LockIsPassedOn
    BY <2>1 DEF Queued, OAuth!Range, OAuth!LockIsPassedOn
  <2> QED
    BY <2>2, <2>3, <2>4, <2>5
<1>4. AccessInv /\ [JointNext]_jointVars =>
        [\A s \in OAuth!States : callback'[s] = "exchanging" =>
           callback[s] = "exchanging"
             \/ (callback[s] = "none" /\ ~OAuth!Expired(s) /\ s \notin held')]_oauthVars
  <2>1. [JointNext]_jointVars => OAuth!Next \/ UNCHANGED oauthVars
    BY DEF JointNext, jointVars, oauthVars
  <2> QED
    BY <2>1, ExchangeBegins
<1>5. JointSpec => [](/\ OAuth!TypeOK /\ OAuth!TokenIsOwn
                      /\ OAuth!RefreshedOnce /\ OAuth!LockIsPassedOn)
  BY <1>1, <1>2, <1>3, PTL DEF JointSpec
<1>6. JointSpec => OAuth!OneTimeState
  BY <1>1, <1>2, <1>4, PTL DEF JointSpec, OAuth!OneTimeState, OAuth!vars, oauthVars
<1> QED
  BY <1>5, <1>6 DEF AccessIsOwn

\* The parts run as their own specifications say: what is proved of a part holds of the
\* whole, and the other parts' steps are stutters of it.
THEOREM EachPartBehaves == JointSpec => Spec /\ OAuth!Spec
<1>1. JointInit => Init /\ OAuth!Init
  BY DEF JointInit
<1>2. [JointNext]_jointVars => [Next]_vars
  BY DEF JointNext, jointVars, oauthVars
<1>3. [JointNext]_jointVars => [OAuth!Next]_(OAuth!vars)
  BY DEF JointNext, jointVars, oauthVars, OAuth!vars
<1> QED
  BY <1>1, <1>2, <1>3, PTL DEF JointSpec, Spec, OAuth!Spec
=================================================================================
