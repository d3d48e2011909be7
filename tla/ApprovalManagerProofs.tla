------------------------- MODULE ApprovalManagerProofs -------------------------
(***************************************************************************)
(* For every set of users and tokens, every lifetime and every bound on    *)
(* the clock: a confirmation is given back once and covers one tool call,  *)
(* a cancel revokes what was granted before it, and the two tables         *)
(* implement OneUseGrant.                                                  *)
(***************************************************************************)
EXTENDS ApprovalManager, TLAPS

\* What a method in progress may rely on.
OpFacts(th) ==
  LET o == op[th]
  IN  /\ o.pc = "purge" => o.method \in Methods
      /\ o.pc \in Methods => o.method = o.pc
      /\ o.pc \in {"idle", "list", "remove"} <=> o.method \in {"none", "cancel"}
      /\ o.method \in {"has_pending", "confirm", "consume_grant"} => o.token \in Tokens
      /\ o.pc = "grant" => o.method = "confirm" /\ o.token \in Tokens
      /\ o.method = "confirm" => expires[o.token] > 0
      /\ o.method = "consume_grant" => th = "loop" /\ o.token \in dispatched

OpState == \A th \in Threads : OpFacts(th)

\* Where a token is tells how often it was confirmed and used.
Confirming(th, t) == op[th].pc = "grant" /\ op[th].token = t

Places ==
  \A t \in Tokens :
    /\ uses[t] <= confirms[t] /\ confirms[t] <= 1
    /\ expires[t] = 0 => confirms[t] = 0
    /\ t \in pending => confirms[t] = 0 /\ expires[t] > 0
    /\ t \in approved => confirms[t] = 1 /\ uses[t] = 0
    /\ t \in dispatched => confirms[t] = 1
    /\ \A th \in Threads :
         Confirming(th, t) =>
           /\ confirms[t] = 0 /\ t \notin pending
           /\ \A other \in Threads : Confirming(other, t) => other = th

\* What a cancel found granted is among the keys it has still to remove.
Cancels ==
  /\ \A th \in Threads :
       LET o == op[th]
       IN  /\ \A t \in o.before : confirms[t] = 1 /\ t \in o.owned
           /\ o.pc = "remove" => o.before \cap approved \subseteq o.keys
  /\ \A t \in revoked : confirms[t] = 1 /\ t \notin approved

\* Past its purge a check finds no grant that had expired when it began.
FreshGrants ==
  \A th \in Threads :
    op[th].pc = "consume_grant" /\ op[th].token \in approved =>
      expires[op[th].token] > op[th].now

IInv == /\ TypeOK
        /\ OpState
        /\ Places
        /\ Cancels
        /\ FreshGrants

-----------------------------------------------------------------------------
\* Init establishes the invariant.
LEMMA InitIInv == Init => IInv
<1> SUFFICES ASSUME Init PROVE IInv
  OBVIOUS
<1>1. TypeOK
  BY NoTokenAssumption, TimeAssumption DEF Init, TypeOK, Ops, Idle, Methods, Threads
<1>2. OpState
  BY DEF Init, OpState, OpFacts, Idle, Methods, Threads
<1>3. Places /\ Cancels /\ FreshGrants
  BY DEF Init, Places, Confirming, Cancels, FreshGrants, Idle, Methods
<1> QED BY <1>1, <1>2, <1>3 DEF IInv

\* The records of threads that are idle or move on.
LEMMA OpTypes ==
  /\ Idle \in Ops
  /\ \A o \in Ops, pc \in {"idle", "purge", "grant", "list", "remove"} \cup Methods :
       [o EXCEPT !.pc = pc] \in Ops
  /\ \A o \in Ops, keys \in SUBSET Tokens : [o EXCEPT !.keys = keys] \in Ops
  BY DEF Ops, Idle

\* Every step, and stuttering, keeps the types.
LEMMA StepTypeOK == TypeOK /\ OpState /\ [Next]_vars => TypeOK'
<1> SUFFICES ASSUME TypeOK, OpState, [Next]_vars PROVE TypeOK'
  OBVIOUS
<1> USE TimeAssumption, NoTokenAssumption, OpTypes
<1>1. CASE \E th \in Threads, method \in Methods, t \in Tokens \cup {NoToken} :
             Call(th, method, t)
  <2>1. PICK th \in Threads, method \in Methods, t \in Tokens \cup {NoToken} :
               Call(th, method, t)
    BY <1>1
  <2>2. [Idle EXCEPT !.pc = "purge", !.method = method, !.token = t, !.now = clock] \in Ops
    BY DEF Ops, Idle, TypeOK
  <2> QED BY <2>1, <2>2 DEF TypeOK, Call, history
<1>2. CASE \E th \in Threads, user \in Users : Cancel(th, user)
  <2>1. PICK th \in Threads, user \in Users : Cancel(th, user)
    BY <1>2
  <2>2. [Idle EXCEPT !.pc = "list", !.method = "cancel", !.owned = Of(user),
                     !.keys = pending \cap Of(user),
                     !.before = approved \cap Of(user)] \in Ops
    BY DEF Ops, Idle, TypeOK, Of
  <2> QED BY <2>1, <2>2 DEF TypeOK, Cancel, history, tables
<1>3. CASE \E th \in Threads : Purge(th) \/ HasPending(th) \/ PopPending(th)
  <2>1. PICK th \in Threads : Purge(th) \/ HasPending(th) \/ PopPending(th)
    BY <1>3
  <2>2. op' \in [Threads -> Ops]
    <3>1. op[th].pc = "purge" => op[th].method \in Methods
      BY DEF OpState, OpFacts
    <3> QED BY <2>1, <3>1 DEF TypeOK, Purge, HasPending, PopPending, Goto, Return
  <2> QED BY <2>1, <2>2 DEF TypeOK, Purge, HasPending, PopPending, history, tables
<1>4. CASE \E th \in Threads : Grant(th) \/ \E matches \in BOOLEAN : Consume(th, matches)
  <2>1. PICK th \in Threads : Grant(th) \/ \E matches \in BOOLEAN : Consume(th, matches)
    BY <1>4
  <2>2. Return(th)
    BY <2>1 DEF Grant, Consume
  <2>3. confirms' \in [Tokens -> Nat] /\ uses' \in [Tokens -> Nat]
    BY <2>1 DEF TypeOK, Grant, Consume
  <2>4. approved' \subseteq Tokens /\ dispatched' \subseteq Tokens
    <3>1. op[th].pc = "grant" => op[th].token \in Tokens
      BY DEF OpState, OpFacts
    <3> QED BY <2>1, <3>1 DEF TypeOK, Grant, Consume
  <2>5. UNCHANGED <<clock, expires, pending, revoked>>
    BY <2>1 DEF Grant, Consume
  <2>6. op' \in [Threads -> Ops]
    BY <2>2 DEF TypeOK, Return
  <2> QED BY <2>3, <2>4, <2>5, <2>6 DEF TypeOK
<1>5. CASE \E th \in Threads, t \in Tokens : Issue(th, t) \/ Remove(th, t)
  <2>1. PICK th \in Threads, t \in Tokens : Issue(th, t) \/ Remove(th, t)
    BY <1>5
  <2>2. CASE Issue(th, t)
    <3>1. op' \in [Threads -> Ops]
      BY <2>2 DEF TypeOK, Issue, Return
    <3> QED BY <2>2, <3>1 DEF TypeOK, Issue, history
  <2>3. CASE Remove(th, t)
    <3>1. [op[th] EXCEPT !.keys = @ \ {t}] \in Ops
      <4>1. op[th] \in Ops
        BY DEF TypeOK
      <4>2. op[th].keys \ {t} \in SUBSET Tokens
        BY <4>1 DEF Ops
      <4> QED BY <4>1, <4>2, OpTypes
    <3>2. op' = [op EXCEPT ![th] = [op[th] EXCEPT !.keys = @ \ {t}]]
      BY <2>3 DEF Remove
    <3>3. op' \in [Threads -> Ops]
      BY <3>1, <3>2 DEF TypeOK
    <3> QED BY <2>3, <3>3 DEF TypeOK, Remove, history
  <2> QED BY <2>1, <2>2, <2>3
<1>6. CASE \E th \in Threads : ListApproved(th) \/ EndCancel(th)
  <2>1. PICK th \in Threads : ListApproved(th) \/ EndCancel(th)
    BY <1>6
  <2>2. CASE ListApproved(th)
    <3> DEFINE o == [op[th] EXCEPT !.pc = "remove",
                                   !.keys = @ \cup (approved \cap op[th].owned)]
    <3>1. o \in Ops
      <4>1. op[th] \in Ops /\ approved \subseteq Tokens
        BY DEF TypeOK
      <4>2. op[th].keys \cup (approved \cap op[th].owned) \in SUBSET Tokens
        BY <4>1 DEF Ops
      <4>3. [op[th] EXCEPT !.pc = "remove"] \in Ops
        BY <4>1, OpTypes
      <4>4. o = [[op[th] EXCEPT !.pc = "remove"]
                   EXCEPT !.keys = op[th].keys \cup (approved \cap op[th].owned)]
        BY <4>1 DEF Ops
      <4> QED BY <4>2, <4>3, <4>4, OpTypes
    <3>2. op' = [op EXCEPT ![th] = o]
      BY <2>2 DEF ListApproved
    <3>3. op' \in [Threads -> Ops]
      BY <3>1, <3>2 DEF TypeOK
    <3> QED BY <2>2, <3>3 DEF TypeOK, ListApproved, history, tables
  <2>3. CASE EndCancel(th)
    <3>1. op' \in [Threads -> Ops] /\ op[th].before \subseteq Tokens
      BY <2>3 DEF TypeOK, EndCancel, Return, Ops
    <3> QED BY <2>3, <3>1 DEF TypeOK, EndCancel, tables
  <2> QED BY <2>1, <2>2, <2>3
<1>7. CASE Tick \/ Restart \/ UNCHANGED vars
  BY <1>7 DEF TypeOK, Tick, Restart, history, tables, vars
<1> QED BY <1>1, <1>2, <1>3, <1>4, <1>5, <1>6, <1>7 DEF Next, Method

-----------------------------------------------------------------------------
\* What a step leaves of the threads: th is changed, the other one is not.
Others(th) == \A other \in Threads \ {th} : op'[other] = op[other]

LEMMA GotoOutcomes ==
  ASSUME TypeOK, NEW th \in Threads, NEW pc, Goto(th, pc)
  PROVE  Others(th) /\ op'[th] = [op[th] EXCEPT !.pc = pc]
  BY DEF TypeOK, Goto, Others

LEMMA ReturnOutcomes ==
  ASSUME TypeOK, NEW th \in Threads, Return(th)
  PROVE  Others(th) /\ op'[th] = Idle
  BY DEF TypeOK, Return, Others

\* What a thread that is idle may rely on.
LEMMA IdleFacts ==
  /\ Idle.pc = "idle" /\ Idle.method = "none" /\ Idle.token = NoToken
  /\ Idle.before = {} /\ Idle.keys = {}
  BY DEF Idle

\* A call of a method and its purge.
LEMMA CallIInv ==
  ASSUME IInv, NEW th \in Threads, NEW method \in Methods,
         NEW t \in Tokens \cup {NoToken}, Call(th, method, t)
  PROVE  OpState' /\ Places' /\ Cancels' /\ FreshGrants'
<1> USE IdleFacts
<1>1. /\ Others(th)
      /\ op'[th].pc = "purge" /\ op'[th].method = method /\ op'[th].token = t
      /\ op'[th].before = {}
  BY DEF IInv, TypeOK, Call, Others, Idle
<1>2. /\ pending' \subseteq pending
      /\ UNCHANGED <<clock, expires, approved, dispatched, confirms, uses, revoked>>
  BY DEF Call, history
<1>3. MayCall(th, method, t)
  BY DEF Call
<1>4. /\ method \in {"has_pending", "confirm"} => t \in Issued
      /\ method = "consume_grant" => th = "loop" /\ t \in dispatched
  BY <1>3 DEF MayCall, Methods
<1>5. OpState'
  BY <1>1, <1>2, <1>4 DEF IInv, TypeOK, OpState, OpFacts, Others, Issued, Methods
<1>6. Places'
  BY <1>1, <1>2 DEF IInv, Places, Confirming, Others
<1>7. Cancels'
  BY <1>1, <1>2 DEF IInv, Cancels, Others
<1>8. FreshGrants'
  BY <1>1, <1>2 DEF IInv, FreshGrants, Others
<1> QED BY <1>5, <1>6, <1>7, <1>8

\* The second half of a purge.
LEMMA PurgeIInv ==
  ASSUME IInv, NEW th \in Threads, Purge(th)
  PROVE  OpState' /\ Places' /\ Cancels' /\ FreshGrants'
<1>1. /\ Others(th)
      /\ op[th].pc = "purge"
      /\ op'[th] = [op[th] EXCEPT !.pc = op[th].method]
  BY GotoOutcomes DEF IInv, Purge
<1>2. op'[th].pc = op[th].method /\ op'[th].method = op[th].method
      /\ op'[th].token = op[th].token /\ op'[th].now = op[th].now
      /\ op'[th].before = op[th].before /\ op[th].method \in Methods
      /\ op'[th].owned = op[th].owned
  BY <1>1 DEF IInv, TypeOK, Ops, OpState, OpFacts
<1>3. /\ approved' = approved \ Expired(op[th].now)
      /\ UNCHANGED <<clock, expires, pending, dispatched, confirms, uses, revoked>>
  BY DEF Purge, history
<1>5. OpState'
  <2>1. OpFacts(th)'
    BY <1>1, <1>2, <1>3 DEF IInv, OpState, OpFacts, Methods
  <2>2. \A other \in Threads \ {th} : OpFacts(other)'
    BY <1>1, <1>3 DEF IInv, OpState, OpFacts, Others
  <2> QED BY <2>1, <2>2 DEF OpState
<1>6. Places'
  <2>1. \A x \in Threads, t \in Tokens : Confirming(x, t)' <=> Confirming(x, t)
    BY <1>1, <1>2 DEF Confirming, Others, Methods
  <2> QED BY <2>1, <1>3 DEF IInv, Places
<1>7. Cancels'
  BY <1>1, <1>2, <1>3 DEF IInv, Cancels, Others, Methods
<1>8. FreshGrants'
  <2>1. ASSUME op'[th].pc = "consume_grant", op'[th].token \in approved'
        PROVE  expires'[op'[th].token] > op'[th].now
    BY <2>1, <1>2, <1>3 DEF IInv, TypeOK, Ops, Expired
  <2> QED BY <2>1, <1>1, <1>3 DEF IInv, FreshGrants, Others
<1> QED BY <1>5, <1>6, <1>7, <1>8

\* A new request.
LEMMA IssueIInv ==
  ASSUME IInv, NEW th \in Threads, NEW t \in Tokens, Issue(th, t)
  PROVE  OpState' /\ Places' /\ Cancels' /\ FreshGrants'
<1> USE IdleFacts
<1>1. Others(th) /\ op'[th] = Idle
  BY ReturnOutcomes DEF IInv, Issue
<1>2. /\ expires[t] = 0 /\ expires'[t] > 0
      /\ \A s \in Tokens \ {t} : expires'[s] = expires[s]
      /\ pending' = pending \cup {t}
      /\ UNCHANGED <<clock, approved, dispatched, confirms, uses, revoked>>
  BY TimeAssumption DEF IInv, TypeOK, Issue, history, Issued
<1>3. confirms[t] = 0 /\ t \notin approved /\ t \notin dispatched
  BY <1>2 DEF IInv, Places
<1>4. \A x \in Threads : ~Confirming(x, t)
  BY <1>2 DEF IInv, OpState, OpFacts, Confirming
<1>5. OpState'
  BY <1>1, <1>2 DEF IInv, OpState, OpFacts, Others, Methods
<1>6. Places'
  BY <1>1, <1>2, <1>3, <1>4 DEF IInv, Places, Confirming, Others
<1>7. Cancels'
  BY <1>1, <1>2 DEF IInv, Cancels, Others
<1>8. FreshGrants'
  BY <1>1, <1>2, <1>3 DEF IInv, TypeOK, FreshGrants, Others, OpState, OpFacts
<1> QED BY <1>5, <1>6, <1>7, <1>8

\* confirm() takes the request out of _pending.
LEMMA PopPendingIInv ==
  ASSUME IInv, NEW th \in Threads, PopPending(th)
  PROVE  OpState' /\ Places' /\ Cancels' /\ FreshGrants'
<1> USE IdleFacts
<1>1. PICK t \in Tokens : /\ op[th].pc = "confirm" /\ op[th].method = "confirm"
                          /\ t = op[th].token /\ expires[t] > 0
  BY DEF IInv, OpState, OpFacts, PopPending, Methods
<1>2. /\ pending' = pending \ {t}
      /\ UNCHANGED <<clock, expires, approved, dispatched, confirms, uses, revoked>>
  BY <1>1 DEF PopPending, history
<1>3. CASE t \in pending
  <2>1. Others(th) /\ op'[th] = [op[th] EXCEPT !.pc = "grant"]
    BY <1>1, <1>3, GotoOutcomes DEF IInv, PopPending
  <2>2. /\ op'[th].pc = "grant" /\ op'[th].method = "confirm" /\ op'[th].token = t
        /\ op'[th].before = op[th].before /\ op'[th].owned = op[th].owned
    BY <1>1, <2>1 DEF IInv, TypeOK, Ops
  <2>3. confirms[t] = 0 /\ \A x \in Threads : ~Confirming(x, t)
    BY <1>1, <1>3 DEF IInv, Places
  <2>4. OpState'
    <3>1. OpFacts(th)'
      BY <1>1, <1>2, <2>2 DEF OpFacts, Methods
    <3>2. \A other \in Threads \ {th} : OpFacts(other)'
      BY <1>2, <2>1 DEF IInv, OpState, OpFacts, Others
    <3> QED BY <3>1, <3>2 DEF OpState
  <2>5. Places'
    <3>1. \A s \in Tokens : Confirming(th, s)' <=> s = t
      BY <1>1, <2>2 DEF Confirming
    <3>2. \A x \in Threads \ {th}, s \in Tokens : Confirming(x, s)' <=> Confirming(x, s)
      BY <2>1 DEF Confirming, Others
    <3>3. \A s \in Tokens : ~(\E x \in Threads \ {th} : Confirming(x, s)' /\ s = t)
      BY <2>3, <3>2
    <3>4. \A s \in Tokens, x \in Threads :
            Confirming(x, s)' =>
              /\ confirms[s] = 0 /\ s \notin pending'
              /\ \A other \in Threads : Confirming(other, s)' => other = x
      <4> SUFFICES ASSUME NEW s \in Tokens, NEW x \in Threads, Confirming(x, s)'
                   PROVE  /\ confirms[s] = 0 /\ s \notin pending'
                          /\ \A other \in Threads : Confirming(other, s)' => other = x
        OBVIOUS
      <4>1. CASE x = th
        BY <1>2, <2>3, <3>1, <3>3, <4>1
      <4>2. CASE x # th
        <5>1. Confirming(x, s) /\ s # t
          BY <3>2, <3>3, <4>2
        <5>2. \A other \in Threads : Confirming(other, s)' => Confirming(other, s)
          BY <3>1, <3>2, <5>1
        <5> QED BY <1>2, <5>1, <5>2 DEF IInv, Places
      <4> QED BY <4>1, <4>2
    <3> QED BY <1>2, <3>4 DEF IInv, Places
  <2>6. Cancels'
    <3>1. \A other \in Threads \ {th} : op'[other] = op[other]
      BY <2>1 DEF Others
    <3>2. \A x \in Threads : /\ op'[x].before = op[x].before /\ op'[x].owned = op[x].owned
                             /\ op'[x].pc = "remove" => op'[x] = op[x]
      BY <2>2, <3>1
    <3> QED BY <1>2, <3>2 DEF IInv, Cancels
  <2>7. FreshGrants'
    <3>1. \A other \in Threads \ {th} : op'[other] = op[other]
      BY <2>1 DEF Others
    <3> QED BY <1>2, <2>2, <3>1 DEF IInv, FreshGrants
  <2> QED BY <2>4, <2>5, <2>6, <2>7
<1>4. CASE t \notin pending
  <2>1. Others(th) /\ op'[th] = Idle
    BY <1>1, <1>4, ReturnOutcomes DEF IInv, PopPending
  <2>2. OpState' /\ Cancels' /\ FreshGrants'
    BY <1>2, <2>1 DEF IInv, OpState, OpFacts, Cancels, FreshGrants, Others, Methods
  <2>3. Places'
    BY <1>2, <2>1 DEF IInv, Places, Confirming, Others
  <2> QED BY <2>2, <2>3
<1> QED BY <1>3, <1>4

\* confirm() puts it into _approved and returns it.
LEMMA GrantIInv ==
  ASSUME IInv, NEW th \in Threads, Grant(th)
  PROVE  OpState' /\ Places' /\ Cancels' /\ FreshGrants'
<1> DEFINE t == op[th].token
<1> USE IdleFacts
<1>1. t \in Tokens /\ Confirming(th, t) /\ expires[t] > 0
  BY DEF IInv, OpState, OpFacts, Grant, Confirming
<1>2. /\ confirms[t] = 0 /\ t \notin pending /\ uses[t] = 0
      /\ t \notin approved /\ t \notin dispatched /\ t \notin revoked
      /\ \A x \in Threads : t \notin op[x].before
      /\ \A x \in Threads \ {th} : ~Confirming(x, t)
  BY <1>1 DEF IInv, TypeOK, Places, Cancels
<1>3. Others(th) /\ op'[th] = Idle
  BY ReturnOutcomes DEF IInv, Grant
<1>4. /\ approved' = approved \cup {t} /\ dispatched' = dispatched \cup {t}
      /\ confirms'[t] = 1 /\ \A s \in Tokens \ {t} : confirms'[s] = confirms[s]
      /\ UNCHANGED <<clock, expires, pending, uses, revoked>>
  BY <1>1, <1>2 DEF IInv, TypeOK, Grant
<1>5. OpState'
  BY <1>3, <1>4 DEF IInv, OpState, OpFacts, Others, Methods
<1>6. Places'
  BY <1>1, <1>2, <1>3, <1>4 DEF IInv, TypeOK, Places, Confirming, Others
<1>7. Cancels'
  BY <1>2, <1>3, <1>4 DEF IInv, TypeOK, Ops, Cancels, Others
<1>8. FreshGrants'
  BY <1>2, <1>3, <1>4 DEF IInv, FreshGrants, Others, OpState, OpFacts, Methods
<1> QED BY <1>5, <1>6, <1>7, <1>8

\* consume_grant() takes it out again.
LEMMA ConsumeIInv ==
  ASSUME IInv, NEW th \in Threads, NEW matches \in BOOLEAN, Consume(th, matches)
  PROVE  OpState' /\ Places' /\ Cancels' /\ FreshGrants'
<1> DEFINE t == op[th].token
<1> USE IdleFacts
<1>1. t \in Tokens /\ t \in dispatched
  BY DEF IInv, TypeOK, OpState, OpFacts, Consume, Methods
<1>2. Others(th) /\ op'[th] = Idle
  BY ReturnOutcomes DEF IInv, Consume
<1>3. /\ approved' = approved \ {t}
      /\ uses'[t] = uses[t] \/ (t \in approved /\ uses'[t] = uses[t] + 1)
      /\ \A s \in Tokens \ {t} : uses'[s] = uses[s]
      /\ UNCHANGED <<clock, expires, pending, dispatched, confirms, revoked>>
  BY <1>1 DEF IInv, TypeOK, Consume
<1>4. OpState' /\ Cancels' /\ FreshGrants'
  BY <1>2, <1>3 DEF IInv, OpState, OpFacts, Cancels, FreshGrants, Others, Methods
<1>5. Places'
  BY <1>1, <1>2, <1>3 DEF IInv, TypeOK, Places, Confirming, Others
<1> QED BY <1>4, <1>5

\* The steps of cancel().
LEMMA CancelIInv ==
  ASSUME IInv, NEW th \in Threads,
         \/ \E user \in Users : Cancel(th, user)
         \/ ListApproved(th) \/ EndCancel(th)
         \/ \E t \in Tokens : Remove(th, t)
  PROVE  OpState' /\ Places' /\ Cancels' /\ FreshGrants'
<1> USE IdleFacts
<1>1. CASE \E user \in Users : Cancel(th, user)
  <2>1. PICK user \in Users : Cancel(th, user)
    BY <1>1
  <2>2. /\ Others(th)
        /\ op'[th].pc = "list" /\ op'[th].method = "cancel"
        /\ op'[th].before = approved \cap Of(user) /\ op'[th].owned = Of(user)
    BY <2>1 DEF IInv, TypeOK, Cancel, Others, Idle
  <2>3. UNCHANGED <<clock, expires, pending, approved, dispatched, confirms, uses, revoked>>
    BY <2>1 DEF Cancel, history, tables
  <2>4. OpState' /\ FreshGrants'
    BY <2>2, <2>3 DEF IInv, OpState, OpFacts, FreshGrants, Others, Methods
  <2>5. Places'
    BY <2>2, <2>3 DEF IInv, Places, Confirming, Others
  <2>6. Cancels'
    BY <2>2, <2>3 DEF IInv, TypeOK, Places, Cancels, Others
  <2> QED BY <2>4, <2>5, <2>6
<1>2. CASE ListApproved(th)
  <2>1. /\ Others(th)
        /\ op[th].pc = "list"
        /\ op'[th].pc = "remove" /\ op'[th].method = op[th].method
        /\ op'[th].token = op[th].token
        /\ op'[th].before = op[th].before /\ op'[th].owned = op[th].owned
        /\ op'[th].keys = op[th].keys \cup (approved \cap op[th].owned)
    BY <1>2 DEF IInv, TypeOK, Ops, ListApproved, Others
  <2>2. UNCHANGED <<clock, expires, pending, approved, dispatched, confirms, uses, revoked>>
    BY <1>2 DEF ListApproved, history, tables
  <2>3. OpState' /\ FreshGrants'
    BY <2>1, <2>2 DEF IInv, OpState, OpFacts, FreshGrants, Others, Methods
  <2>4. Places'
    BY <2>1, <2>2 DEF IInv, Places, Confirming, Others
  <2>5. Cancels'
    BY <2>1, <2>2 DEF IInv, Cancels, Others
  <2> QED BY <2>3, <2>4, <2>5
<1>3. CASE EndCancel(th)
  <2>1. Others(th) /\ op'[th] = Idle
    BY <1>3, ReturnOutcomes DEF IInv, EndCancel
  <2>2. /\ op[th].before \cap approved = {}
        /\ revoked' = revoked \cup op[th].before
        /\ UNCHANGED <<clock, expires, pending, approved, dispatched, confirms, uses>>
    BY <1>3 DEF IInv, Cancels, EndCancel, tables
  <2>3. OpState' /\ FreshGrants'
    BY <2>1, <2>2 DEF IInv, OpState, OpFacts, FreshGrants, Others, Methods
  <2>4. Places'
    BY <2>1, <2>2 DEF IInv, Places, Confirming, Others
  <2>5. Cancels'
    BY <2>1, <2>2 DEF IInv, Cancels, Others
  <2> QED BY <2>3, <2>4, <2>5
<1>4. CASE \E t \in Tokens : Remove(th, t)
  <2>1. PICK t \in Tokens : Remove(th, t)
    BY <1>4
  <2>2. /\ Others(th)
        /\ op[th].pc = "remove"
        /\ op'[th].pc = "remove" /\ op'[th].method = op[th].method
        /\ op'[th].token = op[th].token
        /\ op'[th].before = op[th].before /\ op'[th].owned = op[th].owned
        /\ op'[th].keys = op[th].keys \ {t}
    BY <2>1 DEF IInv, TypeOK, Ops, Remove, Others
  <2>3. /\ pending' = pending \ {t} /\ approved' = approved \ {t}
        /\ UNCHANGED <<clock, expires, dispatched, confirms, uses, revoked>>
    BY <2>1 DEF Remove, history
  <2>4. OpState' /\ FreshGrants'
    BY <2>2, <2>3 DEF IInv, OpState, OpFacts, FreshGrants, Others, Methods
  <2>5. Places'
    BY <2>2, <2>3 DEF IInv, Places, Confirming, Others
  <2>6. Cancels'
    BY <2>2, <2>3 DEF IInv, Cancels, Others
  <2> QED BY <2>4, <2>5, <2>6
<1> QED BY <1>1, <1>2, <1>3, <1>4

\* Time, a restart, has_pending() and stuttering.
LEMMA OtherStepsIInv ==
  ASSUME IInv, Tick \/ Restart \/ UNCHANGED vars \/ \E th \in Threads : HasPending(th)
  PROVE  OpState' /\ Places' /\ Cancels' /\ FreshGrants'
<1> USE IdleFacts
<1>1. CASE Tick \/ UNCHANGED vars
  BY <1>1 DEF IInv, OpState, OpFacts, Places, Confirming, Cancels, FreshGrants, Tick, vars,
              tables, history
<1>2. CASE Restart
  <2>1. /\ \A th \in Threads : op'[th] = Idle
        /\ pending' = {} /\ approved' = {} /\ dispatched' = {}
        /\ UNCHANGED <<clock, expires, confirms, uses, revoked>>
    BY <1>2 DEF Restart
  <2> QED BY <2>1 DEF IInv, OpState, OpFacts, Places, Confirming, Cancels, FreshGrants, Methods
<1>3. CASE \E th \in Threads : HasPending(th)
  <2>1. PICK th \in Threads : HasPending(th)
    BY <1>3
  <2>2. /\ Others(th) /\ op'[th] = Idle
        /\ UNCHANGED <<clock, expires, pending, approved, dispatched, confirms, uses, revoked>>
    BY <2>1, ReturnOutcomes DEF IInv, HasPending, tables, history
  <2>3. OpState' /\ Cancels' /\ FreshGrants'
    BY <2>2 DEF IInv, OpState, OpFacts, Cancels, FreshGrants, Others, Methods
  <2>4. Places'
    BY <2>2 DEF IInv, Places, Confirming, Others
  <2> QED BY <2>3, <2>4
<1> QED BY <1>1, <1>2, <1>3

\* Every step, and stuttering, keeps the invariant.
LEMMA NextIInv == IInv /\ [Next]_vars => IInv'
<1> SUFFICES ASSUME IInv, [Next]_vars PROVE IInv'
  OBVIOUS
<1>1. TypeOK'
  BY StepTypeOK DEF IInv
<1>2. OpState' /\ Places' /\ Cancels' /\ FreshGrants'
  BY CallIInv, PurgeIInv, IssueIInv, PopPendingIInv, GrantIInv, ConsumeIInv, CancelIInv,
     OtherStepsIInv DEF Next, Method
<1> QED BY <1>1, <1>2 DEF IInv

-----------------------------------------------------------------------------
\* The inductive invariant holds in every behaviour.
THEOREM Invariance == Spec => []IInv
<1> QED BY InitIInv, NextIInv, PTL DEF Spec

\* Every variable keeps its type.
THEOREM TypeCorrect == Spec => []TypeOK
<1>1. IInv => TypeOK
  BY DEF IInv
<1> QED BY <1>1, Invariance, PTL

\* A request is handed back by one confirm() and its grant covers at most one call.
THEOREM GrantsAreUsedOnce == Spec => []OneUse
<1>1. IInv => OneUse
  BY DEF IInv, OneUse, Places
<1> QED BY <1>1, Invariance, PTL

\* What was granted before a cancel began cannot be used after it has ended.
THEOREM CancelIsFinal == Spec => []CancelRevokes
<1>1. IInv => CancelRevokes
  BY DEF IInv, TypeOK, CancelRevokes, Cancels, Places
<1> QED BY <1>1, Invariance, PTL

\* Every step uses at most a grant that was alive when its check began.
LEMMA StepNoStaleUse ==
  ASSUME IInv, [Next]_vars, NEW t \in Tokens, uses'[t] # uses[t]
  PROVE  op["loop"].token = t /\ expires[t] > op["loop"].now
<1>1. PICK th \in Threads, matches \in BOOLEAN : Consume(th, matches)
  BY DEF Next, Method, vars, history, Call, Purge, HasPending, PopPending, Grant, Issue,
         Remove, Cancel, ListApproved, EndCancel, Tick, Restart
<1>2. th = "loop" /\ op[th].pc = "consume_grant"
  BY <1>1 DEF IInv, OpState, OpFacts, Consume, Methods
<1>3. op[th].token = t /\ t \in approved
  BY <1>1 DEF IInv, TypeOK, Consume
<1> QED BY <1>2, <1>3 DEF IInv, FreshGrants, Threads

\* No tool call is covered by a grant that had expired when its check began.
THEOREM NoStaleUseAlways == Spec => NoStaleUse
<1>1. IInv /\ [Next]_vars =>
        [\A t \in Tokens :
           uses'[t] # uses[t] => /\ op["loop"].token = t
                                 /\ expires[t] > op["loop"].now]_vars
  BY StepNoStaleUse
<1> QED BY <1>1, Invariance, PTL DEF Spec, NoStaleUse

-----------------------------------------------------------------------------
(* The refinement.  A step that only takes tokens away drops some of them. *)

stages == [t \in Tokens |-> Stage(t)]

\* A token that leaves the tables is void; the others stay where they are.
LEMMA TakingAwayDrops ==
  ASSUME IInv, UNCHANGED <<expires, uses>>,
         pending' \subseteq pending, approved' \subseteq approved,
         \A th \in Threads, t \in Tokens : Confirming(th, t)' => Confirming(th, t)
  PROVE  [OneUseGrants!Next]_stages
<1> DEFINE dropped == {t \in Tokens : Stage(t)' # Stage(t)}
<1>1. ASSUME NEW t \in Tokens
      PROVE  \/ Stage(t)' = Stage(t)
             \/ Stage(t) \in {"pending", "granted"} /\ Stage(t)' = "void"
  <2>1. /\ t \in pending => t \notin approved /\ ~Confirmed(t) /\ t \in Issued
        /\ t \in approved \/ Confirmed(t) => t \in Issued
    BY DEF IInv, TypeOK, Places, OpState, OpFacts, Issued, Confirmed, Confirming
  <2>2. (t \in Issued' <=> t \in Issued) /\ (Confirmed(t)' => Confirmed(t))
    BY DEF Issued, Confirmed, Confirming
  <2> QED BY <2>1, <2>2 DEF Stage, IInv, TypeOK
<1>2. OneUseGrants!Drop(dropped)
  BY <1>1 DEF OneUseGrants!Drop, stages
<1> QED BY <1>2 DEF OneUseGrants!Next

\* A token that alone changes its stage, the way OneUseGrant lets it.
LEMMA OneMoves ==
  ASSUME NEW t \in Tokens, \A s \in Tokens \ {t} : Stage(s)' = Stage(s),
         <<Stage(t), Stage(t)'>> \in {<<"new", "pending">>, <<"pending", "granted">>,
                                     <<"granted", "used">>}
  PROVE  OneUseGrants!Next
<1>1. stages' = [stages EXCEPT ![t] = Stage(t)'] /\ stages[t] = Stage(t)
  BY DEF stages
<1>2. OneUseGrants!Ask(t) \/ OneUseGrants!Grant(t) \/ OneUseGrants!Use(t)
  BY <1>1 DEF stages, OneUseGrants!Ask, OneUseGrants!Grant, OneUseGrants!Use,
              OneUseGrants!Move
<1> QED BY <1>2 DEF OneUseGrants!Next

\* issue() asks.
LEMMA IssueAsks ==
  ASSUME IInv, NEW th \in Threads, NEW t \in Tokens, Issue(th, t)
  PROVE  [OneUseGrants!Next]_stages
<1>1. \A x \in Threads, s \in Tokens : Confirming(x, s)' <=> Confirming(x, s)
  BY ReturnOutcomes, IdleFacts DEF IInv, Issue, Confirming, Others
<1>2. /\ expires[t] = 0 /\ expires'[t] > 0
      /\ \A s \in Tokens \ {t} : expires'[s] = expires[s]
      /\ pending' = pending \cup {t}
      /\ UNCHANGED <<approved, uses>>
  BY TimeAssumption DEF IInv, TypeOK, Issue, history, Issued
<1>3. \A s \in Tokens \ {t} : Stage(s)' = Stage(s)
  BY <1>1, <1>2 DEF Stage, Issued, Confirmed, Confirming
<1>4. /\ t \notin pending /\ t \notin approved /\ uses[t] = 0 /\ ~Confirmed(t)
  BY <1>2 DEF IInv, TypeOK, Places, OpState, OpFacts, Confirmed
<1>5. Stage(t) = "new" /\ Stage(t)' = "pending"
  BY <1>2, <1>4 DEF Stage, Issued
<1> QED BY <1>3, <1>5, OneMoves

\* confirm() grants with the pop, before the grant can be used.
LEMMA PopPendingGrants ==
  ASSUME IInv, NEW th \in Threads, PopPending(th)
  PROVE  [OneUseGrants!Next]_stages
<1>1. PICK t \in Tokens : op[th].pc = "confirm" /\ t = op[th].token
  BY DEF IInv, OpState, OpFacts, PopPending, Methods
<1>2. pending' = pending \ {t} /\ UNCHANGED <<expires, approved, uses>>
  BY <1>1 DEF PopPending, history
<1>3. CASE t \notin pending
  <2>1. \A x \in Threads, s \in Tokens : Confirming(x, s)' => Confirming(x, s)
    BY <1>1, <1>3, ReturnOutcomes, IdleFacts DEF IInv, PopPending, Confirming, Others
  <2> QED BY <1>2, <2>1, TakingAwayDrops
<1>4. CASE t \in pending
  <2>1. Others(th) /\ op'[th].pc = "grant" /\ op'[th].token = t
    <3>1. Others(th) /\ op'[th] = [op[th] EXCEPT !.pc = "grant"]
      BY <1>1, <1>4, GotoOutcomes DEF IInv, PopPending
    <3> QED BY <1>1, <3>1 DEF IInv, TypeOK, Ops
  <2>2. \A s \in Tokens : Confirming(th, s)' <=> s = t
    BY <2>1 DEF Confirming
  <2>3. /\ \A s \in Tokens : ~Confirming(th, s)
        /\ \A x \in Threads \ {th}, s \in Tokens : Confirming(x, s)' <=> Confirming(x, s)
    BY <1>1, <2>1 DEF Confirming, Others
  <2>4. \A s \in Tokens \ {t} : Confirmed(s)' <=> Confirmed(s)
    BY <2>2, <2>3 DEF Confirmed, Confirming
  <2>5. \A s \in Tokens \ {t} : Stage(s)' = Stage(s)
    BY <1>2, <2>4 DEF Stage, Issued
  <2>6. Confirmed(t)' /\ uses[t] = 0
    BY <1>4, <2>2 DEF IInv, TypeOK, Places, Confirmed, Confirming
  <2>7. Stage(t) = "pending" /\ Stage(t)' = "granted"
    BY <1>2, <1>4, <2>6 DEF Stage
  <2> QED BY <2>5, <2>7, OneMoves
<1> QED BY <1>3, <1>4

\* The assignment to _approved only moves the grant within its stage.
LEMMA GrantStutters ==
  ASSUME IInv, NEW th \in Threads, Grant(th)
  PROVE  UNCHANGED stages
<1>1. PICK t \in Tokens : t = op[th].token /\ Confirming(th, t)
  BY DEF IInv, OpState, OpFacts, Grant, Confirming
<1>2. /\ approved' = approved \cup {t} /\ UNCHANGED <<expires, pending, uses>>
      /\ Others(th) /\ op'[th] = Idle
  BY <1>1, ReturnOutcomes DEF IInv, Grant
<1>3. \A x \in Threads, s \in Tokens \ {t} : Confirming(x, s)' <=> Confirming(x, s)
  BY <1>1, <1>2, IdleFacts DEF Confirming, Others
<1>4. t \notin pending /\ Confirmed(t)
  BY <1>1 DEF IInv, Places, Confirmed, Confirming
<1>5. Stage(t)' = Stage(t)
  BY <1>2, <1>4 DEF IInv, TypeOK, Stage, Issued
<1>6. \A s \in Tokens \ {t} : Stage(s)' = Stage(s)
  BY <1>2, <1>3 DEF Stage, Issued, Confirmed, Confirming
<1> QED BY <1>5, <1>6 DEF stages

\* consume_grant() uses the grant when it covers the call and drops it when not.
LEMMA ConsumeUses ==
  ASSUME IInv, NEW th \in Threads, NEW matches \in BOOLEAN, Consume(th, matches)
  PROVE  [OneUseGrants!Next]_stages
<1>1. PICK t \in Tokens : t = op[th].token
  BY DEF IInv, TypeOK, OpState, OpFacts, Consume, Methods
<1>2. /\ approved' = approved \ {t} /\ UNCHANGED <<expires, pending>>
      /\ Others(th) /\ op'[th] = Idle /\ op[th].pc = "consume_grant"
  BY <1>1, ReturnOutcomes DEF IInv, Consume
<1>3. \A x \in Threads, s \in Tokens : Confirming(x, s)' <=> Confirming(x, s)
  BY <1>1, <1>2, IdleFacts DEF Confirming, Others
<1>4. CASE t \in approved /\ matches
  <2>1. uses'[t] = uses[t] + 1 /\ \A s \in Tokens \ {t} : uses'[s] = uses[s]
    BY <1>1, <1>4 DEF IInv, TypeOK, Consume
  <2>2. \A s \in Tokens \ {t} : Stage(s)' = Stage(s)
    BY <1>2, <1>3, <2>1 DEF Stage, Issued, Confirmed, Confirming
  <2>3. uses[t] = 0 /\ t \notin pending
    BY <1>4 DEF IInv, TypeOK, Places
  <2>4. Stage(t) = "granted" /\ Stage(t)' = "used"
    BY <1>4, <2>1, <2>3 DEF Stage
  <2> QED BY <2>2, <2>4, OneMoves
<1>5. CASE ~(t \in approved /\ matches)
  <2>1. UNCHANGED uses
    BY <1>1, <1>5 DEF IInv, TypeOK, Consume
  <2> QED BY <1>2, <1>3, <2>1, TakingAwayDrops
<1> QED BY <1>4, <1>5

\* Every other step takes entries away or leaves the tables alone.
LEMMA OtherStepsDrop ==
  ASSUME IInv, NEW th \in Threads,
         \/ \E method \in Methods, t \in Tokens \cup {NoToken} : Call(th, method, t)
         \/ \E user \in Users : Cancel(th, user)
         \/ Purge(th) \/ HasPending(th) \/ ListApproved(th) \/ EndCancel(th)
         \/ \E t \in Tokens : Remove(th, t)
  PROVE  [OneUseGrants!Next]_stages
<1>1. /\ UNCHANGED <<expires, uses>>
      /\ pending' \subseteq pending /\ approved' \subseteq approved
  BY DEF Call, Cancel, Purge, HasPending, ListApproved, EndCancel, Remove, tables, history
<1>2. Others(th)
  BY DEF IInv, TypeOK, Call, Cancel, Purge, HasPending, ListApproved, EndCancel, Remove,
         Goto, Return, Others
<1>3. op'[th].pc # "grant"
  <2>1. CASE Purge(th)
    <3>1. op'[th] = [op[th] EXCEPT !.pc = op[th].method] /\ op[th].method \in Methods
      BY <2>1, GotoOutcomes DEF IInv, OpState, OpFacts, Purge
    <3> QED BY <3>1 DEF IInv, TypeOK, Ops, Methods
  <2>2. CASE HasPending(th) \/ EndCancel(th)
    BY <2>2, ReturnOutcomes, IdleFacts DEF IInv, HasPending, EndCancel
  <2>3. CASE ListApproved(th) \/ \E t \in Tokens : Remove(th, t)
    BY <2>3 DEF IInv, TypeOK, Ops, ListApproved, Remove
  <2>4. CASE \/ \E method \in Methods, t \in Tokens \cup {NoToken} : Call(th, method, t)
             \/ \E user \in Users : Cancel(th, user)
    <3>1. op \in [Threads -> Ops]
      BY DEF IInv, TypeOK
    <3>2. CASE \E method \in Methods, t \in Tokens \cup {NoToken} : Call(th, method, t)
      BY <3>1, <3>2 DEF Call, Idle
    <3>3. CASE \E user \in Users : Cancel(th, user)
      BY <3>1, <3>3 DEF Cancel, Idle
    <3> QED BY <2>4, <3>2, <3>3
  <2> QED BY <2>1, <2>2, <2>3, <2>4
<1>4. \A x \in Threads, t \in Tokens : Confirming(x, t)' => Confirming(x, t)
  BY <1>2, <1>3 DEF Confirming, Others
<1> QED BY <1>1, <1>4, TakingAwayDrops

\* However the two threads interleave, the tables implement a grant that is asked
\* for, given at most once and used at most once.
THEOREM Refinement == Spec => ImplementsOneUseGrant
<1>1. Init => OneUseGrants!Init
  BY IdleFacts DEF Init, OneUseGrants!Init, Stage, Issued, Confirmed
<1>2. IInv /\ [Next]_vars => [OneUseGrants!Next]_stages
  <2> SUFFICES ASSUME IInv, [Next]_vars PROVE [OneUseGrants!Next]_stages
    OBVIOUS
  <2>1. CASE Tick \/ UNCHANGED vars
    BY <2>1 DEF Tick, vars, tables, history, stages, Stage, Issued, Confirmed
  <2>2. CASE Restart
    <3>1. \A x \in Threads, t \in Tokens : ~Confirming(x, t)'
      BY <2>2, IdleFacts DEF Restart, Confirming
    <3> QED BY <2>2, <3>1, TakingAwayDrops DEF Restart
  <2>3. CASE \E th \in Threads : Grant(th)
    BY <2>3, GrantStutters
  <2> QED BY <2>1, <2>2, <2>3, IssueAsks, PopPendingGrants, ConsumeUses, OtherStepsDrop
          DEF Next, Method
<1> QED BY <1>1, <1>2, Invariance, PTL
     DEF Spec, ImplementsOneUseGrant, OneUseGrants!Spec, stages
=============================================================================
