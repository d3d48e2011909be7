---------------------------- MODULE ApprovalManager ----------------------------
(***************************************************************************)
(* The confirmations of interface/lark_approval.py.                        *)
(*                                                                         *)
(* Two threads use one LarkApprovalManager without a lock: the SDK thread  *)
(* runs card actions, the event loop runs messages and tool calls.  Each   *)
(* runs one method at a time.  A step is one access to one of the two      *)
(* dictionaries, which the interpreter lock makes atomic: list() of a      *)
(* dictionary, pop() and an assignment.  The pops of one _purge loop are   *)
(* one step, since no key they remove can come back.                       *)
(*                                                                         *)
(* A token belongs to the user it was issued to; a method called with      *)
(* another user's token finds no entry.  Tokens are random, so a new one   *)
(* is an unused one.                                                       *)
(***************************************************************************)
EXTENDS Naturals

CONSTANTS Users,
          Tokens,
          Owner,      \* the user each token is issued to
          NoToken,
          Ttl,        \* ttl_seconds
          MaxTime     \* bound on the clock

ASSUME OwnerAssumption == Owner \in [Tokens -> Users]
ASSUME NoTokenAssumption == NoToken \notin Tokens
ASSUME TimeAssumption == Ttl \in Nat \ {0} /\ MaxTime \in Nat

VARIABLES clock,       \* time.time()
          expires,     \* expires_at of each token, 0 before it is issued
          pending,     \* keys of _pending
          approved,    \* keys of _approved
          op,          \* the method each thread is in
          dispatched,  \* tokens confirm() has returned to a request under way
          confirms,    \* number of confirm() calls that returned the request
          uses,        \* number of consume_grant() calls that returned True
          revoked      \* granted when a cancel of its owner began that has ended

tables == <<pending, approved>>
history == <<dispatched, confirms, uses, revoked>>
vars == <<clock, expires, tables, op, history>>

Threads == {"sdk", "loop"}
Issued == {t \in Tokens : expires[t] > 0}
Of(user) == {t \in Tokens : Owner[t] = user}

Idle == [pc |-> "idle", method |-> "none", token |-> NoToken, now |-> 0,
         owned |-> {}, keys |-> {}, before |-> {}]

Init ==
  /\ clock = 1
  /\ expires = [t \in Tokens |-> 0]
  /\ pending = {} /\ approved = {}
  /\ op = [th \in Threads |-> Idle]
  /\ dispatched = {}
  /\ confirms = [t \in Tokens |-> 0]
  /\ uses = [t \in Tokens |-> 0]
  /\ revoked = {}

-----------------------------------------------------------------------------
Goto(th, pc) == op' = [op EXCEPT ![th].pc = pc]
Return(th) == op' = [op EXCEPT ![th] = Idle]
Expired(now) == {t \in Tokens : expires[t] <= now}

\* Who calls what: consume_grant is called by the request the token was given back
\* to, on the event loop.  Any text or card may carry any token that was issued.
MayCall(th, method, t) ==
  CASE method = "issue" -> t = NoToken
    [] method = "has_pending" -> th = "loop" /\ t \in Issued
    [] method = "confirm" -> t \in Issued
    [] method = "consume_grant" -> th = "loop" /\ t \in dispatched

\* _purge, first half: the clock is read once, _pending is purged.
Call(th, method, t) ==
  /\ op[th] = Idle
  /\ MayCall(th, method, t)
  /\ op' = [op EXCEPT ![th] = [Idle EXCEPT !.pc = "purge", !.method = method,
                                          !.token = t, !.now = clock]]
  /\ pending' = pending \ Expired(clock)
  /\ UNCHANGED <<clock, expires, approved, history>>

\* Mutant: grants are not purged.
PurgePendingOnly(th) ==
  /\ op[th].pc = "purge"
  /\ Goto(th, op[th].method)
  /\ UNCHANGED <<clock, expires, tables, history>>

\* _purge, second half.
Purge(th) ==
  /\ op[th].pc = "purge"
  /\ approved' = approved \ Expired(op[th].now)
  /\ Goto(th, op[th].method)
  /\ UNCHANGED <<clock, expires, pending, history>>

Issue(th, t) ==
  /\ op[th].pc = "issue"
  /\ t \notin Issued
  /\ expires' = [expires EXCEPT ![t] = clock + Ttl]
  /\ pending' = pending \cup {t}
  /\ Return(th)
  /\ UNCHANGED <<clock, approved, history>>

\* has_pending: only its purge changes anything.
HasPending(th) ==
  /\ op[th].pc = "has_pending"
  /\ Return(th)
  /\ UNCHANGED <<clock, expires, tables, history>>

\* Mutant: confirm() reads the entry where it should remove it.
ReadPending(th) ==
  /\ op[th].pc = "confirm"
  /\ IF op[th].token \in pending THEN Goto(th, "grant") ELSE Return(th)
  /\ UNCHANGED <<clock, expires, tables, history>>

\* confirm: the entry leaves _pending, and only then is it put into _approved.
PopPending(th) ==
  /\ op[th].pc = "confirm"
  /\ pending' = pending \ {op[th].token}
  /\ IF op[th].token \in pending THEN Goto(th, "grant") ELSE Return(th)
  /\ UNCHANGED <<clock, expires, approved, history>>

Grant(th) ==
  LET t == op[th].token
  IN  /\ op[th].pc = "grant"
      /\ approved' = approved \cup {t}
      /\ dispatched' = dispatched \cup {t}
      /\ confirms' = [confirms EXCEPT ![t] = @ + 1]
      /\ Return(th)
      /\ UNCHANGED <<clock, expires, pending, uses, revoked>>

\* Mutant: a grant that covers the call stays for the next one.
ConsumeKeepsGrant(th, matches) ==
  LET t == op[th].token
      granted == t \in approved
  IN  /\ op[th].pc = "consume_grant"
      /\ approved' = IF matches THEN approved ELSE approved \ {t}
      /\ uses' = [uses EXCEPT ![t] = IF granted /\ matches THEN @ + 1 ELSE @]
      /\ Return(th)
      /\ UNCHANGED <<clock, expires, pending, dispatched, confirms, revoked>>

\* consume_grant: the grant is gone whether or not its scope matches the call.
Consume(th, matches) ==
  LET t == op[th].token
      granted == t \in approved
  IN  /\ op[th].pc = "consume_grant"
      /\ approved' = approved \ {t}
      /\ uses' = [uses EXCEPT ![t] = IF granted /\ matches THEN @ + 1 ELSE @]
      /\ Return(th)
      /\ UNCHANGED <<clock, expires, pending, dispatched, confirms, revoked>>

-----------------------------------------------------------------------------
\* cancel(user) takes the keys of _pending, then those of _approved, then removes
\* the user's keys one by one from both.
Cancel(th, user) ==
  /\ op[th] = Idle
  /\ op' = [op EXCEPT ![th] = [Idle EXCEPT !.pc = "list", !.method = "cancel",
                                          !.owned = Of(user),
                                          !.keys = pending \cap Of(user),
                                          !.before = approved \cap Of(user)]]
  /\ UNCHANGED <<clock, expires, tables, history>>

\* Mutant: the grants are not listed.
ListPendingOnly(th) ==
  /\ op[th].pc = "list"
  /\ Goto(th, "remove")
  /\ UNCHANGED <<clock, expires, tables, history>>

ListApproved(th) ==
  /\ op[th].pc = "list"
  /\ op' = [op EXCEPT ![th].pc = "remove",
                      ![th].keys = @ \cup (approved \cap op[th].owned)]
  /\ UNCHANGED <<clock, expires, tables, history>>

Remove(th, t) ==
  /\ op[th].pc = "remove"
  /\ t \in op[th].keys
  /\ pending' = pending \ {t}
  /\ approved' = approved \ {t}
  /\ op' = [op EXCEPT ![th].keys = @ \ {t}]
  /\ UNCHANGED <<clock, expires, history>>

EndCancel(th) ==
  /\ op[th].pc = "remove"
  /\ op[th].keys = {}
  /\ revoked' = revoked \cup op[th].before
  /\ Return(th)
  /\ UNCHANGED <<clock, expires, tables, dispatched, confirms, uses>>

-----------------------------------------------------------------------------
Tick == /\ clock < MaxTime
        /\ clock' = clock + 1
        /\ UNCHANGED <<expires, tables, op, history>>

\* The process restarts: both tables are empty, and a request that goes on is
\* recovered without its token.
Restart ==
  /\ pending' = {} /\ approved' = {}
  /\ op' = [th \in Threads |-> Idle]
  /\ dispatched' = {}
  /\ UNCHANGED <<clock, expires, confirms, uses, revoked>>

Method(th) ==
  \/ Purge(th) \/ HasPending(th) \/ PopPending(th) \/ Grant(th)
  \/ \E t \in Tokens : Issue(th, t) \/ Remove(th, t)
  \/ \E matches \in BOOLEAN : Consume(th, matches)
  \/ ListApproved(th) \/ EndCancel(th)

Methods == {"issue", "has_pending", "confirm", "consume_grant"}

Next ==
  \/ \E th \in Threads :
       \/ \E method \in Methods, t \in Tokens \cup {NoToken} : Call(th, method, t)
       \/ \E user \in Users : Cancel(th, user)
       \/ Method(th)
  \/ Tick \/ Restart

Spec == Init /\ [][Next]_vars

-----------------------------------------------------------------------------
Ops == [pc : {"idle", "purge", "grant", "list", "remove"} \cup Methods,
        method : {"none", "cancel"} \cup Methods,
        token : Tokens \cup {NoToken},
        now : Nat,
        owned : SUBSET Tokens, keys : SUBSET Tokens, before : SUBSET Tokens]

TypeOK ==
  /\ clock \in Nat \ {0}
  /\ expires \in [Tokens -> 0..(clock + Ttl)]
  /\ pending \subseteq Tokens
  /\ approved \subseteq Tokens
  /\ op \in [Threads -> Ops]
  /\ dispatched \subseteq Tokens
  /\ confirms \in [Tokens -> Nat]
  /\ uses \in [Tokens -> Nat]
  /\ revoked \subseteq Tokens

\* docs/current-state.md: a confirmation code is consumed only once.  However the
\* threads interleave, a request is handed back by one confirm() and its grant
\* covers at most one tool call, after that.
OneUse == \A t \in Tokens : uses[t] <= confirms[t] /\ confirms[t] <= 1

\* When cancel() has returned, what its user had granted before it began can no
\* longer be used: no other method that overlapped it brings a grant back.
CancelRevokes == revoked \cap (pending \cup approved) = {}

\* A tool call is covered only by a grant that was alive when the check began,
\* although another thread may grant between the purge and the lookup.
NoStaleUse ==
  [][\A t \in Tokens :
       uses'[t] # uses[t] => /\ op["loop"].token = t
                             /\ expires[t] > op["loop"].now]_vars

\* The two tables implement a grant that is asked for, given and used once.
Confirmed(t) == \E th \in Threads : op[th].pc = "grant" /\ op[th].token = t
Stage(t) == CASE uses[t] > 0 -> "used"
              [] uses[t] = 0 /\ t \in pending -> "pending"
              [] uses[t] = 0 /\ t \notin pending /\ (t \in approved \/ Confirmed(t)) -> "granted"
              [] OTHER -> IF t \in Issued THEN "void" ELSE "new"

OneUseGrants == INSTANCE OneUseGrant WITH stage <- [t \in Tokens |-> Stage(t)]
ImplementsOneUseGrant == OneUseGrants!Spec
=============================================================================
