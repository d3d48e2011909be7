----------------------------- MODULE MessageIntake -----------------------------
(***************************************************************************)
(* interface/lark_ws.py: deduplication, the handlers of messages, and the  *)
(* confirmation of risky requests by text or by a card, for one user.      *)
(*                                                                         *)
(* handle_message runs on the event loop and does not suspend before its   *)
(* first card or command; handle_card_action runs on the SDK thread and    *)
(* shares the approval tables and the loop reference with it.  The tables  *)
(* are ApprovalManager's subject: here a token waits, is granted or gone.  *)
(***************************************************************************)
EXTENDS Integers, FiniteSets, Sequences

CONSTANTS Messages,
          Risky,        \* messages that require confirmation
          Confirming,   \* messages that confirm a token by text
          Copies,       \* for each message, how often Lark delivers it
          Ttl, MaxSize, \* ttl_seconds and max_size of LarkMessageDeduper
          MaxTime, MaxRestarts

Deliveries == UNION {{m} \X (1..Copies[m]) : m \in Messages}
Tokens == {d \in Deliveries : d[1] \in Risky}  \* each delivery of a risky message issues one
Ids == Messages \cup Tokens          \* "card-confirm-<token>" is an id as well
NoToken == <<>>

\* The id of a message is never that of a token's card.
MessageIntakeAssumption ==
  /\ Risky \subseteq Messages /\ Confirming \subseteq Messages /\ Copies \in [Messages -> Nat]
  /\ Messages \cap Tokens = {} /\ Ttl \in Nat /\ MaxSize \in Nat
  /\ MaxTime \in Nat /\ MaxRestarts \in Nat

VARIABLES now, seen,      \* the deduper: ids and times, oldest first
          at,             \* the handler of each delivery
          holds,          \* the approval token it works under
          pending, approved,
          card,           \* the click on each approval card
          loopUp,         \* _application_loop is set and open
          ran,            \* how often each request was executed
          askedForText,   \* tokens whose user was told to confirm by text
          accepted,       \* for each id, when it was last accepted
          since,          \* and the ids accepted after it
          restarts

dedupe == <<seen, accepted, since>>
tables == <<pending, approved>>
vars == <<now, dedupe, at, holds, tables, card, loopUp, ran, askedForText, restarts>>

Never == -Ttl - 1
Init ==
  /\ now = 0 /\ seen = <<>> /\ restarts = 0 /\ loopUp = TRUE
  /\ at = [d \in Deliveries |-> "out"] /\ holds = [d \in Deliveries |-> NoToken]
  /\ pending = {} /\ approved = {} /\ card = [t \in Tokens |-> "none"]
  /\ ran = [i \in Ids |-> 0] /\ askedForText = {}
  /\ accepted = [i \in Ids |-> Never] /\ since = [i \in Ids |-> {}]

-----------------------------------------------------------------------------
\* LarkMessageDeduper

\* What has expired is older than the rest, and the oldest is first.
Fresh ==
  LET first == CHOOSE k \in 1..(Len(seen) + 1) :
                 \A j \in DOMAIN seen : k <= j <=> now - seen[j][2] <= Ttl
  IN  SubSeq(seen, first, Len(seen))
Keep(s) == IF Len(s) > MaxSize THEN Tail(s) ELSE s
Known(i) == \E k \in DOMAIN Fresh : Fresh[k][1] = i

\* should_process: TRUE.
Accept(i) ==
  /\ ~Known(i)
  /\ seen' = Keep(Append(Fresh, <<i, now>>))
  /\ accepted' = [accepted EXCEPT ![i] = now]
  /\ since' = [j \in Ids |-> IF j = i THEN {} ELSE since[j] \cup {i}]

Drop(i) == Known(i) /\ seen' = Fresh /\ UNCHANGED <<accepted, since>>

-----------------------------------------------------------------------------
\* _handle_message_once up to its first await

At(d, st) == at' = [at EXCEPT ![d] = st]

HandleDuplicate(d) ==
  /\ loopUp /\ at[d] = "out" /\ Drop(d[1]) /\ At(d, "ended")
  /\ UNCHANGED <<now, holds, tables, card, loopUp, ran, askedForText, restarts>>

\* A user who is not allowed is remembered by the deduper and gets no answer.
HandleDenied(d) ==
  /\ loopUp /\ at[d] = "out" /\ Accept(d[1]) /\ At(d, "ended")
  /\ UNCHANGED <<now, holds, tables, card, loopUp, ran, askedForText, restarts>>

\* A message that asks to be remembered is answered with a proposal card instead.
HandlePlain(d) ==
  /\ loopUp /\ at[d] = "out" /\ d[1] \notin Risky \cup Confirming
  /\ Accept(d[1]) /\ (At(d, "dispatch") \/ At(d, "ended"))
  /\ UNCHANGED <<now, holds, tables, card, loopUp, ran, askedForText, restarts>>

\* requires_confirmation: a token is issued and its card sent.
HandleRisky(d) ==
  /\ loopUp /\ at[d] = "out" /\ d[1] \in Risky
  /\ Accept(d[1]) /\ At(d, "ended")
  /\ pending' = pending \cup {d}
  /\ UNCHANGED <<now, holds, approved, card, loopUp, ran, askedForText, restarts>>

\* Mutant: confirm reads the token and leaves it in _pending.
ConfirmKeeps(t) ==
  /\ t \in pending /\ approved' = approved \cup {t} /\ UNCHANGED pending

\* LarkApprovalManager.confirm
Confirm(t) ==
  /\ t \in pending /\ pending' = pending \ {t} /\ approved' = approved \cup {t}

\* _consume_approval_command: the text confirms a token, or names none that waits.
HandleConfirm(d) ==
  /\ loopUp /\ at[d] = "out" /\ d[1] \in Confirming /\ Accept(d[1])
  /\ \/ \E t \in pending : /\ Confirm(t) /\ At(d, "dispatch")
                           /\ holds' = [holds EXCEPT ![d] = t]
     \/ At(d, "ended") /\ UNCHANGED <<holds, tables>>
  /\ UNCHANGED <<now, card, loopUp, ran, askedForText, restarts>>

\* The cancel command, which is answered like any other message.
CancelAll ==
  /\ loopUp /\ pending \cup approved # {}
  /\ pending' = {} /\ approved' = {}
  /\ UNCHANGED <<now, dedupe, at, holds, card, loopUp, ran, askedForText, restarts>>

\* Quick command, goal runtime or agent: an approved request is executed only if its grant
\* is still there, and the grant goes with it.  A command that is refused (rights, target,
\* provider) or raises before it asks for the grant leaves the grant, one that fails after it
\* has used the grant up.  The reply changes nothing here.
Execute(t) ==
  \/ /\ t \in approved /\ approved' = approved \ {t}
     /\ ran' = [ran EXCEPT ![t] = @ + 1] \/ UNCHANGED ran
  \/ UNCHANGED <<ran, approved>>

Dispatch(d) ==
  /\ loopUp /\ at[d] = "dispatch" /\ At(d, "ended")
  /\ IF holds[d] = NoToken THEN ran' = [ran EXCEPT ![d[1]] = @ + 1] /\ UNCHANGED approved
                           ELSE Execute(holds[d])
  /\ UNCHANGED <<now, dedupe, holds, pending, card, loopUp, askedForText, restarts>>

-----------------------------------------------------------------------------
\* handle_card_action, on the SDK thread

Card(t, st) == card' = [card EXCEPT ![t] = st]

\* approval_confirm
Click(t) ==
  /\ card[t] = "none" /\ Confirm(t) /\ Card(t, "confirmed")
  /\ UNCHANGED <<now, dedupe, at, holds, loopUp, ran, askedForText, restarts>>

\* call_soon_threadsafe, or the advice to confirm by text.
Hand(t) ==
  /\ card[t] = "confirmed"
  /\ IF loopUp THEN Card(t, "scheduled") /\ UNCHANGED askedForText
               ELSE Card(t, "ended") /\ askedForText' = askedForText \cup {t}
  /\ UNCHANGED <<now, dedupe, at, holds, tables, loopUp, ran, restarts>>

\* _schedule_approved_card_action: handle_message with the token.  A request that reads
\* like something to remember is answered with a proposal card, and is not dispatched.
HandleCard(t) ==
  /\ loopUp /\ card[t] = "scheduled"
  /\ \/ Drop(t) /\ Card(t, "dropped")
     \/ Accept(t) /\ (Card(t, "dispatch") \/ Card(t, "ended"))
  /\ UNCHANGED <<now, at, holds, tables, loopUp, ran, askedForText, restarts>>

DispatchCard(t) ==
  /\ loopUp /\ card[t] = "dispatch" /\ Card(t, "ended") /\ Execute(t)
  /\ UNCHANGED <<now, dedupe, at, holds, pending, loopUp, askedForText, restarts>>

-----------------------------------------------------------------------------
\* The event loop closes; the SDK thread may outlive it.
CloseLoop ==
  /\ loopUp /\ restarts < MaxRestarts /\ restarts' = restarts + 1
  /\ loopUp' = FALSE
  /\ at' = [d \in Deliveries |-> IF at[d] = "out" THEN "out" ELSE "ended"]
  /\ card' = [t \in Tokens |-> IF card[t] \in {"none", "confirmed"} THEN card[t] ELSE "ended"]
  /\ UNCHANGED <<now, dedupe, holds, tables, ran, askedForText>>

Restart ==
  /\ ~loopUp /\ loopUp' = TRUE
  /\ seen' = <<>> /\ pending' = {} /\ approved' = {}
  /\ accepted' = [i \in Ids |-> Never] /\ since' = [i \in Ids |-> {}]
  /\ card' = [t \in Tokens |-> IF card[t] = "none" THEN "none" ELSE "ended"]
  /\ askedForText' = {}
  /\ UNCHANGED <<now, at, holds, ran, restarts>>

Tick == now < MaxTime /\ now' = now + 1
        /\ UNCHANGED <<dedupe, at, holds, tables, card, loopUp, ran, askedForText, restarts>>

Handle(d) == HandleDuplicate(d) \/ HandleDenied(d) \/ HandlePlain(d)
             \/ HandleRisky(d) \/ HandleConfirm(d)
CardWork(t) == Hand(t) \/ HandleCard(t) \/ DispatchCard(t)
Next == \/ \E d \in Deliveries : Handle(d) \/ Dispatch(d)
        \/ \E t \in Tokens : Click(t) \/ CardWork(t)
        \/ CancelAll \/ CloseLoop \/ Restart \/ Tick
Spec == Init /\ [][Next]_vars
FairSpec == Spec /\ \A t \in Tokens : WF_vars(CardWork(t))

-----------------------------------------------------------------------------
TypeOK ==
  /\ now \in 0..MaxTime
  /\ seen \in Seq(Ids \X (0..MaxTime)) /\ Len(seen) <= MaxSize
  /\ at \in [Deliveries -> {"out", "dispatch", "ended"}]
  /\ holds \in [Deliveries -> Tokens \cup {NoToken}]
  /\ pending \subseteq Tokens /\ approved \subseteq Tokens
  /\ card \in [Tokens -> {"none", "confirmed", "scheduled", "dispatch", "dropped", "ended"}]
  /\ loopUp \in BOOLEAN /\ ran \in [Ids -> Nat] /\ askedForText \subseteq Tokens
  /\ accepted \in [Ids -> Never..MaxTime] /\ since \in [Ids -> SUBSET Ids]
  /\ restarts \in 0..MaxRestarts

\* One confirmation, one execution: not by a card and a text together, not by a card
\* event that is delivered again, not after a restart.  What ran has no grant left.
ConfirmedRunsOnce ==
  \A t \in Tokens : ran[t] <= 1 /\ (ran[t] = 1 => t \notin pending \cup approved)

\* A redelivery is dropped for ttl_seconds, unless the process restarted or max_size
\* other messages came in between.
DedupeWindow ==
  \A i \in Ids :
    now - accepted[i] <= Ttl /\ Cardinality(since[i]) < MaxSize => Known(i)

\* A click answered "confirmed, executing" is taken up and answered: it is not lost between
\* the SDK's thread and the loop and not dropped as a message that came before; unless the
\* loop closed.
NoneOutstanding == restarts > 0 \/ \A t \in Tokens : card[t] \in {"none", "ended"}

\* Violated: such a click is executed ("confirmed, executing"), or at least its grant does
\* not stay behind.  A proposal card, a refusal and an early failure leave it there.
NoGrantLeftBehind == \A t \in Tokens : card[t] = "ended" => t \notin approved

\* Violated: a user told to confirm by text can do so.
TextConfirmationWorks == \A t \in askedForText : t \in pending
=============================================================================
