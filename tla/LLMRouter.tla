------------------------------- MODULE LLMRouter -------------------------------
(***************************************************************************)
(* llm/router.py over llm/openai_compat.py: a call asks one provider after *)
(* the other, starting at the one that answered last; each provider keeps  *)
(* a circuit, which failures open and an expired deadline or a success     *)
(* closes.  Calls are coroutines of one loop and share both: between two   *)
(* awaits, a call passes every provider whose circuit is open.  Closing    *)
(* the HTTP client is part of the step that leaves it.                     *)
(***************************************************************************)
EXTENDS Integers, FiniteSets, Sequences, SequencesExt

CONSTANTS Order,        \* the providers, as configured
          Calls,
          Retries,      \* max_retries
          Threshold,    \* failure_threshold
          Cooldown, QuotaCooldown,
          MaxTime

Providers == Range(Order)

LLMRouterAssumption ==
  /\ Order \in Seq(Providers) /\ Order # <<>> /\ IsInjective(Order)
  /\ Retries \in Nat /\ Threshold \in Nat \ {0} /\ MaxTime \in Nat
  /\ Cooldown \in Nat \ {0} /\ QuotaCooldown \in Nat \ {0}

VARIABLES now,
          active,       \* _active_provider
          failures,     \* _consecutive_failures of each provider
          until,        \* _circuit_open_until
          call,         \* each call: where it is, whom it may still ask, its errors
          quotaUntil    \* what a quota failure promised, until a success

circuits == <<failures, until>>
vars == <<now, active, circuits, call, quotaUntil>>

Idle == [at |-> "idle", todo |-> <<>>, attempt |-> 0, errors |-> {}]
Ended == {"answered", "unavailable", "auth", "rejected", "raised"}
Errors == Providers \X {"unavailable", "auth"}

Init ==
  /\ now = 0 /\ active = Head(Order)
  /\ failures = [p \in Providers |-> 0] /\ until = [p \in Providers |-> 0]
  /\ call = [c \in Calls |-> Idle] /\ quotaUntil = [p \in Providers |-> 0]

Open(p) == now < until[p]

\* _candidates: the active provider first, the others in their order.
Candidates ==
  LET i == SelectInSeq(Order, LAMBDA p : p = active)
  IN  SubSeq(Order, i, Len(Order)) \o SubSeq(Order, 1, i - 1)

-----------------------------------------------------------------------------
\* The circuit of one provider.  These define what the next step leaves in it.

\* _record_failure(kind) of p and, where the call goes on to another provider,
\* _ensure_available of that one, which forgets an expired circuit.
Failure(p, kind, to) ==
  LET count == IF kind = "quota" THEN Threshold ELSE failures[p] + 1
      reset == {q \in to \ {p} : until[q] > 0}
  IN  /\ failures' = [q \in Providers |-> IF q = p THEN count
                                          ELSE IF q \in reset THEN 0 ELSE failures[q]]
      /\ until' = [q \in Providers |->
                     IF q = p /\ count >= Threshold
                     THEN now + (IF kind = "quota" THEN QuotaCooldown ELSE Cooldown)
                     ELSE IF q \in reset THEN 0 ELSE until[q]]

\* _ensure_available alone.
Ensure(to) ==
  LET reset == {q \in to : until[q] > 0}
  IN  /\ until' = [q \in Providers |-> IF q \in reset THEN 0 ELSE until[q]]
      /\ failures' = [q \in Providers |-> IF q \in reset THEN 0 ELSE failures[q]]

-----------------------------------------------------------------------------
\* _invoke: the call passes the open circuits of "rest" and asks the first other
\* provider; with none left it raises what it has collected.

NextOf(rest) == SelectInSeq(rest, LAMBDA p : ~Open(p))
Target(rest) == IF NextOf(rest) = 0 THEN {} ELSE {rest[NextOf(rest)]}

\* Mutant: the rest is computed again from the active provider.
GoOnAfresh(c, rest, errs) ==
  LET k == NextOf(Candidates)
  IN  IF rest = <<>> \/ k = 0 THEN call' = [call EXCEPT ![c].at = "unavailable"]
      ELSE call' = [call EXCEPT ![c] = [at |-> "asked", todo |-> SubSeq(Candidates, k, Len(Order)),
                                        attempt |-> 0, errors |-> errs]]

GoOn(c, rest, errs) ==
  LET k == NextOf(rest)
      passed == IF k = 0 THEN Range(rest) ELSE Range(SubSeq(rest, 1, k - 1))
      all == errs \cup {<<p, "unavailable">> : p \in passed}
  IN  call' = [call EXCEPT ![c] =
        [at |-> IF k > 0 THEN "asked"
                ELSE IF \A e \in all : e[2] = "auth" THEN "auth" ELSE "unavailable",
         todo |-> IF k > 0 THEN SubSeq(rest, k, Len(rest)) ELSE <<>>,
         attempt |-> 0, errors |-> all]]

Begin(c) ==
  /\ call[c].at = "idle"
  /\ GoOn(c, Candidates, {}) /\ Ensure(Target(Candidates))
  /\ UNCHANGED <<now, active, quotaUntil>>

Asks(c) == Head(call[c].todo)
Asked(c) == call[c].at = "asked"
End(c, how) == call' = [call EXCEPT ![c].at = how, ![c].todo = <<>>]

\* An answer with text: _record_success, and the provider becomes the active one.
Answer(c) ==
  /\ Asked(c) /\ End(c, "answered")
  /\ active' = Asks(c)
  /\ failures' = [failures EXCEPT ![Asks(c)] = 0] /\ until' = [until EXCEPT ![Asks(c)] = 0]
  /\ quotaUntil' = [quotaUntil EXCEPT ![Asks(c)] = 0]
  /\ UNCHANGED now

\* A transient status, no text, a transport error or bad JSON, with attempts left: a
\* retry after the backoff, which does not look at the circuit.
Retry(c) ==
  /\ Asked(c) /\ call[c].attempt < Retries
  /\ call' = [call EXCEPT ![c].attempt = @ + 1]
  /\ UNCHANGED <<now, active, circuits, quotaUntil>>

\* The same at the last attempt, or a quota failure at any: LLMUnavailableError.
Unavailable(c, kind) ==
  /\ Asked(c)
  /\ kind = "quota" \/ call[c].attempt = Retries
  /\ LET rest == Tail(call[c].todo)
     IN  /\ GoOn(c, rest, call[c].errors \cup {<<Asks(c), "unavailable">>})
         /\ Failure(Asks(c), kind, Target(rest))
  /\ quotaUntil' = IF kind = "quota" THEN [quotaUntil EXCEPT ![Asks(c)] = now + QuotaCooldown]
                   ELSE quotaUntil
  /\ UNCHANGED <<now, active>>

\* 401 or 403: the next provider, and nothing is counted.
AuthFails(c) ==
  /\ Asked(c)
  /\ LET rest == Tail(call[c].todo)
     IN  GoOn(c, rest, call[c].errors \cup {<<Asks(c), "auth">>}) /\ Ensure(Target(rest))
  /\ UNCHANGED <<now, active, quotaUntil>>

\* Any other 4xx ends the call; so does an exception that is no LLMError, or a cancel.
Rejected(c) ==
  /\ Asked(c) /\ \E how \in {"rejected", "raised"} : End(c, how)
  /\ UNCHANGED <<now, active, circuits, quotaUntil>>

Tick == now < MaxTime /\ now' = now + 1 /\ UNCHANGED <<active, circuits, call, quotaUntil>>

Reply(c) == \/ Answer(c) \/ Retry(c) \/ AuthFails(c) \/ Rejected(c)
            \/ \E kind \in {"quota", "transient"} : Unavailable(c, kind)
Next == Tick \/ \E c \in Calls : Begin(c) \/ Reply(c)
Spec == Init /\ [][Next]_vars

\* Every request has a timeout, every backoff a bound.
FairSpec == Spec /\ \A c \in Calls : WF_vars(Reply(c))

-----------------------------------------------------------------------------
\* A deadline is never further away than the longest cooldown.
TypeOK ==
  /\ now \in 0..MaxTime /\ active \in Providers
  /\ failures \in [Providers -> Nat] /\ quotaUntil \in [Providers -> Nat]
  /\ until \in [Providers -> 0..(now + Max({Cooldown, QuotaCooldown}))]
  /\ call \in [Calls -> [at : {"idle", "asked"} \cup Ended, todo : Seq(Providers),
                         attempt : 0..Retries, errors : SUBSET Errors]]

FailedAt(c) == {e[1] : e \in call[c].errors}

\* Whatever other calls do to the active provider meanwhile, a call asks or passes each
\* provider once, and gives up only after all of them.
EachProviderOnce ==
  \A c \in Calls :
    /\ Asked(c) => /\ FailedAt(c) \cap Range(call[c].todo) = {}
                   /\ FailedAt(c) \cup Range(call[c].todo) = Providers
    /\ call[c].at \in {"unavailable", "auth"} => FailedAt(c) = Providers

\* A count at the threshold has a deadline: a provider whose cooldown is over starts
\* from zero, also when other calls fail there at the same time.
CountedOut == \A p \in Providers : failures[p] >= Threshold => until[p] > 0

\* Every call ends.
NoneAsked == \A c \in Calls : ~Asked(c)
CallsEnd == []<>NoneAsked

\* Violated: a quota failure keeps its provider closed for the quota cooldown, until a
\* request to it succeeds.
QuotaCircuitIsLongLived == \A p \in Providers : quotaUntil[p] > now => until[p] >= quotaUntil[p]
=============================================================================
