------------------------------- MODULE LarkOAuth -------------------------------
(***************************************************************************)
(* interface/lark_oauth.py: a user's authorization is a one-time state     *)
(* that the callback, from a browser or pasted into the chat, exchanges    *)
(* for a token; commands ask for the token, which is refreshed under a     *)
(* lock when it is about to expire.  Both requests run in threads, with    *)
(* the loop free meanwhile; only the refresh holds the lock.  Everything   *)
(* is process-local.  A token is the authorization it comes from, how      *)
(* often it was refreshed and its two deadlines.                           *)
(***************************************************************************)
EXTENDS Integers, FiniteSets, Sequences, FiniteSetsExt, SequencesExt

CONSTANTS Users,
          NStates,      \* how many authorizations are ever started
          Calls,        \* the commands that ask for a token
          TTL, Skew,    \* state_ttl_seconds, token_skew_seconds
          MaxHeld,      \* max_states
          Lives,        \* the lifetimes Lark may answer with, 0 for none
          MaxTime, MaxRestarts

States == 1..NStates

LarkOAuthAssumption ==
  /\ NStates \in Nat /\ TTL \in Nat /\ Skew \in Nat /\ MaxHeld \in Nat \ {0}
  /\ Lives \subseteq Nat /\ MaxTime \in Nat /\ MaxRestarts \in Nat

VARIABLES now, boot,
          made,         \* how each authorization was started, for those that were
          held,         \* _states
          callback,     \* each authorization's callback
          tokens,       \* _tokens, NoToken where there is none
          waiting,      \* _token_lock: the calls in its order, the first holds it
          call,         \* each call: where it is, its user, the token it read
          got           \* the refreshes that succeeded: which call, and the token it read

vars == <<now, boot, made, held, callback, tokens, waiting, call, got>>

Ended == {"answered", "refused", "failed", "lost"}
NoToken == [auth |-> 0, gen |-> 0, exp |-> 0, rexp |-> 0]
Start == [user : Users, at : 0..MaxTime, boot : 0..MaxRestarts]
Lost == [at |-> "lost", user |-> "nobody", token |-> NoToken]
Callbacks == {"none", "exchanging", "stored", "failed", "timeout", "lost"}

Init ==
  /\ now = 0 /\ boot = 0 /\ made = <<>> /\ held = {}
  /\ callback = [s \in States |-> "none"]
  /\ tokens = [u \in Users |-> NoToken] /\ waiting = <<>>
  /\ call = [c \in Calls |-> [at |-> "idle", user |-> "nobody", token |-> NoToken]]
  /\ got = {}

-----------------------------------------------------------------------------
Expired(s) == now - made[s].at > TTL
NewToken(s, gen, life, rlife) == [auth |-> s, gen |-> gen, exp |-> now + life, rexp |-> now + rlife]

\* _prune_states, the new state, and the eviction of the oldest ones.
HeldWith(s) ==
  LET kept == {t \in held : ~Expired(t)} \cup {s}
  IN  IF Cardinality(kept) > MaxHeld THEN kept \ {Min(kept)} ELSE kept

\* authorization_url
Authorize(u) ==
  LET s == Len(made) + 1
  IN  /\ s \in States
      /\ made' = Append(made, [user |-> u, at |-> now, boot |-> boot])
      /\ held' = HeldWith(s)
      /\ UNCHANGED <<now, boot, callback, tokens, waiting, call, got>>

\* handle_callback, from the browser or after handle_callback_url: the state is
\* consumed first, whatever comes of it.  An error, no code, or a state that is too
\* old ends it there.
Callback(s) ==
  /\ s \in held /\ held' = held \ {s}
  /\ \E next \in {"failed"} \cup (IF Expired(s) THEN {} ELSE {"exchanging"}) :
       callback' = [callback EXCEPT ![s] = next]
  /\ UNCHANGED <<now, boot, made, tokens, waiting, call, got>>

\* The exchange answers in time: the token is stored, without the lock.
Exchanged(s) ==
  /\ callback[s] = "exchanging" /\ callback' = [callback EXCEPT ![s] = "stored"]
  /\ \E l, r \in Lives : tokens' = [tokens EXCEPT ![made[s].user] = NewToken(s, 0, l, r)]
  /\ UNCHANGED <<now, boot, made, held, waiting, call, got>>

\* It raises, or exchange_timeout_seconds pass: what the thread brings later is dropped.
ExchangeFails(s) ==
  /\ callback[s] = "exchanging"
  /\ \E how \in {"failed", "timeout"} : callback' = [callback EXCEPT ![s] = how]
  /\ UNCHANGED <<now, boot, made, held, tokens, waiting, call, got>>

-----------------------------------------------------------------------------
\* access_token_for

Ask(c, u) ==
  /\ call[c].at = "idle"
  /\ call' = [call EXCEPT ![c] = [at |-> "waiting", user |-> u, token |-> NoToken]]
  /\ waiting' = Append(waiting, c)
  /\ UNCHANGED <<now, boot, made, held, callback, tokens, got>>

Holds(c) == waiting # <<>> /\ Head(waiting) = c
Fresh(t) == t.exp > now + Skew
Refreshable(t) == t.rexp > now
Return(c, how) ==
  /\ call' = [call EXCEPT ![c] = [at |-> how, user |-> "nobody", token |-> NoToken]]
  /\ waiting' = Tail(waiting)

\* Mutant: the token is read before the lock is taken.
ReadOutsideLock(c) ==
  /\ call[c].at = "waiting"
  /\ LET t == tokens[call[c].user]
     IN  /\ t # NoToken /\ ~Fresh(t) /\ Refreshable(t)
         /\ call' = [call EXCEPT ![c].at = "refreshing", ![c].token = t]
  /\ UNCHANGED <<now, boot, made, held, callback, tokens, waiting, got>>

\* Under the lock: a token that is fresh is returned, one that can be refreshed is
\* refreshed, and any other one is forgotten.
Read(c) ==
  /\ Holds(c) /\ call[c].at = "waiting"
  /\ LET t == tokens[call[c].user]
     IN  \/ /\ t # NoToken /\ ~Fresh(t) /\ Refreshable(t)
            /\ call' = [call EXCEPT ![c].at = "refreshing", ![c].token = t]
            /\ UNCHANGED <<tokens, waiting>>
         \/ /\ t # NoToken /\ Fresh(t)
            /\ Return(c, "answered") /\ UNCHANGED tokens
         \/ /\ t = NoToken \/ ~(Fresh(t) \/ Refreshable(t))
            /\ Return(c, "refused")
            /\ tokens' = [tokens EXCEPT ![call[c].user] = NoToken]
  /\ UNCHANGED <<now, boot, made, held, callback, got>>

\* The refresh answers: what was read stays out of the table, whatever is in it now.
Refreshed(c) ==
  /\ call[c].at = "refreshing"
  /\ \E l, r \in Lives :
       LET new == NewToken(call[c].token.auth, call[c].token.gen + 1, l, r)
       IN  tokens' = [tokens EXCEPT ![call[c].user] = new] /\ Return(c, "answered")
  /\ got' = got \cup {[call |-> c, old |-> call[c].token]}
  /\ UNCHANGED <<now, boot, made, held, callback>>

\* The refresh raises: the token stays, and the command fails.
RefreshFails(c) ==
  /\ call[c].at = "refreshing" /\ Return(c, "failed")
  /\ UNCHANGED <<now, boot, made, held, callback, tokens, got>>

-----------------------------------------------------------------------------
Tick == now < MaxTime /\ now' = now + 1
        /\ UNCHANGED <<boot, made, held, callback, tokens, waiting, call, got>>

\* The process restarts: states, tokens and whatever is under way are gone.
Restart ==
  /\ boot < MaxRestarts /\ boot' = boot + 1
  /\ held' = {} /\ tokens' = [u \in Users |-> NoToken] /\ waiting' = <<>>
  /\ callback' = [s \in States |-> IF callback[s] = "exchanging" THEN "lost" ELSE callback[s]]
  /\ call' = [c \in Calls |-> IF call[c].at \in {"waiting", "refreshing"} THEN Lost ELSE call[c]]
  /\ UNCHANGED <<now, made, got>>

ExchangeEnds(s) == Exchanged(s) \/ ExchangeFails(s)
RefreshEnds(c) == Refreshed(c) \/ RefreshFails(c)

Next ==
  \/ Tick \/ Restart
  \/ \E u \in Users : Authorize(u) \/ \E c \in Calls : Ask(c, u)
  \/ \E s \in States : Callback(s) \/ ExchangeEnds(s)
  \/ \E c \in Calls : Read(c) \/ RefreshEnds(c)

Spec == Init /\ [][Next]_vars

-----------------------------------------------------------------------------
Token == [auth : 0..NStates, gen : Nat, exp : Nat, rexp : Nat]

\* No more states are held than max_states, whoever asks for how many.
TypeOK ==
  /\ now \in 0..MaxTime /\ boot \in 0..MaxRestarts
  /\ made \in Seq(Start) /\ Len(made) <= NStates
  /\ held \subseteq 1..Len(made) /\ Cardinality(held) <= MaxHeld
  /\ callback \in [States -> Callbacks]
  /\ tokens \in [Users -> Token]
  /\ waiting \in Seq(Calls) /\ IsInjective(waiting)
  /\ call \in [Calls -> [at : {"idle", "waiting", "refreshing"} \cup Ended,
                         user : Users \cup {"nobody"}, token : Token]]
  /\ got \subseteq [call : Calls, old : Token]

\* A user's token comes from an authorization that this user started, in this process,
\* and whose callback stored it.
TokenIsOwn ==
  \A u \in Users : tokens[u] # NoToken =>
    LET s == tokens[u].auth
    IN  made[s].user = u /\ made[s].boot = boot /\ callback[s] = "stored"

\* An authorization is exchanged at most once, and no later than state_ttl_seconds
\* after it was started.
OneTimeState ==
  [][\A s \in States : callback'[s] = "exchanging" =>
       callback[s] = "exchanging" \/ (callback[s] = "none" /\ ~Expired(s) /\ s \notin held')]_vars

\* Two calls never refresh with the same token, which Lark accepts once.
RefreshedOnce ==
  /\ \A c, d \in Calls : call[c].at = "refreshing" /\ call[d].at = "refreshing" => c = d
  /\ \A g, h \in got : g.old = h.old => g = h

\* The one lock of all users is passed on by every call that ends, a refresh that raised
\* included: whoever waits for it waits for a call under way.
LockIsPassedOn == \A c \in Range(waiting) : call[c].at \in {"waiting", "refreshing"}

\* Violated: a completed authorization is what the next query uses, until another one
\* is completed.
CompletedAuthorizationStays ==
  [][\A u \in Users :
       tokens[u] # NoToken /\ tokens'[u] # NoToken /\ tokens'[u].auth # tokens[u].auth =>
          callback[tokens'[u].auth] = "exchanging"]_vars
=============================================================================
