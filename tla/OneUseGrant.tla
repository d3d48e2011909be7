------------------------------ MODULE OneUseGrant ------------------------------
(***************************************************************************)
(* What a confirmation promises: a request is asked for once, granted at   *)
(* most once and only while it is asked for, and the grant is used at most *)
(* once.  A request or a grant may be dropped at any time (expiry, a       *)
(* cancel, a restart, a tool call it does not cover), and stays dropped.   *)
(***************************************************************************)
CONSTANT Tokens

VARIABLE stage

Init == stage = [t \in Tokens |-> "new"]

Move(t, from, to) == stage[t] = from /\ stage' = [stage EXCEPT ![t] = to]

Ask(t) == Move(t, "new", "pending")
Grant(t) == Move(t, "pending", "granted")
Use(t) == Move(t, "granted", "used")

Drop(dropped) ==
  /\ \A t \in dropped : stage[t] \in {"pending", "granted"}
  /\ stage' = [t \in Tokens |-> IF t \in dropped THEN "void" ELSE stage[t]]

Next == \/ \E t \in Tokens : Ask(t) \/ Grant(t) \/ Use(t)
        \/ \E dropped \in SUBSET Tokens : Drop(dropped)

Spec == Init /\ [][Next]_stage
=============================================================================
