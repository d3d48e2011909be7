--------------------------- MODULE MCApprovalManager ---------------------------
\* One user holds both tokens, another cancels what it does not have.
EXTENDS ApprovalManager, TLC

CONSTANTS u1, u2, t1, t2

MCOwner == (t1 :> u1) @@ (t2 :> u1)
=============================================================================
