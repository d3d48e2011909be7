------------------------- MODULE MCConfirmedRequests -------------------------
EXTENDS ConfirmedRequests, TLC

CONSTANTS r1, c1, c2, t1, t2, plain, risky, confirm

MCRequests == {r1}
MCChats == {c1, c2}
MCTargets == {t1, t2}
MCFirst == {t1}

\* Lark delivers the risky message twice, the others once.  An id is known for its tick
\* and forgotten in the next, so expiry and capacity both happen with one tick.
MCMessages == {plain, risky, confirm}
MCCopies == plain :> 1 @@ risky :> 2 @@ confirm :> 1
==============================================================================
