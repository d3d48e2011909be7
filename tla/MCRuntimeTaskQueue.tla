--------------------------- MODULE MCRuntimeTaskQueue ---------------------------
\* Three goals, two consumers and two slots: a slot can be handed over while
\* another goal is cancelled, settled or skipped.
EXTENDS RuntimeTaskQueue, TLC

Symmetry == Permutations(Goals) \cup Permutations(Consumers)
=============================================================================
