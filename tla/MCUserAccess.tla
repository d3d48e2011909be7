------------------------------ MODULE MCUserAccess ------------------------------
EXTENDS UserAccess, TLC

CONSTANTS a1, a2, b1, u1, u2, p1, p2, k1, k2,
          c1, c2, v1, v2   \* commands and users of LarkOAuth

MCPlaces == {a1, a2, b1}
MCUserOf == [p \in {a1, a2, b1} |-> IF p = b1 THEN u2 ELSE u1]
MCProjects == {p1, p2}
MCCommands == {k1, k2}

MCLarkUsers == {v1, v2}
MCCalls == {c1, c2}
MCLives == {0, 2}

Symmetric == Permutations(MCCalls) \cup Permutations(MCLarkUsers)
=================================================================================
