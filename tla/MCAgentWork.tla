------------------------------ MODULE MCAgentWork ------------------------------
\* Two patterns past their retention are cleaned while others and a single write are
\* stored over the same connection; and the turns of two users, of one user, and of the
\* one user of the web interface.
EXTENDS AgentWork

CONSTANTS w1, p1, p2, a1, a2,
          u1, u2, ana, ben, m1, m2, m3, c1, c2

MCWrites == {w1}
MCPatterns == {p1, p2}
MCRowIds == 1..4
MCStored == {<<1, a1>>, <<2, a2>>}

MCOrder == <<m1, m2, m3>>
Both == [t \in Turns |-> IF t = u1 THEN ana ELSE ben]
One == [t \in Turns |-> ana]
MCSettings == [mode : {"graph", "legacy"}, userOf : {Both, One}, ownLoops : BOOLEAN]
              \ [mode : {"graph", "legacy"}, userOf : {Both}, ownLoops : {TRUE}]
================================================================================
