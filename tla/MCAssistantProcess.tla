-------------------------- MODULE MCAssistantProcess --------------------------
\* Model values only: see the .cfg.
EXTENDS AssistantProcess
===============================================================================
