---------------------------- MODULE MCLegacyRuntime ----------------------------
\* The plan has three steps: the first may be replayed, an interruption leaves the
\* second running, and the third is optional.
EXTENDS LegacyRuntime
================================================================================
