--------------------------- MODULE MCBlockedRuntime ---------------------------
EXTENDS BlockedRuntime, TLC

Interchangeable == Permutations(Caller) \cup Permutations(Runtime)
===============================================================================
