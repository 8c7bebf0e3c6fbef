------------------------- MODULE MCPyApiIntegration -------------------------
(* Small instances of PyApiIntegration for TLC. *)
EXTENDS PyApiIntegration, TLC

CONSTANTS t1, t2, ada

TwoThreads == {t1, t2}
NoUser     == {}
OneUser    == {ada}

SameThreads == Permutations(Threads)
=============================================================================
