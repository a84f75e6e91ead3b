--------------------------- MODULE MCSignalHandler ---------------------------
(* Instances of SignalHandler for TLC.                                      *)
EXTENDS SignalHandler, TLC

CONSTANTS c1, c2, c3, t1, t2

MCCallbacks == {c1, c2, c3}
MCThreads   == {t1, t2}

Symmetric == Permutations(MCCallbacks) \cup Permutations(MCThreads)
=============================================================================
