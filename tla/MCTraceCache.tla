---- MODULE MCTraceCache ----
EXTENDS TraceCache, TLC

Symmetry == Permutations(Threads)
====
