--------------------------- MODULE MCTraceReplay ----------------------------
(* TraceReplay with two buffers; bx also has a view of another shape.       *)
EXTENDS TraceReplay, TLC
CONSTANTS bx, by, s1, s2
MCTensors == {<<bx, s1>>, <<by, s1>>, <<bx, s2>>}
MCContent(b) == <<IF b = bx THEN "x" ELSE "y">>
Symmetry == Permutations(Temps)
=============================================================================
