------------------------------ MODULE MCTensor ------------------------------
(* Tensor with a shape that fits in a larger one.                  *)
EXTENDS Tensor
CONSTANTS zero, small, big
MCBytes == [s \in Shapes |-> CASE s = zero -> 0 [] s = big -> 2 [] OTHER -> 1]
Symmetry == Permutations(Blocks) \cup Permutations(Objs) \cup Permutations(Threads)
=============================================================================
