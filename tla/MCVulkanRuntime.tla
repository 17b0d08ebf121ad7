---- MODULE MCVulkanRuntime ----
EXTENDS VulkanRuntime, TLC

Symmetry == Permutations(Threads) \cup Permutations(Blocks)
====
