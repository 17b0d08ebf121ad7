---- MODULE MCVulkanQueue ----
EXTENDS VulkanQueue, TLC

Symmetry == Permutations(Threads) \cup Permutations(Commands)
====
