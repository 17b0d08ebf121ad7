------------------------- MODULE MCKernelDiskCache --------------------------
(* Two containers that share a cache directory: both processes have id 1.   *)
EXTENDS KernelDiskCache
MCPid == [p \in Procs |-> 1]
=============================================================================
