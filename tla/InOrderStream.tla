---------------------------- MODULE InOrderStream ----------------------------
(***************************************************************************)
(* What the Vulkan stream promises (src/vulkan/detail/stream.h, "Ordering"):*)
(* the work given to a device is executed one command at a time, exactly   *)
(* in the order it was issued, across batches and graph launches.          *)
(***************************************************************************)
EXTENDS Naturals, Sequences, SequencesExt

VARIABLES
    issued,    \* the commands given to the device, in order
    ran        \* the commands it has executed, in the order it executed them

vars == <<issued, ran>>

Init == issued = << >> /\ ran = << >>

\* An op, or a launch of a whole graph, is added at the end.
Issue ==
    /\ issued' # issued
    /\ IsPrefix(issued, issued')
    /\ UNCHANGED ran

Run ==
    /\ Len(ran) < Len(issued)
    /\ ran' = Append(ran, issued[Len(ran) + 1])
    /\ UNCHANGED issued

\* The driver refuses a submission: the latest work that has not run is dropped.
Lose ==
    /\ IsStrictPrefix(issued', issued)
    /\ Len(ran) <= Len(issued')
    /\ UNCHANGED ran

Next == Issue \/ Run \/ Lose

Spec == Init /\ [][Next]_vars
=============================================================================
