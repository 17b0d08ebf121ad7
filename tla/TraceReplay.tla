---------------------------- MODULE TraceReplay -----------------------------
(***************************************************************************)
(* end_trace(): the recorded DAG is closed, its results are given storage,  *)
(* and it is compiled and executed once (trace_dag.cpp: end,                *)
(* trace_compiler_cpu.cpp: compile_and_cache).  The properties compare the  *)
(* memory it leaves with that of the eager ops the trace stands for.        *)
(*                                                                         *)
(* Executing the handle again needs no action: an execution is a function   *)
(* of the memory, whose contents are arbitrary terms here.                  *)
(***************************************************************************)
EXTENDS TracePlan

VARIABLES
  mem,      \* storage after the execution: the buffers and the homes
  home,     \* the variables that own storage after end_trace()
  fused     \* whether a fused kernel ran the trace

vars == <<recVars, mem, home, fused>>

Storage == Buffers \cup {Home(t) : t \in Temps}

(* The storage allocated for a variable is none of the client's.            *)
ASSUME HomeAssumption == \A t \in Temps : Home(t) \notin Buffers \cup {None}

Fresh == [s \in Storage |-> IF s \in Buffers THEN Content(s) ELSE <<>>]

Init == TraceInit /\ mem = Fresh /\ home = {} /\ fused = FALSE

Record == RecordNext /\ mem' = Fresh /\ home' = {} /\ fused' = FALSE

Closed(nodes) == Materialize(AnalyzeLiveness(nodes), tracked)

(* end_trace() of a trace with a live result.                               *)
EndTrace ==
  /\ phase = "tracing"
  /\ LET nodes == Closed(dag.nodes) IN
     /\ Live(nodes) # {}
     /\ dag' = [dag EXCEPT !.nodes = nodes, !.act = [b \in Buffers |-> 0]]
     /\ home' = {t \in Temps : \E i \in Live(nodes) : nodes[i].buf = Home(t)}
     /\ fused' \in BOOLEAN /\ (fused' => Fusable(nodes))
     /\ mem' = Execute(nodes, Fresh, fused')
  /\ phase' = "ran"
  /\ jitSlot' = [t \in Temps |-> 0]
  /\ tracked' = [s \in Slots |-> None]
  /\ UNCHANGED <<reads, ref, tref>>

(* Without one, end() throws; the context is left idle and the variables    *)
(* empty.                                                                   *)
EndTraceThrows ==
  /\ phase = "tracing"
  /\ Live(Closed(dag.nodes)) = {}
  /\ phase' = "idle"
  /\ dag' = EmptyDag
  /\ jitSlot' = [t \in Temps |-> 0]
  /\ tracked' = [s \in Slots |-> None]
  /\ reads' = 0
  /\ tref' = [t \in Temps |-> <<>>]
  /\ UNCHANGED <<ref, mem, home, fused>>

Next == Record \/ EndTrace \/ EndTraceThrows
Spec == Init /\ [][Next]_vars

-----------------------------------------------------------------------------
(* Where an execution is known to differ from the eager ops.                *)

(* store() into a buffer the trace reads afterwards: the copy has a         *)
(* consumer, so it is not live, and no kernel stores it.                    *)
StoreNotLive(nodes) ==
  \E i \in DOMAIN nodes : nodes[i].op = "copy" /\ ~nodes[i].live

(* The row-norm kernel's pass one has overwritten an input its post chain   *)
(* reads in pass two.                                                       *)
PostReadsOverwritten(nodes) ==
  /\ Cardinality(Norms(nodes)) = 1
  /\ LET plan == RowNormPlan(nodes)
         stored == {nodes[o].buf : o \in plan.preOutputs}
     IN  \E p \in plan.postIds : \E i \in Sources(nodes[p]) \cap Inputs(nodes) :
           nodes[i].buf \in stored

RanAsEager == /\ \A b \in Buffers : mem[b] = ref[b]
              /\ \A t \in home : mem[Home(t)] = tref[t]

(* A trace does what its ops would have done one by one: every buffer of    *)
(* the client and every tensor end_trace() gave storage hold the eager      *)
(* values, whichever executor runs it.  Exempt are stores the trace reads   *)
(* again, and for the fused kernels reads through a second view of a buffer *)
(* the trace has written and the overwritten inputs of a row norm.          *)
ReplayExact ==
  (/\ phase = "ran"
   /\ fused => /\ ~StoreNotLive(dag.nodes)
               /\ ~StaleRead(dag.nodes)
               /\ ~PostReadsOverwritten(dag.nodes))
  => RanAsEager

(* The storage of a later trace, all of it other than that of the first.    *)
Other(s) == <<s>>
ASSUME OtherAssumption == \A s \in Storage : Other(s) \notin Storage \cup {None}

(* The handle of an eager program is cached under the structure of the DAG  *)
(* and rebound to the buffers of a later trace of that structure.  Run on   *)
(* other storage (Other) it leaves there what the first trace left in its   *)
(* own, and writes nothing of the first trace, whose storage may be gone.   *)
(* Exempt, again, are stores the trace reads.                               *)
RebindExact ==
  (phase = "ran" /\ ~fused /\ ~StoreNotLive(dag.nodes)) =>
    LET there == {Other(s) : s \in Storage}
        nodes == Rebound(dag.nodes, [i \in DOMAIN dag.nodes |-> Other(dag.nodes[i].buf)])
        after == Program(nodes, [s \in Storage \cup there |->
                                   IF s \in Storage THEN mem[s] ELSE Fresh[s[1]]])
    IN  \A s \in Storage : after[Other(s)] = mem[s] /\ after[s] = mem[s]

(* What the plan builder claims of the row norm: "when nothing downstream   *)
(* of the reduction needs any other pre value" pass two may reload x, so a  *)
(* fused row norm, too, leaves the eager values.                            *)
RowNormExact ==
  (/\ phase = "ran" /\ fused /\ Norms(dag.nodes) # {}
   /\ ~StoreNotLive(dag.nodes) /\ ~StaleRead(dag.nodes))
  => RanAsEager

(* Types; and nothing but what the trace itself keeps remains of it.        *)
TypeOK ==
  /\ phase \in {"idle", "tracing", "ran"}
  /\ \A i \in DOMAIN dag.nodes :
       /\ dag.nodes[i].buf \in Storage \cup {None}
       /\ Sources(dag.nodes[i]) \subseteq 1 .. i - 1
  /\ \A b \in Buffers : {dag.act[b], dag.inp[b]} \subseteq 0 .. Len(dag.nodes)
  /\ jitSlot \in [Temps -> 0 .. Len(dag.nodes)]
  /\ tracked \in [Slots -> Temps \cup {None}]
  /\ reads \in 0 .. MaxReads
  /\ ref \in [Buffers -> Val] /\ tref \in [Temps -> Val]
  /\ mem \in [Storage -> Val]
  /\ home \subseteq Temps /\ fused \in BOOLEAN
=============================================================================
