----------------------------- MODULE TracePlan ------------------------------
(***************************************************************************)
(* What becomes of a recorded DAG, as functions from the memory before an   *)
(* execute() to the memory after it:                                        *)
(*   - the elementwise kernel: every input loaded, the chain evaluated in   *)
(*     registers, the live nodes stored;                                    *)
(*   - the row-norm kernel of two passes (trace_plan.cpp,                   *)
(*     spirv_emit_rownorm.cpp; the PTX emitter follows the same plan);      *)
(*   - the eager program, one op at a time (trace_eager.cpp).               *)
(* All operands have the same number of elements and are addressed alike,   *)
(* so a tensor is one value: a thread touches one place in every buffer.    *)
(***************************************************************************)
EXTENDS TraceDAG, FiniteSetsExt

Inputs(nodes) == {i \in DOMAIN nodes : nodes[i].op = "input"}
Live(nodes)   == {i \in DOMAIN nodes : nodes[i].live}
Norms(nodes)  == {i \in DOMAIN nodes : nodes[i].op = "norm"}
Sources(n)    == {n.in[k] : k \in DOMAIN n.in}

(* TraceDAG::analyze_liveness.                                              *)
HasConsumer(nodes, i) == \E j \in DOMAIN nodes : i \in Sources(nodes[j])
AnalyzeLiveness(nodes) ==
  [i \in DOMAIN nodes |->
    [nodes[i] EXCEPT !.live = /\ nodes[i].op # "input"
                              /\ nodes[i].inplace \/ ~HasConsumer(nodes, i)]]

(* The storage end_trace() allocates for a variable.                        *)
Home(t) == <<t>>

(* TraceContext::materialize_: the live results still held get storage.     *)
Materialize(nodes, tr) ==
  [i \in DOMAIN nodes |->
    IF ~nodes[i].live \/ nodes[i].buf # None THEN nodes[i]
    ELSE IF tr[i] = None THEN [nodes[i] EXCEPT !.live = FALSE]
    ELSE [nodes[i] EXCEPT !.buf = Home(tr[i])]]

-----------------------------------------------------------------------------
(* eval_chain: the values of all nodes, given those of some.                *)
Chain(nodes, given) ==
  LET v[i \in DOMAIN nodes] ==
        IF i \in DOMAIN given THEN given[i]
        ELSE Ap(nodes[i].op, [k \in DOMAIN nodes[i].in |-> v[nodes[i].in[k]]])
  IN  v

Load(nodes, mem) == [i \in Inputs(nodes) |-> mem[nodes[i].buf]]

(* store_lanes for the nodes outs, in node order: the last one stays.       *)
Store(mem, nodes, outs, v) ==
  [b \in DOMAIN mem |->
    LET to == {o \in outs : nodes[o].buf = b} IN
    IF to = {} THEN mem[b] ELSE v[Max(to)]]

ElementwiseKernel(nodes, mem) ==
  Store(mem, nodes, Live(nodes), Chain(nodes, Load(nodes, mem)))

-----------------------------------------------------------------------------
(* build_row_norm_plan.  pre is what the reduction's operand x needs.       *)
NormNode(nodes) == CHOOSE i \in Norms(nodes) : TRUE

InPre(nodes, x) ==
  LET pre[i \in DOMAIN nodes] ==
        \/ i = x
        \/ \E j \in (i + 1) .. Len(nodes) : i \in Sources(nodes[j]) /\ pre[j]
  IN  {i \in DOMAIN nodes : pre[i]}

PostOnlyNeedsX(nodes, preIds, postIds, x) ==
  \A p \in postIds : Sources(nodes[p]) \cap (preIds \ {x}) = {}

(* reload is x_output: pass two reads back what pass one stored.            *)
RowNormPlan(nodes) ==
  LET norm    == NormNode(nodes)
      x       == nodes[norm].in[1]
      pre     == InPre(nodes, x)
      preIds  == pre \ Inputs(nodes)
      postIds == DOMAIN nodes \ (pre \cup Inputs(nodes) \cup {norm})
  IN  [norm |-> norm, x |-> x, postIds |-> postIds,
       preOutputs |-> pre \cap Live(nodes),
       reload |-> /\ preIds # {}
                  /\ x \in Live(nodes)
                  /\ PostOnlyNeedsX(nodes, preIds, postIds, x)]

(* Mutant: a pre chain that stores is replayed from its inputs.             *)
RowNormPlannedAlways(nodes) ==
  /\ Cardinality(Norms(nodes)) = 1
  /\ nodes[NormNode(nodes)].shape = nodes[1].shape

(* The plan is accepted: one reduction, of the dominant shape (the first of *)
(* the largest), and nothing stored in pass one unless it is read back.     *)
RowNormPlanned(nodes) ==
  /\ Cardinality(Norms(nodes)) = 1
  /\ nodes[NormNode(nodes)].shape = nodes[1].shape
  /\ LET plan == RowNormPlan(nodes) IN plan.reload \/ plan.preOutputs = {}

(* Pass one evaluates and stores the pre chain and takes the statistics;    *)
(* pass two reloads x or replays the pre chain, from what memory holds now, *)
(* and stores the outputs of the post chain.                                *)
RowNormKernel(nodes, mem) ==
  LET plan == RowNormPlan(nodes)
      v1   == Chain(nodes, Load(nodes, mem))
      mem1 == Store(mem, nodes, plan.preOutputs, v1)
      in2  == Load(nodes, mem1)
      x2   == IF plan.reload THEN mem1[nodes[plan.x].buf] ELSE Chain(nodes, in2)[plan.x]
      v2   == Chain(nodes, [i \in DOMAIN in2 \cup {plan.x, plan.norm} |->
                              IF i = plan.x THEN x2
                              ELSE IF i = plan.norm THEN Norm(v1[plan.x], x2)
                              ELSE in2[i]])
  IN  Store(mem1, nodes, Live(nodes) \ plan.preOutputs, v2)

-----------------------------------------------------------------------------
(* Program::run.  A node with a buffer is a view of it, read when used; one  *)
(* without is a scratch tensor.  A node nothing reads or stores is skipped.  *)
Program(nodes, mem) ==
  LET Read(s, i) == IF nodes[i].buf # None THEN s.mem[nodes[i].buf] ELSE s.tmp[i]
      run[i \in 0 .. Len(nodes)] ==
        IF i = 0 THEN [mem |-> mem, tmp |-> [j \in DOMAIN nodes |-> <<>>]]
        ELSE LET s == run[i - 1]  n == nodes[i]
                 v == Ap(n.op, [k \in DOMAIN n.in |-> Read(s, n.in[k])])
             IN  IF n.op = "input" \/ (n.buf = None /\ ~HasConsumer(nodes, i)) THEN s
                 ELSE IF n.buf # None THEN [s EXCEPT !.mem[n.buf] = v]
                 ELSE [s EXCEPT !.tmp[i] = v]
  IN  run[Len(nodes)].mem

(* Mutant: a rebound program keeps the outputs it was compiled with.        *)
ReboundInputsOnly(nodes, buf) ==
  [i \in DOMAIN nodes |->
    IF i \in Inputs(nodes) THEN [nodes[i] EXCEPT !.buf = buf[i]] ELSE nodes[i]]

(* Program::rebound, with the buffers compile_and_cache hands it on a hit:  *)
(* those of the inputs and of the live nodes of the new trace.              *)
Rebound(nodes, buf) ==
  [i \in DOMAIN nodes |->
    IF i \in Inputs(nodes) \cup Live(nodes)
    THEN [nodes[i] EXCEPT !.buf = buf[i]] ELSE nodes[i]]

-----------------------------------------------------------------------------
(* compile_and_cache: which executor runs the DAG.  A backend may leave any  *)
(* trace to the eager program; fused says it has a kernel for this one.     *)
Fusable(nodes) == Norms(nodes) = {} \/ RowNormPlanned(nodes)

Execute(nodes, mem, fused) ==
  IF ~fused THEN Program(nodes, mem)
  ELSE IF Norms(nodes) = {} THEN ElementwiseKernel(nodes, mem)
  ELSE RowNormKernel(nodes, mem)
=============================================================================
