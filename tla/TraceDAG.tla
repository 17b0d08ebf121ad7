------------------------------ MODULE TraceDAG ------------------------------
(***************************************************************************)
(* Recording a trace (src/src/jit/trace_dag.cpp, trace_ops.cpp): between    *)
(* begin_trace() and end_trace() the operators compute nothing.  Each one   *)
(* appends a node to a DAG and returns a symbolic Tensor, a name for that   *)
(* node; an op on the caller's own tensors finds their node by the address  *)
(* of their buffer.                                                         *)
(*                                                                         *)
(* Beside the DAG the module runs the same client program eagerly: ref and  *)
(* tref hold what its buffers and its variables would hold had each op been *)
(* executed at once.  A value is the term that computes it, in prefix form, *)
(* over the contents the buffers had when the trace began.                  *)
(***************************************************************************)
EXTENDS Naturals, Sequences, FiniteSets

CONSTANTS Buffers,   \* storage the client owns
          Shapes,    \* shapes with the same number of elements
          Tensors,   \* the client's tensors: <<buffer, shape>>, views included
          Temps,     \* the client's Tensor variables for traced results
          None,
          Names,     \* names for the contents of buffers,
          Content(_),\* and the term for what a buffer holds when the trace begins
          MaxReads   \* bound: operands the ops of a trace read

ASSUME TensorsAssumption == Tensors \subseteq Buffers \X Shapes
ASSUME NoneAssumption == None \notin Buffers \cup Temps
ASSUME TempsAssumption == Temps \cap Tensors = {}
ASSUME MaxReadsAssumption == MaxReads \in Nat
ASSUME ContentAssumption == \A b \in Buffers : Content(b) \in Seq(Names)

VARIABLES
  phase,    \* "idle", "tracing" or "ran": TraceContext::active_, and whether
            \* end_trace() has compiled and executed the trace
  dag,      \* nodes, active_ptr_to_slot_ and input_ptr_to_slot_ (0: no entry)
  jitSlot,  \* Tensor::jit_slot of every variable (0: not symbolic)
  tracked,  \* slot_to_tensor_
  reads,    \* operands read so far, for the bound
  ref, tref \* the eager execution: contents of buffers, values of variables

recVars == <<phase, dag, jitSlot, tracked, reads, ref, tref>>

-----------------------------------------------------------------------------
Val == Seq(Names \cup {"map", "add", "norm"})

(* A norm depends on the statistics of its rows and on its data.            *)
Norm(stat, x) == <<"norm">> \o stat \o x

(* The term of an op: "map" stands for every elementwise op of one tensor,  *)
(* "add" for those of two.                                                  *)
Ap(op, args) ==
  CASE op = "copy" -> args[1]
    [] op = "norm" -> Norm(args[1], args[1])
    [] op = "map"  -> <<op>> \o args[1]
    [] OTHER -> <<op>> \o args[1] \o args[2]

(* TraceNode; val is the term of the node, kept for the properties only.    *)
Node(op, in, buf, shape, inplace, val) ==
  [op |-> op, in |-> in, buf |-> buf, shape |-> shape,
   inplace |-> inplace, live |-> inplace, val |-> val]

EmptyDag == [nodes |-> <<>>, act |-> [b \in Buffers |-> 0],
             inp |-> [b \in Buffers |-> 0]]

(* slot_matches: the slot still describes the tensor in hand.               *)
SlotMatches(d, slot, t) ==
  /\ slot # 0
  /\ d.nodes[slot].buf = t[1]
  /\ d.nodes[slot].shape = t[2]

RegisterInput(d, t) ==
  IF SlotMatches(d, d.inp[t[1]], t) THEN d
  ELSE [d EXCEPT !.nodes = Append(@, Node("input", <<>>, t[1], t[2], FALSE,
                                          Content(t[1]))),
                 !.inp[t[1]] = Len(d.nodes) + 1]

(* get_or_register_slot for the client's own storage: afterwards act holds  *)
(* the slot.                                                                *)
GetOrRegister(d, t) ==
  IF SlotMatches(d, d.act[t[1]], t) THEN d
  ELSE LET r == RegisterInput(d, t) IN [r EXCEPT !.act[t[1]] = r.inp[t[1]]]

(* An operand is a variable, symbolic now, or a tensor of the client.       *)
Operands == {t \in Temps : jitSlot[t] # 0} \cup Tensors

Touch(d, a) == IF a \in Temps THEN d ELSE GetOrRegister(d, a)
SlotOf(d, a) == IF a \in Temps THEN jitSlot[a] ELSE d.act[a[1]]
ShapeOf(a) == IF a \in Temps THEN dag.nodes[jitSlot[a]].shape ELSE a[2]
RefVal(a) == IF a \in Temps THEN tref[a] ELSE ref[a[1]]

(* The operand slots of an op, resolved from left to right.                 *)
TouchAll(args) == IF Len(args) = 1 THEN Touch(dag, args[1])
                  ELSE Touch(Touch(dag, args[1]), args[2])
SlotsOf(args) ==
  LET d1 == Touch(dag, args[1]) IN
  IF Len(args) = 1 THEN <<SlotOf(d1, args[1])>>
  ELSE <<SlotOf(d1, args[1]), SlotOf(Touch(d1, args[2]), args[2])>>

ValsAt(d, slots) == [k \in DOMAIN slots |-> d.nodes[slots[k]].val]
RefVals(args) == [k \in DOMAIN args |-> RefVal(args[k])]

(* add_node / add_inplace_node on the operands args.                        *)
AddNode(op, args, buf, shape, inplace) ==
  LET d == TouchAll(args)  in == SlotsOf(args) IN
  [d EXCEPT !.nodes = Append(@, Node(op, in, buf, shape, inplace,
                                     Ap(op, ValsAt(d, in))))]

(* What the eager ops accept: operands of one shape.                        *)
Legal(args) == \A k \in DOMAIN args : ShapeOf(args[k]) = ShapeOf(args[1])
Args == {<<a>> : a \in Operands} \cup {<<a, b>> : a, b \in Operands}
OpKinds(args) == IF Len(args) = 1 THEN {"map", "norm"} ELSE {"add"}

-----------------------------------------------------------------------------
(* slot_retarget: the entry of a slot follows the variable that stood for   *)
(* it, and nothing else.                                                    *)
Retarget(tr, slot, from, to) ==
  IF slot # 0 /\ tr[slot] = from THEN [tr EXCEPT ![slot] = to] ELSE tr

Slots == 1 .. 2 * MaxReads   \* an op adds its node and an input for each operand at most

TraceInit ==
  /\ phase = "idle"
  /\ dag = EmptyDag
  /\ jitSlot = [t \in Temps |-> 0]
  /\ tracked = [s \in Slots |-> None]
  /\ reads = 0
  /\ ref = [b \in Buffers |-> Content(b)]
  /\ tref = [t \in Temps |-> <<>>]

(* begin_trace(): the contents of the buffers get their names here.         *)
BeginTrace ==
  /\ phase # "tracing"
  /\ phase' = "tracing"
  /\ dag' = EmptyDag
  /\ tracked' = [s \in Slots |-> None]
  /\ jitSlot' = [t \in Temps |-> 0]
  /\ reads' = 0
  /\ ref' = [b \in Buffers |-> Content(b)]
  /\ tref' = [t \in Temps |-> <<>>]

Recording(n) == /\ phase = "tracing"
                /\ reads + n <= MaxReads
                /\ reads' = reads + n
                /\ UNCHANGED phase

(* t = op(args): record_op, and the move of its result over what t held.    *)
RecordOp(t, op, args) ==
  /\ Recording(Len(args))
  /\ Legal(args)
  /\ op \in OpKinds(args)
  /\ LET d == AddNode(op, args, None, ShapeOf(args[1]), FALSE)
         slot == Len(d.nodes)
     IN  /\ dag' = d
         /\ tracked' = [Retarget(tracked, jitSlot[t], t, None) EXCEPT ![slot] = t]
         /\ jitSlot' = [jitSlot EXCEPT ![t] = slot]
  /\ tref' = [tref EXCEPT ![t] = Ap(op, RefVals(args))]
  /\ UNCHANGED ref

(* store(dst, a), and cast(a, dst, dtype) into a dst that fits: record_store *)
(* and record_cast_out.                                                     *)
RecordStore(dst, a) ==
  /\ Recording(1)
  /\ ShapeOf(a) = dst[2]
  /\ LET d == AddNode("copy", <<a>>, dst[1], dst[2], FALSE)
     IN  dag' = [d EXCEPT !.act[dst[1]] = Len(d.nodes)]
  /\ ref' = [ref EXCEPT ![dst[1]] = Ap("copy", <<RefVal(a)>>)]
  /\ UNCHANGED <<jitSlot, tracked, tref>>

(* target op= args: record_inplace_op on the client's storage.              *)
RecordInplaceTensor(x, args) ==
  /\ Recording(Len(args))
  /\ args[1] = x
  /\ Legal(args)
  /\ LET op == IF Len(args) = 1 THEN "map" ELSE "add"
         d == AddNode(op, args, x[1], x[2], TRUE)
     IN  /\ dag' = [d EXCEPT !.act[x[1]] = Len(d.nodes)]
         /\ ref' = [ref EXCEPT ![x[1]] = Ap(op, RefVals(args))]
  /\ UNCHANGED <<jitSlot, tracked, tref>>

(* Mutant: the variable keeps standing for the node before the update.      *)
RecordInplaceTempForgets(t, args) ==
  /\ Recording(Len(args))
  /\ args[1] = t
  /\ Legal(args)
  /\ LET op == IF Len(args) = 1 THEN "map" ELSE "add"
     IN  /\ dag' = AddNode(op, args, None, ShapeOf(t), TRUE)
         /\ tref' = [tref EXCEPT ![t] = Ap(op, RefVals(args))]
  /\ UNCHANGED <<jitSlot, tracked, ref>>

(* The same on a symbolic variable: from here on it stands for the new node. *)
RecordInplaceTemp(t, args) ==
  /\ Recording(Len(args))
  /\ args[1] = t
  /\ Legal(args)
  /\ LET op == IF Len(args) = 1 THEN "map" ELSE "add"
         d == AddNode(op, args, None, ShapeOf(t), TRUE)
         slot == Len(d.nodes)
     IN  /\ dag' = d
         /\ tracked' = [tracked EXCEPT ![jitSlot[t]] = None, ![slot] = t]
         /\ jitSlot' = [jitSlot EXCEPT ![t] = slot]
         /\ tref' = [tref EXCEPT ![t] = Ap(op, RefVals(args))]
  /\ UNCHANGED ref

(* The destructor of a symbolic variable.                                   *)
DropTemp(t) ==
  /\ phase = "tracing"
  /\ jitSlot[t] # 0
  /\ tracked' = Retarget(tracked, jitSlot[t], t, None)
  /\ jitSlot' = [jitSlot EXCEPT ![t] = 0]
  /\ tref' = [tref EXCEPT ![t] = <<>>]
  /\ UNCHANGED <<phase, dag, reads, ref>>

(* Mutant: the context is not told where the value went.                    *)
MoveTempUntold(t, u) ==
  /\ phase = "tracing"
  /\ t # u
  /\ jitSlot[t] # 0
  /\ tracked' = Retarget(tracked, jitSlot[u], u, None)
  /\ jitSlot' = [jitSlot EXCEPT ![u] = jitSlot[t], ![t] = 0]
  /\ tref' = [tref EXCEPT ![u] = tref[t], ![t] = <<>>]
  /\ UNCHANGED <<phase, dag, reads, ref>>

(* u = std::move(t).                                                        *)
MoveTemp(t, u) ==
  /\ phase = "tracing"
  /\ t # u
  /\ jitSlot[t] # 0
  /\ tracked' = Retarget(Retarget(tracked, jitSlot[u], u, None), jitSlot[t], t, u)
  /\ jitSlot' = [jitSlot EXCEPT ![u] = jitSlot[t], ![t] = 0]
  /\ tref' = [tref EXCEPT ![u] = tref[t], ![t] = <<>>]
  /\ UNCHANGED <<phase, dag, reads, ref>>

(* Mutant: the tensors of the trace keep their slots.                       *)
AbortTraceKeepsSlots ==
  /\ phase = "tracing"
  /\ phase' = "idle"
  /\ dag' = EmptyDag
  /\ tracked' = [s \in Slots |-> None]
  /\ reads' = 0
  /\ tref' = [t \in Temps |-> <<>>]
  /\ UNCHANGED <<jitSlot, ref>>

(* abort_trace(): discard().                                                *)
AbortTrace ==
  /\ phase = "tracing"
  /\ phase' = "idle"
  /\ dag' = EmptyDag
  /\ tracked' = [s \in Slots |-> None]
  /\ jitSlot' = [t \in Temps |-> IF \E s \in Slots : tracked[s] = t THEN 0
                                 ELSE jitSlot[t]]
  /\ reads' = 0
  /\ tref' = [t \in Temps |-> <<>>]
  /\ UNCHANGED ref

(* The statements of the client that add a node.                            *)
Statement ==
  \/ \E t \in Temps, args \in Args, op \in {"map", "norm", "add"} : RecordOp(t, op, args)
  \/ \E dst \in Tensors, a \in Operands : RecordStore(dst, a)
  \/ \E x \in Tensors, args \in Args : RecordInplaceTensor(x, args)
  \/ \E t \in Temps, args \in Args : RecordInplaceTemp(t, args)

RecordNext ==
  \/ BeginTrace
  \/ phase = "tracing" /\ reads < MaxReads /\ Statement
  \/ \E t \in Temps : DropTemp(t)
  \/ \E t, u \in Temps : MoveTemp(t, u)
  \/ AbortTrace

-----------------------------------------------------------------------------
IsWriter(n, b) == n.op # "input" /\ n.buf = b

(* Some op read a buffer of the client through an input although an earlier *)
(* op of the trace had written it: only views of several shapes of one      *)
(* buffer lead there.                                                       *)
StaleRead(nodes) ==
  \E i \in DOMAIN nodes : \E k \in DOMAIN nodes[i].in :
    LET src == nodes[nodes[i].in[k]] IN
    /\ src.op = "input"
    /\ \E w \in 1 .. i - 1 : IsWriter(nodes[w], src.buf)

(* Every symbolic tensor and only they are tracked: end_trace() and abort   *)
(* write through these pointers, so one left behind by a moved or destroyed *)
(* tensor would be a write to dead storage, and one lost a result nobody    *)
(* receives.                                                                *)
TrackingExact ==
  phase = "tracing" =>
    \A t \in Temps, s \in Slots : tracked[s] = t <=> jitSlot[t] = s

(* Recording is static single assignment done right: while no stale read    *)
(* was recorded, the node a variable stands for computes the variable's     *)
(* eager value, and the node found by a buffer's address computes what the  *)
(* buffer would hold, whatever was moved, overwritten, stored or updated in *)
(* place before.                                                            *)
SlotsFaithful ==
  (phase = "tracing" /\ ~StaleRead(dag.nodes)) =>
    /\ \A t \in Temps : jitSlot[t] # 0 => dag.nodes[jitSlot[t]].val = tref[t]
    /\ \A x \in Tensors :
         SlotMatches(dag, dag.act[x[1]], x) =>
           dag.nodes[dag.act[x[1]]].val = ref[x[1]]
=============================================================================
