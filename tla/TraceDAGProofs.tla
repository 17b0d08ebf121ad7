--------------------------- MODULE TraceDAGProofs ---------------------------
(***************************************************************************)
(* Recording is faithful, for any client program, buffers, views, variables *)
(* and bound.                                                               *)
(*                                                                         *)
(* Wf is the shape of the DAG: operands come before their users, an input   *)
(* node stands for the first contents of its buffer, and the two address    *)
(* maps point to nodes of that buffer.  Looking up an operand keeps it and  *)
(* adds at most an input.  The operand's node then has the operand's eager  *)
(* value unless it is an input of a buffer some node has written, and       *)
(* reading such an input is what StaleRead says.                            *)
(*                                                                         *)
(* The second half is about end_trace().  ExecInv carries, with the DAG, an *)
(* eager run of its ops (M: the buffers after each node, X: what each node  *)
(* computes) that ends in the client's results.  The eager program is shown *)
(* to follow that run, a fused kernel to store the terms of the nodes, and  *)
(* the two passes of a row norm to store them as one pass would.  The       *)
(* recursive functions of TracePlan are unfolded by exhibiting a solution,  *)
(* unique by a least counterexample.                                        *)
(***************************************************************************)
EXTENDS TraceReplay, SequenceTheorems, WellFoundedInduction, TLAPS

Ops == {"input", "map", "add", "norm", "copy"}
NodeT == [op : Ops, in : Seq(Nat), buf : Buffers \cup {None}, shape : Shapes,
          inplace : BOOLEAN, live : BOOLEAN, val : Val]
DagT == [nodes : Seq(NodeT), act : [Buffers -> Nat], inp : [Buffers -> Nat]]

(* The DAG is well formed.                                                  *)
Wf(d) ==
  /\ d \in DagT
  /\ \A i \in 1 .. Len(d.nodes) : \A k \in DOMAIN d.nodes[i].in :
       d.nodes[i].in[k] \in 1 .. i - 1
  /\ \A i \in 1 .. Len(d.nodes) :
       d.nodes[i].op = "input" => d.nodes[i].val = Content(d.nodes[i].buf)
  /\ \A b \in Buffers : d.act[b] <= Len(d.nodes) /\ d.inp[b] <= Len(d.nodes)
  /\ \A b \in Buffers : d.act[b] # 0 => d.nodes[d.act[b]].buf = b
  /\ \A b \in Buffers : d.inp[b] # 0 => /\ d.nodes[d.inp[b]].buf = b
                                        /\ d.nodes[d.inp[b]].op = "input"

HasWriter(nodes, b) == \E w \in 1 .. Len(nodes) : IsWriter(nodes[w], b)

(* A buffer nothing has written holds what it held.                         *)
Sourced(nodes) == \A b \in Buffers : ~HasWriter(nodes, b) => ref[b] = Content(b)

(* A slot has an eager value, or is an input that came too late.            *)
Fits(nodes, slot, v) ==
  \/ nodes[slot].val = v
  \/ nodes[slot].op = "input" /\ HasWriter(nodes, nodes[slot].buf)

Good(d) == \A b \in Buffers : d.act[b] # 0 => Fits(d.nodes, d.act[b], ref[b])

(* e is d with inputs added.                                                *)
Grown(d, e) ==
  /\ Len(d.nodes) <= Len(e.nodes)
  /\ \A i \in 1 .. Len(d.nodes) : e.nodes[i] = d.nodes[i]
  /\ \A i \in Len(d.nodes) + 1 .. Len(e.nodes) : e.nodes[i].op = "input"

(* Appending to the nodes of a DAG.                                         *)
LEMMA AppendNodes ==
  ASSUME NEW d \in DagT, NEW n \in NodeT
  PROVE  /\ Append(d.nodes, n) \in Seq(NodeT)
         /\ Len(Append(d.nodes, n)) = Len(d.nodes) + 1
         /\ \A i \in 1 .. Len(d.nodes) : Append(d.nodes, n)[i] = d.nodes[i]
         /\ Append(d.nodes, n)[Len(d.nodes) + 1] = n
         /\ Len(d.nodes) \in Nat
  BY DEF DagT

(* The node of a new input.                                                 *)
LEMMA InputNode ==
  ASSUME NEW b \in Buffers, NEW s \in Shapes
  PROVE  Node("input", <<>>, b, s, FALSE, Content(b)) \in NodeT
  <1>1. Content(b) \in Val
    BY ContentAssumption DEF Val
  <1>2. <<>> \in Seq(Nat)
    BY EmptySeq
  <1> QED BY <1>1, <1>2 DEF NodeT, Node, Ops

(* register_input.                                                          *)
LEMMA RegisterInputFacts ==
  ASSUME NEW d, Wf(d), NEW a \in Tensors
  PROVE  LET e == RegisterInput(d, a)
         IN  /\ Wf(e) /\ Grown(d, e) /\ Len(e.nodes) <= Len(d.nodes) + 1
             /\ e.act = d.act
             /\ e.inp[a[1]] \in 1 .. Len(e.nodes)
             /\ e.nodes[e.inp[a[1]]].op = "input"
             /\ e.nodes[e.inp[a[1]]].buf = a[1]
  <1> DEFINE b == a[1]
             n == Node("input", <<>>, b, a[2], FALSE, Content(b))
             f == [d EXCEPT !.nodes = Append(@, n), !.inp[b] = Len(d.nodes) + 1]
  <1>1. b \in Buffers /\ a[2] \in Shapes
    BY TensorsAssumption
  <1>2. /\ n \in NodeT
        /\ n.op = "input" /\ n.in = <<>> /\ n.buf = b /\ n.val = Content(b)
    BY <1>1, InputNode DEF Node
  <1>3. d \in DagT /\ Len(d.nodes) \in Nat
    BY DEF Wf, DagT
  <1>4. CASE SlotMatches(d, d.inp[b], a)
    BY <1>1, <1>3, <1>4 DEF RegisterInput, SlotMatches, Wf, DagT, Grown
  <1>5. CASE ~SlotMatches(d, d.inp[b], a)
    <2>1. RegisterInput(d, a) = f
      BY <1>5 DEF RegisterInput
    <2> HIDE DEF n
    <2>2. /\ f.nodes = Append(d.nodes, n) /\ f.act = d.act
          /\ f.inp = [d.inp EXCEPT ![b] = Len(d.nodes) + 1]
          /\ f \in DagT
      <3>1. Append(d.nodes, n) \in Seq(NodeT)
        BY <1>2, <1>3, AppendNodes
      <3>2. [d.inp EXCEPT ![b] = Len(d.nodes) + 1] \in [Buffers -> Nat]
        BY <1>1, <1>3 DEF DagT
      <3>3. /\ f.nodes = Append(d.nodes, n) /\ f.act = d.act
            /\ f.inp = [d.inp EXCEPT ![b] = Len(d.nodes) + 1]
        BY <1>3 DEF DagT
      <3>4. f \in DagT
        BY <3>1, <3>2, <1>3 DEF DagT
      <3> QED BY <3>3, <3>4
    <2> HIDE DEF f
    <2>3. /\ Len(f.nodes) = Len(d.nodes) + 1
          /\ \A i \in 1 .. Len(d.nodes) : f.nodes[i] = d.nodes[i]
          /\ f.nodes[Len(d.nodes) + 1] = n
      BY <2>2, <1>2, <1>3, AppendNodes
    <2>4. \A c \in Buffers : f.inp[c] = IF c = b THEN Len(d.nodes) + 1 ELSE d.inp[c]
      BY <2>2, <1>1, <1>3 DEF DagT
    <2>5. Grown(d, f)
      BY <2>3, <1>2, <1>3 DEF Grown
    <2>6. Wf(f)
      <3>1. \A i \in 1 .. Len(f.nodes) : \A k \in DOMAIN f.nodes[i].in :
              f.nodes[i].in[k] \in 1 .. i - 1
        BY <2>3, <1>2, <1>3 DEF Wf
      <3>2. \A i \in 1 .. Len(f.nodes) :
              f.nodes[i].op = "input" => f.nodes[i].val = Content(f.nodes[i].buf)
        BY <2>3, <1>2, <1>3, SMTT(30) DEF Wf
      <3>3. \A c \in Buffers : f.act[c] <= Len(f.nodes) /\ f.inp[c] <= Len(f.nodes)
        BY <2>2, <2>3, <2>4, <1>3 DEF Wf, DagT
      <3>4. \A c \in Buffers : f.act[c] # 0 => f.nodes[f.act[c]].buf = c
        BY <2>2, <2>3, <1>3 DEF Wf, DagT
      <3>5. \A c \in Buffers : f.inp[c] # 0 => /\ f.nodes[f.inp[c]].buf = c
                                               /\ f.nodes[f.inp[c]].op = "input"
        <4> SUFFICES ASSUME NEW c \in Buffers, f.inp[c] # 0
                     PROVE  f.nodes[f.inp[c]].buf = c /\ f.nodes[f.inp[c]].op = "input"
          OBVIOUS
        <4>1. CASE c = b
          BY <4>1, <2>3, <2>4, <1>2
        <4>2. CASE c # b
          <5>1. d.inp[c] \in 1 .. Len(d.nodes)
            BY <4>2, <2>4, <1>3 DEF Wf, DagT
          <5> QED BY <4>2, <5>1, <2>3, <2>4, SMTT(30) DEF Wf
        <4> QED BY <4>1, <4>2
      <3> QED BY <2>2, <3>1, <3>2, <3>3, <3>4, <3>5 DEF Wf
    <2> QED BY <2>1, <2>2, <2>3, <2>4, <2>5, <2>6, <1>1, <1>2, <1>3
  <1> QED BY <1>4, <1>5

(* get_or_register_slot of a tensor of the client.                          *)
LEMMA GetOrRegisterFacts ==
  ASSUME NEW d, Wf(d), NEW a \in Tensors
  PROVE  LET e == GetOrRegister(d, a)
         IN  /\ Wf(e) /\ Grown(d, e) /\ Len(e.nodes) <= Len(d.nodes) + 1
             /\ e.act[a[1]] \in 1 .. Len(e.nodes)
             /\ \A b \in Buffers : b # a[1] => e.act[b] = d.act[b]
             /\ e.act[a[1]] = d.act[a[1]] \/ e.nodes[e.act[a[1]]].op = "input"
  <1> DEFINE b == a[1]
             r == RegisterInput(d, a)
             f == [r EXCEPT !.act[b] = r.inp[b]]
  <1>1. b \in Buffers
    BY TensorsAssumption
  <1>2. d \in DagT /\ Len(d.nodes) \in Nat
    BY DEF Wf, DagT
  <1>3. CASE SlotMatches(d, d.act[b], a)
    BY <1>1, <1>2, <1>3 DEF GetOrRegister, SlotMatches, Wf, DagT, Grown
  <1>4. CASE ~SlotMatches(d, d.act[b], a)
    <2>1. GetOrRegister(d, a) = f
      BY <1>4 DEF GetOrRegister
    <2>2. /\ Wf(r) /\ Grown(d, r) /\ Len(r.nodes) <= Len(d.nodes) + 1
          /\ r.act = d.act
          /\ r.inp[b] \in 1 .. Len(r.nodes)
          /\ r.nodes[r.inp[b]].op = "input"
          /\ r.nodes[r.inp[b]].buf = b
      BY RegisterInputFacts
    <2> HIDE DEF r
    <2>3. r \in DagT /\ Len(r.nodes) \in Nat
      BY <2>2 DEF Wf, DagT
    <2>4. /\ f \in DagT /\ f.nodes = r.nodes /\ f.inp = r.inp
          /\ \A c \in Buffers : f.act[c] = IF c = b THEN r.inp[b] ELSE d.act[c]
      BY <1>1, <2>2, <2>3 DEF DagT
    <2> HIDE DEF f
    <2>5. Wf(f)
      BY <2>2, <2>3, <2>4 DEF Wf
    <2>6. Grown(d, f)
      BY <2>2, <2>4 DEF Grown
    <2> QED BY <2>1, <2>2, <2>4, <2>5, <2>6, <1>1
  <1> QED BY <1>3, <1>4

(* Adding inputs adds no writer.                                            *)
LEMMA GrownWriters ==
  ASSUME NEW d, NEW e, Wf(d), Wf(e), Grown(d, e), NEW b
  PROVE  HasWriter(e.nodes, b) <=> HasWriter(d.nodes, b)
  <1>1. Len(d.nodes) \in Nat /\ Len(e.nodes) \in Nat
    BY DEF Wf, DagT
  <1> QED BY <1>1 DEF Grown, HasWriter, IsWriter

(* Growing is transitive.                                                   *)
LEMMA GrownTrans ==
  ASSUME NEW d, NEW e, NEW f, Wf(d), Wf(e), Wf(f), Grown(d, e), Grown(e, f)
  PROVE  Grown(d, f)
  <1>1. Len(d.nodes) \in Nat /\ Len(e.nodes) \in Nat /\ Len(f.nodes) \in Nat
    BY DEF Wf, DagT
  <1>2. Len(d.nodes) <= Len(e.nodes) /\ Len(e.nodes) <= Len(f.nodes)
    BY DEF Grown
  <1>3. ASSUME NEW i \in 1 .. Len(d.nodes) PROVE f.nodes[i] = d.nodes[i]
    <2>1. i \in 1 .. Len(e.nodes)
      BY <1>1, <1>2
    <2> QED BY <2>1 DEF Grown
  <1>4. ASSUME NEW i \in Len(d.nodes) + 1 .. Len(f.nodes) PROVE f.nodes[i].op = "input"
    <2>1. CASE i \in Len(d.nodes) + 1 .. Len(e.nodes)
      <3>1. i \in 1 .. Len(e.nodes)
        BY <1>1, <2>1
      <3> QED BY <2>1, <3>1 DEF Grown
    <2>2. CASE i \in Len(e.nodes) + 1 .. Len(f.nodes)
      BY <2>2 DEF Grown
    <2> QED BY <1>1, <2>1, <2>2
  <1> QED BY <1>1, <1>2, <1>3, <1>4 DEF Grown

(* What fitted goes on fitting.                                             *)
LEMMA GrownFits ==
  ASSUME NEW d, NEW e, Wf(d), Wf(e), Grown(d, e), NEW s \in 1 .. Len(d.nodes), NEW v,
         Fits(d.nodes, s, v)
  PROVE  Fits(e.nodes, s, v)
  BY GrownWriters DEF Fits, Grown

(* Looking up a tensor: its slot, like all others, has the eager value or   *)
(* is a late input.                                                         *)
LEMMA GetOrRegisterGood ==
  ASSUME NEW d, Wf(d), Sourced(d.nodes), Good(d), NEW a \in Tensors
  PROVE  LET e == GetOrRegister(d, a)
         IN  Sourced(e.nodes) /\ Good(e) /\ Fits(e.nodes, e.act[a[1]], ref[a[1]])
  <1> DEFINE e == GetOrRegister(d, a)
             b == a[1]
  <1>1. /\ Wf(e) /\ Grown(d, e)
        /\ e.act[b] \in 1 .. Len(e.nodes)
        /\ \A c \in Buffers : c # b => e.act[c] = d.act[c]
        /\ e.act[b] = d.act[b] \/ e.nodes[e.act[b]].op = "input"
    BY GetOrRegisterFacts
  <1> HIDE DEF e
  <1>2. b \in Buffers
    BY TensorsAssumption
  <1>3. Sourced(e.nodes)
    BY <1>1, GrownWriters DEF Sourced
  <1>4. ASSUME NEW c \in Buffers, e.act[c] # 0, e.act[c] = d.act[c]
        PROVE  Fits(e.nodes, e.act[c], ref[c])
    <2>1. d.act[c] \in 1 .. Len(d.nodes)
      BY <1>4 DEF Wf, DagT
    <2> QED BY <2>1, <1>1, <1>4, GrownFits DEF Good
  <1>5. CASE e.nodes[e.act[b]].op = "input"
    <2>1. e.nodes[e.act[b]].val = Content(b) /\ e.nodes[e.act[b]].buf = b
      BY <1>1, <1>2, <1>5 DEF Wf
    <2>2. Fits(e.nodes, e.act[b], ref[b])
      BY <1>2, <1>3, <1>5, <2>1 DEF Fits, Sourced
    <2> QED BY <1>1, <1>3, <1>4, <2>2 DEF Good, e
  <1>6. CASE e.act[b] = d.act[b]
    BY <1>1, <1>2, <1>3, <1>4, <1>6 DEF Good, e
  <1> QED BY <1>1, <1>5, <1>6

-----------------------------------------------------------------------------
(* Types of the recording state.                                            *)
SlotsT == jitSlot \in [Temps -> 0 .. Len(dag.nodes)]

TempsGood(nodes) == \A t \in Temps : jitSlot[t] # 0 => nodes[jitSlot[t]].val = tref[t]

(* Looking up an operand, variable or tensor.                               *)
LEMMA TouchFacts ==
  ASSUME NEW d, Wf(d), jitSlot \in [Temps -> 0 .. Len(d.nodes)], NEW a \in Operands
  PROVE  LET e == Touch(d, a)
         IN  /\ Wf(e) /\ Grown(d, e) /\ Len(e.nodes) <= Len(d.nodes) + 1
             /\ SlotOf(e, a) \in 1 .. Len(e.nodes)
             /\ \A b \in Buffers : e.act[b] = d.act[b] \/ e.act[b] = SlotOf(e, a)
  <1>1. Len(d.nodes) \in Nat
    BY DEF Wf, DagT
  <1>2. CASE a \in Temps
    BY <1>1, <1>2, TempsAssumption DEF Operands, Touch, SlotOf, Grown
  <1>3. CASE a \notin Temps
    <2>1. a \in Tensors
      BY <1>3 DEF Operands
    <2> QED BY <1>3, <2>1, GetOrRegisterFacts DEF Touch, SlotOf
  <1> QED BY <1>2, <1>3

(* Resolving an operand keeps what the names stand for, and finds its value.*)
LEMMA TouchGood ==
  ASSUME NEW d, Wf(d), jitSlot \in [Temps -> 0 .. Len(d.nodes)], NEW a \in Operands,
         Sourced(d.nodes), Good(d), TempsGood(d.nodes)
  PROVE  LET e == Touch(d, a)
         IN  Sourced(e.nodes) /\ Good(e) /\ Fits(e.nodes, SlotOf(e, a), RefVal(a))
  <1>1. CASE a \in Temps
    BY <1>1, TempsAssumption DEF Operands, Touch, SlotOf, Fits, TempsGood, RefVal
  <1>2. CASE a \notin Temps
    <2>1. a \in Tensors
      BY <1>2 DEF Operands
    <2> QED BY <1>2, <2>1, GetOrRegisterGood DEF Touch, SlotOf, RefVal
  <1> QED BY <1>1, <1>2

(* The operands of an op, one or two.                                       *)
LEMMA ArgsCases ==
  ASSUME NEW args \in Args
  PROVE  \/ \E a \in Operands : args = <<a>> /\ Len(args) = 1 /\ DOMAIN args = {1}
         \/ \E a, b \in Operands : args = <<a, b>> /\ Len(args) = 2 /\ DOMAIN args = {1, 2}
  BY DEF Args

(* Looking up all operands of an op.                                        *)
LEMMA TouchAllFacts ==
  ASSUME Wf(dag), SlotsT, NEW args \in Args
  PROVE  LET e == TouchAll(args)  in == SlotsOf(args)
         IN  /\ Wf(e) /\ Grown(dag, e) /\ Len(e.nodes) <= Len(dag.nodes) + Len(args)
             /\ in \in Seq(Nat) /\ DOMAIN in = DOMAIN args
             /\ \A k \in DOMAIN in : in[k] \in 1 .. Len(e.nodes)
             /\ \A b \in Buffers : \/ e.act[b] = dag.act[b]
                                   \/ \E k \in DOMAIN in : e.act[b] = in[k]
  <1>0. Len(dag.nodes) \in Nat
    BY DEF Wf, DagT
  <1>1. ASSUME NEW a \in Operands, args = <<a>>, Len(args) = 1, DOMAIN args = {1}
        PROVE  LET e == TouchAll(args)  in == SlotsOf(args)
               IN  /\ Wf(e) /\ Grown(dag, e) /\ Len(e.nodes) <= Len(dag.nodes) + Len(args)
                   /\ in \in Seq(Nat) /\ DOMAIN in = DOMAIN args
                   /\ \A k \in DOMAIN in : in[k] \in 1 .. Len(e.nodes)
                   /\ \A b \in Buffers : \/ e.act[b] = dag.act[b]
                                         \/ \E k \in DOMAIN in : e.act[b] = in[k]
    <2> DEFINE e == Touch(dag, a)
    <2>1. TouchAll(args) = e /\ SlotsOf(args) = <<SlotOf(e, a)>>
      BY <1>1 DEF TouchAll, SlotsOf
    <2>2. /\ Wf(e) /\ Grown(dag, e) /\ Len(e.nodes) <= Len(dag.nodes) + 1
          /\ SlotOf(e, a) \in 1 .. Len(e.nodes)
          /\ \A b \in Buffers : e.act[b] = dag.act[b] \/ e.act[b] = SlotOf(e, a)
      BY TouchFacts DEF SlotsT
    <2>3. Len(e.nodes) \in Nat
      BY <2>2 DEF Wf, DagT
    <2> HIDE DEF e
    <2> DEFINE in == <<SlotOf(e, a)>>
    <2>4. in \in Seq(Nat) /\ DOMAIN in = {1} /\ in[1] = SlotOf(e, a)
      BY <2>2, <2>3
    <2> HIDE DEF in
    <2>5. /\ \A k \in DOMAIN in : in[k] \in 1 .. Len(e.nodes)
          /\ \A b \in Buffers : e.act[b] = dag.act[b] \/ \E k \in DOMAIN in : e.act[b] = in[k]
      BY <2>2, <2>4
    <2> QED BY <1>1, <2>1, <2>2, <2>4, <2>5, ZenonT(60) DEF in
  <1>2. ASSUME NEW a \in Operands, NEW c \in Operands,
               args = <<a, c>>, Len(args) = 2, DOMAIN args = {1, 2}
        PROVE  LET e == TouchAll(args)  in == SlotsOf(args)
               IN  /\ Wf(e) /\ Grown(dag, e) /\ Len(e.nodes) <= Len(dag.nodes) + Len(args)
                   /\ in \in Seq(Nat) /\ DOMAIN in = DOMAIN args
                   /\ \A k \in DOMAIN in : in[k] \in 1 .. Len(e.nodes)
                   /\ \A b \in Buffers : \/ e.act[b] = dag.act[b]
                                         \/ \E k \in DOMAIN in : e.act[b] = in[k]
    <2> DEFINE d1 == Touch(dag, a)
               e  == Touch(d1, c)
    <2>1. TouchAll(args) = e /\ SlotsOf(args) = <<SlotOf(d1, a), SlotOf(e, c)>>
      BY <1>2 DEF TouchAll, SlotsOf
    <2>2. /\ Wf(d1) /\ Grown(dag, d1) /\ Len(d1.nodes) <= Len(dag.nodes) + 1
          /\ SlotOf(d1, a) \in 1 .. Len(d1.nodes)
          /\ \A b \in Buffers : d1.act[b] = dag.act[b] \/ d1.act[b] = SlotOf(d1, a)
      BY TouchFacts DEF SlotsT
    <2> HIDE DEF d1
    <2>3. Len(d1.nodes) \in Nat /\ jitSlot \in [Temps -> 0 .. Len(d1.nodes)]
      BY <2>2, <1>0 DEF Wf, DagT, SlotsT, Grown
    <2>4. /\ Wf(e) /\ Grown(d1, e) /\ Len(e.nodes) <= Len(d1.nodes) + 1
          /\ SlotOf(e, c) \in 1 .. Len(e.nodes)
          /\ \A b \in Buffers : e.act[b] = d1.act[b] \/ e.act[b] = SlotOf(e, c)
      BY <2>2, <2>3, TouchFacts
    <2> HIDE DEF e
    <2>5. Len(e.nodes) \in Nat
      BY <2>4 DEF Wf, DagT
    <2>6. Grown(dag, e) /\ SlotOf(d1, a) \in 1 .. Len(e.nodes)
      <3>1. Grown(dag, e)
        BY <2>2, <2>4, GrownTrans
      <3>2. Len(d1.nodes) <= Len(e.nodes)
        BY <2>4 DEF Grown
      <3> QED BY <3>1, <3>2, <2>2, <2>3, <2>5
    <2>7. \A b \in Buffers : \/ e.act[b] = dag.act[b]
                            \/ e.act[b] = SlotOf(d1, a) \/ e.act[b] = SlotOf(e, c)
      BY <2>2, <2>4
    <2> DEFINE in == <<SlotOf(d1, a), SlotOf(e, c)>>
    <2>8. in \in Seq(Nat) /\ DOMAIN in = {1, 2} /\ in[1] = SlotOf(d1, a) /\ in[2] = SlotOf(e, c)
      BY <2>4, <2>5, <2>6
    <2> HIDE DEF in
    <2>9. /\ \A k \in DOMAIN in : in[k] \in 1 .. Len(e.nodes)
          /\ \A b \in Buffers : e.act[b] = dag.act[b] \/ \E k \in DOMAIN in : e.act[b] = in[k]
      BY <2>4, <2>6, <2>7, <2>8
    <2>10. Len(e.nodes) <= Len(dag.nodes) + 2
      BY <1>0, <2>2, <2>3, <2>4, <2>5
    <2>11. TouchAll(args) = e /\ SlotsOf(args) = in
      BY <2>1 DEF in
    <2> QED BY <1>2, <2>4, <2>6, <2>8, <2>9, <2>10, <2>11
  <1> QED BY <1>1, <1>2, ArgsCases

(* The same for the operands of one op.                                     *)
LEMMA TouchAllGood ==
  ASSUME Wf(dag), SlotsT, Sourced(dag.nodes), Good(dag), TempsGood(dag.nodes),
         NEW args \in Args
  PROVE  LET e == TouchAll(args)  in == SlotsOf(args)
         IN  /\ Sourced(e.nodes) /\ Good(e)
             /\ \A k \in DOMAIN in : Fits(e.nodes, in[k], RefVal(args[k]))
  <1>1. ASSUME NEW a \in Operands, args = <<a>>, Len(args) = 1, DOMAIN args = {1}
        PROVE  LET e == TouchAll(args)  in == SlotsOf(args)
               IN  /\ Sourced(e.nodes) /\ Good(e)
                   /\ \A k \in DOMAIN in : Fits(e.nodes, in[k], RefVal(args[k]))
    <2> DEFINE e == Touch(dag, a)
    <2>1. TouchAll(args) = e /\ SlotsOf(args) = <<SlotOf(e, a)>> /\ args[1] = a
      BY <1>1 DEF TouchAll, SlotsOf
    <2>2. Sourced(e.nodes) /\ Good(e) /\ Fits(e.nodes, SlotOf(e, a), RefVal(a))
      BY TouchGood DEF SlotsT
    <2> HIDE DEF e
    <2> QED BY <2>1, <2>2
  <1>2. ASSUME NEW a \in Operands, NEW c \in Operands,
               args = <<a, c>>, Len(args) = 2, DOMAIN args = {1, 2}
        PROVE  LET e == TouchAll(args)  in == SlotsOf(args)
               IN  /\ Sourced(e.nodes) /\ Good(e)
                   /\ \A k \in DOMAIN in : Fits(e.nodes, in[k], RefVal(args[k]))
    <2> DEFINE d1 == Touch(dag, a)
               e  == Touch(d1, c)
    <2>1. /\ TouchAll(args) = e /\ SlotsOf(args) = <<SlotOf(d1, a), SlotOf(e, c)>>
          /\ args[1] = a /\ args[2] = c
      BY <1>2 DEF TouchAll, SlotsOf
    <2>2. /\ Wf(d1) /\ Grown(dag, d1) /\ SlotOf(d1, a) \in 1 .. Len(d1.nodes)
          /\ Sourced(d1.nodes) /\ Good(d1) /\ Fits(d1.nodes, SlotOf(d1, a), RefVal(a))
      BY TouchFacts, TouchGood DEF SlotsT
    <2> HIDE DEF d1
    <2>3. /\ jitSlot \in [Temps -> 0 .. Len(d1.nodes)]
          /\ TempsGood(d1.nodes)
      <3>1. Len(dag.nodes) \in Nat /\ Len(d1.nodes) \in Nat /\ Len(dag.nodes) <= Len(d1.nodes)
        BY <2>2 DEF Wf, DagT, Grown
      <3>2. jitSlot \in [Temps -> 0 .. Len(d1.nodes)]
        BY <3>1 DEF SlotsT
      <3>3. ASSUME NEW t \in Temps, jitSlot[t] # 0 PROVE d1.nodes[jitSlot[t]].val = tref[t]
        <4>1. jitSlot[t] \in 1 .. Len(dag.nodes)
          BY <3>1, <3>3 DEF SlotsT
        <4> QED BY <3>3, <4>1, <2>2 DEF Grown, TempsGood
      <3> QED BY <3>2, <3>3 DEF TempsGood
    <2>4. /\ Wf(e) /\ Grown(d1, e)
          /\ Sourced(e.nodes) /\ Good(e) /\ Fits(e.nodes, SlotOf(e, c), RefVal(c))
      BY <2>2, <2>3, TouchFacts, TouchGood
    <2> HIDE DEF e
    <2>5. Fits(e.nodes, SlotOf(d1, a), RefVal(a))
      BY <2>2, <2>4, GrownFits
    <2> QED BY <2>1, <2>4, <2>5
  <1> QED BY <1>1, <1>2, ArgsCases

-----------------------------------------------------------------------------
(* Which ops take how many operands.                                        *)
Arity(op, args) == IF op = "add" THEN Len(args) = 2 ELSE op \in {"map", "norm", "copy"}

(* The term of an op is a term.                                             *)
LEMMA ApType ==
  ASSUME NEW op \in {"map", "norm", "copy", "add"}, NEW v,
         v[1] \in Val, op = "add" => v[2] \in Val
  PROVE  Ap(op, v) \in Val
  <1>1. <<"map">> \in Val /\ <<"norm">> \in Val /\ <<"add">> \in Val
    BY DEF Val
  <1>2. \A x, y \in Val : x \o y \in Val
    BY ConcatProperties DEF Val
  <1> HIDE DEF Val
  <1>3. CASE op = "copy"
    BY <1>3 DEF Ap
  <1>4. CASE op = "norm"
    BY <1>1, <1>2, <1>4 DEF Ap, Norm
  <1>5. CASE op = "map"
    BY <1>1, <1>2, <1>5 DEF Ap
  <1>6. CASE op = "add"
    BY <1>1, <1>2, <1>6 DEF Ap
  <1> QED BY <1>3, <1>4, <1>5, <1>6

(* What add_node and add_inplace_node append.                               *)
NewNode(op, args, buf, shape, inplace) ==
  Node(op, SlotsOf(args), buf, shape, inplace, Ap(op, ValsAt(TouchAll(args), SlotsOf(args))))

(* The node an op appends has its type.                                     *)
LEMMA NewNodeType ==
  ASSUME Wf(dag), SlotsT, NEW args \in Args, NEW op \in Ops, Arity(op, args),
         NEW buf \in Buffers \cup {None}, NEW shape \in Shapes, NEW inplace \in BOOLEAN
  PROVE  NewNode(op, args, buf, shape, inplace) \in NodeT
  <1> DEFINE e == TouchAll(args)
             in == SlotsOf(args)
             v == ValsAt(e, in)
  <1>1. /\ Wf(e) /\ in \in Seq(Nat) /\ DOMAIN in = DOMAIN args
        /\ \A k \in DOMAIN in : in[k] \in 1 .. Len(e.nodes)
    BY TouchAllFacts
  <1> HIDE DEF e, in
  <1>2. \A k \in DOMAIN in : v[k] \in Val
    <2>1. \A i \in 1 .. Len(e.nodes) : e.nodes[i].val \in Val
      <3>1. e.nodes \in Seq(NodeT)
        BY <1>1 DEF Wf, DagT
      <3>2. \A i \in 1 .. Len(e.nodes) : e.nodes[i] \in NodeT
        BY <3>1
      <3> QED BY <3>2 DEF NodeT
    <2> QED BY <1>1, <2>1 DEF ValsAt
  <1>3. 1 \in DOMAIN args /\ (Len(args) = 2 => 2 \in DOMAIN args)
    BY ArgsCases
  <1>4. op \in {"map", "norm", "copy", "add"} /\ op \in Ops
    BY DEF Arity, Ops
  <1> HIDE DEF v
  <1>5. Ap(op, v) \in Val
    BY <1>1, <1>2, <1>3, <1>4, ApType DEF Arity
  <1> QED BY <1>1, <1>4, <1>5 DEF NewNode, Node, NodeT, e, in, v

(* add_node and add_inplace_node on a well-formed DAG.                      *)
LEMMA AddNodeFacts ==
  ASSUME Wf(dag), SlotsT, NEW args \in Args, NEW op \in Ops, Arity(op, args),
         NEW buf \in Buffers \cup {None}, NEW shape \in Shapes, NEW inplace \in BOOLEAN
  PROVE  LET r == AddNode(op, args, buf, shape, inplace)
             e == TouchAll(args)
         IN  /\ Wf(r)
             /\ r.act = e.act
             /\ Len(e.nodes) \in Nat
             /\ Len(r.nodes) = Len(e.nodes) + 1
             /\ \A i \in 1 .. Len(e.nodes) : r.nodes[i] = e.nodes[i]
             /\ r.nodes[Len(r.nodes)] = NewNode(op, args, buf, shape, inplace)
  <1> DEFINE e == TouchAll(args)
             in == SlotsOf(args)
             n == NewNode(op, args, buf, shape, inplace)
             r == AddNode(op, args, buf, shape, inplace)
  <1>1. /\ Wf(e) /\ in \in Seq(Nat)
        /\ \A k \in DOMAIN in : in[k] \in 1 .. Len(e.nodes)
    BY TouchAllFacts
  <1>2. n \in NodeT /\ n.in = in /\ n.op # "input"
    BY NewNodeType DEF NewNode, Node, Arity
  <1>3. r = [e EXCEPT !.nodes = Append(@, n)]
    BY DEF AddNode, NewNode
  <1> HIDE DEF e, in, n, r
  <1>4. e \in DagT /\ Len(e.nodes) \in Nat
    BY <1>1 DEF Wf, DagT
  <1>5. r \in DagT /\ r.nodes = Append(e.nodes, n) /\ r.act = e.act /\ r.inp = e.inp
    BY <1>2, <1>3, <1>4, AppendNodes DEF DagT
  <1>6. /\ Len(r.nodes) = Len(e.nodes) + 1
        /\ \A i \in 1 .. Len(e.nodes) : r.nodes[i] = e.nodes[i]
        /\ r.nodes[Len(e.nodes) + 1] = n
    BY <1>2, <1>4, <1>5, AppendNodes
  <1>7. Wf(r)
    <2>1. ASSUME NEW i \in 1 .. Len(r.nodes), NEW k \in DOMAIN r.nodes[i].in
          PROVE  r.nodes[i].in[k] \in 1 .. i - 1
      <3>1. CASE i \in 1 .. Len(e.nodes)
        BY <2>1, <3>1, <1>1, <1>6 DEF Wf
      <3>2. CASE i = Len(e.nodes) + 1
        BY <2>1, <3>2, <1>1, <1>2, <1>4, <1>6
      <3> QED BY <3>1, <3>2, <1>4, <1>6
    <2>2. ASSUME NEW i \in 1 .. Len(r.nodes), r.nodes[i].op = "input"
          PROVE  r.nodes[i].val = Content(r.nodes[i].buf)
      <3>1. i \in 1 .. Len(e.nodes)
        BY <2>2, <1>2, <1>4, <1>6
      <3> QED BY <2>2, <3>1, <1>1, <1>6 DEF Wf
    <2>3. \A b \in Buffers : r.act[b] <= Len(r.nodes) /\ r.inp[b] <= Len(r.nodes)
      BY <1>1, <1>4, <1>5, <1>6 DEF Wf, DagT
    <2>4. ASSUME NEW b \in Buffers PROVE r.act[b] # 0 => r.nodes[r.act[b]].buf = b
      <3>1. e.act[b] # 0 => e.act[b] \in 1 .. Len(e.nodes)
        BY <1>1, <1>4 DEF Wf, DagT
      <3> QED BY <3>1, <1>1, <1>5, <1>6 DEF Wf
    <2>5. ASSUME NEW b \in Buffers
          PROVE  r.inp[b] # 0 => r.nodes[r.inp[b]].buf = b /\ r.nodes[r.inp[b]].op = "input"
      <3>1. e.inp[b] # 0 => e.inp[b] \in 1 .. Len(e.nodes)
        BY <1>1, <1>4 DEF Wf, DagT
      <3> QED BY <3>1, <1>1, <1>5, <1>6 DEF Wf
    <2> QED BY <1>5, <2>1, <2>2, <2>3, <2>4, <2>5 DEF Wf
  <1> QED BY <1>4, <1>5, <1>6, <1>7 DEF r, e, n

-----------------------------------------------------------------------------
ActGood(d) == \A b \in Buffers : d.act[b] # 0 => d.nodes[d.act[b]].val = ref[b]

(* A stale read stays one.                                                  *)
LEMMA StaleStays ==
  ASSUME NEW d, NEW r, Wf(d), Wf(r), Len(d.nodes) <= Len(r.nodes),
         \A i \in 1 .. Len(d.nodes) : r.nodes[i] = d.nodes[i],
         StaleRead(d.nodes)
  PROVE  StaleRead(r.nodes)
  <1>1. /\ Len(d.nodes) \in Nat /\ Len(r.nodes) \in Nat
        /\ DOMAIN d.nodes = 1 .. Len(d.nodes) /\ DOMAIN r.nodes = 1 .. Len(r.nodes)
    BY DEF Wf, DagT
  <1>2. PICK i \in 1 .. Len(d.nodes) : \E k \in DOMAIN d.nodes[i].in :
          /\ d.nodes[d.nodes[i].in[k]].op = "input"
          /\ \E w \in 1 .. i - 1 : IsWriter(d.nodes[w], d.nodes[d.nodes[i].in[k]].buf)
    BY <1>1 DEF StaleRead
  <1>3. PICK k \in DOMAIN d.nodes[i].in :
          /\ d.nodes[d.nodes[i].in[k]].op = "input"
          /\ \E w \in 1 .. i - 1 : IsWriter(d.nodes[w], d.nodes[d.nodes[i].in[k]].buf)
    BY <1>2
  <1>4. PICK w \in 1 .. i - 1 : IsWriter(d.nodes[w], d.nodes[d.nodes[i].in[k]].buf)
    BY <1>3
  <1>5. /\ d.nodes[i].in[k] \in 1 .. Len(d.nodes) /\ w \in 1 .. Len(d.nodes)
        /\ i \in 1 .. Len(r.nodes)
    BY <1>1 DEF Wf
  <1>6. /\ r.nodes[i] = d.nodes[i] /\ r.nodes[w] = d.nodes[w]
        /\ r.nodes[d.nodes[i].in[k]] = d.nodes[d.nodes[i].in[k]]
    BY <1>5
  <1>7. /\ k \in DOMAIN r.nodes[i].in
        /\ r.nodes[r.nodes[i].in[k]].op = "input"
        /\ IsWriter(r.nodes[w], r.nodes[r.nodes[i].in[k]].buf)
    BY <1>3, <1>4, <1>6
  <1>8. i \in DOMAIN r.nodes /\ w \in 1 .. i - 1
    BY <1>1, <1>5
  <1> QED BY <1>7, <1>8 DEF StaleRead

(* If the new node reads no late input, it has the eager value of its op,   *)
(* and so do all slots the address map holds.                               *)
LEMMA AddNodeGood ==
  ASSUME Wf(dag), SlotsT, NEW args \in Args, NEW op \in Ops, Arity(op, args),
         NEW buf \in Buffers \cup {None}, NEW shape \in Shapes, NEW inplace \in BOOLEAN,
         Sourced(dag.nodes),
         ~StaleRead(dag.nodes) => ActGood(dag) /\ TempsGood(dag.nodes),
         ~StaleRead(AddNode(op, args, buf, shape, inplace).nodes)
  PROVE  LET r == AddNode(op, args, buf, shape, inplace)
         IN  /\ ~StaleRead(dag.nodes)
             /\ r.nodes[Len(r.nodes)].val = Ap(op, RefVals(args))
             /\ ActGood(r)
  <1> DEFINE r == AddNode(op, args, buf, shape, inplace)
             e == TouchAll(args)
             in == SlotsOf(args)
             n == NewNode(op, args, buf, shape, inplace)
  <1>1. /\ Wf(e) /\ Grown(dag, e)
        /\ in \in Seq(Nat) /\ DOMAIN in = DOMAIN args
        /\ \A k \in DOMAIN in : in[k] \in 1 .. Len(e.nodes)
        /\ \A b \in Buffers : \/ e.act[b] = dag.act[b]
                              \/ \E k \in DOMAIN in : e.act[b] = in[k]
    BY TouchAllFacts
  <1>2. /\ Wf(r) /\ r.act = e.act /\ Len(e.nodes) \in Nat
        /\ Len(r.nodes) = Len(e.nodes) + 1
        /\ \A i \in 1 .. Len(e.nodes) : r.nodes[i] = e.nodes[i]
        /\ r.nodes[Len(r.nodes)] = n
    BY AddNodeFacts
  <1>3. n.in = in /\ n.val = Ap(op, ValsAt(e, in))
    BY DEF NewNode, Node
  <1>4. ~StaleRead(r.nodes)
    OBVIOUS
  <1> HIDE DEF r, e, in, n
  <1>5. ~StaleRead(dag.nodes)
    <2>1. Len(dag.nodes) \in Nat /\ Len(dag.nodes) <= Len(r.nodes)
      BY <1>1, <1>2 DEF Grown, Wf, DagT
    <2>2. \A i \in 1 .. Len(dag.nodes) : r.nodes[i] = dag.nodes[i]
      BY <1>1, <1>2 DEF Grown
    <2> QED BY <1>2, <1>4, <2>1, <2>2, StaleStays
  <1>6. Good(dag) /\ ActGood(dag) /\ TempsGood(dag.nodes)
    BY <1>5 DEF Good, ActGood, Fits
  <1>7. \A k \in DOMAIN in : Fits(e.nodes, in[k], RefVal(args[k]))
    BY <1>6, TouchAllGood DEF e, in
  <1>8. Good(e)
    BY <1>6, TouchAllGood DEF e
  <1>9. ASSUME NEW k \in DOMAIN in, e.nodes[in[k]].op = "input"
        PROVE  ~HasWriter(e.nodes, e.nodes[in[k]].buf)
    <2>1. DOMAIN r.nodes = 1 .. Len(r.nodes)
      BY <1>2 DEF Wf, DagT
    <2>2. Len(r.nodes) \in DOMAIN r.nodes /\ 1 .. Len(r.nodes) - 1 = 1 .. Len(e.nodes)
      BY <1>2, <2>1
    <2>3. r.nodes[n.in[k]] = e.nodes[in[k]] /\ k \in DOMAIN n.in
      BY <1>1, <1>2, <1>3, <1>9
    <2>4. ~\E w \in 1 .. Len(e.nodes) : IsWriter(r.nodes[w], e.nodes[in[k]].buf)
      BY <1>2, <1>4, <1>9, <2>2, <2>3 DEF StaleRead
    <2> QED BY <1>2, <2>4 DEF HasWriter
  <1>10. \A k \in DOMAIN in : e.nodes[in[k]].val = RefVal(args[k])
    BY <1>7, <1>9 DEF Fits
  <1>11. ValsAt(e, in) = RefVals(args)
    BY <1>1, <1>10 DEF ValsAt, RefVals
  <1>12. ASSUME NEW b \in Buffers, r.act[b] # 0 PROVE r.nodes[r.act[b]].val = ref[b]
    <2>1. e.act[b] \in 1 .. Len(e.nodes) /\ r.nodes[r.act[b]] = e.nodes[e.act[b]]
      BY <1>1, <1>2, <1>12 DEF Wf, DagT
    <2>2. CASE \E k \in DOMAIN in : e.act[b] = in[k]
      <3>1. Fits(e.nodes, e.act[b], ref[b])
        BY <1>2, <1>8, <1>12 DEF Good
      <3> QED BY <2>1, <2>2, <3>1, <1>9 DEF Fits
    <2>3. CASE e.act[b] = dag.act[b]
      <3>1. dag.act[b] \in 1 .. Len(dag.nodes)
        BY <1>2, <1>12, <2>3 DEF Wf, DagT
      <3> QED BY <2>1, <2>3, <3>1, <1>1, <1>2, <1>6, <1>12 DEF Grown, ActGood
    <2> QED BY <2>2, <2>3, <1>1
  <1> QED BY <1>2, <1>3, <1>5, <1>11, <1>12 DEF ActGood, r

(* The outline of add_node and add_inplace_node: at most one more input for *)
(* each operand, one more node, and no writer but it.                       *)
LEMMA AddNodeShape ==
  ASSUME Wf(dag), SlotsT, NEW args \in Args, NEW op \in Ops, Arity(op, args),
         NEW buf \in Buffers \cup {None}, NEW shape \in Shapes, NEW inplace \in BOOLEAN
  PROVE  LET r == AddNode(op, args, buf, shape, inplace)
         IN  /\ Wf(r)
             /\ Len(dag.nodes) \in Nat /\ Len(r.nodes) \in Nat
             /\ Len(dag.nodes) < Len(r.nodes)
             /\ Len(r.nodes) <= Len(dag.nodes) + Len(args) + 1
             /\ \A i \in 1 .. Len(dag.nodes) : r.nodes[i] = dag.nodes[i]
             /\ r.nodes[Len(r.nodes)].buf = buf
             /\ \A b \in Buffers :
                  HasWriter(r.nodes, b) <=> (HasWriter(dag.nodes, b) \/ b = buf)
  <1> DEFINE r == AddNode(op, args, buf, shape, inplace)
             e == TouchAll(args)
             n == NewNode(op, args, buf, shape, inplace)
  <1>1. Wf(e) /\ Grown(dag, e) /\ Len(e.nodes) <= Len(dag.nodes) + Len(args)
    BY TouchAllFacts
  <1>2. /\ Wf(r) /\ Len(e.nodes) \in Nat
        /\ Len(r.nodes) = Len(e.nodes) + 1
        /\ \A i \in 1 .. Len(e.nodes) : r.nodes[i] = e.nodes[i]
        /\ r.nodes[Len(r.nodes)] = n
    BY AddNodeFacts
  <1>3. n.buf = buf /\ n.op # "input"
    BY DEF NewNode, Node, Arity
  <1>4. Len(args) \in Nat
    BY ArgsCases
  <1> HIDE DEF r, e, n
  <1>5. Len(dag.nodes) \in Nat /\ Len(dag.nodes) <= Len(e.nodes)
    BY <1>1 DEF Wf, DagT, Grown
  <1>6. \A i \in 1 .. Len(dag.nodes) : r.nodes[i] = dag.nodes[i]
    BY <1>1, <1>2, <1>5 DEF Grown
  <1>7. ASSUME NEW b \in Buffers
        PROVE  HasWriter(r.nodes, b) <=> (HasWriter(dag.nodes, b) \/ b = buf)
    <2> DEFINE m == Len(e.nodes)
    <2>a. m \in Nat /\ Len(r.nodes) = m + 1
      BY <1>2
    <2>b. \A w \in 1 .. m : IsWriter(r.nodes[w], b) <=> IsWriter(e.nodes[w], b)
      BY <1>2 DEF IsWriter
    <2>c. IsWriter(r.nodes[m + 1], b) <=> b = buf
      BY <1>2, <1>3, <2>a DEF IsWriter
    <2>d. HasWriter(e.nodes, b) <=> \E w \in 1 .. m : IsWriter(e.nodes[w], b)
      BY DEF HasWriter
    <2>e. HasWriter(r.nodes, b) <=> \E w \in 1 .. m + 1 : IsWriter(r.nodes[w], b)
      BY <2>a DEF HasWriter
    <2> HIDE DEF m
    <2>f. (\E w \in 1 .. m + 1 : IsWriter(r.nodes[w], b))
            <=> ((\E w \in 1 .. m : IsWriter(r.nodes[w], b)) \/ IsWriter(r.nodes[m + 1], b))
      BY <2>a
    <2>1. HasWriter(r.nodes, b) <=> (HasWriter(e.nodes, b) \/ b = buf)
      BY <2>b, <2>c, <2>d, <2>e, <2>f
    <2> QED BY <2>1, <1>1, GrownWriters
  <1> QED BY <1>1, <1>2, <1>3, <1>4, <1>5, <1>6, <1>7 DEF r

(* The address map of a buffer moved to the last node.                      *)
LEMMA SetAct ==
  ASSUME NEW r, Wf(r), NEW b \in Buffers, Len(r.nodes) \in Nat, Len(r.nodes) > 0,
         r.nodes[Len(r.nodes)].buf = b
  PROVE  LET f == [r EXCEPT !.act[b] = Len(r.nodes)]
         IN  /\ Wf(f) /\ f.nodes = r.nodes
             /\ \A c \in Buffers : f.act[c] = IF c = b THEN Len(r.nodes) ELSE r.act[c]
  <1> DEFINE f == [r EXCEPT !.act[b] = Len(r.nodes)]
  <1>1. /\ f \in DagT /\ f.nodes = r.nodes /\ f.inp = r.inp
        /\ \A c \in Buffers : f.act[c] = IF c = b THEN Len(r.nodes) ELSE r.act[c]
    BY DEF Wf, DagT
  <1> HIDE DEF f
  <1>2. Wf(f)
    BY <1>1 DEF Wf
  <1> QED BY <1>1, <1>2 DEF f

-----------------------------------------------------------------------------
(* Every symbolic variable is tracked at its slot, and nothing else is.     *)
Tracked(tr, js) ==
  /\ tr \in [Slots -> Temps \cup {None}]
  /\ js \in [Temps -> Slots \cup {0}]
  /\ \A t \in Temps, s \in Slots : tr[s] = t <=> js[t] = s

(* 0 is no slot, and None is no variable.                                   *)
LEMMA SlotsFacts == /\ 0 \notin Slots /\ None \notin Temps
                    /\ 2 * MaxReads \in Nat
  BY NoneAssumption, MaxReadsAssumption DEF Slots

(* A variable leaves its slot.                                              *)
LEMMA TrackedLeave ==
  ASSUME NEW tr, NEW js, Tracked(tr, js), NEW t \in Temps
  PROVE  Tracked(Retarget(tr, js[t], t, None), [js EXCEPT ![t] = 0])
  <1>1. CASE js[t] = 0
    BY <1>1, SlotsFacts DEF Tracked, Retarget
  <1>2. CASE js[t] # 0
    <2>1. js[t] \in Slots /\ tr[js[t]] = t
      BY <1>2 DEF Tracked
    <2>2. Retarget(tr, js[t], t, None) = [tr EXCEPT ![js[t]] = None]
      BY <1>2, <2>1 DEF Retarget
    <2>3. [tr EXCEPT ![js[t]] = None] \in [Slots -> Temps \cup {None}]
      BY DEF Tracked
    <2>4. ASSUME NEW u \in Temps, NEW s \in Slots
          PROVE  [tr EXCEPT ![js[t]] = None][s] = u <=> [js EXCEPT ![t] = 0][u] = s
      BY <2>1, SlotsFacts DEF Tracked
    <2>5. [js EXCEPT ![t] = 0] \in [Temps -> Slots \cup {0}]
      BY DEF Tracked
    <2> QED BY <2>2, <2>3, <2>4, <2>5 DEF Tracked
  <1> QED BY <1>1, <1>2

(* A variable that stands for nothing enters a slot nobody stands for.      *)
LEMMA TrackedEnter ==
  ASSUME NEW tr, NEW js, Tracked(tr, js), NEW t \in Temps, NEW s \in Slots,
         js[t] = 0, \A u \in Temps : js[u] # s
  PROVE  Tracked([tr EXCEPT ![s] = t], [js EXCEPT ![t] = s])
  <1>1. /\ [tr EXCEPT ![s] = t] \in [Slots -> Temps \cup {None}]
        /\ [js EXCEPT ![t] = s] \in [Temps -> Slots \cup {0}]
    BY DEF Tracked
  <1>2. ASSUME NEW u \in Temps, NEW q \in Slots
        PROVE  [tr EXCEPT ![s] = t][q] = u <=> [js EXCEPT ![t] = s][u] = q
    BY SlotsFacts DEF Tracked
  <1> QED BY <1>1, <1>2 DEF Tracked

(* A result over what the variable held.                                    *)
LEMMA TrackedResult ==
  ASSUME NEW tr, NEW js, Tracked(tr, js), NEW t \in Temps, NEW s \in Slots,
         \A u \in Temps : js[u] # s
  PROVE  Tracked([Retarget(tr, js[t], t, None) EXCEPT ![s] = t], [js EXCEPT ![t] = s])
  <1> DEFINE tr1 == Retarget(tr, js[t], t, None)
             js1 == [js EXCEPT ![t] = 0]
  <1>1. Tracked(tr1, js1)
    BY TrackedLeave
  <1>2. js1[t] = 0 /\ \A u \in Temps : js1[u] # s
    BY SlotsFacts DEF Tracked
  <1>3. [js1 EXCEPT ![t] = s] = [js EXCEPT ![t] = s]
    BY DEF Tracked
  <1> HIDE DEF tr1, js1
  <1>4. Tracked([tr1 EXCEPT ![s] = t], [js1 EXCEPT ![t] = s])
    BY <1>1, <1>2, TrackedEnter
  <1> QED BY <1>3, <1>4 DEF tr1

(* A variable moved over another.                                           *)
LEMMA TrackedMove ==
  ASSUME NEW tr, NEW js, Tracked(tr, js), NEW t \in Temps, NEW u \in Temps, t # u,
         js[t] # 0
  PROVE  Tracked(Retarget(Retarget(tr, js[u], u, None), js[t], t, u),
                 [js EXCEPT ![u] = js[t], ![t] = 0])
  <1> DEFINE tr1 == Retarget(tr, js[u], u, None)
             js1 == [js EXCEPT ![u] = 0]
             js2 == [js1 EXCEPT ![t] = 0]
             tr2 == Retarget(tr1, js1[t], t, None)
  <1>1. Tracked(tr1, js1)
    BY TrackedLeave
  <1>2. js1[t] = js[t]
    BY DEF Tracked
  <1> HIDE DEF tr1
  <1>3. Tracked(tr2, js2)
    BY <1>1, TrackedLeave
  <1>4. /\ js2[u] = 0 /\ js[t] \in Slots /\ \A v \in Temps : js2[v] # js[t]
        /\ tr1[js[t]] = t
    <2>1. js[t] \in Slots /\ tr1[js[t]] = t
      BY <1>1, <1>2 DEF Tracked
    <2>2. \A v \in Temps : js1[v] = js[t] => v = t
      BY <1>1, <2>1 DEF Tracked
    <2> QED BY <2>1, <2>2, SlotsFacts DEF Tracked
  <1>5. Tracked([tr2 EXCEPT ![js[t]] = u], [js2 EXCEPT ![u] = js[t]])
    <2> HIDE DEF tr2, js2
    <2> QED BY <1>3, <1>4, TrackedEnter
  <1>6. [js2 EXCEPT ![u] = js[t]] = [js EXCEPT ![u] = js[t], ![t] = 0]
    BY DEF Tracked
  <1>7. [tr2 EXCEPT ![js[t]] = u] = Retarget(tr1, js[t], t, u)
    BY <1>1, <1>2, <1>4 DEF Tracked, Retarget
  <1> QED BY <1>5, <1>6, <1>7 DEF tr1

-----------------------------------------------------------------------------
(* The inductive invariant.                                                 *)
Counted == /\ reads \in 0 .. MaxReads
           /\ Len(dag.nodes) <= 2 * reads
Eager == /\ ref = [b \in Buffers |-> ref[b]]
         /\ tref = [t \in Temps |-> tref[t]]
Faithful == ~StaleRead(dag.nodes) => ActGood(dag) /\ TempsGood(dag.nodes)

RecInv ==
  phase = "tracing" => /\ Wf(dag) /\ SlotsT /\ Counted
                       /\ Tracked(tracked, jitSlot)
                       /\ Eager /\ Sourced(dag.nodes) /\ Faithful

(* The number of the new node is a free slot.                               *)
LEMMA NewSlot ==
  ASSUME Wf(dag), SlotsT, Counted, NEW args \in Args, Recording(Len(args)),
         NEW op \in Ops, Arity(op, args),
         NEW buf \in Buffers \cup {None}, NEW shape \in Shapes, NEW inplace \in BOOLEAN
  PROVE  LET r == AddNode(op, args, buf, shape, inplace)
         IN  /\ Len(r.nodes) \in Slots
             /\ \A u \in Temps : jitSlot[u] # Len(r.nodes)
             /\ reads' \in 0 .. MaxReads /\ Len(r.nodes) <= 2 * reads'
             /\ jitSlot \in [Temps -> 0 .. Len(r.nodes)]
  <1> DEFINE r == AddNode(op, args, buf, shape, inplace)
  <1>1. /\ Len(dag.nodes) \in Nat /\ Len(r.nodes) \in Nat
        /\ Len(dag.nodes) < Len(r.nodes)
        /\ Len(r.nodes) <= Len(dag.nodes) + Len(args) + 1
    BY AddNodeShape
  <1> HIDE DEF r
  <1>2. Len(args) \in {1, 2}
    BY ArgsCases
  <1>3. reads' \in 0 .. MaxReads /\ Len(r.nodes) <= 2 * reads'
    <2> DEFINE m == Len(args)
    <2>1. /\ reads \in Nat /\ reads + m <= MaxReads /\ reads' = reads + m
          /\ Len(dag.nodes) <= 2 * reads /\ m \in {1, 2}
      BY <1>2, MaxReadsAssumption DEF Counted, Recording
    <2> HIDE DEF m
    <2>2. Len(r.nodes) <= Len(dag.nodes) + m + 1
      BY <1>1 DEF m
    <2> QED BY <1>1, <2>1, <2>2, MaxReadsAssumption
  <1>4. Len(r.nodes) \in Slots
    BY <1>1, <1>3, MaxReadsAssumption DEF Slots
  <1>5. /\ jitSlot \in [Temps -> 0 .. Len(r.nodes)]
        /\ \A u \in Temps : jitSlot[u] # Len(r.nodes)
    BY <1>1 DEF SlotsT
  <1> QED BY <1>3, <1>4, <1>5 DEF r

(* An op whose result is a variable.                                        *)
LEMMA TempStep ==
  ASSUME RecInv, NEW t \in Temps, NEW args \in Args, Recording(Len(args)),
         NEW op \in Ops, Arity(op, args), NEW shape \in Shapes, NEW inplace \in BOOLEAN,
         dag' = AddNode(op, args, None, shape, inplace),
         tracked' = [Retarget(tracked, jitSlot[t], t, None) EXCEPT ![Len(dag'.nodes)] = t],
         jitSlot' = [jitSlot EXCEPT ![t] = Len(dag'.nodes)],
         tref' = [tref EXCEPT ![t] = Ap(op, RefVals(args))],
         ref' = ref
  PROVE  RecInv'
  <1>1. phase = "tracing" /\ None \in Buffers \cup {None}
    BY DEF Recording
  <1>2. /\ Wf(dag) /\ SlotsT /\ Counted /\ Tracked(tracked, jitSlot)
        /\ Eager /\ Sourced(dag.nodes) /\ Faithful
    BY <1>1 DEF RecInv
  <1>3. /\ Wf(dag') /\ Len(dag.nodes) \in Nat /\ Len(dag'.nodes) \in Nat
        /\ Len(dag.nodes) < Len(dag'.nodes)
        /\ \A i \in 1 .. Len(dag.nodes) : dag'.nodes[i] = dag.nodes[i]
        /\ \A b \in Buffers :
             HasWriter(dag'.nodes, b) <=> (HasWriter(dag.nodes, b) \/ b = None)
    BY <1>1, <1>2, AddNodeShape
  <1>4. /\ Len(dag'.nodes) \in Slots
        /\ \A u \in Temps : jitSlot[u] # Len(dag'.nodes)
        /\ reads' \in 0 .. MaxReads /\ Len(dag'.nodes) <= 2 * reads'
        /\ jitSlot \in [Temps -> 0 .. Len(dag'.nodes)]
    BY <1>1, <1>2, NewSlot
  <1>5. SlotsT'
    BY <1>3, <1>4 DEF SlotsT
  <1>6. Tracked(tracked', jitSlot')
    BY <1>2, <1>4, TrackedResult
  <1>7. Eager'
    <2>1. tref' = [u \in Temps |-> tref'[u]]
      BY <1>2 DEF Eager
    <2> QED BY <1>2, <2>1 DEF Eager
  <1>8. Sourced(dag.nodes)'
    BY <1>2, <1>3, NoneAssumption DEF Sourced
  <1>9. ASSUME ~StaleRead(dag'.nodes) PROVE ActGood(dag)' /\ TempsGood(dag.nodes)'
    <2>1. /\ ~StaleRead(dag.nodes)
          /\ dag'.nodes[Len(dag'.nodes)].val = Ap(op, RefVals(args))
          /\ ActGood(dag')
      BY <1>1, <1>2, <1>9, AddNodeGood DEF Faithful
    <2>2. ActGood(dag)'
      BY <2>1 DEF ActGood
    <2>3. ASSUME NEW u \in Temps, jitSlot'[u] # 0
          PROVE  dag'.nodes[jitSlot'[u]].val = tref'[u]
      <3>1. CASE u = t
        <4>1. jitSlot'[u] = Len(dag'.nodes)
          BY <3>1, <1>2 DEF SlotsT
        <4>2. tref'[u] = Ap(op, RefVals(args))
          BY <3>1, <1>2 DEF Eager
        <4> QED BY <4>1, <4>2, <2>1
      <3>2. CASE u # t
        <4>1. jitSlot'[u] = jitSlot[u] /\ tref'[u] = tref[u]
          BY <3>2, <1>2 DEF SlotsT, Eager
        <4>2. jitSlot[u] \in 1 .. Len(dag.nodes)
          BY <2>3, <4>1, <1>2, <1>3 DEF SlotsT
        <4> QED BY <4>1, <4>2, <2>1, <2>3, <1>2, <1>3 DEF Faithful, TempsGood
      <3> QED BY <3>1, <3>2
    <2> QED BY <2>2, <2>3 DEF TempsGood
  <1> QED BY <1>3, <1>4, <1>5, <1>6, <1>7, <1>8, <1>9 DEF RecInv, Counted, Faithful

(* An op that writes a tensor of the client.                                *)
LEMMA TensorStep ==
  ASSUME RecInv, NEW x \in Tensors, NEW args \in Args, Recording(Len(args)),
         NEW op \in Ops, Arity(op, args), NEW shape \in Shapes, NEW inplace \in BOOLEAN,
         NEW r, r = AddNode(op, args, x[1], shape, inplace),
         dag' = [r EXCEPT !.act[x[1]] = Len(r.nodes)],
         ref' = [ref EXCEPT ![x[1]] = Ap(op, RefVals(args))],
         UNCHANGED <<jitSlot, tracked, tref>>
  PROVE  RecInv'
  <1> DEFINE b == x[1]
  <1>1. phase = "tracing" /\ b \in Buffers /\ b \in Buffers \cup {None}
    BY TensorsAssumption DEF Recording
  <1>2. /\ Wf(dag) /\ SlotsT /\ Counted /\ Tracked(tracked, jitSlot)
        /\ Eager /\ Sourced(dag.nodes) /\ Faithful
    BY <1>1 DEF RecInv
  <1>3. /\ Wf(r) /\ Len(dag.nodes) \in Nat /\ Len(r.nodes) \in Nat
        /\ Len(dag.nodes) < Len(r.nodes)
        /\ \A i \in 1 .. Len(dag.nodes) : r.nodes[i] = dag.nodes[i]
        /\ r.nodes[Len(r.nodes)].buf = b
        /\ \A c \in Buffers :
             HasWriter(r.nodes, c) <=> (HasWriter(dag.nodes, c) \/ c = b)
    BY <1>1, <1>2, AddNodeShape
  <1>4. /\ reads' \in 0 .. MaxReads /\ Len(r.nodes) <= 2 * reads'
        /\ jitSlot \in [Temps -> 0 .. Len(r.nodes)]
    BY <1>1, <1>2, NewSlot
  <1>5. /\ Wf(dag') /\ dag'.nodes = r.nodes
        /\ \A c \in Buffers : dag'.act[c] = IF c = b THEN Len(r.nodes) ELSE r.act[c]
    BY <1>1, <1>3, SetAct
  <1>6. SlotsT'
    BY <1>4, <1>5 DEF SlotsT
  <1>7. /\ ref'[b] = Ap(op, RefVals(args))
        /\ \A c \in Buffers : c # b => ref'[c] = ref[c]
        /\ Eager'
    BY <1>1, <1>2 DEF Eager
  <1>8. Sourced(dag.nodes)'
    BY <1>2, <1>3, <1>5, <1>7 DEF Sourced
  <1>9. ASSUME ~StaleRead(dag'.nodes) PROVE ActGood(dag)' /\ TempsGood(dag.nodes)'
    <2>1. /\ ~StaleRead(dag.nodes)
          /\ r.nodes[Len(r.nodes)].val = Ap(op, RefVals(args))
          /\ ActGood(r)
      BY <1>1, <1>2, <1>5, <1>9, AddNodeGood DEF Faithful
    <2>2. ActGood(dag)'
      BY <2>1, <1>5, <1>7 DEF ActGood
    <2>3. ASSUME NEW u \in Temps, jitSlot'[u] # 0
          PROVE  dag'.nodes[jitSlot'[u]].val = tref'[u]
      <3>1. jitSlot'[u] = jitSlot[u] /\ tref'[u] = tref[u]
        OBVIOUS
      <3>2. jitSlot[u] \in 1 .. Len(dag.nodes)
        BY <2>3, <3>1, <1>2, <1>3 DEF SlotsT
      <3> QED BY <3>1, <3>2, <2>1, <2>3, <1>2, <1>3, <1>5 DEF Faithful, TempsGood
    <2> QED BY <2>2, <2>3 DEF TempsGood
  <1>10. Tracked(tracked', jitSlot')
    BY <1>2
  <1> QED BY <1>4, <1>5, <1>6, <1>7, <1>8, <1>9, <1>10 DEF RecInv, Counted, Faithful

(* The shape of an operand is a shape.                                      *)
LEMMA OperandShape ==
  ASSUME Wf(dag), SlotsT, NEW a \in Operands
  PROVE  ShapeOf(a) \in Shapes
  <1>1. CASE a \in Temps
    <2>1. jitSlot[a] \in 1 .. Len(dag.nodes)
      BY <1>1, TempsAssumption DEF Operands, SlotsT, Wf, DagT
    <2>2. dag.nodes[jitSlot[a]] \in NodeT
      BY <2>1 DEF Wf, DagT
    <2> QED BY <1>1, <2>2 DEF ShapeOf, NodeT
  <1>2. CASE a \notin Temps
    BY <1>2, TensorsAssumption DEF Operands, ShapeOf
  <1> QED BY <1>1, <1>2

(* An op has one operand or two.                                            *)
LEMMA FirstOperand ==
  ASSUME NEW args \in Args
  PROVE  args[1] \in Operands /\ (Len(args) = 1 \/ Len(args) = 2)
  BY ArgsCases

-----------------------------------------------------------------------------
(* Before the first trace nothing is recorded.                              *)
LEMMA InitRec == Init => RecInv
  BY DEF Init, TraceInit, RecInv

(* begin_trace() starts from an empty DAG.                                  *)
LEMMA BeginTraceRec == BeginTrace => RecInv'
  <1> SUFFICES ASSUME BeginTrace PROVE RecInv'
    OBVIOUS
  <1>1. dag' = EmptyDag
    BY DEF BeginTrace
  <1>2. /\ EmptyDag.nodes = <<>> /\ Len(EmptyDag.nodes) = 0
        /\ \A b \in Buffers : EmptyDag.act[b] = 0 /\ EmptyDag.inp[b] = 0
        /\ EmptyDag \in DagT
    BY EmptySeq DEF EmptyDag, DagT
  <1>3. Wf(dag')
    BY <1>1, <1>2 DEF Wf
  <1>4. SlotsT' /\ Counted' /\ Eager'
    BY <1>1, <1>2, MaxReadsAssumption DEF SlotsT, Counted, Eager, BeginTrace
  <1>5. Tracked(tracked', jitSlot')
    BY SlotsFacts DEF Tracked, BeginTrace
  <1>6. Sourced(dag.nodes)' /\ ActGood(dag)' /\ TempsGood(dag.nodes)'
    BY <1>1, <1>2 DEF Sourced, ActGood, TempsGood, BeginTrace
  <1> QED BY <1>3, <1>4, <1>5, <1>6 DEF RecInv, Faithful

(* t = op(a, b) keeps the invariant.                                        *)
LEMMA RecordOpRec ==
  ASSUME RecInv, NEW t \in Temps, NEW args \in Args, NEW op, RecordOp(t, op, args)
  PROVE  RecInv'
  <1>1. Wf(dag) /\ SlotsT /\ Recording(Len(args))
    BY DEF RecInv, RecordOp, Recording
  <1>2. op \in Ops /\ Arity(op, args)
    BY FirstOperand DEF RecordOp, OpKinds, Ops, Arity
  <1>3. ShapeOf(args[1]) \in Shapes
    BY <1>1, FirstOperand, OperandShape
  <1> QED BY <1>1, <1>2, <1>3, TempStep DEF RecordOp

(* So does store().                                                         *)
LEMMA RecordStoreRec ==
  ASSUME RecInv, NEW dst \in Tensors, NEW a \in Operands, RecordStore(dst, a)
  PROVE  RecInv'
  <1> DEFINE args == <<a>>
  <1>1. args \in Args /\ Len(args) = 1 /\ Recording(Len(args))
    BY DEF Args, RecordStore
  <1>2. "copy" \in Ops /\ Arity("copy", args) /\ dst[2] \in Shapes
    BY TensorsAssumption DEF Ops, Arity
  <1>3. Ap("copy", RefVals(args)) = Ap("copy", <<RefVal(a)>>)
    BY DEF Ap, RefVals
  <1> QED BY <1>1, <1>2, <1>3, TensorStep DEF RecordStore

(* So does an updating operator on a tensor of the client.                  *)
LEMMA RecordInplaceTensorRec ==
  ASSUME RecInv, NEW x \in Tensors, NEW args \in Args, RecordInplaceTensor(x, args)
  PROVE  RecInv'
  <1> DEFINE op == IF Len(args) = 1 THEN "map" ELSE "add"
  <1>1. Recording(Len(args)) /\ x[2] \in Shapes
    BY TensorsAssumption DEF RecordInplaceTensor
  <1>2. op \in Ops /\ Arity(op, args)
    BY FirstOperand DEF Ops, Arity
  <1> QED BY <1>1, <1>2, TensorStep DEF RecordInplaceTensor

(* So does an updating operator on a traced result.                         *)
LEMMA RecordInplaceTempRec ==
  ASSUME RecInv, NEW t \in Temps, NEW args \in Args, RecordInplaceTemp(t, args)
  PROVE  RecInv'
  <1> DEFINE op == IF Len(args) = 1 THEN "map" ELSE "add"
  <1>1. /\ Wf(dag) /\ SlotsT /\ Recording(Len(args))
        /\ Tracked(tracked, jitSlot)
    BY DEF RecInv, RecordInplaceTemp, Recording
  <1>2. op \in Ops /\ Arity(op, args)
    BY FirstOperand DEF Ops, Arity
  <1>3. t \in Operands /\ ShapeOf(t) \in Shapes
    BY <1>1, FirstOperand, OperandShape DEF RecordInplaceTemp
  <1>4. jitSlot[t] # 0
    BY <1>3, TempsAssumption DEF Operands
  <1>5. tracked[jitSlot[t]] = t
    BY <1>1, <1>4 DEF Tracked
  <1>6. Retarget(tracked, jitSlot[t], t, None) = [tracked EXCEPT ![jitSlot[t]] = None]
    BY <1>4, <1>5 DEF Retarget
  <1> QED BY <1>1, <1>2, <1>3, <1>6, TempStep DEF RecordInplaceTemp

(* Steps on the variables alone.                                            *)
LEMMA SlotsStep ==
  ASSUME RecInv, phase = "tracing", UNCHANGED <<dag, reads, ref>>,
         Tracked(tracked', jitSlot'), SlotsT', Eager',
         TempsGood(dag.nodes) => TempsGood(dag.nodes)'
  PROVE  RecInv'
  <1>1. Sourced(dag.nodes)' /\ (ActGood(dag) => ActGood(dag)')
    BY DEF RecInv, Sourced, ActGood
  <1> QED BY <1>1 DEF RecInv, Faithful, Counted

(* So does the destructor of a traced result,                               *)
LEMMA DropTempRec ==
  ASSUME RecInv, NEW t \in Temps, DropTemp(t)
  PROVE  RecInv'
  <1>1. SlotsT /\ Eager /\ Tracked(tracked, jitSlot) /\ Len(dag.nodes) \in Nat
    BY DEF RecInv, DropTemp, Wf, DagT
  <1>2. Tracked(tracked', jitSlot')
    BY <1>1, TrackedLeave DEF DropTemp
  <1>3. SlotsT' /\ Eager'
    <2>1. SlotsT'
      BY <1>1 DEF DropTemp, SlotsT
    <2>2. tref' = [tref EXCEPT ![t] = <<>>] /\ ref' = ref
      BY DEF DropTemp
    <2> QED BY <1>1, <2>1, <2>2 DEF Eager
  <1>4. TempsGood(dag.nodes) => TempsGood(dag.nodes)'
    BY <1>1 DEF DropTemp, TempsGood, SlotsT, Eager
  <1> QED BY <1>2, <1>3, <1>4, SlotsStep DEF DropTemp

(* and the move of one over another.                                        *)
LEMMA MoveTempRec ==
  ASSUME RecInv, NEW t \in Temps, NEW u \in Temps, MoveTemp(t, u)
  PROVE  RecInv'
  <1>1. SlotsT /\ Eager /\ Tracked(tracked, jitSlot) /\ Len(dag.nodes) \in Nat
    BY DEF RecInv, MoveTemp, Wf, DagT
  <1>2. Tracked(tracked', jitSlot')
    BY <1>1, TrackedMove DEF MoveTemp
  <1>3. SlotsT' /\ Eager'
    <2>1. SlotsT'
      BY <1>1 DEF MoveTemp, SlotsT
    <2>2. tref' = [tref EXCEPT ![u] = tref[t], ![t] = <<>>] /\ ref' = ref
      BY DEF MoveTemp
    <2> QED BY <1>1, <2>1, <2>2 DEF Eager
  <1>4. TempsGood(dag.nodes) => TempsGood(dag.nodes)'
    BY <1>1 DEF MoveTemp, TempsGood, SlotsT, Eager
  <1> QED BY <1>2, <1>3, <1>4, SlotsStep DEF MoveTemp

(* The invariant holds of every state: one case for each action.            *)
THEOREM RecordingCorrect == Spec => []RecInv
  <1>1. Init => RecInv
    BY InitRec
  <1>2. RecInv /\ [Next]_vars => RecInv'
    <2> SUFFICES ASSUME RecInv, [Next]_vars PROVE RecInv'
      OBVIOUS
    <2>1. CASE BeginTrace
      BY <2>1, BeginTraceRec
    <2>2. ASSUME NEW t \in Temps, NEW args \in Args, NEW op, RecordOp(t, op, args)
          PROVE  RecInv'
      BY <2>2, RecordOpRec
    <2>3. ASSUME NEW dst \in Tensors, NEW a \in Operands, RecordStore(dst, a)
          PROVE  RecInv'
      BY <2>3, RecordStoreRec
    <2>4. ASSUME NEW x \in Tensors, NEW args \in Args, RecordInplaceTensor(x, args)
          PROVE  RecInv'
      BY <2>4, RecordInplaceTensorRec
    <2>5. ASSUME NEW t \in Temps, NEW args \in Args, RecordInplaceTemp(t, args)
          PROVE  RecInv'
      BY <2>5, RecordInplaceTempRec
    <2>6. ASSUME NEW t \in Temps, DropTemp(t) PROVE RecInv'
      BY <2>6, DropTempRec
    <2>7. ASSUME NEW t \in Temps, NEW u \in Temps, MoveTemp(t, u) PROVE RecInv'
      BY <2>7, MoveTempRec
    <2>8. CASE AbortTrace
      BY <2>8 DEF AbortTrace, RecInv
    <2>9. CASE EndTrace
      BY <2>9 DEF EndTrace, RecInv
    <2>10. CASE EndTraceThrows
      BY <2>10 DEF EndTraceThrows, RecInv
    <2>11. CASE UNCHANGED vars
      BY <2>11 DEF vars, recVars, RecInv, SlotsT, Counted, Eager, Sourced, Faithful,
                   ActGood, TempsGood
    <2>12. CASE Record
      BY <2>1, <2>2, <2>3, <2>4, <2>5, <2>6, <2>7, <2>8, <2>12
         DEF Record, RecordNext, Statement
    <2> QED BY <2>9, <2>10, <2>11, <2>12 DEF Next
  <1> QED BY <1>1, <1>2, PTL DEF Spec

(* TrackingExact: end_trace() and abort_trace() reach every symbolic tensor *)
(* and no other, for any number of tensors and any order of moves,          *)
(* overwrites, in-place ops and destructions.                               *)
THEOREM TrackingExactHolds == Spec => []TrackingExact
  <1>1. RecInv => TrackingExact
    BY DEF RecInv, Tracked, TrackingExact
  <1> QED BY <1>1, RecordingCorrect, PTL

(* SlotsFaithful: while no stale read was recorded, every slot a tensor or a *)
(* buffer is found under computes its eager value.                          *)
THEOREM SlotsFaithfulHolds == Spec => []SlotsFaithful
  <1>1. RecInv => SlotsFaithful
    <2> SUFFICES ASSUME RecInv, phase = "tracing", ~StaleRead(dag.nodes)
                 PROVE  /\ \A t \in Temps :
                             jitSlot[t] # 0 => dag.nodes[jitSlot[t]].val = tref[t]
                        /\ \A x \in Tensors : SlotMatches(dag, dag.act[x[1]], x) =>
                             dag.nodes[dag.act[x[1]]].val = ref[x[1]]
      BY DEF SlotsFaithful
    <2>1. ActGood(dag) /\ TempsGood(dag.nodes)
      BY DEF RecInv, Faithful
    <2>2. \A x \in Tensors : x[1] \in Buffers
      BY TensorsAssumption
    <2> QED BY <2>1, <2>2 DEF ActGood, TempsGood, SlotMatches
  <1> QED BY <1>1, RecordingCorrect, PTL

-----------------------------------------------------------------------------
(* A nonempty set of naturals has a least element.                          *)
LEMMA LeastNat ==
  ASSUME NEW S \in SUBSET Nat, S # {}
  PROVE  \E x \in S : \A y \in S : x <= y
  <1> DEFINE R == OpToRel(<, Nat)
  <1>1. \E x \in S : \A y \in S : ~ (<<y, x>> \in R)
    BY NatLessThanWellFounded, WFMin
  <1>2. \A x, y \in Nat : x < y => <<x, y>> \in R
    BY Zenon DEF OpToRel
  <1> HIDE DEF R
  <1>3. PICK x \in S : \A y \in S : ~ (<<y, x>> \in R)
    BY <1>1
  <1>4. ASSUME NEW y \in S PROVE x <= y
    <2>1. x \in Nat /\ y \in Nat /\ ~(y < x)
      BY <1>2, <1>3
    <2> QED BY <2>1
  <1> QED BY <1>4

(* A nonempty set of node numbers has a greatest element, and Max is it.    *)
LEMMA MaxIn ==
  ASSUME NEW n \in Nat, NEW S \in SUBSET (1 .. n), S # {}
  PROVE  Max(S) \in S /\ \A y \in S : y <= Max(S)
  <1> DEFINE T == {n - y : y \in S}
  <1>1. T \in SUBSET Nat /\ T # {}
    OBVIOUS
  <1> HIDE DEF T
  <1>2. PICK z \in T : \A y \in T : z <= y
    BY <1>1, LeastNat
  <1>3. PICK x \in S : z = n - x
    BY DEF T
  <1>4. ASSUME NEW y \in S PROVE x >= y
    <2>1. n - y \in T
      BY DEF T
    <2>2. n - x <= n - y /\ x \in 1 .. n /\ y \in 1 .. n
      BY <1>2, <1>3, <2>1
    <2> QED BY <2>2
  <1> DEFINE P(q) == q \in S /\ \A y \in S : q >= y
  <1>5. Max(S) = CHOOSE q : P(q)
    BY DEF Max
  <1>6. P(x)
    BY <1>4
  <1> HIDE DEF P
  <1>7. P(Max(S))
    BY <1>5, <1>6
  <1>8. Max(S) \in S /\ \A y \in S : Max(S) >= y
    BY <1>7 DEF P
  <1> QED BY <1>8

-----------------------------------------------------------------------------
(* One instruction of the eager program.                                    *)
ReadAt(nodes, s, i) == IF nodes[i].buf # None THEN s.mem[nodes[i].buf] ELSE s.tmp[i]
Computed(nodes, s, i) ==
  Ap(nodes[i].op, [k \in DOMAIN nodes[i].in |-> ReadAt(nodes, s, nodes[i].in[k])])
ProgramStep(nodes, s, i) ==
  IF nodes[i].op = "input" \/ (nodes[i].buf = None /\ ~HasConsumer(nodes, i)) THEN s
  ELSE IF nodes[i].buf # None THEN [s EXCEPT !.mem[nodes[i].buf] = Computed(nodes, s, i)]
  ELSE [s EXCEPT !.tmp[i] = Computed(nodes, s, i)]
ProgramStart(nodes, mem0) == [mem |-> mem0, tmp |-> [j \in DOMAIN nodes |-> <<>>]]

(* A sequence of states that starts and steps like the program is its run.  *)
LEMMA ProgramRuns ==
  ASSUME NEW c, NEW mem0, Len(c) \in Nat, NEW G,
         G = [i \in 0 .. Len(c) |-> G[i]],
         G[0] = ProgramStart(c, mem0),
         \A i \in 1 .. Len(c) : G[i] = ProgramStep(c, G[i - 1], i)
  PROVE  Program(c, mem0) = G[Len(c)].mem
  <1> DEFINE Sol(v) == v = [i \in 0 .. Len(c) |->
                              IF i = 0 THEN ProgramStart(c, mem0)
                              ELSE ProgramStep(c, v[i - 1], i)]
             run == CHOOSE v : Sol(v)
  <1>1. Program(c, mem0) = run[Len(c)].mem
    BY DEF Program, ProgramStart, ProgramStep, Computed, ReadAt
  <1>2. Sol(G)
    OBVIOUS
  <1> HIDE DEF Sol
  <1>3. Sol(run)
    BY <1>2
  <1> HIDE DEF run
  <1>4. /\ run[0] = ProgramStart(c, mem0)
        /\ \A i \in 1 .. Len(c) : run[i] = ProgramStep(c, run[i - 1], i)
    BY <1>3 DEF Sol
  <1> DEFINE S == {i \in 0 .. Len(c) : run[i] # G[i]}
  <1>5. CASE S # {}
    <2>1. S \in SUBSET Nat
      OBVIOUS
    <2>2. PICK i \in S : \A y \in S : i <= y
      BY <1>5, <2>1, LeastNat
    <2>3. i \in 1 .. Len(c) /\ i - 1 \in 0 .. Len(c) /\ i - 1 \notin S
      BY <2>2, <1>4
    <2>4. run[i - 1] = G[i - 1]
      BY <2>3
    <2> QED BY <2>2, <2>3, <2>4, <1>4
  <1> QED BY <1>1, <1>5

-----------------------------------------------------------------------------
(* What eval_chain computes for a node, given the values of some.           *)
ChainStep(nodes, given, v, i) ==
  IF i \in DOMAIN given THEN given[i]
  ELSE Ap(nodes[i].op, [k \in DOMAIN nodes[i].in |-> v[nodes[i].in[k]]])

(* Operands come before their users.                                        *)
Ordered(nodes, n) ==
  /\ n \in Nat /\ DOMAIN nodes = 1 .. n
  /\ \A i \in 1 .. n : \A k \in DOMAIN nodes[i].in : nodes[i].in[k] \in 1 .. i - 1

(* A node's value depends on those before it.                               *)
LEMMA ChainStepSame ==
  ASSUME NEW nodes, NEW n, Ordered(nodes, n), NEW given, NEW i \in 1 .. n, NEW v, NEW w,
         \A j \in 1 .. i - 1 : v[j] = w[j]
  PROVE  ChainStep(nodes, given, v, i) = ChainStep(nodes, given, w, i)
  <1>1. \A k \in DOMAIN nodes[i].in : v[nodes[i].in[k]] = w[nodes[i].in[k]]
    BY DEF Ordered
  <1>2. [k \in DOMAIN nodes[i].in |-> v[nodes[i].in[k]]]
          = [k \in DOMAIN nodes[i].in |-> w[nodes[i].in[k]]]
    BY <1>1
  <1> QED BY <1>2 DEF ChainStep

(* Values that satisfy the equations of eval_chain are its result.          *)
LEMMA ChainIs ==
  ASSUME NEW nodes, NEW n, Ordered(nodes, n), NEW given, NEW g \in [1 .. n -> Val],
         \A i \in 1 .. n : g[i] = ChainStep(nodes, given, g, i)
  PROVE  Chain(nodes, given) = g
  <1> DEFINE Sol(v) == v = [i \in DOMAIN nodes |-> ChainStep(nodes, given, v, i)]
             r == CHOOSE v : Sol(v)
  <1>0. n \in Nat /\ DOMAIN nodes = 1 .. n
    BY DEF Ordered
  <1>1. Chain(nodes, given) = r
    BY DEF Chain, ChainStep
  <1>2. Sol(g)
    BY <1>0
  <1> HIDE DEF Sol
  <1>3. Sol(r)
    BY <1>2
  <1> HIDE DEF r
  <1>4. r = [i \in 1 .. n |-> ChainStep(nodes, given, r, i)]
    BY <1>0, <1>3 DEF Sol
  <1> DEFINE S == {i \in 1 .. n : r[i] # g[i]}
  <1>5. CASE S # {}
    <2>1. S \in SUBSET Nat
      BY <1>0
    <2>2. PICK i \in S : \A y \in S : i <= y
      BY <1>5, <2>1, LeastNat
    <2>3. i \in 1 .. n /\ \A j \in 1 .. i - 1 : r[j] = g[j]
      BY <1>0, <2>2
    <2> HIDE DEF S
    <2>4. ChainStep(nodes, given, r, i) = ChainStep(nodes, given, g, i)
      BY <2>3, ChainStepSame, ZenonT(60)
    <2> QED BY <2>2, <2>3, <2>4, <1>4 DEF S
  <1>6. CASE S = {}
    <2>1. \A i \in 1 .. n : r[i] = g[i]
      BY <1>6
    <2>2. r = [i \in 1 .. n |-> r[i]]
      BY <1>4
    <2> QED BY <1>1, <2>1, <2>2
  <1> QED BY <1>5, <1>6

(* The nodes of a DAG whose inputs are given have values.                   *)
LEMMA ChainExists ==
  ASSUME NEW nodes, NEW n, Ordered(nodes, n), NEW given,
         \A i \in DOMAIN given : given[i] \in Val,
         \A i \in 1 .. n : i \in DOMAIN given \/
           /\ nodes[i].op \in {"map", "norm", "copy", "add"}
           /\ 1 \in DOMAIN nodes[i].in /\ (nodes[i].op = "add" => 2 \in DOMAIN nodes[i].in)
  PROVE  /\ Chain(nodes, given) \in [1 .. n -> Val]
         /\ \A i \in 1 .. n :
              Chain(nodes, given)[i] = ChainStep(nodes, given, Chain(nodes, given), i)
  <1>0. n \in Nat
    BY DEF Ordered
  <1> DEFINE Part(m, f) == /\ f \in [1 .. m -> Val]
                           /\ \A i \in 1 .. m : f[i] = ChainStep(nodes, given, f, i)
             S == {m \in 0 .. n : ~ \E f : Part(m, f)}
  <1>1. ASSUME NEW m \in 1 .. n, NEW f, Part(m - 1, f) PROVE \E g : Part(m, g)
    <2> DEFINE v == ChainStep(nodes, given, f, m)
               g == [i \in 1 .. m |-> IF i = m THEN v ELSE f[i]]
    <2>1. v \in Val
      <3>1. CASE m \in DOMAIN given
        BY <3>1 DEF ChainStep
      <3>2. CASE m \notin DOMAIN given
        <4> DEFINE a == [k \in DOMAIN nodes[m].in |-> f[nodes[m].in[k]]]
        <4>1. \A k \in DOMAIN nodes[m].in : nodes[m].in[k] \in 1 .. m - 1
          BY DEF Ordered
        <4>2. \A k \in DOMAIN nodes[m].in : a[k] \in Val
          BY <1>1, <4>1
        <4> HIDE DEF a
        <4>3. Ap(nodes[m].op, a) \in Val
          BY <3>2, <4>2, ApType
        <4> QED BY <3>2, <4>3 DEF ChainStep, a
      <3> QED BY <3>1, <3>2
    <2> HIDE DEF v
    <2>2. g \in [1 .. m -> Val]
      BY <2>1, <1>0, <1>1
    <2>3. \A j \in 1 .. m - 1 : g[j] = f[j]
      BY <1>0
    <2>4. g[m] = v
      BY <1>0
    <2> HIDE DEF g
    <2>5. ASSUME NEW i \in 1 .. m PROVE g[i] = ChainStep(nodes, given, g, i)
      <3>1. i \in 1 .. n /\ \A j \in 1 .. i - 1 : g[j] = f[j]
        BY <1>0, <2>3
      <3>2. ChainStep(nodes, given, g, i) = ChainStep(nodes, given, f, i)
        BY <3>1, ChainStepSame
      <3>3. CASE i = m
        BY <3>2, <3>3, <2>4 DEF v
      <3>4. CASE i # m
        <4>1. i \in 1 .. m - 1
          BY <3>4, <1>0
        <4> QED BY <4>1, <3>2, <2>3, <1>1
      <3> QED BY <3>3, <3>4
    <2> QED BY <2>2, <2>5
  <1>2. Part(0, [i \in 1 .. 0 |-> <<>>])
    OBVIOUS
  <1> HIDE DEF Part
  <1>3. CASE S # {}
    <2>1. S \in SUBSET Nat
      BY <1>0
    <2>2. PICK m \in S : \A y \in S : m <= y
      BY <1>3, <2>1, LeastNat
    <2>3. m # 0 /\ m \in 0 .. n /\ ~ \E f : Part(m, f)
      BY <1>2, <2>2
    <2>4. m \in 1 .. n /\ m - 1 \in 0 .. n /\ m - 1 \notin S
      BY <1>0, <2>2, <2>3
    <2>5. PICK f : Part(m - 1, f)
      BY <2>4
    <2> QED BY <2>3, <2>4, <2>5, <1>1
  <1>4. CASE S = {}
    <2>1. PICK f : Part(n, f)
      BY <1>0, <1>4
    <2>2. f \in [1 .. n -> Val] /\ \A i \in 1 .. n : f[i] = ChainStep(nodes, given, f, i)
      BY <2>1 DEF Part
    <2> HIDE DEF S
    <2>3. Chain(nodes, given) = f
      BY <2>2, ChainIs, ZenonT(60)
    <2> QED BY <2>1, <2>3 DEF Part
  <1> QED BY <1>3, <1>4

(* The reduction's operand x needs itself, whatever needed nodes read, and  *)
(* nothing else: every other needed node is read by one.                    *)
LEMMA InPreFacts ==
  ASSUME NEW c, NEW n, Ordered(c, n), Len(c) = n, NEW x \in 1 .. n
  PROVE  LET pre == InPre(c, x)
         IN  /\ pre \subseteq 1 .. n /\ x \in pre
             /\ \A j \in pre : Sources(c[j]) \subseteq pre
             /\ \A i \in pre : i = x \/ \E j \in pre : j > i /\ i \in Sources(c[j])
             /\ \A i \in pre : i <= x
  <1>0. n \in Nat /\ DOMAIN c = 1 .. n
    BY DEF Ordered
  <1>s. \A j \in 1 .. n : Sources(c[j]) \subseteq 1 .. j - 1
    BY DEF Ordered, Sources
  <1> DEFINE Up(P, i) == i = x \/ \E j \in (i + 1) .. n : i \in Sources(c[j]) /\ j \in P
             Closing(Q) == x \in Q /\ \A j \in Q : Sources(c[j]) \subseteq Q
             P == {i \in 1 .. n : \A Q \in SUBSET (1 .. n) : Closing(Q) => i \in Q}
  <1>1. Closing(P)
    <2>1. x \in P
      OBVIOUS
    <2>2. ASSUME NEW j \in P, NEW i \in Sources(c[j]) PROVE i \in P
      BY <1>0, <1>s, <2>2
    <2> QED BY <2>1, <2>2
  <1>2. ASSUME NEW i \in 1 .. n PROVE i \in P <=> Up(P, i)
    <2>1. ASSUME Up(P, i) PROVE i \in P
      BY <1>1, <2>1
    <2>2. ASSUME i \in P, ~Up(P, i) PROVE FALSE
      <3>1. ASSUME NEW j \in P \ {i} PROVE Sources(c[j]) \subseteq P \ {i}
        <4>1. Sources(c[j]) \subseteq P /\ j \in 1 .. n
          BY <1>1
        <4>2. ASSUME i \in Sources(c[j]) PROVE FALSE
          <5>1. i \in 1 .. j - 1
            BY <4>1, <4>2, <1>s
          <5>2. j \in (i + 1) .. n
            BY <1>0, <4>1, <5>1
          <5> QED BY <5>2, <4>2, <2>2
        <4> QED BY <4>1, <4>2
      <3>2. Closing(P \ {i})
        BY <1>1, <2>2, <3>1
      <3>3. P \ {i} \in SUBSET (1 .. n)
        OBVIOUS
      <3> HIDE DEF Closing
      <3>4. i \in P \ {i}
        BY <2>2, <3>2, <3>3
      <3> QED BY <3>4
    <2> QED BY <2>1, <2>2
  <1> HIDE DEF P
  <1> DEFINE Sol(v) == v = [i \in DOMAIN c |->
                        \/ i = x
                        \/ \E j \in (i + 1) .. Len(c) : i \in Sources(c[j]) /\ v[j]]
             f == [i \in 1 .. n |-> i \in P]
             p == CHOOSE v : Sol(v)
  <1>3. Sol(f)
    <2>1. ASSUME NEW i \in 1 .. n
          PROVE  f[i] <=> (\/ i = x
                           \/ \E j \in (i + 1) .. Len(c) : i \in Sources(c[j]) /\ f[j])
      <3>1. f[i] <=> i \in P
        OBVIOUS
      <3>2. ASSUME NEW j \in (i + 1) .. n PROVE f[j] <=> j \in P
        <4>1. j \in 1 .. n
          BY <1>0
        <4> QED BY <4>1, Zenon
      <3> HIDE DEF f
      <3> QED BY <3>1, <3>2, <1>2
    <2> DEFINE E(i) == \/ i = x
                       \/ \E j \in (i + 1) .. Len(c) : i \in Sources(c[j]) /\ f[j]
    <2>3. \A i \in 1 .. n : f[i] <=> E(i)
      BY <2>1
    <2>4. \A i \in 1 .. n : f[i] = (i \in P)
      OBVIOUS
    <2> HIDE DEF E, f
    <2>5. \A i \in 1 .. n : (i \in P) = E(i)
      <3> SUFFICES ASSUME NEW i \in 1 .. n PROVE (i \in P) = E(i)
        OBVIOUS
      <3>1. (i \in P) <=> E(i)
        BY <2>3, <2>4, Zenon
      <3>2. E(i) \in BOOLEAN
        BY DEF E
      <3>3. ASSUME NEW y \in BOOLEAN, NEW z \in BOOLEAN, y <=> z PROVE y = z
        BY <3>3
      <3>4. (i \in P) \in BOOLEAN
        OBVIOUS
      <3> QED BY <3>1, <3>2, <3>3, <3>4
    <2>6. f = [i \in 1 .. n |-> E(i)]
      BY <2>5, Zenon DEF f
    <2>2. f = [i \in 1 .. n |-> \/ i = x
                 \/ \E j \in (i + 1) .. Len(c) : i \in Sources(c[j]) /\ f[j]]
      BY <2>6 DEF E
    <2> QED BY <1>0, <2>2
  <1>4. InPre(c, x) = {i \in DOMAIN c : p[i]}
    BY DEF InPre
  <1> HIDE DEF Sol
  <1>5. Sol(p)
    BY <1>3
  <1> HIDE DEF p
  <1>6. p = [i \in DOMAIN c |-> \/ i = x
                 \/ \E j \in (i + 1) .. Len(c) : i \in Sources(c[j]) /\ p[j]]
    BY <1>5 DEF Sol
  <1>7. \A i \in 1 .. n : p[i] <=> (\/ i = x
                 \/ \E j \in (i + 1) .. n : i \in Sources(c[j]) /\ p[j])
    BY <1>0, <1>6
  <1> DEFINE pre == InPre(c, x)
  <1>8. pre \subseteq 1 .. n /\ \A i \in 1 .. n : i \in pre <=> p[i]
    BY <1>0, <1>4
  <1> HIDE DEF pre
  <1>9. \A i \in 1 .. n : i \in pre <=> Up(pre, i)
    BY <1>0, <1>7, <1>8
  <1>10. x \in pre
    BY <1>9
  <1>11. ASSUME NEW j \in pre, NEW i \in Sources(c[j]) PROVE i \in pre
    <2>1. j \in 1 .. n /\ i \in 1 .. j - 1
      BY <1>8, <1>s
    <2>2. i \in 1 .. n /\ j \in (i + 1) .. n
      BY <1>0, <2>1
    <2> QED BY <1>9, <2>2
  <1>12. ASSUME NEW i \in pre PROVE i = x \/ \E j \in pre : j > i /\ i \in Sources(c[j])
    BY <1>0, <1>8, <1>9
  <1>13. ASSUME NEW i \in pre, ~(i <= x) PROVE FALSE
    <2> DEFINE S == {q \in pre : ~(q <= x)}
    <2>1. S \in SUBSET (1 .. n) /\ S # {}
      BY <1>8, <1>13
    <2>2. Max(S) \in S /\ \A y \in S : y <= Max(S)
      <3> HIDE DEF S
      <3> QED BY <1>0, <2>1, MaxIn
    <2> DEFINE q == Max(S)
    <2>3. q \in pre /\ ~(q <= x) /\ q \in 1 .. n
      BY <2>1, <2>2
    <2>4. \A y \in pre : ~(y <= x) => y <= q
      BY <2>2
    <2> HIDE DEF q, S
    <2>5. PICK j \in pre : j > q
      BY <1>0, <1>12, <2>3
    <2> QED BY <1>0, <1>8, <2>3, <2>4, <2>5
  <1> QED BY <1>8, <1>10, <1>11, <1>12, <1>13 DEF pre

-----------------------------------------------------------------------------
(* How ops fill the fields of a node.                                       *)
NodeShape(n) ==
  /\ n.op = "input" => n.buf \in Buffers /\ ~n.inplace /\ DOMAIN n.in = {}
  /\ n.op # "input" => 1 \in DOMAIN n.in /\ (n.op = "add" => 2 \in DOMAIN n.in)
  /\ n.op = "copy" => ~n.inplace /\ n.buf # None
  /\ n.op \notin {"input", "copy"} /\ n.buf # None => n.inplace

Valued(nodes, i) ==
  nodes[i].op # "input" =>
    nodes[i].val = Ap(nodes[i].op, [k \in DOMAIN nodes[i].in |-> nodes[nodes[i].in[k]].val])

(* An update of the client's storage reads it first, as the latest writer   *)
(* left it unless through an input.                                         *)
Updates(nodes, i) ==
  nodes[i].inplace /\ nodes[i].buf # None =>
    LET s == nodes[i].in[1]
    IN  /\ nodes[s].buf = nodes[i].buf
        /\ nodes[s].op # "input" =>
             \A w \in s + 1 .. i - 1 : ~IsWriter(nodes[w], nodes[i].buf)

Shaped(nodes) ==
  \A i \in 1 .. Len(nodes) : NodeShape(nodes[i]) /\ Valued(nodes, i) /\ Updates(nodes, i)

LastWriter(nodes, w, b) ==
  /\ IsWriter(nodes[w], b)
  /\ \A z \in w + 1 .. Len(nodes) : ~IsWriter(nodes[z], b)

(* The address map holds the last writer of a buffer, or an input.          *)
ActLast(d) ==
  \A b \in Buffers :
    d.act[b] # 0 /\ d.nodes[d.act[b]].op # "input" => LastWriter(d.nodes, d.act[b], b)

(* A variable stands for a result without storage.                          *)
SlotsPlain(nodes) ==
  \A t \in Temps : jitSlot[t] # 0 => /\ nodes[jitSlot[t]].buf = None
                                     /\ nodes[jitSlot[t]].op # "input"

(* Without a stale read the last writer of a buffer has its eager value.    *)
Written(nodes) ==
  ~StaleRead(nodes) =>
    \A b \in Buffers : \A w \in 1 .. Len(nodes) :
      LastWriter(nodes, w, b) => nodes[w].val = ref[b]

(* The eager run of the ops of a DAG: M[i] is what the buffers hold after   *)
(* node i, X[i] what node i computes from the contents of its operands when *)
(* its turn comes.                                                          *)
Operand(nodes, M, X, i, k) ==
  IF nodes[nodes[i].in[k]].buf # None THEN M[i - 1][nodes[nodes[i].in[k]].buf]
  ELSE X[nodes[i].in[k]]

RunStep(nodes, M, X, i) ==
  IF nodes[i].op = "input" THEN M[i] = M[i - 1]
  ELSE /\ X[i] = Ap(nodes[i].op, [k \in DOMAIN nodes[i].in |-> Operand(nodes, M, X, i, k)])
       /\ M[i] = IF nodes[i].buf = None THEN M[i - 1]
                 ELSE [M[i - 1] EXCEPT ![nodes[i].buf] = X[i]]

RunOf(nodes, M, X) ==
  /\ M \in [0 .. Len(nodes) -> [Buffers -> Val]]
  /\ X \in [1 .. Len(nodes) -> Val]
  /\ M[0] = [b \in Buffers |-> Content(b)]
  /\ \A i \in 1 .. Len(nodes) : RunStep(nodes, M, X, i)

Outcome(nodes, M, X) ==
  /\ M[Len(nodes)] = ref
  /\ \A t \in Temps : jitSlot[t] # 0 => X[jitSlot[t]] = tref[t]

ExecInv ==
  phase = "tracing" => /\ Shaped(dag.nodes) /\ ActLast(dag)
                       /\ SlotsPlain(dag.nodes) /\ Written(dag.nodes)
                       /\ tref \in [Temps -> Val]
                       /\ \E M, X : RunOf(dag.nodes, M, X) /\ Outcome(dag.nodes, M, X)

InputAt(d, s) == s \in 1 .. Len(d.nodes) /\ d.nodes[s].op = "input"

(* What kind of node an operand is found under.                             *)
LEMMA TouchKind ==
  ASSUME NEW d, Wf(d), jitSlot \in [Temps -> 0 .. Len(d.nodes)], NEW a \in Operands
  PROVE  LET e == Touch(d, a)
         IN  /\ a \in Temps => SlotOf(e, a) = jitSlot[a] /\ jitSlot[a] # 0
             /\ a \notin Temps => /\ a \in Tensors
                                  /\ e.nodes[SlotOf(e, a)].buf = a[1]
                                  /\ \/ SlotOf(e, a) = d.act[a[1]]
                                     \/ e.nodes[SlotOf(e, a)].op = "input"
             /\ \A b \in Buffers : e.act[b] = d.act[b] \/ InputAt(e, e.act[b])
  <1>1. CASE a \in Temps
    BY <1>1, TempsAssumption DEF Operands, Touch, SlotOf
  <1>2. CASE a \notin Temps
    <2> DEFINE e == GetOrRegister(d, a)
               b == a[1]
    <2>1. a \in Tensors /\ b \in Buffers
      BY <1>2, TensorsAssumption DEF Operands
    <2>2. /\ Wf(e) /\ e.act[b] \in 1 .. Len(e.nodes)
          /\ \A z \in Buffers : z # b => e.act[z] = d.act[z]
          /\ e.act[b] = d.act[b] \/ e.nodes[e.act[b]].op = "input"
      BY <2>1, GetOrRegisterFacts
    <2>3. Touch(d, a) = e /\ SlotOf(e, a) = e.act[b]
      BY <1>2 DEF Touch, SlotOf
    <2> HIDE DEF e
    <2>4. e.nodes[e.act[b]].buf = b
      BY <2>1, <2>2 DEF Wf
    <2>5. SlotOf(e, a) = d.act[b] \/ e.nodes[SlotOf(e, a)].op = "input"
      BY <2>2, <2>3
    <2>6. \A z \in Buffers : e.act[z] = d.act[z] \/ InputAt(e, e.act[z])
      BY <2>2 DEF InputAt
    <2> QED BY <1>2, <2>1, <2>3, <2>4, <2>5, <2>6
  <1> QED BY <1>1, <1>2

(* The slots of the operands of one op.                                     *)
SlotKind(e, slot, a) ==
  IF a \in Temps THEN slot = jitSlot[a] /\ slot # 0
  ELSE a \in Tensors /\ e.nodes[slot].buf = a[1]

(* The same for the operands of one op.                                     *)
LEMMA TouchAllKind ==
  ASSUME Wf(dag), SlotsT, NEW args \in Args
  PROVE  LET e == TouchAll(args)  in == SlotsOf(args)
         IN  /\ \A k \in DOMAIN in : SlotKind(e, in[k], args[k])
             /\ args[1] \notin Temps => \/ in[1] = dag.act[args[1][1]]
                                        \/ e.nodes[in[1]].op = "input"
             /\ \A b \in Buffers : e.act[b] = dag.act[b] \/ InputAt(e, e.act[b])
  <1>1. ASSUME NEW a \in Operands, args = <<a>>, Len(args) = 1, DOMAIN args = {1}
        PROVE  LET e == TouchAll(args)  in == SlotsOf(args)
         IN  /\ \A k \in DOMAIN in : SlotKind(e, in[k], args[k])
             /\ args[1] \notin Temps => \/ in[1] = dag.act[args[1][1]]
                                        \/ e.nodes[in[1]].op = "input"
             /\ \A b \in Buffers : e.act[b] = dag.act[b] \/ InputAt(e, e.act[b])
    <2> DEFINE e == Touch(dag, a)
    <2>1. TouchAll(args) = e /\ SlotsOf(args) = <<SlotOf(e, a)>> /\ args[1] = a
      BY <1>1 DEF TouchAll, SlotsOf
    <2>2. /\ a \in Temps => SlotOf(e, a) = jitSlot[a] /\ jitSlot[a] # 0
          /\ a \notin Temps => /\ a \in Tensors
                               /\ e.nodes[SlotOf(e, a)].buf = a[1]
                               /\ \/ SlotOf(e, a) = dag.act[a[1]]
                                  \/ e.nodes[SlotOf(e, a)].op = "input"
          /\ \A b \in Buffers : e.act[b] = dag.act[b] \/ InputAt(e, e.act[b])
      BY TouchKind DEF SlotsT
    <2> HIDE DEF e
    <2> QED BY <2>1, <2>2 DEF SlotKind
  <1>2. ASSUME NEW a \in Operands, NEW c \in Operands,
               args = <<a, c>>, Len(args) = 2, DOMAIN args = {1, 2}
        PROVE  LET e == TouchAll(args)  in == SlotsOf(args)
         IN  /\ \A k \in DOMAIN in : SlotKind(e, in[k], args[k])
             /\ args[1] \notin Temps => \/ in[1] = dag.act[args[1][1]]
                                        \/ e.nodes[in[1]].op = "input"
             /\ \A b \in Buffers : e.act[b] = dag.act[b] \/ InputAt(e, e.act[b])
    <2> DEFINE d1 == Touch(dag, a)
               e  == Touch(d1, c)
               sa == SlotOf(d1, a)
               sc == SlotOf(e, c)
    <2>1. /\ TouchAll(args) = e /\ SlotsOf(args) = <<sa, sc>>
          /\ args[1] = a /\ args[2] = c
      BY <1>2 DEF TouchAll, SlotsOf
    <2>2. /\ Wf(d1) /\ Grown(dag, d1) /\ sa \in 1 .. Len(d1.nodes)
      BY TouchFacts DEF SlotsT
    <2>3. /\ a \in Temps => sa = jitSlot[a] /\ jitSlot[a] # 0
          /\ a \notin Temps => /\ a \in Tensors
                               /\ d1.nodes[sa].buf = a[1]
                               /\ sa = dag.act[a[1]] \/ d1.nodes[sa].op = "input"
          /\ \A b \in Buffers : d1.act[b] = dag.act[b] \/ InputAt(d1, d1.act[b])
      BY TouchKind DEF SlotsT
    <2> HIDE DEF d1, sa
    <2>4. Len(d1.nodes) \in Nat /\ jitSlot \in [Temps -> 0 .. Len(d1.nodes)]
      BY <2>2 DEF Wf, DagT, SlotsT, Grown
    <2>5. Wf(e) /\ Grown(d1, e)
      BY <2>2, <2>4, TouchFacts
    <2>6. /\ c \in Temps => sc = jitSlot[c] /\ jitSlot[c] # 0
          /\ c \notin Temps => /\ c \in Tensors
                               /\ e.nodes[sc].buf = c[1]
          /\ \A b \in Buffers : e.act[b] = d1.act[b] \/ InputAt(e, e.act[b])
      BY <2>2, <2>4, TouchKind
    <2> HIDE DEF e, sc
    <2>7. e.nodes[sa] = d1.nodes[sa]
      BY <2>2, <2>5 DEF Grown
    <2>8. ASSUME NEW b \in Buffers PROVE e.act[b] = dag.act[b] \/ InputAt(e, e.act[b])
      <3>1. CASE e.act[b] = d1.act[b] /\ InputAt(d1, d1.act[b])
        BY <3>1, <2>2, <2>4, <2>5 DEF Wf, DagT, Grown, InputAt
      <3> QED BY <3>1, <2>3, <2>6
    <2>9. SlotKind(e, sa, a) /\ SlotKind(e, sc, c)
      BY <2>3, <2>6, <2>7 DEF SlotKind
    <2>10. a \notin Temps => sa = dag.act[a[1]] \/ e.nodes[sa].op = "input"
      BY <2>3, <2>7
    <2> QED BY <2>1, <2>8, <2>9, <2>10
  <1> QED BY <1>1, <1>2, ArgsCases

NodesShape(nodes) == \A i \in 1 .. Len(nodes) : NodeShape(nodes[i])

(* Looking up operands adds inputs only, filled as inputs are.              *)
LEMMA TouchShape ==
  ASSUME NEW d, Wf(d), NodesShape(d.nodes), NEW a \in Operands
  PROVE  NodesShape(Touch(d, a).nodes)
  <1> DEFINE b == a[1]
             n == Node("input", <<>>, b, a[2], FALSE, Content(b))
  <1>1. CASE a \in Temps \/ SlotMatches(d, d.act[b], a) \/ SlotMatches(d, d.inp[b], a)
    <2>1. Touch(d, a).nodes = d.nodes
      BY <1>1 DEF Touch, GetOrRegister, RegisterInput, Wf, DagT
    <2> QED BY <2>1
  <1>2. CASE ~(a \in Temps \/ SlotMatches(d, d.act[b], a) \/ SlotMatches(d, d.inp[b], a))
    <2>1. b \in Buffers /\ a[2] \in Shapes
      BY <1>2, TensorsAssumption DEF Operands
    <2>2. Touch(d, a).nodes = Append(d.nodes, n)
      BY <1>2 DEF Touch, GetOrRegister, RegisterInput, Wf, DagT
    <2>3. n \in NodeT /\ n.op = "input" /\ n.buf = b /\ n.in = <<>> /\ n.inplace = FALSE
      BY <2>1, InputNode DEF Node
    <2> HIDE DEF n
    <2>4. NodeShape(n)
      BY <2>1, <2>3 DEF NodeShape
    <2>5. /\ Len(Append(d.nodes, n)) = Len(d.nodes) + 1
          /\ \A i \in 1 .. Len(d.nodes) : Append(d.nodes, n)[i] = d.nodes[i]
          /\ Append(d.nodes, n)[Len(d.nodes) + 1] = n
          /\ Len(d.nodes) \in Nat
      BY <2>3, AppendNodes DEF Wf
    <2>6. ASSUME NEW i \in 1 .. Len(Append(d.nodes, n)) PROVE NodeShape(Append(d.nodes, n)[i])
      <3>1. CASE i = Len(d.nodes) + 1
        BY <3>1, <2>4, <2>5
      <3>2. CASE i \in 1 .. Len(d.nodes)
        BY <3>2, <2>5 DEF NodesShape
      <3> QED BY <3>1, <3>2, <2>5
    <2> QED BY <2>2, <2>6 DEF NodesShape
  <1> QED BY <1>1, <1>2

(* The same for the operands of one op.                                     *)
LEMMA TouchAllShape ==
  ASSUME Wf(dag), SlotsT, NodesShape(dag.nodes), NEW args \in Args
  PROVE  NodesShape(TouchAll(args).nodes)
  <1>1. ASSUME NEW a \in Operands, args = <<a>>, Len(args) = 1
        PROVE  NodesShape(TouchAll(args).nodes)
    BY <1>1, TouchShape DEF TouchAll
  <1>2. ASSUME NEW a \in Operands, NEW c \in Operands, args = <<a, c>>, Len(args) = 2
        PROVE  NodesShape(TouchAll(args).nodes)
    <2> DEFINE d1 == Touch(dag, a)
    <2>1. TouchAll(args) = Touch(d1, c)
      BY <1>2 DEF TouchAll
    <2>2. Wf(d1)
      BY TouchFacts DEF SlotsT
    <2>3. NodesShape(d1.nodes)
      BY TouchShape
    <2> HIDE DEF d1
    <2> QED BY <2>1, <2>2, <2>3, TouchShape
  <1> QED BY <1>1, <1>2, ArgsCases

(* How the statements of the client call add_node and add_inplace_node.     *)
Fills(op, args, buf, inplace) ==
  /\ op = "copy" => ~inplace /\ buf # None
  /\ op # "copy" /\ buf # None => inplace
  /\ inplace /\ buf # None => args[1] \in Tensors /\ args[1][1] = buf

(* Appending keeps the conditions on the nodes there.                       *)
LEMMA ShapedStays ==
  ASSUME NEW d, NEW r, Wf(d), Len(d.nodes) \in Nat, Shaped(d.nodes),
         \A i \in 1 .. Len(d.nodes) : r.nodes[i] = d.nodes[i],
         NEW i \in 1 .. Len(d.nodes)
  PROVE  NodeShape(r.nodes[i]) /\ Valued(r.nodes, i) /\ Updates(r.nodes, i)
  <1>1. r.nodes[i] = d.nodes[i] /\ NodeShape(d.nodes[i]) /\ Valued(d.nodes, i)
        /\ Updates(d.nodes, i)
    BY DEF Shaped
  <1>2. \A k \in DOMAIN d.nodes[i].in : /\ d.nodes[i].in[k] \in 1 .. i - 1
                                        /\ r.nodes[d.nodes[i].in[k]] = d.nodes[d.nodes[i].in[k]]
    BY DEF Wf
  <1>3. Valued(r.nodes, i)
    <2>1. [k \in DOMAIN d.nodes[i].in |-> r.nodes[d.nodes[i].in[k]].val]
            = [k \in DOMAIN d.nodes[i].in |-> d.nodes[d.nodes[i].in[k]].val]
      BY <1>2
    <2> QED BY <1>1, <2>1 DEF Valued
  <1>4. Updates(r.nodes, i)
    <2> SUFFICES ASSUME d.nodes[i].inplace, d.nodes[i].buf # None
                 PROVE  /\ r.nodes[d.nodes[i].in[1]].buf = d.nodes[i].buf
                        /\ r.nodes[d.nodes[i].in[1]].op # "input" =>
                             \A w \in d.nodes[i].in[1] + 1 .. i - 1 :
                               ~IsWriter(r.nodes[w], d.nodes[i].buf)
      BY <1>1 DEF Updates
    <2>1. 1 \in DOMAIN d.nodes[i].in
      BY <1>1 DEF NodeShape
    <2>2. d.nodes[i].in[1] \in 1 .. i - 1 /\ r.nodes[d.nodes[i].in[1]] = d.nodes[d.nodes[i].in[1]]
      BY <1>2, <2>1
    <2>3. \A w \in d.nodes[i].in[1] + 1 .. i - 1 : r.nodes[w] = d.nodes[w]
      BY <2>2
    <2> QED BY <1>1, <2>2, <2>3 DEF Updates
  <1> QED BY <1>1, <1>3, <1>4

(* add_node and add_inplace_node keep the conditions on nodes.              *)
LEMMA AddNodeShaped ==
  ASSUME Wf(dag), SlotsT, Shaped(dag.nodes), ActLast(dag),
         NEW args \in Args, NEW op \in Ops, Arity(op, args),
         NEW buf \in Buffers \cup {None}, NEW shape \in Shapes, NEW inplace \in BOOLEAN,
         Fills(op, args, buf, inplace)
  PROVE  Shaped(AddNode(op, args, buf, shape, inplace).nodes)
  <1> DEFINE r == AddNode(op, args, buf, shape, inplace)
             e == TouchAll(args)
             in == SlotsOf(args)
             n == NewNode(op, args, buf, shape, inplace)
  <1>1. /\ Wf(e) /\ Grown(dag, e)
        /\ in \in Seq(Nat) /\ DOMAIN in = DOMAIN args
        /\ \A k \in DOMAIN in : in[k] \in 1 .. Len(e.nodes)
    BY TouchAllFacts
  <1>2. /\ Wf(r) /\ r.act = e.act /\ Len(e.nodes) \in Nat
        /\ Len(r.nodes) = Len(e.nodes) + 1
        /\ \A i \in 1 .. Len(e.nodes) : r.nodes[i] = e.nodes[i]
        /\ r.nodes[Len(r.nodes)] = n
    BY AddNodeFacts
  <1>3. /\ n.in = in /\ n.val = Ap(op, ValsAt(e, in)) /\ n.op = op /\ n.buf = buf
        /\ n.inplace = inplace
    BY DEF NewNode, Node
  <1>4. NodesShape(e.nodes)
    BY TouchAllShape DEF Shaped, NodesShape
  <1>5. /\ \A k \in DOMAIN in : SlotKind(e, in[k], args[k])
        /\ args[1] \notin Temps => \/ in[1] = dag.act[args[1][1]]
                                   \/ e.nodes[in[1]].op = "input"
    BY TouchAllKind
  <1>6. 1 \in DOMAIN args /\ (op = "add" => 2 \in DOMAIN args) /\ op # "input"
    BY ArgsCases DEF Arity
  <1> HIDE DEF r, e, in, n
  <1>7. Len(dag.nodes) \in Nat /\ Len(dag.nodes) <= Len(e.nodes)
    BY <1>1 DEF Wf, DagT, Grown
  <1>8. \A i \in 1 .. Len(dag.nodes) : r.nodes[i] = dag.nodes[i]
    BY <1>1, <1>2, <1>7 DEF Grown
  <1>9. ASSUME NEW i \in 1 .. Len(r.nodes)
        PROVE  NodeShape(r.nodes[i]) /\ Valued(r.nodes, i) /\ Updates(r.nodes, i)
    <2>1. CASE i \in 1 .. Len(dag.nodes)
      BY <2>1, <1>7, <1>8, ShapedStays
    <2>2. CASE i \in Len(dag.nodes) + 1 .. Len(e.nodes)
      <3>1. i \in 1 .. Len(e.nodes) /\ r.nodes[i] = e.nodes[i] /\ e.nodes[i].op = "input"
        BY <2>2, <1>1, <1>2, <1>7 DEF Grown
      <3>2. NodeShape(r.nodes[i])
        BY <3>1, <1>4 DEF NodesShape
      <3> QED BY <3>1, <3>2 DEF NodeShape, Valued, Updates
    <2>3. CASE i = Len(r.nodes)
      <3>1. r.nodes[i] = n
        BY <2>3, <1>2
      <3>2. NodeShape(n)
        BY <1>1, <1>3, <1>6 DEF NodeShape, Fills
      <3>3. Valued(r.nodes, i)
        <4>1. [k \in DOMAIN in |-> r.nodes[in[k]].val] = ValsAt(e, in)
          BY <1>1, <1>2 DEF ValsAt
        <4> QED BY <3>1, <4>1, <1>3 DEF Valued
      <3>4. ASSUME inplace, buf # None
            PROVE  /\ r.nodes[in[1]].buf = buf
                   /\ r.nodes[in[1]].op # "input" =>
                        \A w \in in[1] + 1 .. i - 1 : ~IsWriter(r.nodes[w], buf)
        <4>1. args[1] \notin Temps /\ args[1][1] = buf /\ buf \in Buffers
          BY <3>4, TempsAssumption DEF Fills
        <4>2. in[1] \in 1 .. Len(e.nodes) /\ SlotKind(e, in[1], args[1])
          BY <1>1, <1>5, <1>6
        <4>3. r.nodes[in[1]] = e.nodes[in[1]] /\ e.nodes[in[1]].buf = buf
          BY <4>1, <4>2, <1>2 DEF SlotKind
        <4>4. ASSUME e.nodes[in[1]].op # "input", NEW w \in in[1] + 1 .. i - 1
              PROVE  ~IsWriter(r.nodes[w], buf)
          <5>1. in[1] = dag.act[buf]
            BY <4>1, <4>4, <1>5
          <5>2. in[1] \in 1 .. Len(dag.nodes)
            BY <4>1, <4>2, <5>1, <1>7 DEF Wf, DagT
          <5>3. dag.nodes[dag.act[buf]].op # "input" /\ dag.act[buf] # 0
            BY <4>4, <5>1, <5>2, <1>1 DEF Grown
          <5>4. \A z \in in[1] + 1 .. Len(dag.nodes) : ~IsWriter(dag.nodes[z], buf)
            BY <5>1, <5>3, <4>1 DEF ActLast, LastWriter
          <5>5. w \in 1 .. Len(e.nodes) /\ w \in Nat
            BY <2>3, <4>2, <1>2
          <5>6. CASE w <= Len(dag.nodes)
            BY <5>2, <5>4, <5>5, <5>6, <1>7, <1>8
          <5>7. CASE ~(w <= Len(dag.nodes))
            <6>1. w \in Len(dag.nodes) + 1 .. Len(e.nodes)
              BY <5>5, <5>7, <1>7, <1>2
            <6> QED BY <5>5, <6>1, <1>1, <1>2 DEF Grown, IsWriter
          <5> QED BY <5>6, <5>7
        <4> QED BY <4>3, <4>4
      <3> QED BY <3>1, <3>2, <3>3, <3>4, <1>3 DEF Updates
    <2> QED BY <2>1, <2>2, <2>3, <1>2, <1>7
  <1> QED BY <1>9 DEF Shaped, r

(* r is d with inputs and one other node appended.                          *)
Extends(d, r) ==
  /\ Len(d.nodes) \in Nat /\ Len(r.nodes) \in Nat /\ Len(d.nodes) < Len(r.nodes)
  /\ \A i \in 1 .. Len(d.nodes) : r.nodes[i] = d.nodes[i]
  /\ \A i \in Len(d.nodes) + 1 .. Len(r.nodes) - 1 : r.nodes[i].op = "input"
  /\ r.nodes[Len(r.nodes)].op # "input"

(* add_node and add_inplace_node append so, and name no writer but the new  *)
(* node.                                                                    *)
LEMMA AddNodeExtends ==
  ASSUME Wf(dag), SlotsT, NEW args \in Args, NEW op \in Ops, Arity(op, args),
         NEW buf \in Buffers \cup {None}, NEW shape \in Shapes, NEW inplace \in BOOLEAN
  PROVE  LET r == AddNode(op, args, buf, shape, inplace)
             n == r.nodes[Len(r.nodes)]
         IN  /\ Extends(dag, r)
             /\ n.op = op /\ n.buf = buf /\ n.in = SlotsOf(args)
             /\ DOMAIN n.in = DOMAIN args
             /\ \A k \in DOMAIN n.in : SlotKind(r, n.in[k], args[k])
             /\ \A b \in Buffers : r.act[b] = dag.act[b] \/ InputAt(r, r.act[b])
  <1> DEFINE r == AddNode(op, args, buf, shape, inplace)
             e == TouchAll(args)
             in == SlotsOf(args)
             n == NewNode(op, args, buf, shape, inplace)
  <1>1. /\ Wf(e) /\ Grown(dag, e) /\ DOMAIN in = DOMAIN args
        /\ \A k \in DOMAIN in : in[k] \in 1 .. Len(e.nodes)
    BY TouchAllFacts
  <1>2. /\ r.act = e.act /\ Len(e.nodes) \in Nat
        /\ Len(r.nodes) = Len(e.nodes) + 1
        /\ \A i \in 1 .. Len(e.nodes) : r.nodes[i] = e.nodes[i]
        /\ r.nodes[Len(r.nodes)] = n
    BY AddNodeFacts
  <1>3. n.in = in /\ n.op = op /\ n.buf = buf /\ op # "input"
    BY DEF NewNode, Node, Arity
  <1>4. /\ \A k \in DOMAIN in : SlotKind(e, in[k], args[k])
        /\ \A b \in Buffers : e.act[b] = dag.act[b] \/ InputAt(e, e.act[b])
    BY TouchAllKind
  <1> HIDE DEF r, e, in, n
  <1>5. Len(dag.nodes) \in Nat /\ Len(dag.nodes) <= Len(e.nodes)
    BY <1>1 DEF Wf, DagT, Grown
  <1>6. Extends(dag, r)
    <2>1. \A i \in 1 .. Len(dag.nodes) : r.nodes[i] = dag.nodes[i]
      BY <1>1, <1>2, <1>5 DEF Grown
    <2>2. \A i \in Len(dag.nodes) + 1 .. Len(r.nodes) - 1 : r.nodes[i].op = "input"
      BY <1>1, <1>2, <1>5 DEF Grown
    <2> QED BY <1>2, <1>3, <1>5, <2>1, <2>2 DEF Extends
  <1>7. \A k \in DOMAIN in : SlotKind(r, in[k], args[k])
    BY <1>1, <1>2, <1>4 DEF SlotKind
  <1>8. \A b \in Buffers : r.act[b] = dag.act[b] \/ InputAt(r, r.act[b])
    BY <1>2, <1>4 DEF InputAt
  <1> QED BY <1>1, <1>2, <1>3, <1>6, <1>7, <1>8 DEF r, in

(* The last writer of a buffer the new node does not write is the one there *)
(* was.                                                                     *)
LEMMA ExtendsLast ==
  ASSUME NEW d, NEW r, Extends(d, r), NEW b, r.nodes[Len(r.nodes)].buf # b,
         NEW w \in 1 .. Len(r.nodes)
  PROVE  LastWriter(r.nodes, w, b) <=> w \in 1 .. Len(d.nodes) /\ LastWriter(d.nodes, w, b)
  <1> DEFINE n0 == Len(d.nodes)
             m == Len(r.nodes)
  <1>1. n0 \in Nat /\ m \in Nat /\ n0 < m
    BY DEF Extends
  <1>2. \A z \in 1 .. n0 : IsWriter(r.nodes[z], b) <=> IsWriter(d.nodes[z], b)
    BY DEF Extends, IsWriter
  <1>3. \A z \in n0 + 1 .. m : ~IsWriter(r.nodes[z], b)
    BY <1>1 DEF Extends, IsWriter
  <1>a. /\ LastWriter(r.nodes, w, b) <=> IsWriter(r.nodes[w], b) /\ \A z \in w + 1 .. m : ~IsWriter(r.nodes[z], b)
        /\ LastWriter(d.nodes, w, b) <=> IsWriter(d.nodes[w], b) /\ \A z \in w + 1 .. n0 : ~IsWriter(d.nodes[z], b)
        /\ w \in 1 .. m
    BY DEF LastWriter
  <1> HIDE DEF n0, m
  <1>4. CASE w \in 1 .. n0
    <2>1. (\A z \in w + 1 .. m : ~IsWriter(r.nodes[z], b))
            <=> (\A z \in w + 1 .. n0 : ~IsWriter(d.nodes[z], b))
      <3>1. \A z \in w + 1 .. n0 : z \in 1 .. n0 /\ z \in w + 1 .. m
        BY <1>1, <1>4
      <3>2. \A z \in w + 1 .. m : z \in w + 1 .. n0 \/ z \in n0 + 1 .. m
        BY <1>1, <1>4
      <3> QED BY <3>1, <3>2, <1>2, <1>3
    <2> QED BY <1>2, <1>4, <1>a, <2>1 DEF n0
  <1>5. CASE w \notin 1 .. n0
    <2>1. w \in n0 + 1 .. m
      BY <1>1, <1>5, <1>a
    <2> QED BY <1>3, <1>5, <1>a, <2>1 DEF n0
  <1> QED BY <1>4, <1>5

(* The last writer of the buffer it writes is the new node.                 *)
LEMMA ExtendsNew ==
  ASSUME NEW d, NEW r, Extends(d, r), NEW w \in 1 .. Len(r.nodes)
  PROVE  LET b == r.nodes[Len(r.nodes)].buf
         IN  LastWriter(r.nodes, w, b) <=> w = Len(r.nodes)
  <1> DEFINE b == r.nodes[Len(r.nodes)].buf
  <1>1. Len(r.nodes) \in Nat /\ Len(r.nodes) > 0 /\ IsWriter(r.nodes[Len(r.nodes)], b)
    BY DEF Extends, IsWriter
  <1>2. CASE w = Len(r.nodes)
    BY <1>1, <1>2 DEF LastWriter
  <1>3. CASE w # Len(r.nodes)
    <2>1. Len(r.nodes) \in w + 1 .. Len(r.nodes)
      BY <1>1, <1>3
    <2> QED BY <1>1, <1>3, <2>1 DEF LastWriter
  <1> QED BY <1>2, <1>3

(* The address map after add_node, but for the buffer the node writes.      *)
LEMMA AddNodeActLast ==
  ASSUME Wf(dag), ActLast(dag), NEW r, Wf(r), Extends(dag, r),
         \A b \in Buffers : r.act[b] = dag.act[b] \/ InputAt(r, r.act[b]),
         NEW b \in Buffers, b # r.nodes[Len(r.nodes)].buf,
         r.act[b] # 0, r.nodes[r.act[b]].op # "input"
  PROVE  LastWriter(r.nodes, r.act[b], b)
  <1>1. r.act[b] = dag.act[b]
    BY DEF InputAt
  <1>2. dag.act[b] \in 1 .. Len(dag.nodes)
    BY <1>1 DEF Wf, DagT
  <1>3. r.nodes[r.act[b]] = dag.nodes[dag.act[b]] /\ r.act[b] \in 1 .. Len(r.nodes)
    BY <1>1, <1>2 DEF Extends
  <1>4. LastWriter(dag.nodes, dag.act[b], b)
    BY <1>2, <1>3 DEF ActLast
  <1> QED BY <1>1, <1>2, <1>3, <1>4, ExtendsLast

(* The new node n reads a and computes v.                                   *)
ReadsNow(d, r, M, X, n, a, v) ==
  /\ n = r.nodes[Len(r.nodes)]
  /\ a = [k \in DOMAIN n.in |->
           IF r.nodes[n.in[k]].buf # None THEN M[Len(d.nodes)][r.nodes[n.in[k]].buf]
           ELSE X[n.in[k]]]
  /\ \A k \in DOMAIN n.in : r.nodes[n.in[k]].buf = None => n.in[k] \in 1 .. Len(d.nodes)
  /\ v = Ap(n.op, a)

(* A run of r that goes on from that of d.                                  *)
RunOn(d, r, M, X, n, v) ==
  \E N, Y : /\ RunOf(r.nodes, N, Y)
            /\ N[Len(r.nodes)] = IF n.buf = None THEN M[Len(d.nodes)]
                                 ELSE [M[Len(d.nodes)] EXCEPT ![n.buf] = v]
            /\ Y[Len(r.nodes)] = v
            /\ \A i \in 1 .. Len(d.nodes) : Y[i] = X[i]

(* The eager run goes on with the new node.                                 *)
LEMMA RunGrows ==
  ASSUME NEW d, NEW r, Wf(d), Wf(r), Extends(d, r), NEW M, NEW X, RunOf(d.nodes, M, X),
         NEW n, NEW a, NEW v \in Val, ReadsNow(d, r, M, X, n, a, v)
  PROVE  RunOn(d, r, M, X, n, v)
  <1> DEFINE n0 == Len(d.nodes)
             m == Len(r.nodes)
             new == IF n.buf = None THEN M[n0] ELSE [M[n0] EXCEPT ![n.buf] = v]
             N == [i \in 0 .. m |-> IF i <= n0 THEN M[i] ELSE IF i < m THEN M[n0] ELSE new]
             Y == [i \in 1 .. m |-> IF i <= n0 THEN X[i] ELSE v]
  <1>1. n0 \in Nat /\ m \in Nat /\ n0 < m
    BY DEF Extends
  <1>2. /\ M \in [0 .. n0 -> [Buffers -> Val]] /\ X \in [1 .. n0 -> Val]
        /\ M[0] = [b \in Buffers |-> Content(b)]
        /\ \A i \in 1 .. n0 : RunStep(d.nodes, M, X, i)
    BY DEF RunOf
  <1>3. M[n0] \in [Buffers -> Val]
    BY <1>1, <1>2
  <1>4. /\ \A i \in 1 .. n0 : r.nodes[i] = d.nodes[i]
        /\ \A i \in n0 + 1 .. m - 1 : r.nodes[i].op = "input"
        /\ n.op # "input" /\ r.nodes[m] = n
    BY DEF Extends, ReadsNow
  <1>5. /\ \A i \in 1 .. n0 : \A k \in DOMAIN d.nodes[i].in : d.nodes[i].in[k] \in 1 .. i - 1
    BY DEF Wf
  <1>r. /\ a = [k \in DOMAIN n.in |->
               IF r.nodes[n.in[k]].buf # None THEN M[n0][r.nodes[n.in[k]].buf]
               ELSE X[n.in[k]]]
        /\ \A k \in DOMAIN n.in : r.nodes[n.in[k]].buf = None => n.in[k] \in 1 .. n0
        /\ v = Ap(n.op, a)
    BY DEF ReadsNow
  <1> HIDE DEF n0, m
  <1>6. new \in [Buffers -> Val]
    BY <1>3
  <1> HIDE DEF new
  <1>7. /\ N \in [0 .. m -> [Buffers -> Val]] /\ Y \in [1 .. m -> Val]
    <2>1. \A i \in 0 .. m : N[i] \in [Buffers -> Val]
      BY <1>1, <1>2, <1>3, <1>6
    <2>2. \A i \in 1 .. m : Y[i] \in Val
      BY <1>1, <1>2
    <2> QED BY <2>1, <2>2
  <1>8. /\ \A i \in 0 .. n0 : N[i] = M[i]
        /\ \A i \in n0 .. m - 1 : N[i] = M[n0]
        /\ N[m] = new
        /\ \A i \in 1 .. n0 : Y[i] = X[i]
        /\ Y[m] = v
    BY <1>1
  <1> HIDE DEF N, Y
  <1>9. ASSUME NEW i \in 1 .. m PROVE RunStep(r.nodes, N, Y, i)
    <2>1. CASE i \in 1 .. n0
      <3>1. r.nodes[i] = d.nodes[i] /\ N[i] = M[i] /\ N[i - 1] = M[i - 1] /\ Y[i] = X[i]
        BY <1>1, <1>4, <1>8, <2>1
      <3>2. ASSUME NEW k \in DOMAIN d.nodes[i].in
            PROVE  Operand(r.nodes, N, Y, i, k) = Operand(d.nodes, M, X, i, k)
        <4>1. d.nodes[i].in[k] \in 1 .. n0
          BY <1>1, <1>5, <2>1
        <4>2. /\ r.nodes[d.nodes[i].in[k]] = d.nodes[d.nodes[i].in[k]]
              /\ Y[d.nodes[i].in[k]] = X[d.nodes[i].in[k]]
          BY <4>1, <1>4, <1>8
        <4> QED BY <3>1, <4>2 DEF Operand
      <3>3. [k \in DOMAIN d.nodes[i].in |-> Operand(r.nodes, N, Y, i, k)]
              = [k \in DOMAIN d.nodes[i].in |-> Operand(d.nodes, M, X, i, k)]
        BY <3>2
      <3>4. RunStep(d.nodes, M, X, i)
        BY <1>2, <2>1
      <3> HIDE DEF Operand
      <3> QED BY <3>1, <3>3, <3>4 DEF RunStep
    <2>2. CASE i \in n0 + 1 .. m - 1
      <3>1. r.nodes[i].op = "input" /\ i \in n0 .. m - 1 /\ i - 1 \in n0 .. m - 1
        BY <1>1, <1>4, <2>2
      <3> QED BY <3>1, <1>8 DEF RunStep
    <2>3. CASE i = m
      <3>1. N[i - 1] = M[n0] /\ N[i] = new /\ Y[i] = v /\ r.nodes[i] = n
        BY <1>1, <1>4, <1>8, <2>3
      <3>2. \A k \in DOMAIN n.in : Operand(r.nodes, N, Y, i, k) = a[k]
        BY <3>1, <1>8, <1>r DEF Operand
      <3>3. [k \in DOMAIN n.in |-> Operand(r.nodes, N, Y, i, k)] = a
        BY <3>2, <1>r
      <3> HIDE DEF Operand
      <3> QED BY <3>1, <3>3, <1>4, <1>r DEF RunStep, new
    <2> QED BY <2>1, <2>2, <2>3, <1>1
  <1>10. N[0] = [b \in Buffers |-> Content(b)]
    BY <1>1, <1>2, <1>8
  <1>11. RunOf(r.nodes, N, Y)
    BY <1>7, <1>9, <1>10 DEF RunOf, m
  <1> QED BY <1>8, <1>11 DEF new, n0, m, RunOn

(* The operands of an op read their eager values when its turn comes.       *)
LEMMA AddNodeReads ==
  ASSUME Wf(dag), SlotsT, SlotsPlain(dag.nodes), tref \in [Temps -> Val],
         NEW M, NEW X, RunOf(dag.nodes, M, X), Outcome(dag.nodes, M, X),
         NEW args \in Args, NEW op \in Ops, Arity(op, args),
         NEW buf \in Buffers \cup {None}, NEW shape \in Shapes, NEW inplace \in BOOLEAN
  PROVE  LET r == AddNode(op, args, buf, shape, inplace)
             v == Ap(op, RefVals(args))
         IN  /\ v \in Val
             /\ ReadsNow(dag, r, M, X, r.nodes[Len(r.nodes)], RefVals(args), v)
  <1> DEFINE r == AddNode(op, args, buf, shape, inplace)
             n == r.nodes[Len(r.nodes)]
             a == RefVals(args)
             F(k) == IF r.nodes[n.in[k]].buf # None
                     THEN M[Len(dag.nodes)][r.nodes[n.in[k]].buf] ELSE X[n.in[k]]
  <1>1. /\ Extends(dag, r) /\ n.op = op /\ DOMAIN n.in = DOMAIN args
        /\ \A k \in DOMAIN n.in : SlotKind(r, n.in[k], args[k])
    BY AddNodeExtends
  <1> HIDE DEF r, n
  <1>2. /\ \A k \in DOMAIN args : args[k] \in Operands
        /\ 1 \in DOMAIN args /\ (op = "add" => 2 \in DOMAIN args)
        /\ op \in {"map", "norm", "copy", "add"}
    BY ArgsCases DEF Arity
  <1>3. M[Len(dag.nodes)] = ref /\ Len(dag.nodes) \in Nat
    BY DEF Outcome, Wf, DagT
  <1>4. ref \in [Buffers -> Val]
    BY <1>3 DEF RunOf
  <1>5. ASSUME NEW k \in DOMAIN args
        PROVE  /\ RefVal(args[k]) \in Val
               /\ RefVal(args[k]) = F(k)
               /\ r.nodes[n.in[k]].buf = None => n.in[k] \in 1 .. Len(dag.nodes)
    <2>1. SlotKind(r, n.in[k], args[k]) /\ args[k] \in Operands
      BY <1>1, <1>2
    <2>2. CASE args[k] \in Temps
      <3>1. n.in[k] = jitSlot[args[k]] /\ jitSlot[args[k]] # 0
        BY <2>1, <2>2 DEF SlotKind
      <3>2. n.in[k] \in 1 .. Len(dag.nodes)
        BY <1>3, <2>2, <3>1 DEF SlotsT
      <3>3. r.nodes[n.in[k]].buf = None
        BY <2>2, <3>1, <3>2, <1>1 DEF Extends, SlotsPlain
      <3>4. RefVal(args[k]) = tref[args[k]] /\ X[n.in[k]] = tref[args[k]]
        BY <2>2, <3>1 DEF RefVal, Outcome
      <3> QED BY <2>2, <3>2, <3>3, <3>4
    <2>3. CASE args[k] \notin Temps
      <3>1. args[k] \in Tensors /\ r.nodes[n.in[k]].buf = args[k][1]
        BY <2>1, <2>3 DEF SlotKind
      <3>2. args[k][1] \in Buffers /\ args[k][1] # None
        BY <3>1, TensorsAssumption, NoneAssumption
      <3>3. RefVal(args[k]) = ref[args[k][1]]
        BY <2>3 DEF RefVal
      <3> QED BY <3>1, <3>2, <3>3, <1>3, <1>4
    <2> QED BY <2>2, <2>3
  <1> HIDE DEF F
  <1>6. a = [k \in DOMAIN n.in |-> F(k)]
    BY <1>1, <1>5 DEF RefVals
  <1>7. \A k \in DOMAIN args : a[k] \in Val
    BY <1>5 DEF RefVals
  <1> HIDE DEF a
  <1>8. Ap(op, a) \in Val
    BY <1>2, <1>7, ApType
  <1>9. ReadsNow(dag, r, M, X, n, a, Ap(op, a))
    <2>1. \A k \in DOMAIN n.in : r.nodes[n.in[k]].buf = None => n.in[k] \in 1 .. Len(dag.nodes)
      BY <1>1, <1>5
    <2> QED BY <1>1, <1>6, <2>1 DEF ReadsNow, F, n
  <1> QED BY <1>8, <1>9 DEF a, n, r

(* A run that leaves m, computes v last, and before it what the variables   *)
(* stand for.                                                               *)
RunTo(nodes, m, v) ==
  \E N, Y : /\ RunOf(nodes, N, Y)
            /\ N[Len(nodes)] = m
            /\ Y[Len(nodes)] = v
            /\ \A t \in Temps : jitSlot[t] # 0 => Y[jitSlot[t]] = tref[t]

(* The eager run after an op.                                               *)
LEMMA AddNodeRun ==
  ASSUME Wf(dag), SlotsT, SlotsPlain(dag.nodes), tref \in [Temps -> Val],
         \E M, X : RunOf(dag.nodes, M, X) /\ Outcome(dag.nodes, M, X),
         NEW args \in Args, NEW op \in Ops, Arity(op, args),
         NEW buf \in Buffers \cup {None}, NEW shape \in Shapes, NEW inplace \in BOOLEAN
  PROVE  LET r == AddNode(op, args, buf, shape, inplace)
             v == Ap(op, RefVals(args))
         IN  /\ v \in Val
             /\ RunTo(r.nodes, IF buf = None THEN ref ELSE [ref EXCEPT ![buf] = v], v)
  <1> DEFINE r == AddNode(op, args, buf, shape, inplace)
             v == Ap(op, RefVals(args))
             n == r.nodes[Len(r.nodes)]
             a == RefVals(args)
  <1>1. PICK M, X : RunOf(dag.nodes, M, X) /\ Outcome(dag.nodes, M, X)
    OBVIOUS
  <1>2. v \in Val /\ ReadsNow(dag, r, M, X, n, a, v)
    BY <1>1, AddNodeReads
  <1>3. Wf(r)
    BY AddNodeFacts
  <1>4. Extends(dag, r) /\ n.buf = buf
    BY AddNodeExtends
  <1> HIDE DEF r, v, n, a
  <1>5. PICK N, Y : /\ RunOf(r.nodes, N, Y)
                    /\ N[Len(r.nodes)] = IF n.buf = None THEN M[Len(dag.nodes)]
                                         ELSE [M[Len(dag.nodes)] EXCEPT ![n.buf] = v]
                    /\ Y[Len(r.nodes)] = v
                    /\ \A i \in 1 .. Len(dag.nodes) : Y[i] = X[i]
    <2>1. RunOn(dag, r, M, X, n, v)
      BY <1>1, <1>2, <1>3, <1>4, RunGrows
    <2> QED BY <2>1 DEF RunOn
  <1>6. ASSUME NEW t \in Temps, jitSlot[t] # 0 PROVE Y[jitSlot[t]] = tref[t]
    <2>1. jitSlot[t] \in 1 .. Len(dag.nodes)
      BY <1>6 DEF SlotsT, Wf, DagT
    <2> QED BY <1>1, <1>5, <1>6, <2>1 DEF Outcome
  <1>7. M[Len(dag.nodes)] = ref
    BY <1>1 DEF Outcome
  <1> QED BY <1>2, <1>4, <1>5, <1>6, <1>7 DEF r, v, RunTo

(* An op whose result is a variable.                                        *)
LEMMA TempStepExec ==
  ASSUME RecInv, ExecInv, NEW t \in Temps, NEW args \in Args, Recording(Len(args)),
         NEW op \in Ops, Arity(op, args), NEW shape \in Shapes, NEW inplace \in BOOLEAN,
         op # "copy",
         dag' = AddNode(op, args, None, shape, inplace),
         jitSlot' = [jitSlot EXCEPT ![t] = Len(dag'.nodes)],
         tref' = [tref EXCEPT ![t] = Ap(op, RefVals(args))],
         ref' = ref
  PROVE  ExecInv'
  <1> DEFINE r == AddNode(op, args, None, shape, inplace)
             v == Ap(op, RefVals(args))
  <1>1. phase = "tracing" /\ None \in Buffers \cup {None}
    BY DEF Recording
  <1>2. /\ Wf(dag) /\ SlotsT /\ Sourced(dag.nodes) /\ Faithful
    BY <1>1 DEF RecInv
  <1>3. /\ Shaped(dag.nodes) /\ ActLast(dag)
        /\ SlotsPlain(dag.nodes) /\ Written(dag.nodes)
        /\ tref \in [Temps -> Val]
        /\ \E M, X : RunOf(dag.nodes, M, X) /\ Outcome(dag.nodes, M, X)
    BY <1>1 DEF ExecInv
  <1>4. Wf(r)
    BY <1>1, <1>2, AddNodeFacts
  <1>5. /\ Extends(dag, r) /\ r.nodes[Len(r.nodes)].buf = None
        /\ \A b \in Buffers : r.act[b] = dag.act[b] \/ InputAt(r, r.act[b])
    BY <1>1, <1>2, AddNodeExtends
  <1>6. Shaped(r.nodes)
    <2>1. Fills(op, args, None, inplace)
      BY DEF Fills
    <2> QED BY <1>1, <1>2, <1>3, <2>1, AddNodeShaped
  <1>7. /\ v \in Val
        /\ RunTo(r.nodes, ref, v)
    <2>1. /\ v \in Val
          /\ RunTo(r.nodes, IF None = None THEN ref ELSE [ref EXCEPT ![None] = v], v)
      BY <1>1, <1>2, <1>3, AddNodeRun
    <2> QED BY <2>1
  <1>8. ~StaleRead(r.nodes) => ~StaleRead(dag.nodes)
    BY <1>1, <1>2, AddNodeGood DEF Faithful
  <1>9. dag' = r /\ tref' = [tref EXCEPT ![t] = v]
    OBVIOUS
  <1> HIDE DEF r, v
  <1>10. /\ \A u \in Temps : jitSlot'[u] = IF u = t THEN Len(r.nodes) ELSE jitSlot[u]
         /\ \A u \in Temps : tref'[u] = IF u = t THEN v ELSE tref[u]
         /\ tref' \in [Temps -> Val]
    BY <1>2, <1>3, <1>7, <1>9 DEF SlotsT
  <1>11. ActLast(dag)'
    <2>1. ASSUME NEW b \in Buffers, r.act[b] # 0, r.nodes[r.act[b]].op # "input"
          PROVE  LastWriter(r.nodes, r.act[b], b)
      <3>1. b # r.nodes[Len(r.nodes)].buf
        BY <1>5, NoneAssumption
      <3> QED BY <1>2, <1>3, <1>4, <1>5, <2>1, <3>1, AddNodeActLast
    <2> QED BY <1>9, <2>1 DEF ActLast
  <1>12. SlotsPlain(dag.nodes)'
    <2>1. ASSUME NEW u \in Temps, jitSlot'[u] # 0
          PROVE  r.nodes[jitSlot'[u]].buf = None /\ r.nodes[jitSlot'[u]].op # "input"
      <3>1. CASE u = t
        BY <3>1, <1>5, <1>10 DEF Extends
      <3>2. CASE u # t
        <4>1. jitSlot'[u] = jitSlot[u] /\ jitSlot[u] \in 1 .. Len(dag.nodes)
          BY <2>1, <3>2, <1>2, <1>10 DEF SlotsT, Wf, DagT
        <4> QED BY <2>1, <4>1, <1>3, <1>5 DEF Extends, SlotsPlain
      <3> QED BY <3>1, <3>2
    <2> QED BY <1>9, <2>1 DEF SlotsPlain
  <1>13. Written(dag.nodes)'
    <2>1. ASSUME ~StaleRead(r.nodes), NEW b \in Buffers, NEW w \in 1 .. Len(r.nodes),
                 LastWriter(r.nodes, w, b)
          PROVE  r.nodes[w].val = ref[b]
      <3>1. r.nodes[Len(r.nodes)].buf # b
        BY <1>5, NoneAssumption
      <3>2. w \in 1 .. Len(dag.nodes) /\ LastWriter(dag.nodes, w, b)
        BY <1>5, <2>1, <3>1, ExtendsLast
      <3> QED BY <1>3, <1>5, <1>8, <2>1, <3>2 DEF Written, Extends
    <2> QED BY <1>9, <2>1 DEF Written
  <1>14. \E M, X : RunOf(r.nodes, M, X) /\ Outcome(dag.nodes, M, X)'
    <2>1. PICK N, Y : /\ RunOf(r.nodes, N, Y)
                      /\ N[Len(r.nodes)] = ref
                      /\ Y[Len(r.nodes)] = v
                      /\ \A u \in Temps : jitSlot[u] # 0 => Y[jitSlot[u]] = tref[u]
      BY <1>7 DEF RunTo
    <2>2. \A u \in Temps : jitSlot'[u] # 0 => Y[jitSlot'[u]] = tref'[u]
      BY <1>10, <2>1
    <2>3. Outcome(dag.nodes, N, Y)'
      BY <1>9, <2>1, <2>2 DEF Outcome
    <2> QED BY <2>1, <2>3
  <1> QED BY <1>6, <1>9, <1>10, <1>11, <1>12, <1>13, <1>14 DEF ExecInv

(* An op that writes a tensor of the client.                                *)
LEMMA TensorStepExec ==
  ASSUME RecInv, ExecInv, NEW x \in Tensors, NEW args \in Args, Recording(Len(args)),
         NEW op \in Ops, Arity(op, args), NEW shape \in Shapes, NEW inplace \in BOOLEAN,
         Fills(op, args, x[1], inplace),
         NEW r, r = AddNode(op, args, x[1], shape, inplace),
         dag' = [r EXCEPT !.act[x[1]] = Len(r.nodes)],
         ref' = [ref EXCEPT ![x[1]] = Ap(op, RefVals(args))],
         UNCHANGED <<jitSlot, tracked, tref>>
  PROVE  ExecInv'
  <1> DEFINE b == x[1]
             v == Ap(op, RefVals(args))
  <1>1. phase = "tracing" /\ b \in Buffers /\ b \in Buffers \cup {None} /\ b # None
    BY TensorsAssumption, NoneAssumption DEF Recording
  <1>2. /\ Wf(dag) /\ SlotsT /\ Sourced(dag.nodes) /\ Faithful /\ Eager
    BY <1>1 DEF RecInv
  <1>3. /\ Shaped(dag.nodes) /\ ActLast(dag)
        /\ SlotsPlain(dag.nodes) /\ Written(dag.nodes)
        /\ tref \in [Temps -> Val]
        /\ \E M, X : RunOf(dag.nodes, M, X) /\ Outcome(dag.nodes, M, X)
    BY <1>1 DEF ExecInv
  <1>4. Wf(r)
    BY <1>1, <1>2, AddNodeFacts
  <1>5. /\ Extends(dag, r) /\ r.nodes[Len(r.nodes)].buf = b
        /\ \A z \in Buffers : r.act[z] = dag.act[z] \/ InputAt(r, r.act[z])
    BY <1>1, <1>2, AddNodeExtends
  <1>6. Shaped(r.nodes)
    BY <1>1, <1>2, <1>3, AddNodeShaped
  <1>7. v \in Val /\ RunTo(r.nodes, [ref EXCEPT ![b] = v], v)
    <2>1. /\ v \in Val
          /\ RunTo(r.nodes, IF b = None THEN ref ELSE [ref EXCEPT ![b] = v], v)
      BY <1>1, <1>2, <1>3, AddNodeRun
    <2> QED BY <1>1, <2>1
  <1>8. ~StaleRead(r.nodes) => /\ ~StaleRead(dag.nodes)
                               /\ r.nodes[Len(r.nodes)].val = v
    BY <1>1, <1>2, AddNodeGood DEF Faithful
  <1>9. /\ dag'.nodes = r.nodes
        /\ \A z \in Buffers : dag'.act[z] = IF z = b THEN Len(r.nodes) ELSE r.act[z]
    <2>1. Len(r.nodes) \in Nat /\ Len(r.nodes) > 0
      BY <1>5 DEF Extends
    <2> QED BY <1>1, <1>4, <1>5, <2>1, SetAct
  <1>10. /\ jitSlot' = jitSlot /\ tref' = tref
         /\ ref' = [ref EXCEPT ![b] = v]
         /\ \A z \in Buffers : ref'[z] = IF z = b THEN v ELSE ref[z]
    BY <1>1, <1>2 DEF Eager
  <1>11. Len(r.nodes) \in 1 .. Len(r.nodes)
    BY <1>5 DEF Extends
  <1> HIDE DEF v, b
  <1>12. ActLast(dag)'
    <2>1. ASSUME NEW z \in Buffers, dag'.act[z] # 0, r.nodes[dag'.act[z]].op # "input"
          PROVE  LastWriter(r.nodes, dag'.act[z], z)
      <3>1. CASE z = b
        BY <1>5, <1>9, <1>11, <3>1, ExtendsNew
      <3>2. CASE z # b
        BY <1>2, <1>3, <1>4, <1>5, <1>9, <2>1, <3>2, AddNodeActLast
      <3> QED BY <3>1, <3>2
    <2> QED BY <1>9, <2>1 DEF ActLast
  <1>13. SlotsPlain(dag.nodes)'
    <2>1. ASSUME NEW u \in Temps, jitSlot[u] # 0
          PROVE  r.nodes[jitSlot[u]].buf = None /\ r.nodes[jitSlot[u]].op # "input"
      <3>1. jitSlot[u] \in 1 .. Len(dag.nodes)
        BY <2>1, <1>2 DEF SlotsT, Wf, DagT
      <3> QED BY <2>1, <3>1, <1>3, <1>5 DEF Extends, SlotsPlain
    <2> QED BY <1>9, <1>10, <2>1 DEF SlotsPlain
  <1>14. Written(dag.nodes)'
    <2>1. ASSUME ~StaleRead(r.nodes), NEW z \in Buffers, NEW w \in 1 .. Len(r.nodes),
                 LastWriter(r.nodes, w, z)
          PROVE  r.nodes[w].val = ref'[z]
      <3>1. CASE z # b
        <4>1. w \in 1 .. Len(dag.nodes) /\ LastWriter(dag.nodes, w, z)
          BY <1>5, <2>1, <3>1, ExtendsLast
        <4> QED BY <1>3, <1>5, <1>8, <1>10, <2>1, <3>1, <4>1 DEF Written, Extends
      <3>2. CASE z = b
        <4>1. w = Len(r.nodes)
          BY <1>5, <2>1, <3>2, ExtendsNew
        <4> QED BY <1>8, <1>10, <2>1, <3>2, <4>1
      <3> QED BY <3>1, <3>2
    <2> QED BY <1>9, <2>1 DEF Written
  <1>15. \E M, X : RunOf(r.nodes, M, X) /\ Outcome(dag.nodes, M, X)'
    <2>1. PICK N, Y : /\ RunOf(r.nodes, N, Y)
                      /\ N[Len(r.nodes)] = [ref EXCEPT ![b] = v]
                      /\ Y[Len(r.nodes)] = v
                      /\ \A u \in Temps : jitSlot[u] # 0 => Y[jitSlot[u]] = tref[u]
      BY <1>7 DEF RunTo
    <2>2. Outcome(dag.nodes, N, Y)'
      BY <1>9, <1>10, <2>1 DEF Outcome
    <2> QED BY <2>1, <2>2
  <1> QED BY <1>3, <1>6, <1>9, <1>10, <1>12, <1>13, <1>14, <1>15 DEF ExecInv

(* A trace begins with an empty run.                                        *)
LEMMA BeginTraceExec == BeginTrace => ExecInv'
  <1> SUFFICES ASSUME BeginTrace PROVE ExecInv'
    OBVIOUS
  <1>1. dag' = EmptyDag /\ jitSlot' = [t \in Temps |-> 0] /\ tref' = [t \in Temps |-> <<>>]
        /\ ref' = [b \in Buffers |-> Content(b)]
    BY DEF BeginTrace
  <1>2. /\ EmptyDag.nodes = <<>> /\ Len(EmptyDag.nodes) = 0
        /\ \A b \in Buffers : EmptyDag.act[b] = 0
    BY DEF EmptyDag
  <1>3. <<>> \in Val /\ \A b \in Buffers : Content(b) \in Val
    BY ContentAssumption DEF Val
  <1>4. Shaped(dag.nodes)' /\ ActLast(dag)' /\ SlotsPlain(dag.nodes)' /\ Written(dag.nodes)'
    BY <1>1, <1>2 DEF Shaped, ActLast, SlotsPlain, Written
  <1>5. tref' \in [Temps -> Val]
    BY <1>1, <1>3
  <1> DEFINE M == [i \in 0 .. 0 |-> [b \in Buffers |-> Content(b)]]
             X == [i \in 1 .. 0 |-> <<>>]
  <1>6. RunOf(dag'.nodes, M, X)
    <2>1. M \in [0 .. 0 -> [Buffers -> Val]] /\ X \in [1 .. 0 -> Val]
      BY <1>3
    <2>2. M[0] = [b \in Buffers |-> Content(b)]
      OBVIOUS
    <2> HIDE DEF M, X
    <2> QED BY <1>1, <1>2, <2>1, <2>2 DEF RunOf
  <1>7. Outcome(dag.nodes, M, X)'
    BY <1>1, <1>2 DEF Outcome
  <1> QED BY <1>4, <1>5, <1>6, <1>7 DEF ExecInv

(* t = op(a, b).                                                            *)
LEMMA RecordOpExec ==
  ASSUME RecInv, ExecInv, NEW t \in Temps, NEW args \in Args, NEW op, RecordOp(t, op, args)
  PROVE  ExecInv'
  <1>1. Wf(dag) /\ SlotsT /\ Recording(Len(args))
    BY DEF RecInv, RecordOp, Recording
  <1>2. op \in Ops /\ Arity(op, args) /\ op # "copy"
    BY FirstOperand DEF RecordOp, OpKinds, Ops, Arity
  <1>3. ShapeOf(args[1]) \in Shapes
    BY <1>1, FirstOperand, OperandShape
  <1> QED BY <1>1, <1>2, <1>3, TempStepExec DEF RecordOp

(* store().                                                                 *)
LEMMA RecordStoreExec ==
  ASSUME RecInv, ExecInv, NEW dst \in Tensors, NEW a \in Operands, RecordStore(dst, a)
  PROVE  ExecInv'
  <1> DEFINE args == <<a>>
  <1>1. args \in Args /\ Len(args) = 1 /\ Recording(Len(args))
    BY DEF Args, RecordStore
  <1>2. /\ "copy" \in Ops /\ Arity("copy", args) /\ dst[2] \in Shapes
        /\ Fills("copy", args, dst[1], FALSE)
    BY TensorsAssumption, NoneAssumption DEF Ops, Arity, Fills
  <1>3. Ap("copy", RefVals(args)) = Ap("copy", <<RefVal(a)>>)
    BY DEF Ap, RefVals
  <1> QED BY <1>1, <1>2, <1>3, TensorStepExec DEF RecordStore

(* An updating operator on a tensor of the client.                          *)
LEMMA RecordInplaceTensorExec ==
  ASSUME RecInv, ExecInv, NEW x \in Tensors, NEW args \in Args, RecordInplaceTensor(x, args)
  PROVE  ExecInv'
  <1> DEFINE op == IF Len(args) = 1 THEN "map" ELSE "add"
  <1>1. Recording(Len(args)) /\ x[2] \in Shapes /\ args[1] = x
    BY TensorsAssumption DEF RecordInplaceTensor
  <1>2. op \in Ops /\ Arity(op, args) /\ Fills(op, args, x[1], TRUE)
    BY <1>1, FirstOperand DEF Ops, Arity, Fills
  <1> QED BY <1>1, <1>2, TensorStepExec DEF RecordInplaceTensor

(* An updating operator on a traced result.                                 *)
LEMMA RecordInplaceTempExec ==
  ASSUME RecInv, ExecInv, NEW t \in Temps, NEW args \in Args, RecordInplaceTemp(t, args)
  PROVE  ExecInv'
  <1> DEFINE op == IF Len(args) = 1 THEN "map" ELSE "add"
  <1>1. Wf(dag) /\ SlotsT /\ Recording(Len(args))
    BY DEF RecInv, RecordInplaceTemp, Recording
  <1>2. op \in Ops /\ Arity(op, args) /\ op # "copy"
    BY FirstOperand DEF Ops, Arity
  <1>3. t \in Operands /\ ShapeOf(t) \in Shapes
    BY <1>1, FirstOperand, OperandShape DEF RecordInplaceTemp
  <1> QED BY <1>1, <1>2, <1>3, TempStepExec DEF RecordInplaceTemp

(* Steps on the variables alone: each still stands for a node it stood for. *)
LEMMA SlotsStepExec ==
  ASSUME RecInv, ExecInv, phase = "tracing", UNCHANGED <<dag, ref>>,
         tref' \in [Temps -> Val],
         \A t \in Temps : jitSlot'[t] # 0 =>
           \E u \in Temps : jitSlot[u] = jitSlot'[t] /\ tref[u] = tref'[t]
  PROVE  ExecInv'
  <1>1. Shaped(dag.nodes)' /\ ActLast(dag)' /\ Written(dag.nodes)'
    BY DEF ExecInv, Written
  <1>2. SlotsPlain(dag.nodes)'
    BY DEF ExecInv, SlotsPlain
  <1>3. PICK M, X : RunOf(dag.nodes, M, X) /\ Outcome(dag.nodes, M, X)
    BY DEF ExecInv
  <1>4. RunOf(dag'.nodes, M, X) /\ Outcome(dag.nodes, M, X)'
    BY <1>3 DEF Outcome
  <1> QED BY <1>1, <1>2, <1>4 DEF ExecInv

(* The destructor of a traced result,                                       *)
LEMMA DropTempExec ==
  ASSUME RecInv, ExecInv, NEW t \in Temps, DropTemp(t)
  PROVE  ExecInv'
  <1>1. /\ SlotsT /\ tref \in [Temps -> Val] /\ phase = "tracing" /\ UNCHANGED <<dag, ref>>
        /\ tref' = [tref EXCEPT ![t] = <<>>] /\ jitSlot' = [jitSlot EXCEPT ![t] = 0]
    BY DEF RecInv, ExecInv, DropTemp
  <1>2. <<>> \in Val
    BY DEF Val
  <1>3. tref' \in [Temps -> Val]
    BY <1>1, <1>2
  <1>4. \A u \in Temps : jitSlot'[u] # 0 => jitSlot[u] = jitSlot'[u] /\ tref[u] = tref'[u]
    BY <1>1 DEF SlotsT
  <1> QED BY <1>1, <1>3, <1>4, SlotsStepExec

(* and the move of one over another.                                        *)
LEMMA MoveTempExec ==
  ASSUME RecInv, ExecInv, NEW t \in Temps, NEW u \in Temps, MoveTemp(t, u)
  PROVE  ExecInv'
  <1>1. /\ SlotsT /\ tref \in [Temps -> Val] /\ phase = "tracing" /\ UNCHANGED <<dag, ref>>
        /\ tref' = [tref EXCEPT ![u] = tref[t], ![t] = <<>>] /\ t # u
        /\ jitSlot' = [jitSlot EXCEPT ![u] = jitSlot[t], ![t] = 0]
    BY DEF RecInv, ExecInv, MoveTemp
  <1>2. <<>> \in Val
    BY DEF Val
  <1>3. tref' \in [Temps -> Val]
    BY <1>1, <1>2
  <1>4. ASSUME NEW z \in Temps, jitSlot'[z] # 0
        PROVE  \E y \in Temps : jitSlot[y] = jitSlot'[z] /\ tref[y] = tref'[z]
    <2>1. CASE z = u
      BY <1>1, <2>1 DEF SlotsT
    <2>2. CASE z # u
      <3>1. jitSlot[z] = jitSlot'[z] /\ tref[z] = tref'[z]
        BY <1>1, <1>4, <2>2 DEF SlotsT
      <3> QED BY <3>1
    <2> QED BY <2>1, <2>2
  <1> QED BY <1>1, <1>3, <1>4, SlotsStepExec

(* The recorded ops have an eager run with the client's results, in every   *)
(* state of every trace: one case for each action.                          *)
THEOREM EagerRunExists == Spec => []ExecInv
  <1>1. Init => ExecInv
    BY DEF Init, TraceInit, ExecInv
  <1>2. RecInv /\ ExecInv /\ [Next]_vars => ExecInv'
    <2> SUFFICES ASSUME RecInv, ExecInv, [Next]_vars PROVE ExecInv'
      OBVIOUS
    <2>1. CASE BeginTrace
      BY <2>1, BeginTraceExec
    <2>2. ASSUME NEW t \in Temps, NEW args \in Args, NEW op, RecordOp(t, op, args)
          PROVE  ExecInv'
      BY <2>2, RecordOpExec
    <2>3. ASSUME NEW dst \in Tensors, NEW a \in Operands, RecordStore(dst, a)
          PROVE  ExecInv'
      BY <2>3, RecordStoreExec
    <2>4. ASSUME NEW x \in Tensors, NEW args \in Args, RecordInplaceTensor(x, args)
          PROVE  ExecInv'
      BY <2>4, RecordInplaceTensorExec
    <2>5. ASSUME NEW t \in Temps, NEW args \in Args, RecordInplaceTemp(t, args)
          PROVE  ExecInv'
      BY <2>5, RecordInplaceTempExec
    <2>6. ASSUME NEW t \in Temps, DropTemp(t) PROVE ExecInv'
      BY <2>6, DropTempExec
    <2>7. ASSUME NEW t \in Temps, NEW u \in Temps, MoveTemp(t, u) PROVE ExecInv'
      BY <2>7, MoveTempExec
    <2>8. CASE AbortTrace
      BY <2>8 DEF AbortTrace, ExecInv
    <2>9. CASE EndTrace
      BY <2>9 DEF EndTrace, ExecInv
    <2>10. CASE EndTraceThrows
      BY <2>10 DEF EndTraceThrows, ExecInv
    <2>11. CASE UNCHANGED vars
      BY <2>11 DEF vars, recVars, ExecInv, SlotsPlain, Written, Outcome
    <2>12. CASE Record
      BY <2>1, <2>2, <2>3, <2>4, <2>5, <2>6, <2>7, <2>8, <2>12
         DEF Record, RecordNext, Statement
    <2> QED BY <2>9, <2>10, <2>11, <2>12 DEF Next
  <1> QED BY <1>1, <1>2, RecordingCorrect, PTL DEF Spec

-----------------------------------------------------------------------------
(* The DAG end_trace() leaves: every result live and still held has a home, *)
(* one for each variable.                                                   *)
LiveAt(nodes, i) ==
  nodes[i].op # "input" /\ (nodes[i].inplace \/ ~HasConsumer(nodes, i))

SameNode(m, n) ==
  m.op = n.op /\ m.in = n.in /\ m.inplace = n.inplace /\ m.val = n.val

ClosedNode(c, nodes, i) ==
  /\ SameNode(c[i], nodes[i])
  /\ c[i].live <=> LiveAt(nodes, i) /\ (nodes[i].buf # None \/ tracked[i] # None)
  /\ c[i].buf = IF LiveAt(nodes, i) /\ nodes[i].buf = None /\ tracked[i] # None
                THEN Home(tracked[i]) ELSE nodes[i].buf

(* Closing a DAG keeps its nodes but for what it is told to store.          *)
LEMMA ClosedFacts ==
  ASSUME NEW nodes \in Seq(NodeT)
  PROVE  LET c == Closed(nodes)
         IN  /\ Len(c) = Len(nodes) /\ DOMAIN c = 1 .. Len(nodes) /\ Len(nodes) \in Nat
             /\ \A i \in 1 .. Len(nodes) : ClosedNode(c, nodes, i)
  <1> DEFINE c == Closed(nodes)
             a == AnalyzeLiveness(nodes)
  <1>1. DOMAIN nodes = 1 .. Len(nodes) /\ Len(nodes) \in Nat
        /\ \A i \in 1 .. Len(nodes) : nodes[i] \in NodeT
    OBVIOUS
  <1>2. DOMAIN a = 1 .. Len(nodes)
        /\ \A i \in 1 .. Len(nodes) : a[i] = [nodes[i] EXCEPT !.live = LiveAt(nodes, i)]
    BY <1>1 DEF AnalyzeLiveness, LiveAt
  <1> HIDE DEF a
  <1>3. c = [i \in 1 .. Len(nodes) |->
              IF ~a[i].live \/ a[i].buf # None THEN a[i]
              ELSE IF tracked[i] = None THEN [a[i] EXCEPT !.live = FALSE]
              ELSE [a[i] EXCEPT !.buf = Home(tracked[i])]]
    BY <1>2 DEF Closed, Materialize, a
  <1> HIDE DEF c
  <1>4. DOMAIN c = 1 .. Len(nodes) /\ Len(c) = Len(nodes)
    BY <1>1, <1>3
  <1>5. ASSUME NEW i \in 1 .. Len(nodes) PROVE ClosedNode(c, nodes, i)
    <2>1. c[i] = IF ~a[i].live \/ a[i].buf # None THEN a[i]
                 ELSE IF tracked[i] = None THEN [a[i] EXCEPT !.live = FALSE]
                 ELSE [a[i] EXCEPT !.buf = Home(tracked[i])]
      BY <1>3
    <2>2. /\ a[i].op = nodes[i].op /\ a[i].in = nodes[i].in /\ a[i].buf = nodes[i].buf
          /\ a[i].inplace = nodes[i].inplace /\ a[i].val = nodes[i].val
          /\ a[i].live = LiveAt(nodes, i)
          /\ a[i] = [op |-> a[i].op, in |-> a[i].in, buf |-> a[i].buf, shape |-> a[i].shape,
                     inplace |-> a[i].inplace, live |-> a[i].live, val |-> a[i].val]
      BY <1>1, <1>2 DEF NodeT
    <2>3. LiveAt(nodes, i) \in BOOLEAN
      BY DEF LiveAt
    <2> HIDE DEF LiveAt
    <2>4. CASE ~a[i].live \/ a[i].buf # None
      BY <2>1, <2>2, <2>3, <2>4 DEF ClosedNode, SameNode
    <2>5. CASE ~(~a[i].live \/ a[i].buf # None) /\ tracked[i] = None
      <3>1. c[i] = [a[i] EXCEPT !.live = FALSE]
        BY <2>1, <2>5
      <3>2. SameNode(c[i], a[i]) /\ c[i].live = FALSE /\ c[i].buf = a[i].buf
        BY <3>1, <2>2 DEF SameNode
      <3> QED BY <2>2, <2>5, <3>2 DEF ClosedNode, SameNode
    <2>6. CASE ~(~a[i].live \/ a[i].buf # None) /\ tracked[i] # None
      <3>1. c[i] = [a[i] EXCEPT !.buf = Home(tracked[i])]
        BY <2>1, <2>6
      <3>2. SameNode(c[i], a[i]) /\ c[i].live = a[i].live /\ c[i].buf = Home(tracked[i])
        BY <3>1, <2>2 DEF SameNode
      <3> QED BY <2>2, <2>6, <3>2 DEF ClosedNode, SameNode
    <2> QED BY <2>4, <2>5, <2>6
  <1> QED BY <1>1, <1>4, <1>5 DEF c

(* What is known of the closed DAG: its nodes,                              *)
ClosedShape(c, n) ==
  /\ Ordered(c, n) /\ Len(c) = n
  /\ \A i \in 1 .. n :
       /\ c[i].op \in Ops /\ c[i].buf \in Storage \cup {None} /\ c[i].val \in Val
       /\ c[i].op = "input" => c[i].buf \in Buffers /\ c[i].val = Content(c[i].buf)
       /\ c[i].op # "input" => 1 \in DOMAIN c[i].in /\ (c[i].op = "add" => 2 \in DOMAIN c[i].in)
       /\ Valued(c, i)

(* what is stored,                                                          *)
ClosedLive(c, n) ==
  \A i \in 1 .. n :
    /\ c[i].live => c[i].op # "input" /\ c[i].buf # None
    /\ c[i].op = "copy" /\ c[i].live => ~HasConsumer(c, i)
    /\ c[i].op # "input" /\ c[i].buf # None => c[i].live \/ c[i].op = "copy"

(* what an update reads,                                                    *)
ClosedUpdates(c, n) ==
  \A i \in 1 .. n : \A b \in Buffers :
    IsWriter(c[i], b) /\ c[i].op # "copy" =>
      LET s == c[i].in[1]
      IN  c[s].buf = b /\ (c[s].op # "input" => \A w \in s + 1 .. i - 1 : ~IsWriter(c[w], b))

(* whose the homes are,                                                     *)
ClosedHomes(c, n) ==
  \A i \in 1 .. n :
    c[i].buf \notin Buffers \cup {None} =>
      /\ c[i].op # "input"
      /\ \E t \in Temps : c[i].buf = Home(t) /\ jitSlot[t] = i

(* the values the nodes stand for,                                          *)
ClosedVals(c, n) ==
  /\ \A b \in Buffers : (\A w \in 1 .. n : ~IsWriter(c[w], b)) => ref[b] = Content(b)
  /\ ~StaleRead(c) =>
       /\ \A b \in Buffers : \A w \in 1 .. n : LastWriter(c, w, b) => c[w].val = ref[b]
       /\ \A t \in Temps : jitSlot[t] # 0 => c[jitSlot[t]].val = tref[t]

(* and the eager run.                                                       *)
ClosedStep(c, M, X, i) ==
  IF c[i].op = "input" THEN M[i] = M[i - 1]
  ELSE /\ X[i] = Ap(c[i].op, [k \in DOMAIN c[i].in |->
                   IF c[c[i].in[k]].buf \in Buffers THEN M[i - 1][c[c[i].in[k]].buf]
                   ELSE X[c[i].in[k]]])
       /\ M[i] = IF c[i].buf \in Buffers THEN [M[i - 1] EXCEPT ![c[i].buf] = X[i]]
                 ELSE M[i - 1]

ClosedRun(c, n, M, X) ==
  /\ M \in [0 .. n -> [Buffers -> Val]]
  /\ X \in [1 .. n -> Val]
  /\ M[0] = [b \in Buffers |-> Content(b)]
  /\ \A i \in 1 .. n : ClosedStep(c, M, X, i)
  /\ M[n] = ref
  /\ \A t \in Temps : jitSlot[t] # 0 => X[jitSlot[t]] = tref[t]

ClosedOk(c, n) ==
  /\ ClosedShape(c, n) /\ ClosedLive(c, n) /\ ClosedUpdates(c, n) /\ ClosedHomes(c, n)
  /\ ClosedVals(c, n)
  /\ \E M, X : ClosedRun(c, n, M, X)

(* A home is neither a buffer nor None.                                     *)
LEMMA HomeFacts ==
  ASSUME NEW t \in Temps
  PROVE  /\ Home(t) \in Storage /\ Home(t) \notin Buffers /\ Home(t) # None
         /\ \A u \in Temps : Home(u) = Home(t) => u = t
         /\ Home(t)[1] = t
  <1>1. Home(t) \notin Buffers \cup {None}
    BY HomeAssumption
  <1>2. Home(t) \in Storage
    BY DEF Storage
  <1>3. Home(t)[1] = t /\ \A u \in Temps : Home(u)[1] = u
    BY DEF Home
  <1> HIDE DEF Home
  <1> QED BY <1>1, <1>2, <1>3

(* A DAG recorded so far, closed.                                           *)
LEMMA ClosedDag ==
  ASSUME RecInv, ExecInv, phase = "tracing"
  PROVE  ClosedOk(Closed(dag.nodes), Len(dag.nodes))
  <1> DEFINE nodes == dag.nodes
             n == Len(dag.nodes)
             c == Closed(nodes)
  <1>1. /\ Wf(dag) /\ SlotsT /\ Counted /\ Tracked(tracked, jitSlot)
        /\ Eager /\ Sourced(nodes) /\ Faithful
    BY DEF RecInv
  <1>2. /\ Shaped(nodes) /\ SlotsPlain(nodes) /\ Written(nodes)
        /\ \E M, X : RunOf(nodes, M, X) /\ Outcome(nodes, M, X)
    BY DEF ExecInv
  <1>3. nodes \in Seq(NodeT)
    BY <1>1 DEF Wf, DagT
  <1>4. /\ Len(c) = n /\ DOMAIN c = 1 .. n /\ n \in Nat
        /\ \A i \in 1 .. n : ClosedNode(c, nodes, i)
    BY <1>3, ClosedFacts
  <1> HIDE DEF c
  <1>5. DOMAIN nodes = 1 .. n /\ \A i \in 1 .. n : nodes[i] \in NodeT
    BY <1>3
  <1>6. \A i \in 1 .. n : SameNode(c[i], nodes[i])
    BY <1>4 DEF ClosedNode
  <1>7. \A i \in 1 .. n : NodeShape(nodes[i]) /\ Valued(nodes, i) /\ Updates(nodes, i)
    BY <1>2 DEF Shaped
  <1>8. \A i \in 1 .. n : \A k \in DOMAIN nodes[i].in : nodes[i].in[k] \in 1 .. i - 1
    BY <1>1 DEF Wf
  <1>9. ASSUME NEW i \in 1 .. n
        PROVE  /\ i \in Slots
               /\ tracked[i] # None => tracked[i] \in Temps /\ jitSlot[tracked[i]] = i
    <2>1. i \in Slots
      <3>1. reads \in 0 .. MaxReads /\ n <= 2 * reads
        BY <1>1 DEF Counted
      <3> QED BY <1>4, <3>1, MaxReadsAssumption DEF Slots
    <2> QED BY <2>1, <1>1 DEF Tracked
  <1>10. ASSUME NEW i \in 1 .. n
         PROVE  \/ c[i].buf = nodes[i].buf /\ nodes[i].buf \in Buffers \cup {None}
                \/ /\ nodes[i].buf = None /\ LiveAt(nodes, i)
                   /\ tracked[i] \in Temps /\ jitSlot[tracked[i]] = i
                   /\ c[i].buf = Home(tracked[i])
                   /\ c[i].buf \in Storage /\ c[i].buf \notin Buffers /\ c[i].buf # None
    <2>1. ClosedNode(c, nodes, i) /\ nodes[i].buf \in Buffers \cup {None}
      BY <1>4, <1>5 DEF NodeT
    <2>2. CASE LiveAt(nodes, i) /\ nodes[i].buf = None /\ tracked[i] # None
      BY <2>1, <2>2, <1>9, HomeFacts DEF ClosedNode
    <2>3. CASE ~(LiveAt(nodes, i) /\ nodes[i].buf = None /\ tracked[i] # None)
      BY <2>1, <2>3 DEF ClosedNode
    <2> QED BY <2>2, <2>3
  <1>11. \A i \in 1 .. n :
           /\ c[i].buf \in Buffers <=> nodes[i].buf \in Buffers
           /\ c[i].buf \in Buffers => c[i].buf = nodes[i].buf
           /\ nodes[i].buf # None <=> nodes[i].buf \in Buffers
           /\ c[i].buf \in Storage \cup {None}
    BY <1>5, <1>10, NoneAssumption DEF NodeT, Storage
  <1>12. \A i \in 1 .. n : \A b \in Buffers : IsWriter(c[i], b) <=> IsWriter(nodes[i], b)
    BY <1>6, <1>11 DEF IsWriter, SameNode
  <1>13. \A i \in 1 .. n : HasConsumer(c, i) <=> HasConsumer(nodes, i)
    BY <1>4, <1>5, <1>6 DEF HasConsumer, Sources, SameNode
  <1>14. ClosedShape(c, n)
    <2>1. Ordered(c, n)
      BY <1>4, <1>6, <1>8 DEF Ordered, SameNode
    <2>2. ASSUME NEW i \in 1 .. n
          PROVE  /\ c[i].op \in Ops /\ c[i].buf \in Storage \cup {None} /\ c[i].val \in Val
                 /\ c[i].op = "input" => c[i].buf \in Buffers /\ c[i].val = Content(c[i].buf)
                 /\ c[i].op # "input" => /\ 1 \in DOMAIN c[i].in
                                         /\ c[i].op = "add" => 2 \in DOMAIN c[i].in
      <3>1. SameNode(c[i], nodes[i]) /\ nodes[i] \in NodeT /\ NodeShape(nodes[i])
        BY <1>5, <1>6, <1>7
      <3>2. nodes[i].op = "input" => nodes[i].val = Content(nodes[i].buf)
        BY <1>1 DEF Wf
      <3> QED BY <3>1, <3>2, <1>11 DEF SameNode, NodeT, NodeShape
    <2>3. ASSUME NEW i \in 1 .. n PROVE Valued(c, i)
      <3>1. SameNode(c[i], nodes[i]) /\ Valued(nodes, i)
        BY <1>6, <1>7
      <3>2. \A k \in DOMAIN nodes[i].in : c[nodes[i].in[k]].val = nodes[nodes[i].in[k]].val
        BY <1>4, <1>6, <1>8 DEF SameNode
      <3>3. [k \in DOMAIN nodes[i].in |-> c[nodes[i].in[k]].val]
              = [k \in DOMAIN nodes[i].in |-> nodes[nodes[i].in[k]].val]
        BY <3>2
      <3> QED BY <3>1, <3>3 DEF SameNode, Valued
    <2> QED BY <1>4, <2>1, <2>2, <2>3 DEF ClosedShape
  <1>15. ClosedLive(c, n)
    <2>1. ASSUME NEW i \in 1 .. n
          PROVE  /\ c[i].live => c[i].op # "input" /\ c[i].buf # None
                 /\ c[i].op = "copy" /\ c[i].live => ~HasConsumer(c, i)
                 /\ c[i].op # "input" /\ c[i].buf # None => c[i].live \/ c[i].op = "copy"
      <3>1. ClosedNode(c, nodes, i) /\ NodeShape(nodes[i])
        BY <1>4, <1>7
      <3>2. c[i].live => c[i].op # "input" /\ c[i].buf # None
        BY <3>1, <1>9, HomeFacts DEF ClosedNode, SameNode, LiveAt
      <3>3. c[i].op = "copy" /\ c[i].live => ~HasConsumer(c, i)
        BY <3>1, <1>13 DEF ClosedNode, SameNode, LiveAt, NodeShape
      <3>4. c[i].op # "input" /\ c[i].buf # None => c[i].live \/ c[i].op = "copy"
        <4>1. CASE nodes[i].buf # None
          BY <3>1, <4>1 DEF ClosedNode, SameNode, LiveAt, NodeShape
        <4>2. CASE nodes[i].buf = None
          BY <3>1, <4>2 DEF ClosedNode, SameNode
        <4> QED BY <4>1, <4>2
      <3> QED BY <3>2, <3>3, <3>4
    <2> QED BY <2>1 DEF ClosedLive
  <1>16. ClosedUpdates(c, n)
    <2>1. ASSUME NEW i \in 1 .. n, NEW b \in Buffers, IsWriter(c[i], b), c[i].op # "copy"
          PROVE  /\ c[c[i].in[1]].buf = b
                 /\ c[c[i].in[1]].op # "input" =>
                      \A w \in c[i].in[1] + 1 .. i - 1 : ~IsWriter(c[w], b)
      <3>1. SameNode(c[i], nodes[i]) /\ NodeShape(nodes[i]) /\ Updates(nodes, i)
        BY <1>6, <1>7
      <3>2. nodes[i].op \notin {"input", "copy"} /\ nodes[i].buf = b /\ b # None
        BY <2>1, <3>1, <1>12, NoneAssumption DEF IsWriter, SameNode
      <3>3. nodes[i].inplace /\ 1 \in DOMAIN nodes[i].in
        BY <3>1, <3>2 DEF NodeShape
      <3> DEFINE s == nodes[i].in[1]
      <3>4. s \in 1 .. i - 1 /\ c[i].in[1] = s
        BY <3>1, <3>3, <1>8 DEF SameNode
      <3>5. /\ nodes[s].buf = b
            /\ nodes[s].op # "input" => \A w \in s + 1 .. i - 1 : ~IsWriter(nodes[w], b)
        BY <3>1, <3>2, <3>3 DEF Updates
      <3> HIDE DEF s
      <3>6. s \in 1 .. n /\ \A w \in s + 1 .. i - 1 : w \in 1 .. n
        BY <1>4, <3>4
      <3>7. SameNode(c[s], nodes[s]) /\ c[s].buf = b
        BY <3>5, <3>6, <1>6, <1>11
      <3> QED BY <3>4, <3>5, <3>6, <3>7, <1>12 DEF SameNode
    <2> QED BY <2>1 DEF ClosedUpdates
  <1>17. ClosedHomes(c, n)
    <2>1. ASSUME NEW i \in 1 .. n, c[i].buf \notin Buffers \cup {None}
          PROVE  c[i].op # "input" /\ \E t \in Temps : c[i].buf = Home(t) /\ jitSlot[t] = i
      BY <2>1, <1>6, <1>10 DEF LiveAt, SameNode
    <2> QED BY <2>1 DEF ClosedHomes
  <1>18. ClosedVals(c, n)
    <2>1. \A b \in Buffers : (\A w \in 1 .. n : ~IsWriter(c[w], b)) => ref[b] = Content(b)
      BY <1>1, <1>12 DEF Sourced, HasWriter
    <2>2. StaleRead(nodes) => StaleRead(c)
      <3> SUFFICES ASSUME StaleRead(nodes) PROVE StaleRead(c)
        OBVIOUS
      <3>1. PICK i \in 1 .. n : \E k \in DOMAIN nodes[i].in :
              /\ nodes[nodes[i].in[k]].op = "input"
              /\ \E w \in 1 .. i - 1 : IsWriter(nodes[w], nodes[nodes[i].in[k]].buf)
        BY <1>5 DEF StaleRead
      <3>2. PICK k \in DOMAIN nodes[i].in :
              /\ nodes[nodes[i].in[k]].op = "input"
              /\ \E w \in 1 .. i - 1 : IsWriter(nodes[w], nodes[nodes[i].in[k]].buf)
        BY <3>1
      <3> DEFINE s == nodes[i].in[k]
      <3>3. PICK w \in 1 .. i - 1 : IsWriter(nodes[w], nodes[s].buf)
        BY <3>2
      <3>4. s \in 1 .. n /\ w \in 1 .. n /\ c[i].in = nodes[i].in
        BY <1>4, <1>6, <1>8 DEF SameNode
      <3> HIDE DEF s
      <3>5. nodes[s].op = "input" /\ nodes[s].buf \in Buffers
        BY <3>2, <3>4, <1>7 DEF NodeShape, s
      <3>6. c[s].op = "input" /\ c[s].buf = nodes[s].buf
        BY <3>4, <3>5, <1>6, <1>11 DEF SameNode
      <3>7. IsWriter(c[w], c[s].buf)
        BY <3>3, <3>4, <3>5, <3>6, <1>12
      <3>8. k \in DOMAIN c[i].in /\ c[c[i].in[k]] = c[s]
        BY <3>4 DEF s
      <3>9. i \in DOMAIN c
        BY <1>4
      <3> QED BY <3>6, <3>7, <3>8, <3>9 DEF StaleRead
    <2>3. ASSUME ~StaleRead(c), NEW b \in Buffers, NEW w \in 1 .. n, LastWriter(c, w, b)
          PROVE  c[w].val = ref[b]
      <3>1. LastWriter(nodes, w, b)
        BY <2>3, <1>4, <1>12 DEF LastWriter
      <3>2. nodes[w].val = ref[b]
        BY <2>2, <2>3, <3>1, <1>2 DEF Written
      <3> QED BY <3>2, <1>6 DEF SameNode
    <2>4. ASSUME ~StaleRead(c), NEW t \in Temps, jitSlot[t] # 0
          PROVE  c[jitSlot[t]].val = tref[t]
      <3>1. jitSlot[t] \in 1 .. n
        BY <2>4, <1>1, <1>4 DEF SlotsT
      <3> QED BY <2>2, <2>4, <3>1, <1>1, <1>6 DEF Faithful, TempsGood, SameNode
    <2> QED BY <2>1, <2>3, <2>4 DEF ClosedVals
  <1>19. \E M, X : ClosedRun(c, n, M, X)
    <2>1. PICK M, X : RunOf(nodes, M, X) /\ Outcome(nodes, M, X)
      BY <1>2
    <2>2. ASSUME NEW i \in 1 .. n PROVE ClosedStep(c, M, X, i)
      <3>1. RunStep(nodes, M, X, i) /\ SameNode(c[i], nodes[i])
        BY <2>1, <1>6 DEF RunOf
      <3> DEFINE F(k) == IF c[nodes[i].in[k]].buf \in Buffers
                         THEN M[i - 1][c[nodes[i].in[k]].buf] ELSE X[nodes[i].in[k]]
      <3>2. ASSUME NEW k \in DOMAIN nodes[i].in PROVE Operand(nodes, M, X, i, k) = F(k)
        <4>1. nodes[i].in[k] \in 1 .. n
          BY <1>4, <1>8
        <4> QED BY <4>1, <1>11 DEF Operand
      <3> HIDE DEF F
      <3>3. [k \in DOMAIN nodes[i].in |-> Operand(nodes, M, X, i, k)]
              = [k \in DOMAIN nodes[i].in |-> F(k)]
        BY <3>2
      <3>4. CASE nodes[i].op = "input"
        BY <3>1, <3>4 DEF RunStep, ClosedStep, SameNode
      <3>5. CASE nodes[i].op # "input"
        <4>1. X[i] = Ap(nodes[i].op, [k \in DOMAIN nodes[i].in |-> F(k)])
          BY <3>1, <3>3, <3>5 DEF RunStep
        <4>2. M[i] = IF c[i].buf \in Buffers THEN [M[i - 1] EXCEPT ![c[i].buf] = X[i]]
                     ELSE M[i - 1]
          <5>1. M[i] = IF nodes[i].buf = None THEN M[i - 1]
                       ELSE [M[i - 1] EXCEPT ![nodes[i].buf] = X[i]]
            BY <3>1, <3>5 DEF RunStep
          <5>2. CASE c[i].buf \in Buffers
            <6>1. c[i].buf = nodes[i].buf /\ nodes[i].buf # None
              BY <5>2, <1>11
            <6> QED BY <5>1, <5>2, <6>1
          <5>3. CASE c[i].buf \notin Buffers
            <6>1. nodes[i].buf = None
              BY <5>3, <1>11
            <6> QED BY <5>1, <5>3, <6>1
          <5> QED BY <5>2, <5>3
        <4>3. c[i].op # "input" /\ c[i].op = nodes[i].op /\ c[i].in = nodes[i].in
          BY <3>1, <3>5 DEF SameNode
        <4> QED BY <4>1, <4>2, <4>3 DEF ClosedStep, F
      <3> QED BY <3>4, <3>5
    <2>3. ClosedRun(c, n, M, X)
      BY <2>1, <2>2 DEF ClosedRun, RunOf, Outcome
    <2> QED BY <2>3
  <1> QED BY <1>14, <1>15, <1>16, <1>17, <1>18, <1>19 DEF ClosedOk, c

-----------------------------------------------------------------------------
(* The eager program after node i: the buffers as in the eager run, and the *)
(* homes and the scratch tensors of the nodes so far computed.              *)
MemAt(c, M, X, i) ==
  [s \in Storage |->
    IF s \in Buffers THEN M[i][s]
    ELSE IF /\ jitSlot[s[1]] \in 1 .. i
            /\ c[jitSlot[s[1]]].buf = s
         THEN X[jitSlot[s[1]]] ELSE <<>>]
TmpAt(c, X, i) ==
  [j \in DOMAIN c |->
    IF j <= i /\ c[j].buf = None /\ HasConsumer(c, j) THEN X[j] ELSE <<>>]
StateAt(c, M, X, i) == [mem |-> MemAt(c, M, X, i), tmp |-> TmpAt(c, X, i)]

(* Storage is a buffer or a home.                                           *)
LEMMA StorageCases ==
  ASSUME NEW s \in Storage, s \notin Buffers
  PROVE  \E t \in Temps : s = Home(t) /\ s[1] = t
  BY HomeFacts DEF Storage

(* A home belongs to the node its variable stands for.                      *)
LEMMA HomeOwner ==
  ASSUME NEW c, NEW n, ClosedHomes(c, n), NEW i \in 1 .. n,
         c[i].buf \notin Buffers \cup {None}
  PROVE  jitSlot[c[i].buf[1]] = i /\ c[i].buf[1] \in Temps /\ c[i].op # "input"
  <1>1. PICK t \in Temps : c[i].buf = Home(t) /\ jitSlot[t] = i
    BY DEF ClosedHomes
  <1>2. c[i].buf[1] = t
    BY <1>1, HomeFacts
  <1> QED BY <1>1, <1>2 DEF ClosedHomes

(* What an op of the program reads is what it reads in the eager run.       *)
LEMMA ProgramReads ==
  ASSUME NEW c, NEW n, ClosedShape(c, n), ClosedHomes(c, n),
         NEW M, NEW X, ClosedRun(c, n, M, X), NEW i \in 1 .. n, c[i].op # "input",
         NEW k \in DOMAIN c[i].in
  PROVE  ReadAt(c, StateAt(c, M, X, i - 1), c[i].in[k])
           = IF c[c[i].in[k]].buf \in Buffers THEN M[i - 1][c[c[i].in[k]].buf]
             ELSE X[c[i].in[k]]
  <1> DEFINE j == c[i].in[k]
             s == StateAt(c, M, X, i - 1)
  <1>1. n \in Nat /\ DOMAIN c = 1 .. n /\ j \in 1 .. i - 1
    BY DEF ClosedShape, Ordered
  <1>2. j \in 1 .. n /\ c[j].buf \in Storage \cup {None} /\ i \in DOMAIN c
        /\ j \in DOMAIN c
    BY <1>1 DEF ClosedShape
  <1>3. s.mem = MemAt(c, M, X, i - 1) /\ s.tmp = TmpAt(c, X, i - 1)
    BY DEF StateAt
  <1>4. j \in Sources(c[i])
    BY DEF Sources
  <1>5. HasConsumer(c, j)
    BY <1>2, <1>4 DEF HasConsumer
  <1> HIDE DEF j, s
  <1>6. CASE c[j].buf = None
    <2>1. s.tmp[j] = X[j]
      BY <1>1, <1>2, <1>3, <1>5, <1>6 DEF TmpAt
    <2> QED BY <1>6, <2>1, NoneAssumption DEF ReadAt, s, j
  <1>7. CASE c[j].buf \in Buffers
    <2>1. s.mem[c[j].buf] = M[i - 1][c[j].buf]
      BY <1>3, <1>7 DEF MemAt, Storage
    <2> QED BY <1>7, <2>1, NoneAssumption DEF ReadAt, s, j
  <1>8. CASE c[j].buf \notin Buffers \cup {None}
    <2>1. jitSlot[c[j].buf[1]] = j
      BY <1>2, <1>8, HomeOwner
    <2>2. c[j].buf \in Storage
      BY <1>2, <1>8
    <2>3. s.mem[c[j].buf] = X[j]
      BY <1>1, <1>3, <1>8, <2>1, <2>2 DEF MemAt
    <2> QED BY <1>8, <2>3 DEF ReadAt, s, j
  <1> QED BY <1>6, <1>7, <1>8

(* So it computes the same.                                                 *)
LEMMA ProgramComputes ==
  ASSUME NEW c, NEW n, ClosedShape(c, n), ClosedHomes(c, n),
         NEW M, NEW X, ClosedRun(c, n, M, X), NEW i \in 1 .. n, c[i].op # "input"
  PROVE  Computed(c, StateAt(c, M, X, i - 1), i) = X[i]
  <1> DEFINE R(k) == ReadAt(c, StateAt(c, M, X, i - 1), c[i].in[k])
             F(k) == IF c[c[i].in[k]].buf \in Buffers THEN M[i - 1][c[c[i].in[k]].buf]
                     ELSE X[c[i].in[k]]
  <1>1. \A k \in DOMAIN c[i].in : R(k) = F(k)
    BY ProgramReads
  <1>2. ClosedStep(c, M, X, i)
    BY DEF ClosedRun
  <1>3. X[i] = Ap(c[i].op, [k \in DOMAIN c[i].in |-> F(k)])
    BY <1>2 DEF ClosedStep
  <1>4. Computed(c, StateAt(c, M, X, i - 1), i) = Ap(c[i].op, [k \in DOMAIN c[i].in |-> R(k)])
    BY DEF Computed
  <1> HIDE DEF R, F
  <1>5. [k \in DOMAIN c[i].in |-> R(k)] = [k \in DOMAIN c[i].in |-> F(k)]
    BY <1>1
  <1> QED BY <1>3, <1>4, <1>5

(* One step of the program is one step of the eager run.                    *)
LEMMA ProgramSteps ==
  ASSUME NEW c, NEW n, ClosedShape(c, n), ClosedHomes(c, n),
         NEW M, NEW X, ClosedRun(c, n, M, X), NEW i \in 1 .. n
  PROVE  StateAt(c, M, X, i) = ProgramStep(c, StateAt(c, M, X, i - 1), i)
  <1> DEFINE m0 == MemAt(c, M, X, i - 1)
             m1 == MemAt(c, M, X, i)
             t0 == TmpAt(c, X, i - 1)
             t1 == TmpAt(c, X, i)
             s == StateAt(c, M, X, i - 1)
             b == c[i].buf
  <1>1. n \in Nat /\ DOMAIN c = 1 .. n /\ b \in Storage \cup {None}
        /\ (c[i].op = "input" => b \in Buffers) /\ i \in Nat
    BY DEF ClosedShape, Ordered
  <1>2. /\ M \in [0 .. n -> [Buffers -> Val]]
        /\ ClosedStep(c, M, X, i)
    BY DEF ClosedRun
  <1>3. M[i] \in [Buffers -> Val] /\ M[i - 1] \in [Buffers -> Val]
    BY <1>1, <1>2
  <1>4. c[i].op # "input" => Computed(c, s, i) = X[i]
    BY ProgramComputes
  <1>5. /\ m0 = [z \in Storage |-> m0[z]] /\ m1 = [z \in Storage |-> m1[z]]
        /\ t0 = [j \in 1 .. n |-> t0[j]] /\ t1 = [j \in 1 .. n |-> t1[j]]
    BY <1>1 DEF MemAt, TmpAt
  <1>6. \A z \in Buffers : m0[z] = M[i - 1][z] /\ m1[z] = M[i][z]
    BY DEF MemAt, Storage
  <1>7. ASSUME NEW z \in Storage, z \notin Buffers, z # b PROVE m1[z] = m0[z]
    <2>1. (jitSlot[z[1]] \in 1 .. i /\ c[jitSlot[z[1]]].buf = z)
            <=> (jitSlot[z[1]] \in 1 .. i - 1 /\ c[jitSlot[z[1]]].buf = z)
      BY <1>1, <1>7
    <2> QED BY <1>7, <2>1 DEF MemAt
  <1>8. ASSUME b \notin Buffers, b # None PROVE m1[b] = X[i] /\ c[i].op # "input"
    <2>1. jitSlot[b[1]] = i /\ c[i].op # "input"
      BY <1>8, HomeOwner
    <2>2. b \in Storage /\ jitSlot[b[1]] \in 1 .. i /\ c[jitSlot[b[1]]].buf = b
      BY <1>1, <1>8, <2>1
    <2> QED BY <1>8, <2>1, <2>2 DEF MemAt
  <1>9. \A j \in 1 .. n : j # i => t1[j] = t0[j]
    BY <1>1 DEF TmpAt
  <1>10. /\ b = None /\ HasConsumer(c, i) => t1[i] = X[i]
         /\ ~(b = None /\ HasConsumer(c, i)) => t1[i] = t0[i]
    BY <1>1 DEF TmpAt
  <1>11. s = [mem |-> m0, tmp |-> t0] /\ StateAt(c, M, X, i) = [mem |-> m1, tmp |-> t1]
    BY DEF StateAt
  <1> HIDE DEF m0, m1, t0, t1, s, b
  <1>12. ASSUME b \notin Buffers PROVE M[i] = M[i - 1]
    BY <1>2, <1>12 DEF ClosedStep, b
  <1>13. ASSUME b = None \/ c[i].op = "input" PROVE m1 = m0
    <2>1. M[i] = M[i - 1]
      <3>1. CASE c[i].op = "input"
        BY <1>2, <3>1 DEF ClosedStep
      <3>2. CASE b = None
        BY <3>2, <1>12, NoneAssumption
      <3> QED BY <1>13, <3>1, <3>2
    <2>2. ASSUME NEW z \in Storage PROVE m1[z] = m0[z]
      <3>1. CASE z \in Buffers
        BY <2>1, <3>1, <1>6
      <3>2. CASE z \notin Buffers
        <4>1. z # b
          BY <1>1, <1>13, <3>2, StorageCases, HomeFacts
        <4> QED BY <3>2, <4>1, <1>7
      <3> QED BY <3>1, <3>2
    <2> QED BY <2>2, <1>5
  <1>14. ASSUME ~(b = None /\ HasConsumer(c, i)) PROVE t1 = t0
    BY <1>5, <1>9, <1>10, <1>14
  <1>15. CASE c[i].op = "input" \/ (b = None /\ ~HasConsumer(c, i))
    <2>1. m1 = m0
      BY <1>13, <1>15
    <2>2. t1 = t0
      BY <1>1, <1>14, <1>15, NoneAssumption
    <2>3. ProgramStep(c, s, i) = s
      BY <1>15 DEF ProgramStep, b
    <2> QED BY <1>11, <2>1, <2>2, <2>3 DEF s
  <1>16. CASE c[i].op # "input" /\ b # None
    <2>1. ProgramStep(c, s, i) = [s EXCEPT !.mem[b] = X[i]]
      BY <1>4, <1>16 DEF ProgramStep, b
    <2>2. t1 = t0
      BY <1>14, <1>16
    <2>3. m1 = [m0 EXCEPT ![b] = X[i]]
      <3>1. ASSUME NEW z \in Storage PROVE m1[z] = IF z = b THEN X[i] ELSE m0[z]
        <4>1. CASE b \in Buffers
          <5>1. M[i] = [M[i - 1] EXCEPT ![b] = X[i]]
            BY <1>2, <1>16, <4>1 DEF ClosedStep, b
          <5>2. CASE z \in Buffers
            BY <1>3, <1>6, <4>1, <5>1, <5>2
          <5>3. CASE z \notin Buffers
            BY <1>7, <4>1, <5>3
          <5> QED BY <5>2, <5>3
        <4>2. CASE b \notin Buffers
          <5>1. CASE z \in Buffers
            BY <1>6, <1>12, <4>2, <5>1
          <5>2. CASE z \notin Buffers
            BY <1>7, <1>8, <1>16, <4>2, <5>2
          <5> QED BY <5>1, <5>2
        <4> QED BY <4>1, <4>2
      <3> QED BY <3>1, <1>5
    <2>4. [s EXCEPT !.mem[b] = X[i]] = [mem |-> [m0 EXCEPT ![b] = X[i]], tmp |-> t0]
      BY <1>11
    <2> QED BY <1>11, <2>1, <2>2, <2>3, <2>4 DEF s
  <1>17. CASE c[i].op # "input" /\ b = None /\ HasConsumer(c, i)
    <2>1. ProgramStep(c, s, i) = [s EXCEPT !.tmp[i] = X[i]]
      BY <1>4, <1>17 DEF ProgramStep, b
    <2>2. m1 = m0
      BY <1>13, <1>17
    <2>3. t1 = [t0 EXCEPT ![i] = X[i]]
      BY <1>1, <1>5, <1>9, <1>10, <1>17
    <2>4. [s EXCEPT !.tmp[i] = X[i]] = [mem |-> m0, tmp |-> [t0 EXCEPT ![i] = X[i]]]
      BY <1>11
    <2> QED BY <1>11, <2>1, <2>2, <2>3, <2>4 DEF s
  <1> QED BY <1>15, <1>16, <1>17

(* The program leaves the memory of the eager run.                          *)
LEMMA ProgramEager ==
  ASSUME NEW c, NEW n, ClosedShape(c, n), ClosedHomes(c, n),
         NEW M, NEW X, ClosedRun(c, n, M, X)
  PROVE  Program(c, Fresh) = MemAt(c, M, X, n)
  <1> DEFINE G == [i \in 0 .. n |-> StateAt(c, M, X, i)]
  <1>1. n \in Nat /\ Len(c) = n
    BY DEF ClosedShape, Ordered
  <1>2. StateAt(c, M, X, 0) = ProgramStart(c, Fresh)
    <2>1. M[0] = [b \in Buffers |-> Content(b)]
      BY DEF ClosedRun
    <2>2. DOMAIN c = 1 .. n
      BY DEF ClosedShape, Ordered
    <2>3. MemAt(c, M, X, 0) = Fresh
      BY <2>1 DEF MemAt, Fresh
    <2>4. TmpAt(c, X, 0) = [j \in DOMAIN c |-> <<>>]
      BY <1>1, <2>2 DEF TmpAt
    <2> QED BY <2>3, <2>4 DEF StateAt, ProgramStart
  <1>3. \A i \in 1 .. n : StateAt(c, M, X, i) = ProgramStep(c, StateAt(c, M, X, i - 1), i)
    BY ProgramSteps
  <1>4. /\ G[0] = ProgramStart(c, Fresh)
        /\ \A i \in 1 .. n : G[i] = ProgramStep(c, G[i - 1], i)
        /\ G = [i \in 0 .. Len(c) |-> G[i]]
        /\ G[n] = StateAt(c, M, X, n)
    BY <1>1, <1>2, <1>3
  <1> HIDE DEF G
  <1>5. Program(c, Fresh) = G[Len(c)].mem
    BY <1>1, <1>4, ProgramRuns
  <1> QED BY <1>1, <1>4, <1>5 DEF StateAt

-----------------------------------------------------------------------------
(* The memory of a rebound program: what the first trace left, and beside   *)
(* it the other storage.                                                    *)
There == {Other(s) : s \in Storage}
Moved(m, a) == [s \in Storage \cup There |-> IF s \in Storage THEN m[s] ELSE a[s[1]]]

(* c2 is c on other storage.                                                *)
MovedNodes(c, c2, n) ==
  /\ DOMAIN c2 = 1 .. n /\ Len(c2) = n
  /\ \A i \in 1 .. n :
       /\ c2[i].op = c[i].op /\ c2[i].in = c[i].in
       /\ c2[i].buf = IF c[i].buf = None THEN None ELSE Other(c[i].buf)

(* Other storage has its own names.                                         *)
LEMMA OtherFacts ==
  ASSUME NEW s \in Storage
  PROVE  /\ Other(s) \in Storage \cup There /\ Other(s) \notin Storage /\ Other(s) # None
         /\ Other(s)[1] = s
  <1>1. Other(s) \notin Storage \cup {None}
    BY OtherAssumption
  <1>2. Other(s)[1] = s
    BY DEF Other
  <1>3. Other(s) \in There
    BY DEF There
  <1> HIDE DEF Other
  <1> QED BY <1>1, <1>2, <1>3

Put(f, s, v) == [f EXCEPT ![s] = v]

(* Reading and writing the other storage.                                   *)
LEMMA MovedFacts ==
  ASSUME NEW m, NEW a, DOMAIN a = Storage, NEW s \in Storage
  PROVE  /\ Moved(m, a)[Other(s)] = a[s] /\ Moved(m, a)[s] = m[s]
         /\ \A v : Put(Moved(m, a), Other(s), v) = Moved(m, Put(a, s, v))
  <1>1. /\ Other(s) \in Storage \cup There /\ Other(s) \notin Storage /\ Other(s)[1] = s
    BY OtherFacts
  <1>2. Moved(m, a)[Other(s)] = a[s] /\ Moved(m, a)[s] = m[s]
    <2> HIDE DEF Other
    <2> QED BY <1>1 DEF Moved
  <1>3. ASSUME NEW v PROVE [Moved(m, a) EXCEPT ![Other(s)] = v] = Moved(m, [a EXCEPT ![s] = v])
    <2> DEFINE e == [a EXCEPT ![s] = v]
    <2>1. e[s] = v /\ \A y \in Storage : y # s => e[y] = a[y]
      OBVIOUS
    <2> HIDE DEF e
    <2>2. ASSUME NEW z \in Storage \cup There
          PROVE  (IF z \in Storage THEN m[z] ELSE e[z[1]])
                   = IF z = Other(s) THEN v ELSE IF z \in Storage THEN m[z] ELSE a[z[1]]
      <3>1. CASE z \in Storage
        BY <3>1, <1>1
      <3>2. CASE z \notin Storage
        <4>1. PICK y \in Storage : z = Other(y)
          BY <3>2 DEF There
        <4>2. z[1] = y /\ (z = Other(s) <=> y = s)
          BY <4>1, <1>1, OtherFacts
        <4> QED BY <3>2, <4>1, <4>2, <2>1
      <3> QED BY <3>1, <3>2
    <2>3. [Moved(m, a) EXCEPT ![Other(s)] = v]
            = [z \in Storage \cup There |->
                IF z = Other(s) THEN v ELSE IF z \in Storage THEN m[z] ELSE a[z[1]]]
      <3> HIDE DEF Other
      <3> QED BY DEF Moved
    <2>4. Moved(m, e) = [z \in Storage \cup There |-> IF z \in Storage THEN m[z] ELSE e[z[1]]]
      BY DEF Moved
    <2> HIDE DEF Moved, Other
    <2> QED BY <2>2, <2>3, <2>4 DEF e
  <1>4. \A v : Put(Moved(m, a), Other(s), v) = Moved(m, Put(a, s, v))
    <2> HIDE DEF Moved, Other
    <2> QED BY <1>3 DEF Put
  <1> QED BY <1>2, <1>4

(* One step of the rebound program.                                         *)
LEMMA MovedStep ==
  ASSUME NEW c, NEW n, ClosedShape(c, n), NEW c2, MovedNodes(c, c2, n), NEW m,
         NEW a, DOMAIN a = Storage, NEW t, NEW i \in 1 .. n,
         NEW p, p = ProgramStep(c, [mem |-> a, tmp |-> t], i)
  PROVE  ProgramStep(c2, [mem |-> Moved(m, a), tmp |-> t], i)
           = [mem |-> Moved(m, p.mem), tmp |-> p.tmp]
  <1> DEFINE s == [mem |-> a, tmp |-> t]
             s2 == [mem |-> Moved(m, a), tmp |-> t]
  <1>1. n \in Nat /\ DOMAIN c = 1 .. n
        /\ \A k \in DOMAIN c[i].in : c[i].in[k] \in 1 .. n
    BY DEF ClosedShape, Ordered
  <1>2. \A j \in 1 .. n : c[j].buf \in Storage \cup {None}
    BY DEF ClosedShape
  <1>3. /\ DOMAIN c2 = 1 .. n
        /\ \A j \in 1 .. n : /\ c2[j].op = c[j].op /\ c2[j].in = c[j].in
                             /\ c2[j].buf = IF c[j].buf = None THEN None ELSE Other(c[j].buf)
    BY DEF MovedNodes
  <1>4. s.mem = a /\ s.tmp = t /\ s2.mem = Moved(m, a) /\ s2.tmp = t
    OBVIOUS
  <1>5. p = ProgramStep(c, s, i)
    OBVIOUS
  <1> HIDE DEF s, s2
  <1>6. ASSUME NEW j \in 1 .. n
        PROVE  (c2[j].buf = None <=> c[j].buf = None) /\ ReadAt(c2, s2, j) = ReadAt(c, s, j)
    <2>1. CASE c[j].buf = None
      BY <1>3, <1>4, <2>1 DEF ReadAt
    <2>2. CASE c[j].buf # None
      <3>1. c[j].buf \in Storage /\ c2[j].buf = Other(c[j].buf)
        BY <1>2, <1>3, <2>2
      <3>2. Other(c[j].buf) # None
        BY <3>1, OtherFacts
      <3>3. Moved(m, a)[Other(c[j].buf)] = a[c[j].buf]
        BY <3>1, MovedFacts
      <3> QED BY <1>4, <2>2, <3>1, <3>2, <3>3 DEF ReadAt
    <2> QED BY <2>1, <2>2
  <1>7. Computed(c2, s2, i) = Computed(c, s, i)
    <2>1. [k \in DOMAIN c[i].in |-> ReadAt(c2, s2, c[i].in[k])]
            = [k \in DOMAIN c[i].in |-> ReadAt(c, s, c[i].in[k])]
      BY <1>1, <1>6
    <2>2. c2[i].op = c[i].op /\ c2[i].in = c[i].in
      BY <1>3
    <2> QED BY <2>1, <2>2 DEF Computed
  <1>8. HasConsumer(c2, i) <=> HasConsumer(c, i)
    BY <1>1, <1>3 DEF HasConsumer, Sources
  <1> DEFINE v == Computed(c, s, i)
  <1> HIDE DEF v
  <1>9. c2[i].op = c[i].op /\ (c2[i].buf = None <=> c[i].buf = None)
    BY <1>3, <1>6
  <1>10. CASE c[i].op = "input" \/ (c[i].buf = None /\ ~HasConsumer(c, i))
    <2>1. ProgramStep(c2, s2, i) = s2 /\ p = s
      BY <1>5, <1>8, <1>9, <1>10 DEF ProgramStep
    <2> QED BY <2>1, <1>4 DEF s2
  <1>11. CASE c[i].op # "input" /\ c[i].buf # None
    <2>1. c[i].buf \in Storage /\ c2[i].buf = Other(c[i].buf)
      BY <1>2, <1>3, <1>11
    <2>2. p = [s EXCEPT !.mem[c[i].buf] = v]
      BY <1>5, <1>11 DEF ProgramStep, v
    <2>3. ProgramStep(c2, s2, i) = [s2 EXCEPT !.mem[Other(c[i].buf)] = v]
      BY <1>7, <1>9, <1>11, <2>1 DEF ProgramStep, v
    <2>4. p.mem = [a EXCEPT ![c[i].buf] = v] /\ p.tmp = t
      BY <2>2 DEF s
    <2>5. [s2 EXCEPT !.mem[Other(c[i].buf)] = v]
            = [mem |-> [Moved(m, a) EXCEPT ![Other(c[i].buf)] = v], tmp |-> t]
      <3> HIDE DEF Other, Moved
      <3> QED BY DEF s2
    <2>6. [Moved(m, a) EXCEPT ![Other(c[i].buf)] = v] = Moved(m, [a EXCEPT ![c[i].buf] = v])
      <3>1. Put(Moved(m, a), Other(c[i].buf), v) = Moved(m, Put(a, c[i].buf, v))
        BY <2>1, MovedFacts
      <3> QED BY <3>1, Zenon DEF Put
    <2> QED BY <2>3, <2>4, <2>5, <2>6 DEF s2
  <1>12. CASE c[i].op # "input" /\ c[i].buf = None /\ HasConsumer(c, i)
    <2>1. p = [s EXCEPT !.tmp[i] = v]
      BY <1>5, <1>12 DEF ProgramStep, v
    <2>2. ProgramStep(c2, s2, i) = [s2 EXCEPT !.tmp[i] = v]
      BY <1>7, <1>8, <1>9, <1>12 DEF ProgramStep, v
    <2>3. p.mem = a /\ p.tmp = [t EXCEPT ![i] = v]
      BY <2>1 DEF s
    <2>4. [s2 EXCEPT !.tmp[i] = v] = [mem |-> Moved(m, a), tmp |-> [t EXCEPT ![i] = v]]
      BY DEF s2
    <2> QED BY <2>2, <2>3, <2>4 DEF s2
  <1> QED BY <1>10, <1>11, <1>12 DEF s2

(* A rebound program leaves in the other storage what the first one left in *)
(* its own, and its own alone.                                              *)
LEMMA ProgramMoved ==
  ASSUME NEW c, NEW n, ClosedShape(c, n), ClosedHomes(c, n),
         NEW M, NEW X, ClosedRun(c, n, M, X), NEW c2, MovedNodes(c, c2, n), NEW m
  PROVE  Program(c2, Moved(m, Fresh)) = Moved(m, MemAt(c, M, X, n))
  <1> DEFINE T(i) == [mem |-> Moved(m, MemAt(c, M, X, i)), tmp |-> TmpAt(c, X, i)]
             G == [i \in 0 .. n |-> T(i)]
  <1>1. n \in Nat /\ Len(c2) = n /\ DOMAIN c = 1 .. n /\ DOMAIN c2 = 1 .. n
    BY DEF ClosedShape, Ordered, MovedNodes
  <1>2. T(0) = ProgramStart(c2, Moved(m, Fresh))
    <2>1. M[0] = [b \in Buffers |-> Content(b)]
      BY DEF ClosedRun
    <2>2. MemAt(c, M, X, 0) = Fresh
      BY <2>1 DEF MemAt, Fresh
    <2>3. TmpAt(c, X, 0) = [j \in DOMAIN c2 |-> <<>>]
      BY <1>1 DEF TmpAt
    <2> QED BY <2>2, <2>3 DEF ProgramStart
  <1>3. ASSUME NEW i \in 1 .. n PROVE T(i) = ProgramStep(c2, T(i - 1), i)
    <2> DEFINE a == MemAt(c, M, X, i - 1)
               t == TmpAt(c, X, i - 1)
               p == StateAt(c, M, X, i)
    <2>1. p = ProgramStep(c, [mem |-> a, tmp |-> t], i)
      BY ProgramSteps DEF StateAt
    <2>2. DOMAIN a = Storage
      BY DEF MemAt
    <2>3. T(i - 1) = [mem |-> Moved(m, a), tmp |-> t]
      OBVIOUS
    <2>4. T(i) = [mem |-> Moved(m, p.mem), tmp |-> p.tmp]
      BY DEF StateAt
    <2> HIDE DEF a, t, p, T
    <2>5. ProgramStep(c2, [mem |-> Moved(m, a), tmp |-> t], i)
            = [mem |-> Moved(m, p.mem), tmp |-> p.tmp]
      BY <2>1, <2>2, MovedStep
    <2> QED BY <2>3, <2>4, <2>5
  <1> HIDE DEF T
  <1>4. /\ G[0] = ProgramStart(c2, Moved(m, Fresh))
        /\ \A i \in 1 .. n : G[i] = ProgramStep(c2, G[i - 1], i)
        /\ G = [i \in 0 .. Len(c2) |-> G[i]]
        /\ G[n] = T(n)
    BY <1>1, <1>2, <1>3
  <1> HIDE DEF G
  <1>5. Program(c2, Moved(m, Fresh)) = G[Len(c2)].mem
    BY <1>1, <1>4, ProgramRuns
  <1> QED BY <1>1, <1>4, <1>5 DEF T

-----------------------------------------------------------------------------
(* The values the nodes of a DAG stand for.                                 *)
Vals(c) == [i \in DOMAIN c |-> c[i].val]

(* eval_chain computes them when it is given them for the inputs.           *)
LEMMA ChainVals ==
  ASSUME NEW c, NEW n, ClosedShape(c, n), NEW given,
         \A i \in 1 .. n : c[i].op = "input" => i \in DOMAIN given,
         \A i \in 1 .. n : i \in DOMAIN given => given[i] = c[i].val
  PROVE  Chain(c, given) = Vals(c)
  <1> DEFINE g == Vals(c)
  <1>1. Ordered(c, n) /\ DOMAIN c = 1 .. n /\ n \in Nat
    BY DEF ClosedShape, Ordered
  <1>2. g \in [1 .. n -> Val] /\ \A i \in 1 .. n : g[i] = c[i].val
    BY <1>1 DEF Vals, ClosedShape
  <1> HIDE DEF g
  <1>3. ASSUME NEW i \in 1 .. n PROVE g[i] = ChainStep(c, given, g, i)
    <2>1. CASE i \in DOMAIN given
      BY <1>2, <2>1 DEF ChainStep
    <2>2. CASE i \notin DOMAIN given
      <3>1. c[i].val = Ap(c[i].op, [k \in DOMAIN c[i].in |-> c[c[i].in[k]].val])
        BY <2>2 DEF ClosedShape, Valued
      <3>2. \A k \in DOMAIN c[i].in : c[i].in[k] \in 1 .. n
        BY <1>1 DEF Ordered
      <3>3. [k \in DOMAIN c[i].in |-> c[c[i].in[k]].val]
              = [k \in DOMAIN c[i].in |-> g[c[i].in[k]]]
        BY <1>2, <3>2
      <3> QED BY <1>2, <2>2, <3>1, <3>3 DEF ChainStep
    <2> QED BY <2>1, <2>2
  <1>4. Chain(c, given) = g
    BY <1>1, <1>2, <1>3, ChainIs
  <1> QED BY <1>4 DEF g

(* The inputs of the closed DAG and what they load from fresh memory.       *)
LEMMA LoadFresh ==
  ASSUME NEW c, NEW n, ClosedShape(c, n)
  PROVE  /\ DOMAIN Load(c, Fresh) = Inputs(c)
         /\ \A i \in 1 .. n : i \in Inputs(c) <=> c[i].op = "input"
         /\ Inputs(c) \subseteq 1 .. n
         /\ \A i \in Inputs(c) : Load(c, Fresh)[i] = c[i].val
         /\ Chain(c, Load(c, Fresh)) = Vals(c)
  <1>1. DOMAIN c = 1 .. n
    BY DEF ClosedShape, Ordered
  <1>2. /\ DOMAIN Load(c, Fresh) = Inputs(c) /\ Inputs(c) \subseteq 1 .. n
        /\ \A i \in 1 .. n : i \in Inputs(c) <=> c[i].op = "input"
    BY <1>1 DEF Load, Inputs
  <1>3. ASSUME NEW i \in Inputs(c) PROVE Load(c, Fresh)[i] = c[i].val
    <2>1. c[i].buf \in Buffers /\ c[i].val = Content(c[i].buf)
      BY <1>2 DEF ClosedShape
    <2>2. Load(c, Fresh)[i] = Fresh[c[i].buf]
      BY DEF Load
    <2> QED BY <2>1, <2>2 DEF Fresh, Storage
  <1> DEFINE g == Load(c, Fresh)
  <1> HIDE DEF g
  <1>4. Chain(c, g) = Vals(c)
    <2>1. /\ \A i \in 1 .. n : c[i].op = "input" => i \in DOMAIN g
          /\ \A i \in 1 .. n : i \in DOMAIN g => g[i] = c[i].val
      BY <1>2, <1>3 DEF g
    <2> QED BY <2>1, ChainVals
  <1> QED BY <1>2, <1>3, <1>4 DEF g

(* Storing the live nodes leaves the eager results, if every store is live  *)
(* and nothing stale was read.                                              *)
LEMMA StoreEager ==
  ASSUME NEW c, NEW n, ClosedOk(c, n), ~StaleRead(c), ~StoreNotLive(c),
         NEW m, m = Store(Fresh, c, Live(c), Vals(c))
  PROVE  /\ \A b \in Buffers : m[b] = ref[b]
         /\ \A t \in Temps : (\E i \in Live(c) : c[i].buf = Home(t)) => m[Home(t)] = tref[t]
  <1>1. /\ ClosedShape(c, n) /\ ClosedLive(c, n) /\ ClosedHomes(c, n) /\ ClosedVals(c, n)
    BY DEF ClosedOk
  <1>2. n \in Nat /\ DOMAIN c = 1 .. n /\ Len(c) = n
    BY <1>1 DEF ClosedShape, Ordered
  <1>3. \A i \in 1 .. n : i \in Live(c) <=> c[i].live
    BY <1>2 DEF Live
  <1>4. Live(c) \subseteq 1 .. n
    BY <1>2 DEF Live
  <1> DEFINE To(b) == {o \in Live(c) : c[o].buf = b}
  <1>5. ASSUME NEW b \in Storage
        PROVE  /\ To(b) = {} => m[b] = Fresh[b]
               /\ To(b) # {} => /\ m[b] = c[Max(To(b))].val
                                /\ Max(To(b)) \in To(b) /\ \A y \in To(b) : y <= Max(To(b))
    <2>1. m[b] = IF To(b) = {} THEN Fresh[b] ELSE Vals(c)[Max(To(b))]
      BY DEF Store, Fresh
    <2>2. To(b) \in SUBSET (1 .. n)
      BY <1>4
    <2> HIDE DEF To
    <2>3. CASE To(b) # {}
      <3>1. Max(To(b)) \in To(b) /\ \A y \in To(b) : y <= Max(To(b))
        BY <1>2, <2>2, <2>3, MaxIn
      <3>2. Vals(c)[Max(To(b))] = c[Max(To(b))].val
        BY <1>2, <2>2, <3>1 DEF Vals
      <3> QED BY <2>1, <2>3, <3>1, <3>2
    <2>4. CASE To(b) = {}
      BY <2>1, <2>4
    <2> QED BY <2>3, <2>4
  <1>6. ASSUME NEW b \in Buffers PROVE m[b] = ref[b]
    <2>1. \A w \in 1 .. n : IsWriter(c[w], b) <=> w \in To(b)
      <3>1. ASSUME NEW w \in 1 .. n, IsWriter(c[w], b) PROVE w \in To(b)
        <4>1. c[w].op # "input" /\ c[w].buf = b /\ b # None
          BY <3>1, NoneAssumption DEF IsWriter
        <4>2. c[w].live \/ c[w].op = "copy"
          BY <4>1, <1>1 DEF ClosedLive
        <4>3. c[w].op = "copy" => c[w].live
          BY <1>2 DEF StoreNotLive
        <4> QED BY <1>3, <4>1, <4>2, <4>3
      <3>2. ASSUME NEW w \in 1 .. n, w \in To(b) PROVE IsWriter(c[w], b)
        BY <3>2, <1>1, <1>3 DEF ClosedLive, IsWriter
      <3> QED BY <3>1, <3>2
    <2>2. b \in Storage
      BY DEF Storage
    <2>3. CASE To(b) = {}
      <3>1. ref[b] = Content(b)
        BY <2>1, <2>3, <1>1 DEF ClosedVals
      <3>2. Fresh[b] = Content(b)
        BY <2>2 DEF Fresh
      <3> QED BY <1>5, <2>2, <2>3, <3>1, <3>2
    <2>4. CASE To(b) # {}
      <3> DEFINE w == Max(To(b))
      <3>1. /\ m[b] = c[w].val /\ w \in To(b) /\ \A y \in To(b) : y <= w
        BY <1>5, <2>2, <2>4
      <3>2. w \in 1 .. n
        BY <1>4, <3>1
      <3> HIDE DEF w, To
      <3>3. LastWriter(c, w, b)
        <4>1. ASSUME NEW z \in w + 1 .. n PROVE ~IsWriter(c[z], b)
          <5>1. z \in 1 .. n /\ ~(z <= w)
            BY <1>2, <3>2
          <5> QED BY <5>1, <2>1, <3>1
        <4> QED BY <1>2, <2>1, <3>1, <3>2, <4>1 DEF LastWriter
      <3> QED BY <1>1, <3>1, <3>2, <3>3 DEF ClosedVals
    <2> QED BY <2>3, <2>4
  <1>7. ASSUME NEW t \in Temps, NEW i \in Live(c), c[i].buf = Home(t)
        PROVE  m[Home(t)] = tref[t]
    <2>1. /\ Home(t) \in Storage /\ Home(t) \notin Buffers \cup {None} /\ Home(t)[1] = t
      BY HomeFacts
    <2>2. ASSUME NEW o \in To(Home(t)) PROVE o \in 1 .. n /\ jitSlot[t] = o
      <3>1. o \in 1 .. n /\ c[o].buf = Home(t)
        BY <1>4
      <3> QED BY <1>1, <2>1, <3>1, HomeOwner
    <2>3. i \in To(Home(t))
      BY <1>7
    <2>4. m[Home(t)] = c[Max(To(Home(t)))].val /\ Max(To(Home(t))) \in To(Home(t))
      BY <1>5, <2>1, <2>3
    <2> HIDE DEF To
    <2>5. m[Home(t)] = c[jitSlot[t]].val /\ jitSlot[t] # 0
      BY <2>2, <2>4
    <2> QED BY <1>1, <2>5 DEF ClosedVals
  <1> QED BY <1>6, <1>7

(* Two passes store the same values, and whatever the second one stores     *)
(* anywhere comes after what the first stored there.                        *)
TwoPasses(c, n, outs, first, rest, v, v2) ==
  /\ n \in Nat /\ outs \subseteq 1 .. n /\ outs = first \cup rest
  /\ \A o \in rest : v2[o] = v[o]
  /\ \A p \in first : \A o \in rest : c[p].buf = c[o].buf => p < o

(* Storing in two such passes is storing at once.                           *)
LEMMA StoreTwice ==
  ASSUME NEW c, NEW n, NEW outs, NEW first, NEW rest, NEW mem0, NEW v, NEW v2,
         TwoPasses(c, n, outs, first, rest, v, v2)
  PROVE  Store(Store(mem0, c, first, v), c, rest, v2) = Store(mem0, c, outs, v)
  <1> DEFINE To(S, b) == {o \in S : c[o].buf = b}
             m1 == Store(mem0, c, first, v)
  <1>1. /\ DOMAIN m1 = DOMAIN mem0
        /\ \A b \in DOMAIN mem0 :
             m1[b] = IF To(first, b) = {} THEN mem0[b] ELSE v[Max(To(first, b))]
    BY DEF Store
  <1> HIDE DEF m1
  <1>2. ASSUME NEW b \in DOMAIN mem0
        PROVE  (IF To(rest, b) = {} THEN m1[b] ELSE v2[Max(To(rest, b))])
                 = IF To(outs, b) = {} THEN mem0[b] ELSE v[Max(To(outs, b))]
    <2>1. /\ To(outs, b) = To(first, b) \cup To(rest, b)
          /\ To(outs, b) \in SUBSET (1 .. n) /\ To(rest, b) \in SUBSET (1 .. n) /\ n \in Nat
          /\ To(rest, b) \subseteq rest /\ To(first, b) \subseteq first
          /\ \A p \in To(first, b) : \A o \in To(rest, b) : p < o
      BY DEF TwoPasses
    <2> HIDE DEF To
    <2>2. CASE To(rest, b) = {}
      <3>1. To(outs, b) = To(first, b)
        BY <2>1, <2>2
      <3> QED BY <1>1, <2>2, <3>1
    <2>3. CASE To(rest, b) # {}
      <3> DEFINE q == Max(To(outs, b))
                 r == Max(To(rest, b))
      <3>1. q \in To(outs, b) /\ \A y \in To(outs, b) : y <= q
        <4>1. To(outs, b) # {}
          BY <2>1, <2>3
        <4> QED BY <2>1, <4>1, MaxIn
      <3>2. r \in To(rest, b) /\ \A y \in To(rest, b) : y <= r
        BY <2>1, <2>3, MaxIn
      <3>3. To(outs, b) # {}
        BY <2>1, <2>3
      <3> HIDE DEF q, r
      <3>4. r <= q /\ q \in 1 .. n /\ r \in 1 .. n
        BY <2>1, <3>1, <3>2
      <3>5. q \in To(rest, b)
        <4>1. ASSUME q \in To(first, b) PROVE FALSE
          <5>1. q < r
            BY <2>1, <3>2, <4>1
          <5> QED BY <3>4, <5>1
        <4> QED BY <2>1, <3>1, <4>1
      <3>6. q = r
        BY <3>2, <3>4, <3>5
      <3>7. v2[r] = v[r]
        BY <2>1, <3>2 DEF TwoPasses
      <3> QED BY <2>3, <3>3, <3>6, <3>7 DEF q, r
    <2> QED BY <2>2, <2>3
  <1>3. Store(m1, c, rest, v2)
          = [b \in DOMAIN mem0 |-> IF To(rest, b) = {} THEN m1[b] ELSE v2[Max(To(rest, b))]]
    BY <1>1 DEF Store
  <1>4. Store(mem0, c, outs, v)
          = [b \in DOMAIN mem0 |-> IF To(outs, b) = {} THEN mem0[b] ELSE v[Max(To(outs, b))]]
    BY DEF Store
  <1> HIDE DEF To
  <1>5. Store(m1, c, rest, v2) = Store(mem0, c, outs, v)
    BY <1>2, <1>3, <1>4
  <1> QED BY <1>5 DEF m1

(* A set of nodes that holds its operands, each of them read by some node.  *)
Feeding(c, n, pre) ==
  /\ pre \subseteq 1 .. n
  /\ \A j \in pre : Sources(c[j]) \subseteq pre
  /\ \A i \in pre : HasConsumer(c, i)

(* Such a set has written a buffer before any node outside of it does: an   *)
(* update reads the latest writer, so the writers in the set form a chain   *)
(* from the first of all.                                                   *)
LEMMA FeedingFirst ==
  ASSUME NEW c, NEW n, ClosedShape(c, n), ClosedLive(c, n), ClosedUpdates(c, n),
         ~StaleRead(c), ~StoreNotLive(c), NEW pre, Feeding(c, n, pre),
         NEW b \in Buffers, NEW o \in 1 .. n, o \notin pre, IsWriter(c[o], b),
         NEW q \in pre, IsWriter(c[q], b)
  PROVE  q < o
  <1>1. n \in Nat /\ DOMAIN c = 1 .. n
    BY DEF ClosedShape, Ordered
  <1>2. pre \subseteq 1 .. n
    BY DEF Feeding
  <1> DEFINE S == {p \in pre : IsWriter(c[p], b) /\ o < p}
  <1>3. CASE S = {}
    <2>1. q # o /\ q \in 1 .. n
      BY <1>2
    <2>2. q \notin S
      BY <1>3
    <2>3. ~(o < q)
      BY <2>2
    <2> HIDE DEF S
    <2> QED BY <1>1, <2>1, <2>3
  <1>4. CASE S # {}
    <2>1. S \in SUBSET Nat
      <3>1. S \subseteq pre
        OBVIOUS
      <3> HIDE DEF S
      <3> QED BY <1>1, <1>2, <3>1
    <2>2. PICK p \in S : \A y \in S : p <= y
      BY <1>4, <2>1, LeastNat
    <2>3. p \in pre /\ IsWriter(c[p], b) /\ o < p /\ p \in 1 .. n
      BY <1>2, <2>2
    <2>4. c[p].op # "copy"
      <3>1. HasConsumer(c, p)
        BY <2>3 DEF Feeding
      <3> QED BY <1>1, <2>3, <3>1 DEF StoreNotLive, ClosedLive
    <2> DEFINE s == c[p].in[1]
    <2>5. /\ c[s].buf = b
          /\ c[s].op # "input" => \A w \in s + 1 .. p - 1 : ~IsWriter(c[w], b)
      BY <2>3, <2>4 DEF ClosedUpdates
    <2>6. 1 \in DOMAIN c[p].in
      BY <2>3 DEF ClosedShape, IsWriter
    <2>7. s \in 1 .. p - 1 /\ s \in Sources(c[p])
      BY <2>3, <2>6 DEF ClosedShape, Ordered, Sources
    <2>8. s \in pre
      BY <2>3, <2>7 DEF Feeding
    <2>9. c[s].op # "input"
      <3>1. ASSUME c[s].op = "input" PROVE StaleRead(c)
        <4>1. p \in DOMAIN c /\ o \in 1 .. p - 1
          BY <1>1, <2>3
        <4> QED BY <2>5, <2>6, <3>1, <4>1 DEF StaleRead
      <3> QED BY <3>1
    <2> HIDE DEF s
    <2>10. IsWriter(c[s], b)
      BY <2>5, <2>9 DEF IsWriter
    <2>11. ~(s < o)
      <3>1. ASSUME s < o PROVE FALSE
        <4>1. o \in s + 1 .. p - 1
          BY <1>1, <2>3, <2>7, <3>1
        <4> QED BY <2>5, <2>9, <4>1
      <3> QED BY <3>1
    <2>12. o < s /\ s < p
      BY <1>1, <2>3, <2>7, <2>8, <2>11
    <2>13. s \in S
      BY <2>8, <2>10, <2>12
    <2> QED BY <1>1, <2>2, <2>3, <2>7, <2>12, <2>13
  <1> QED BY <1>3, <1>4

(* What build_row_norm_plan finds.                                          *)
LEMMA PlanFacts ==
  ASSUME NEW c, NEW n, ClosedShape(c, n), Norms(c) # {}
  PROVE  LET p == RowNormPlan(c)
             pre == InPre(c, p.x)
         IN  /\ p.norm \in 1 .. n /\ c[p.norm].op = "norm" /\ p.x = c[p.norm].in[1]
             /\ p.x \in 1 .. n /\ p.x < p.norm /\ p.x \in Sources(c[p.norm])
             /\ p.postIds = (1 .. n) \ (pre \cup Inputs(c) \cup {p.norm})
             /\ p.preOutputs = pre \cap Live(c)
             /\ p.reload = (/\ pre \ Inputs(c) # {} /\ p.x \in Live(c)
                            /\ PostOnlyNeedsX(c, pre \ Inputs(c), p.postIds, p.x))
             /\ Feeding(c, n, pre) /\ p.x \in pre /\ \A i \in pre : i <= p.x
  <1> DEFINE norm == NormNode(c)
             x == c[norm].in[1]
             pre == InPre(c, x)
             p == RowNormPlan(c)
  <1>1. n \in Nat /\ DOMAIN c = 1 .. n /\ Len(c) = n /\ Ordered(c, n)
    BY DEF ClosedShape, Ordered
  <1>2. norm \in Norms(c)
    BY DEF NormNode
  <1>3. norm \in 1 .. n /\ c[norm].op = "norm"
    BY <1>1, <1>2 DEF Norms
  <1>4. 1 \in DOMAIN c[norm].in
    BY <1>3 DEF ClosedShape
  <1>5. x \in 1 .. norm - 1 /\ x \in Sources(c[norm])
    BY <1>1, <1>3, <1>4 DEF Ordered, Sources
  <1>6. x \in 1 .. n /\ x < norm
    BY <1>1, <1>3, <1>5
  <1>7. /\ p.norm = norm /\ p.x = x
        /\ p.postIds = DOMAIN c \ (pre \cup Inputs(c) \cup {norm})
        /\ p.preOutputs = pre \cap Live(c)
        /\ p.reload = (/\ pre \ Inputs(c) # {} /\ x \in Live(c)
                       /\ PostOnlyNeedsX(c, pre \ Inputs(c), p.postIds, x))
    BY DEF RowNormPlan
  <1>x. InPre(c, p.x) = pre
    BY <1>7
  <1> HIDE DEF norm, x, p
  <1>8. /\ pre \subseteq 1 .. n /\ x \in pre
        /\ \A j \in pre : Sources(c[j]) \subseteq pre
        /\ \A i \in pre : i = x \/ \E j \in pre : j > i /\ i \in Sources(c[j])
        /\ \A i \in pre : i <= x
    BY <1>1, <1>6, InPreFacts
  <1> HIDE DEF pre
  <1>9. \A i \in pre : HasConsumer(c, i)
    BY <1>1, <1>3, <1>5, <1>8 DEF HasConsumer
  <1>10. Feeding(c, n, pre)
    BY <1>8, <1>9 DEF Feeding
  <1>11. /\ p.norm \in 1 .. n /\ c[p.norm].op = "norm" /\ p.x = c[p.norm].in[1]
         /\ p.x \in 1 .. n /\ p.x < p.norm /\ p.x \in Sources(c[p.norm])
         /\ Feeding(c, n, pre) /\ p.x \in pre /\ \A i \in pre : i <= p.x
    BY <1>3, <1>5, <1>6, <1>7, <1>8, <1>10 DEF x
  <1>12. /\ p.postIds = (1 .. n) \ (pre \cup Inputs(c) \cup {p.norm})
         /\ p.preOutputs = pre \cap Live(c)
    BY <1>1, <1>7
  <1>13. p.reload = (/\ pre \ Inputs(c) # {} /\ p.x \in Live(c)
                     /\ PostOnlyNeedsX(c, pre \ Inputs(c), p.postIds, p.x))
    BY <1>7, Zenon
  <1> QED BY <1>x, <1>11, <1>12, <1>13, Zenon DEF p

-----------------------------------------------------------------------------
(* Memory holds values before an execution,                                 *)
LEMMA FreshType == Fresh \in [Storage -> Val]
  <1>1. <<>> \in Val
    BY DEF Val
  <1>2. \A b \in Buffers : Content(b) \in Val
    <2> SUFFICES ASSUME NEW b \in Buffers PROVE Content(b) \in Val
      OBVIOUS
    <2>1. Content(b) \in Seq(Names)
      BY ContentAssumption
    <2> QED BY <2>1 DEF Val
  <1> HIDE DEF Val
  <1> QED BY <1>1, <1>2 DEF Fresh

(* and after a store.                                                       *)
LEMMA StoreType ==
  ASSUME NEW c, NEW n \in Nat, NEW outs \in SUBSET (1 .. n),
         NEW m \in [Storage -> Val], NEW v \in [1 .. n -> Val]
  PROVE  Store(m, c, outs, v) \in [Storage -> Val]
  <1> DEFINE To(b) == {o \in outs : c[o].buf = b}
  <1>1. Store(m, c, outs, v) = [b \in Storage |-> IF To(b) = {} THEN m[b] ELSE v[Max(To(b))]]
    BY DEF Store
  <1>2. ASSUME NEW b \in Storage
        PROVE  (IF To(b) = {} THEN m[b] ELSE v[Max(To(b))]) \in Val
    <2>1. To(b) \in SUBSET (1 .. n)
      OBVIOUS
    <2> HIDE DEF To
    <2>2. To(b) # {} => Max(To(b)) \in 1 .. n
      BY <2>1, MaxIn
    <2> QED BY <2>2
  <1> HIDE DEF To
  <1> QED BY <1>1, <1>2

(* A kernel's chain has values whenever memory has, and what is not given   *)
(* is computed.                                                             *)
LEMMA ChainType ==
  ASSUME NEW c, NEW n, ClosedShape(c, n), NEW given, Inputs(c) \subseteq DOMAIN given,
         \A i \in DOMAIN given : given[i] \in Val
  PROVE  /\ Chain(c, given) \in [1 .. n -> Val]
         /\ \A i \in 1 .. n : Chain(c, given)[i] = ChainStep(c, given, Chain(c, given), i)
  <1>1. Ordered(c, n) /\ DOMAIN c = 1 .. n
    BY DEF ClosedShape, Ordered
  <1>2. \A i \in 1 .. n : i \in DOMAIN given \/
           /\ c[i].op \in {"map", "norm", "copy", "add"}
           /\ 1 \in DOMAIN c[i].in /\ (c[i].op = "add" => 2 \in DOMAIN c[i].in)
    <2> SUFFICES ASSUME NEW i \in 1 .. n, i \notin DOMAIN given
                 PROVE  /\ c[i].op \in {"map", "norm", "copy", "add"}
                        /\ 1 \in DOMAIN c[i].in /\ (c[i].op = "add" => 2 \in DOMAIN c[i].in)
      OBVIOUS
    <2>1. c[i].op # "input"
      BY <1>1 DEF Inputs
    <2> QED BY <2>1 DEF ClosedShape, Ops
  <1> QED BY <1>1, <1>2, ChainExists

(* The inputs load values.                                                  *)
LEMMA LoadType ==
  ASSUME NEW c, NEW n, ClosedShape(c, n), NEW m \in [Storage -> Val]
  PROVE  /\ DOMAIN Load(c, m) = Inputs(c)
         /\ \A i \in Inputs(c) : Load(c, m)[i] = m[c[i].buf] /\ m[c[i].buf] \in Val
         /\ Chain(c, Load(c, m)) \in [1 .. n -> Val]
  <1>1. DOMAIN Load(c, m) = Inputs(c) /\ \A i \in Inputs(c) : Load(c, m)[i] = m[c[i].buf]
    BY DEF Load
  <1>2. DOMAIN c = 1 .. n
    BY DEF ClosedShape, Ordered
  <1>3. \A i \in Inputs(c) : c[i].buf \in Storage
    BY <1>2 DEF ClosedShape, Inputs, Storage
  <1>4. \A i \in Inputs(c) : m[c[i].buf] \in Val
    BY <1>3
  <1> DEFINE g == Load(c, m)
  <1> HIDE DEF g
  <1>5. Chain(c, g) \in [1 .. n -> Val]
    <2>1. Inputs(c) \subseteq DOMAIN g /\ \A i \in DOMAIN g : g[i] \in Val
      BY <1>1, <1>4 DEF g
    <2> QED BY <2>1, ChainType
  <1> QED BY <1>1, <1>4, <1>5 DEF g

(* What the second pass of a row norm starts from.                          *)
Given(c, plan) == Inputs(c) \cup {plan.x, plan.norm}
PassTwo(c, plan, m, stat, x2) ==
  [i \in Given(c, plan) |->
    IF i = plan.x THEN x2 ELSE IF i = plan.norm THEN Norm(stat, x2) ELSE m[c[i].buf]]

(* x as the second pass has it.                                             *)
SecondX(c, plan, m) ==
  IF plan.reload THEN m[c[plan.x].buf] ELSE Chain(c, Load(c, m))[plan.x]

(* The row-norm kernel, pass by pass.                                       *)
LEMMA RowNormPasses ==
  ASSUME NEW c, NEW n, ClosedShape(c, n)
  PROVE  LET plan == RowNormPlan(c)
             v1   == Chain(c, Load(c, Fresh))
             m1   == Store(Fresh, c, plan.preOutputs, v1)
             g    == PassTwo(c, plan, m1, v1[plan.x], SecondX(c, plan, m1))
         IN  RowNormKernel(c, Fresh) = Store(m1, c, Live(c) \ plan.preOutputs, Chain(c, g))
  <1> DEFINE plan == RowNormPlan(c)
             v1 == Chain(c, Load(c, Fresh))
             m1 == Store(Fresh, c, plan.preOutputs, v1)
             H(p, v, m, x2) == [i \in DOMAIN Load(c, m) \cup {p.x, p.norm} |->
                                 IF i = p.x THEN x2 ELSE IF i = p.norm THEN Norm(v[p.x], x2)
                                 ELSE Load(c, m)[i]]
  <1>1. ASSUME NEW p, NEW v, NEW m, NEW x2
        PROVE  H(p, v, m, x2) = PassTwo(c, p, m, v[p.x], x2)
    <2>1. DOMAIN Load(c, m) = Inputs(c) /\ \A i \in Inputs(c) : Load(c, m)[i] = m[c[i].buf]
      BY DEF Load
    <2> DEFINE F(i) == IF i = p.x THEN x2 ELSE IF i = p.norm THEN Norm(v[p.x], x2)
                       ELSE Load(c, m)[i]
               G(i) == IF i = p.x THEN x2 ELSE IF i = p.norm THEN Norm(v[p.x], x2)
                       ELSE m[c[i].buf]
    <2>2. \A i \in Inputs(c) \cup {p.x, p.norm} : F(i) = G(i)
      BY <2>1
    <2>3. PassTwo(c, p, m, v[p.x], x2) = [i \in Inputs(c) \cup {p.x, p.norm} |-> G(i)]
      BY DEF PassTwo, Given
    <2> HIDE DEF F, G
    <2>4. [i \in DOMAIN Load(c, m) \cup {p.x, p.norm} |-> F(i)]
            = [i \in Inputs(c) \cup {p.x, p.norm} |-> G(i)]
      BY <2>1, <2>2
    <2> QED BY <2>3, <2>4, Zenon DEF F
  <1>2. RowNormKernel(c, Fresh)
          = Store(m1, c, Live(c) \ plan.preOutputs, Chain(c, H(plan, v1, m1, SecondX(c, plan, m1))))
    BY Zenon DEF RowNormKernel, SecondX
  <1> HIDE DEF H
  <1>3. H(plan, v1, m1, SecondX(c, plan, m1)) = PassTwo(c, plan, m1, v1[plan.x], SecondX(c, plan, m1))
    BY <1>1
  <1> QED BY <1>2, <1>3, Zenon

(* A norm of values is a value.                                             *)
LEMMA NormType == ASSUME NEW a \in Val, NEW b \in Val PROVE Norm(a, b) \in Val
  <1>1. <<"norm">> \in Val
    BY DEF Val
  <1>2. \A x, y \in Val : x \o y \in Val
    BY DEF Val
  <1> HIDE DEF Val
  <1> QED BY <1>1, <1>2 DEF Norm

(* What the second pass is given,                                           *)
LEMMA PassTwoGiven ==
  ASSUME NEW c, NEW n, ClosedShape(c, n), Norms(c) # {}, NEW m, NEW stat, NEW x2
  PROVE  LET p == RowNormPlan(c)
             g == PassTwo(c, p, m, stat, x2)
         IN  /\ DOMAIN g = Given(c, p)
             /\ g[p.x] = x2 /\ g[p.norm] = Norm(stat, x2)
             /\ \A i \in Inputs(c) : i # p.x => g[i] = m[c[i].buf]
  <1> DEFINE p == RowNormPlan(c)
  <1>1. p.norm \in 1 .. n /\ c[p.norm].op = "norm" /\ p.x \in 1 .. n /\ p.x < p.norm
    BY PlanFacts
  <1>2. n \in Nat /\ DOMAIN c = 1 .. n
    BY DEF ClosedShape, Ordered
  <1>3. p.norm # p.x /\ p.norm \notin Inputs(c)
    BY <1>1, <1>2 DEF Inputs
  <1> HIDE DEF p
  <1> QED BY <1>3 DEF PassTwo, Given, p

(* and that it computes what it is not given.                               *)
LEMMA PassTwoFacts ==
  ASSUME NEW c, NEW n, ClosedShape(c, n), Norms(c) # {},
         NEW m \in [Storage -> Val], NEW stat \in Val, NEW x2 \in Val
  PROVE  LET p == RowNormPlan(c)
             g == PassTwo(c, p, m, stat, x2)
         IN  /\ Chain(c, g) \in [1 .. n -> Val]
             /\ \A i \in 1 .. n : Chain(c, g)[i] = ChainStep(c, g, Chain(c, g), i)
  <1> DEFINE p == RowNormPlan(c)
             g == PassTwo(c, p, m, stat, x2)
  <1>1. /\ DOMAIN g = Given(c, p)
        /\ g[p.x] = x2 /\ g[p.norm] = Norm(stat, x2)
        /\ \A i \in Inputs(c) : i # p.x => g[i] = m[c[i].buf]
    BY PassTwoGiven
  <1>2. \A i \in Inputs(c) : m[c[i].buf] \in Val
    BY LoadType
  <1>3. Norm(stat, x2) \in Val
    BY NormType
  <1> HIDE DEF g, p
  <1>4. \A i \in DOMAIN g : g[i] \in Val
    BY <1>1, <1>2, <1>3 DEF Given
  <1>5. /\ Chain(c, g) \in [1 .. n -> Val]
        /\ \A i \in 1 .. n : Chain(c, g)[i] = ChainStep(c, g, Chain(c, g), i)
    <2>1. Inputs(c) \subseteq DOMAIN g
      BY <1>1 DEF Given
    <2> QED BY <1>4, <2>1, ChainType
  <1> QED BY <1>5 DEF g, p

(* The first pass leaves values, and the second one has x.                  *)
LEMMA PassOneType ==
  ASSUME NEW c, NEW n, ClosedShape(c, n), ClosedLive(c, n), Norms(c) # {}
  PROVE  LET p == RowNormPlan(c)
             v == Chain(c, Load(c, Fresh))
             m == Store(Fresh, c, p.preOutputs, v)
         IN  /\ v = Vals(c) /\ v \in [1 .. n -> Val]
             /\ m \in [Storage -> Val] /\ SecondX(c, p, m) \in Val
             /\ v[p.x] = c[p.x].val
  <1> DEFINE p == RowNormPlan(c)
             v == Chain(c, Load(c, Fresh))
             m == Store(Fresh, c, p.preOutputs, v)
  <1>1. n \in Nat /\ DOMAIN c = 1 .. n
    BY DEF ClosedShape, Ordered
  <1>2. v = Vals(c)
    BY LoadFresh
  <1>3. v \in [1 .. n -> Val]
    BY LoadType, FreshType
  <1>4. /\ p.x \in 1 .. n /\ p.preOutputs = InPre(c, p.x) \cap Live(c)
        /\ p.reload = (/\ InPre(c, p.x) \ Inputs(c) # {} /\ p.x \in Live(c)
                       /\ PostOnlyNeedsX(c, InPre(c, p.x) \ Inputs(c), p.postIds, p.x))
    BY PlanFacts
  <1>5. p.preOutputs \in SUBSET (1 .. n)
    BY <1>1, <1>4 DEF Live
  <1>6. p.reload => p.x \in Live(c)
    BY <1>4
  <1> HIDE DEF p, v
  <1>7. m \in [Storage -> Val]
    BY <1>1, <1>3, <1>5, StoreType, FreshType
  <1> HIDE DEF m
  <1>8. p.reload => c[p.x].buf \in Storage
    BY <1>1, <1>4, <1>6 DEF Live, ClosedLive, ClosedShape
  <1>9. Chain(c, Load(c, m)) \in [1 .. n -> Val]
    BY <1>7, LoadType
  <1>10. SecondX(c, p, m) \in Val
    BY <1>4, <1>7, <1>8, <1>9 DEF SecondX
  <1>11. v[p.x] = c[p.x].val
    BY <1>1, <1>2, <1>4 DEF Vals
  <1> QED BY <1>2, <1>3, <1>7, <1>10, <1>11 DEF m, v, p

(* So the row-norm kernel leaves values,                                    *)
LEMMA RowNormType ==
  ASSUME NEW c, NEW n, ClosedShape(c, n), ClosedLive(c, n), Norms(c) # {}
  PROVE  RowNormKernel(c, Fresh) \in [Storage -> Val]
  <1> DEFINE p == RowNormPlan(c)
             v == Chain(c, Load(c, Fresh))
             m == Store(Fresh, c, p.preOutputs, v)
             x2 == SecondX(c, p, m)
             g == PassTwo(c, p, m, v[p.x], x2)
  <1>1. RowNormKernel(c, Fresh) = Store(m, c, Live(c) \ p.preOutputs, Chain(c, g))
    BY RowNormPasses
  <1>2. v \in [1 .. n -> Val] /\ m \in [Storage -> Val] /\ x2 \in Val /\ v[p.x] = c[p.x].val
    BY PassOneType
  <1>3. n \in Nat /\ DOMAIN c = 1 .. n
    BY DEF ClosedShape, Ordered
  <1>4. p.x \in 1 .. n
    BY PlanFacts
  <1>5. v[p.x] \in Val
    BY <1>2, <1>4
  <1> HIDE DEF v, m, x2
  <1>6. Chain(c, g) \in [1 .. n -> Val]
    BY <1>2, <1>5, PassTwoFacts
  <1>7. Live(c) \ p.preOutputs \in SUBSET (1 .. n)
    BY <1>3 DEF Live
  <1> DEFINE k == Chain(c, g)
             outs == Live(c) \ p.preOutputs
  <1>8. k \in [1 .. n -> Val] /\ outs \in SUBSET (1 .. n)
    BY <1>6, <1>7
  <1> HIDE DEF k, outs, g, p
  <1>9. Store(m, c, outs, k) \in [Storage -> Val]
    BY <1>2, <1>3, <1>8, StoreType
  <1> QED BY <1>1, <1>9 DEF k, outs

(* and so does every executor.                                              *)
LEMMA ExecuteType ==
  ASSUME NEW c, NEW n, ClosedOk(c, n), NEW f \in BOOLEAN
  PROVE  Execute(c, Fresh, f) \in [Storage -> Val]
  <1>1. ClosedShape(c, n) /\ ClosedLive(c, n) /\ ClosedHomes(c, n)
    BY DEF ClosedOk
  <1>2. n \in Nat /\ DOMAIN c = 1 .. n
    BY <1>1 DEF ClosedShape, Ordered
  <1>3. Program(c, Fresh) \in [Storage -> Val]
    <2>1. PICK M, X : ClosedRun(c, n, M, X)
      BY DEF ClosedOk
    <2>2. Program(c, Fresh) = MemAt(c, M, X, n)
      BY <1>1, <2>1, ProgramEager
    <2>3. M[n] \in [Buffers -> Val] /\ X \in [1 .. n -> Val]
      BY <1>2, <2>1 DEF ClosedRun
    <2>4. <<>> \in Val
      BY DEF Val
    <2> HIDE DEF Val
    <2>5. MemAt(c, M, X, n) \in [Storage -> Val]
      BY <2>3, <2>4 DEF MemAt
    <2> QED BY <2>2, <2>5
  <1>4. ElementwiseKernel(c, Fresh) \in [Storage -> Val]
    <2>1. Chain(c, Load(c, Fresh)) \in [1 .. n -> Val]
      BY <1>1, LoadType, FreshType
    <2>2. Live(c) \in SUBSET (1 .. n)
      BY <1>2 DEF Live
    <2> QED BY <1>2, <2>1, <2>2, StoreType, FreshType DEF ElementwiseKernel
  <1>5. Norms(c) # {} => RowNormKernel(c, Fresh) \in [Storage -> Val]
    BY <1>1, RowNormType
  <1> QED BY <1>3, <1>4, <1>5 DEF Execute

-----------------------------------------------------------------------------
(* The row-norm kernel stores what the elementwise one would: its second    *)
(* pass finds x, and the inputs of the post chain, as the first one did.    *)
LEMMA NormVal ==
  ASSUME NEW c, NEW n, ClosedShape(c, n), Norms(c) # {}
  PROVE  LET p == RowNormPlan(c) IN c[p.norm].val = Norm(c[p.x].val, c[p.x].val)
  <1> DEFINE p == RowNormPlan(c)
             a == [k \in DOMAIN c[p.norm].in |-> c[c[p.norm].in[k]].val]
  <1>1. p.norm \in 1 .. n /\ c[p.norm].op = "norm" /\ p.x = c[p.norm].in[1]
    BY PlanFacts
  <1> HIDE DEF p
  <1>2. 1 \in DOMAIN c[p.norm].in
    BY <1>1 DEF ClosedShape
  <1>3. c[p.norm].val = Ap("norm", a)
    BY <1>1 DEF ClosedShape, Valued
  <1>4. a[1] = c[p.x].val
    BY <1>1, <1>2
  <1> HIDE DEF a
  <1>5. Ap("norm", a) = Norm(a[1], a[1])
    BY DEF Ap
  <1> QED BY <1>3, <1>4, <1>5 DEF p

(* Nothing stored in pass one: pass two replays the chain.                  *)
LEMMA RowNormReplays ==
  ASSUME NEW c, NEW n, ClosedShape(c, n), Norms(c) # {}, RowNormPlan(c).preOutputs = {}
  PROVE  RowNormKernel(c, Fresh) = Store(Fresh, c, Live(c), Vals(c))
  <1> DEFINE p == RowNormPlan(c)
             m == Store(Fresh, c, p.preOutputs, Chain(c, Load(c, Fresh)))
             x2 == SecondX(c, p, m)
             g == PassTwo(c, p, m, Chain(c, Load(c, Fresh))[p.x], x2)
  <1>1. Chain(c, Load(c, Fresh)) = Vals(c)
    BY LoadFresh
  <1>2. m = Fresh
    <2>1. m = [b \in DOMAIN Fresh |-> Fresh[b]]
      BY DEF Store
    <2> HIDE DEF m
    <2> QED BY <2>1, FreshType
  <1>3. RowNormKernel(c, Fresh) = Store(m, c, Live(c) \ p.preOutputs, Chain(c, g))
    BY RowNormPasses
  <1>4. /\ p.x \in 1 .. n /\ p.norm \in 1 .. n /\ p.x \in InPre(c, p.x)
        /\ p.preOutputs = InPre(c, p.x) \cap Live(c)
        /\ p.reload = (/\ InPre(c, p.x) \ Inputs(c) # {} /\ p.x \in Live(c)
                       /\ PostOnlyNeedsX(c, InPre(c, p.x) \ Inputs(c), p.postIds, p.x))
    BY PlanFacts
  <1>5. p.preOutputs = {}
    OBVIOUS
  <1>6. ~p.reload
    BY <1>4, <1>5
  <1>7. n \in Nat /\ DOMAIN c = 1 .. n
    BY DEF ClosedShape, Ordered
  <1>8. x2 = c[p.x].val
    BY <1>1, <1>2, <1>4, <1>6, <1>7 DEF SecondX, Vals
  <1>9. g = PassTwo(c, p, Fresh, c[p.x].val, c[p.x].val)
    BY <1>1, <1>2, <1>4, <1>7, <1>8 DEF Vals
  <1>10. c[p.x].val \in Val
    BY <1>4 DEF ClosedShape
  <1> HIDE DEF x2, m, g
  <1>11. /\ DOMAIN g = Given(c, p)
         /\ g[p.x] = c[p.x].val /\ g[p.norm] = Norm(c[p.x].val, c[p.x].val)
         /\ \A i \in Inputs(c) : i # p.x => g[i] = Fresh[c[i].buf]
    BY <1>9, PassTwoGiven
  <1>12. c[p.norm].val = Norm(c[p.x].val, c[p.x].val)
    BY NormVal
  <1>13. /\ \A i \in Inputs(c) : Fresh[c[i].buf] = c[i].val
         /\ \A i \in 1 .. n : i \in Inputs(c) <=> c[i].op = "input"
    BY LoadFresh, LoadType, FreshType
  <1>14. Chain(c, g) = Vals(c)
    <2>1. \A i \in 1 .. n : c[i].op = "input" => i \in DOMAIN g
      BY <1>11, <1>13 DEF Given
    <2>2. \A i \in 1 .. n : i \in DOMAIN g => g[i] = c[i].val
      BY <1>11, <1>12, <1>13 DEF Given
    <2> QED BY <2>1, <2>2, ChainVals
  <1>15. Live(c) \ p.preOutputs = Live(c)
    BY <1>5
  <1> QED BY <1>2, <1>3, <1>14, <1>15

(* Pass two reads back x, the last node of the pre chain.                   *)
LEMMA ReloadedX ==
  ASSUME NEW c, NEW n, ClosedShape(c, n), ClosedLive(c, n), Norms(c) # {},
         NEW p, p = RowNormPlan(c), p.reload,
         NEW m, m = Store(Fresh, c, p.preOutputs, Vals(c))
  PROVE  SecondX(c, p, m) = c[p.x].val
  <1> DEFINE b == c[p.x].buf
             To == {o \in p.preOutputs : c[o].buf = b}
  <1>1. /\ p.x \in 1 .. n /\ p.x \in InPre(c, p.x) /\ \A i \in InPre(c, p.x) : i <= p.x
        /\ p.preOutputs = InPre(c, p.x) \cap Live(c)
        /\ p.reload = (/\ InPre(c, p.x) \ Inputs(c) # {} /\ p.x \in Live(c)
                       /\ PostOnlyNeedsX(c, InPre(c, p.x) \ Inputs(c), p.postIds, p.x))
    BY PlanFacts
  <1>2. n \in Nat /\ DOMAIN c = 1 .. n
    BY DEF ClosedShape, Ordered
  <1>3. p.x \in Live(c)
    BY <1>1
  <1>4. b \in Storage
    BY <1>1, <1>2, <1>3 DEF Live, ClosedLive, ClosedShape
  <1>5. p.x \in To /\ To \in SUBSET (1 .. n) /\ \A i \in To : i <= p.x
    BY <1>1, <1>2, <1>3 DEF Live
  <1>6. Max(To) = p.x
    <2> HIDE DEF To
    <2>1. Max(To) \in To /\ \A y \in To : y <= Max(To)
      BY <1>2, <1>5, MaxIn
    <2> DEFINE q == Max(To)
               x == p.x
    <2>2. q <= x /\ x <= q /\ q \in 1 .. n /\ x \in 1 .. n
      <3> HIDE DEF q
      <3> QED BY <1>1, <1>5, <2>1 DEF q
    <2> HIDE DEF q, x
    <2>3. q = x
      BY <1>2, <2>2
    <2> QED BY <2>3 DEF q, x
  <1>7. m[b] = IF To = {} THEN Fresh[b] ELSE Vals(c)[Max(To)]
    <2>1. DOMAIN Fresh = Storage
      BY FreshType
    <2> QED BY <1>4, <2>1 DEF Store
  <1> HIDE DEF To
  <1>8. m[b] = c[p.x].val
    BY <1>1, <1>2, <1>5, <1>6, <1>7 DEF Vals
  <1> QED BY <1>8 DEF SecondX

(* The post chain then has the values of its nodes.                         *)
LEMMA PostVals ==
  ASSUME NEW c, NEW n, ClosedShape(c, n), ClosedLive(c, n), Norms(c) # {},
         NEW p, p = RowNormPlan(c), p.reload, RowNormPlanned(c), ~PostReadsOverwritten(c),
         NEW m, m = Store(Fresh, c, p.preOutputs, Vals(c)),
         NEW g, g = PassTwo(c, p, m, c[p.x].val, c[p.x].val),
         NEW o \in p.postIds \cup {p.norm}
  PROVE  Chain(c, g)[o] = c[o].val
  <1> DEFINE v == Chain(c, g)
             pre == InPre(c, p.x)
  <1>1. /\ p.norm \in 1 .. n /\ p.x \in 1 .. n /\ p.x \in pre
        /\ p.preOutputs = pre \cap Live(c)
        /\ p.postIds = (1 .. n) \ (pre \cup Inputs(c) \cup {p.norm})
        /\ p.reload = (/\ pre \ Inputs(c) # {} /\ p.x \in Live(c)
                       /\ PostOnlyNeedsX(c, pre \ Inputs(c), p.postIds, p.x))
    BY PlanFacts
  <1>2. n \in Nat /\ DOMAIN c = 1 .. n
    BY DEF ClosedShape, Ordered
  <1>3. PostOnlyNeedsX(c, pre \ Inputs(c), p.postIds, p.x)
    BY <1>1
  <1>4. c[p.x].val \in Val
    BY <1>1 DEF ClosedShape
  <1>5. m \in [Storage -> Val]
    <2>1. Chain(c, Load(c, Fresh)) = Vals(c)
      BY LoadFresh
    <2> QED BY <2>1, PassOneType
  <1>6. /\ DOMAIN g = Given(c, p)
        /\ g[p.x] = c[p.x].val /\ g[p.norm] = Norm(c[p.x].val, c[p.x].val)
        /\ \A i \in Inputs(c) : i # p.x => g[i] = m[c[i].buf]
    BY PassTwoGiven
  <1>7. \A i \in 1 .. n : v[i] = ChainStep(c, g, v, i)
    BY <1>4, <1>5, PassTwoFacts
  <1>8. c[p.norm].val = Norm(c[p.x].val, c[p.x].val)
    BY NormVal
  <1> HIDE DEF v, pre
  <1>9. v[p.x] = c[p.x].val /\ v[p.norm] = c[p.norm].val
    BY <1>1, <1>6, <1>7, <1>8 DEF ChainStep, Given
  <1>10. ASSUME NEW q \in p.postIds, NEW i \in Inputs(c), i \in Sources(c[q])
         PROVE  v[i] = c[i].val
    <2>1. i \in 1 .. n
      BY <1>2 DEF Inputs
    <2>2. CASE i = p.x
      BY <1>9, <2>2
    <2>3. CASE i # p.x
      <3>1. v[i] = m[c[i].buf]
        BY <1>6, <1>7, <2>1, <2>3 DEF ChainStep, Given
      <3> DEFINE stored == {c[k].buf : k \in p.preOutputs}
      <3>2. c[i].buf \notin stored
        <4>1. Cardinality(Norms(c)) = 1
          BY DEF RowNormPlanned
        <4>2. ASSUME c[i].buf \in stored PROVE PostReadsOverwritten(c)
          BY <1>10, <4>1, <4>2 DEF PostReadsOverwritten
        <4> QED BY <4>2
      <3>3. {k \in p.preOutputs : c[k].buf = c[i].buf} = {}
        BY <3>2
      <3>4. c[i].buf \in Storage /\ DOMAIN Fresh = Storage
        BY <1>2, FreshType DEF Inputs, ClosedShape, Storage
      <3>5. m[c[i].buf] = Fresh[c[i].buf]
        BY <3>3, <3>4 DEF Store
      <3>6. Fresh[c[i].buf] = c[i].val
        BY LoadFresh, LoadType, FreshType
      <3> QED BY <3>1, <3>5, <3>6
    <2> QED BY <2>2, <2>3
  <1> DEFINE S == {q \in p.postIds : v[q] # c[q].val}
  <1>11. ASSUME NEW q \in S, \A y \in S : q <= y PROVE FALSE
    <2>1. q \in p.postIds /\ q \in 1 .. n /\ v[q] # c[q].val
      BY <1>1
    <2>2. q \notin Inputs(c) /\ q # p.norm /\ q # p.x
      BY <1>1, <2>1
    <2>3. c[q].op # "input" /\ q \notin DOMAIN g
      BY <1>2, <1>6, <2>1, <2>2 DEF Inputs, Given
    <2>4. ASSUME NEW k \in DOMAIN c[q].in PROVE v[c[q].in[k]] = c[c[q].in[k]].val
      <3> DEFINE s == c[q].in[k]
      <3>1. s \in 1 .. q - 1 /\ s \in Sources(c[q])
        BY <2>1 DEF ClosedShape, Ordered, Sources
      <3>2. s \in 1 .. n /\ s < q
        BY <1>2, <2>1, <3>1
      <3> HIDE DEF s
      <3>3. s \notin (pre \ Inputs(c)) \ {p.x}
        BY <1>3, <2>1, <3>1 DEF PostOnlyNeedsX
      <3>4. CASE s = p.x \/ s = p.norm
        BY <1>9, <3>4 DEF s
      <3>5. CASE s \in Inputs(c)
        BY <1>10, <2>1, <3>1, <3>5 DEF s
      <3>6. CASE s \in p.postIds
        <4>1. s \notin S
          BY <1>2, <1>11, <2>1, <3>2
        <4> QED BY <3>6, <4>1 DEF s
      <3> QED BY <1>1, <3>2, <3>3, <3>4, <3>5, <3>6
    <2> DEFINE a == [k \in DOMAIN c[q].in |-> v[c[q].in[k]]]
               b == [k \in DOMAIN c[q].in |-> c[c[q].in[k]].val]
    <2>5. a = b
      BY <2>4
    <2>6. v[q] = Ap(c[q].op, a)
      BY <1>7, <2>1, <2>3 DEF ChainStep
    <2>7. c[q].val = Ap(c[q].op, b)
      BY <2>1, <2>3 DEF ClosedShape, Valued
    <2> HIDE DEF a, b
    <2> QED BY <2>1, <2>5, <2>6, <2>7
  <1>12. S = {}
    <2>1. S \in SUBSET Nat
      <3>1. S \subseteq p.postIds /\ p.postIds \subseteq 1 .. n
        BY <1>1
      <3> HIDE DEF S
      <3> QED BY <1>2, <3>1
    <2> HIDE DEF S
    <2> QED BY <1>11, <2>1, LeastNat
  <1>13. v[o] = c[o].val
    <2>1. o \notin S
      BY <1>12
    <2> QED BY <1>9, <2>1
  <1> QED BY <1>13 DEF v

(* What pass two stores anywhere comes after what pass one stored there.    *)
LEMMA PassOrder ==
  ASSUME NEW c, NEW n, ClosedShape(c, n), ClosedLive(c, n), ClosedUpdates(c, n),
         ClosedHomes(c, n), ~StaleRead(c), ~StoreNotLive(c), Norms(c) # {},
         NEW p, p = RowNormPlan(c)
  PROVE  \A q \in p.preOutputs : \A o \in Live(c) \ p.preOutputs :
           c[q].buf = c[o].buf => q < o
  <1> DEFINE pre == InPre(c, p.x)
  <1>1. Feeding(c, n, pre) /\ p.preOutputs = pre \cap Live(c)
    BY PlanFacts
  <1> HIDE DEF pre
  <1>2. n \in Nat /\ DOMAIN c = 1 .. n
    BY DEF ClosedShape, Ordered
  <1> SUFFICES ASSUME NEW q \in p.preOutputs, NEW o \in Live(c) \ p.preOutputs,
                      c[q].buf = c[o].buf
               PROVE  q < o
    OBVIOUS
  <1>3. q \in pre /\ o \notin pre /\ q \in 1 .. n /\ o \in 1 .. n /\ c[q].live /\ c[o].live
    BY <1>1, <1>2 DEF Live
  <1>4. c[q].op # "input" /\ c[o].op # "input" /\ c[q].buf # None
    BY <1>3 DEF ClosedLive
  <1>5. CASE c[q].buf \in Buffers
    <2>1. IsWriter(c[q], c[q].buf) /\ IsWriter(c[o], c[q].buf)
      BY <1>4 DEF IsWriter
    <2> QED BY <1>1, <1>3, <1>5, <2>1, FeedingFirst
  <1>6. CASE c[q].buf \notin Buffers
    <2>1. jitSlot[c[q].buf[1]] = q /\ jitSlot[c[o].buf[1]] = o
      BY <1>3, <1>4, <1>6, HomeOwner
    <2> QED BY <1>3, <2>1
  <1> QED BY <1>5, <1>6

(* So it is the elementwise kernel's store.                                 *)
LEMMA RowNormEager ==
  ASSUME NEW c, NEW n, ClosedOk(c, n), ~StaleRead(c), ~StoreNotLive(c),
         Norms(c) # {}, RowNormPlanned(c), ~PostReadsOverwritten(c)
  PROVE  RowNormKernel(c, Fresh) = Store(Fresh, c, Live(c), Vals(c))
  <1> DEFINE p == RowNormPlan(c)
             m == Store(Fresh, c, p.preOutputs, Vals(c))
             x2 == SecondX(c, p, m)
             y == c[p.x].val
             g == PassTwo(c, p, m, y, x2)
             rest == Live(c) \ p.preOutputs
  <1>1. ClosedShape(c, n) /\ ClosedLive(c, n) /\ ClosedUpdates(c, n) /\ ClosedHomes(c, n)
    BY DEF ClosedOk
  <1>2. p.reload \/ p.preOutputs = {}
    BY DEF RowNormPlanned
  <1>3. CASE p.preOutputs = {}
    BY <1>1, <1>3, RowNormReplays
  <1>4. CASE p.reload
    <2>1. n \in Nat /\ DOMAIN c = 1 .. n
      BY <1>1 DEF ClosedShape, Ordered
    <2>2. x2 = y
      BY <1>1, <1>4, ReloadedX
    <2>3. Chain(c, Load(c, Fresh)) = Vals(c) /\ Vals(c)[p.x] = y
      BY <1>1, PassOneType, LoadFresh
    <2>4. RowNormKernel(c, Fresh) = Store(m, c, rest, Chain(c, g))
      BY <1>1, <2>3, RowNormPasses
    <2>5. g = PassTwo(c, p, m, y, y)
      BY <2>2
    <2>6. ASSUME NEW o \in rest PROVE Chain(c, g)[o] = Vals(c)[o]
      <3>1. /\ p.preOutputs = InPre(c, p.x) \cap Live(c)
            /\ p.postIds = (1 .. n) \ (InPre(c, p.x) \cup Inputs(c) \cup {p.norm})
        BY <1>1, PlanFacts
      <3>2. o \in 1 .. n /\ c[o].op # "input"
        BY <1>1, <2>1 DEF Live, ClosedLive
      <3>3. o \notin Inputs(c)
        BY <3>2 DEF Inputs
      <3>4. o \in p.postIds \cup {p.norm}
        BY <3>1, <3>2, <3>3
      <3> HIDE DEF g, x2
      <3>5. Chain(c, g)[o] = c[o].val
        BY <1>1, <1>4, <2>5, <3>4, PostVals
      <3> QED BY <2>1, <3>2, <3>5 DEF Vals
    <2>7. \A q \in p.preOutputs : \A o \in rest : c[q].buf = c[o].buf => q < o
      BY <1>1, PassOrder
    <2>8. Live(c) \in SUBSET (1 .. n) /\ p.preOutputs \in SUBSET Live(c)
      <3>1. p.preOutputs = InPre(c, p.x) \cap Live(c)
        BY <1>1, PlanFacts
      <3> QED BY <2>1, <3>1 DEF Live
    <2> DEFINE first == p.preOutputs
               v2 == Chain(c, g)
    <2>9. TwoPasses(c, n, Live(c), first, rest, Vals(c), v2)
      BY <2>1, <2>6, <2>7, <2>8 DEF TwoPasses
    <2> HIDE DEF v2, first, rest, g, m, p
    <2>10. Store(Store(Fresh, c, first, Vals(c)), c, rest, v2)
            = Store(Fresh, c, Live(c), Vals(c))
      BY <2>9, StoreTwice
    <2> QED BY <2>4, <2>10, Zenon DEF v2, first, m
  <1> QED BY <1>2, <1>3, <1>4

(* A memory that holds the eager results.                                   *)
AsEager(c, m) ==
  /\ \A b \in Buffers : m[b] = ref[b]
  /\ \A t \in Temps : (\E i \in Live(c) : c[i].buf = Home(t)) => m[Home(t)] = tref[t]

(* Whichever kernel runs a fused trace, it leaves the eager results, and so *)
(* does the eager program.                                                  *)
LEMMA ExecuteEager ==
  ASSUME NEW c, NEW n, ClosedOk(c, n), NEW f \in BOOLEAN,
         f => /\ Fusable(c) /\ ~StoreNotLive(c) /\ ~StaleRead(c) /\ ~PostReadsOverwritten(c),
         NEW m, m = Execute(c, Fresh, f)
  PROVE  AsEager(c, m)
  <1>1. ClosedShape(c, n) /\ ClosedHomes(c, n)
    BY DEF ClosedOk
  <1>2. n \in Nat /\ DOMAIN c = 1 .. n
    BY <1>1 DEF ClosedShape, Ordered
  <1>3. CASE f
    <2>1. m = Store(Fresh, c, Live(c), Vals(c))
      <3>1. CASE Norms(c) = {}
        BY <1>1, <1>3, <3>1, LoadFresh DEF Execute, ElementwiseKernel
      <3>2. CASE Norms(c) # {}
        BY <1>3, <3>2, RowNormEager DEF Execute, Fusable
      <3> QED BY <3>1, <3>2
    <2>2. ASSUME NEW k, k = Store(Fresh, c, Live(c), Vals(c)) PROVE AsEager(c, k)
      BY <1>3, <2>2, StoreEager DEF AsEager
    <2> QED BY <2>1, <2>2
  <1>4. CASE ~f
    <2>1. PICK M, X : ClosedRun(c, n, M, X)
      BY DEF ClosedOk
    <2>2. m = MemAt(c, M, X, n)
      BY <1>1, <1>4, <2>1, ProgramEager DEF Execute
    <2>3. M[n] = ref /\ \A t \in Temps : jitSlot[t] # 0 => X[jitSlot[t]] = tref[t]
      BY <2>1 DEF ClosedRun
    <2>4. \A b \in Buffers : m[b] = ref[b]
      BY <2>2, <2>3 DEF MemAt, Storage
    <2>5. ASSUME NEW t \in Temps, NEW i \in Live(c), c[i].buf = Home(t)
          PROVE  m[Home(t)] = tref[t]
      <3>1. /\ Home(t) \in Storage /\ Home(t) \notin Buffers \cup {None} /\ Home(t)[1] = t
        BY HomeFacts
      <3>2. i \in 1 .. n
        BY <1>2 DEF Live
      <3>3. jitSlot[t] = i
        BY <1>1, <2>5, <3>1, <3>2, HomeOwner
      <3> HIDE DEF Home
      <3>4. m[Home(t)] = X[i]
        BY <2>2, <2>5, <3>1, <3>2, <3>3 DEF MemAt
      <3>5. i # 0
        BY <1>2, <3>2
      <3> QED BY <2>3, <3>3, <3>4, <3>5
    <2> QED BY <2>4, <2>5 DEF AsEager
  <1> QED BY <1>3, <1>4

-----------------------------------------------------------------------------
(* A node of the closed DAG has all the fields of a node.                   *)
IsNode(r) == r = [op |-> r.op, in |-> r.in, buf |-> r.buf, shape |-> r.shape,
                  inplace |-> r.inplace, live |-> r.live, val |-> r.val]

(* Closing a DAG keeps the fields.                                          *)
LEMMA ClosedRecords ==
  ASSUME NEW nodes \in Seq(NodeT)
  PROVE  \A i \in 1 .. Len(nodes) : IsNode(Closed(nodes)[i])
  <1> DEFINE a == AnalyzeLiveness(nodes)
  <1>1. DOMAIN nodes = 1 .. Len(nodes) /\ \A i \in 1 .. Len(nodes) : nodes[i] \in NodeT
    OBVIOUS
  <1>2. /\ DOMAIN a = 1 .. Len(nodes)
        /\ \A i \in 1 .. Len(nodes) : \E y : a[i] = [nodes[i] EXCEPT !.live = y]
    BY <1>1 DEF AnalyzeLiveness
  <1> SUFFICES ASSUME NEW i \in 1 .. Len(nodes) PROVE IsNode(Closed(nodes)[i])
    OBVIOUS
  <1>3. IsNode(a[i])
    <2>1. PICK y : a[i] = [nodes[i] EXCEPT !.live = y]
      BY <1>2
    <2>2. nodes[i] \in NodeT
      BY <1>1
    <2> HIDE DEF a
    <2> QED BY <2>1, <2>2 DEF NodeT, IsNode
  <1>4. Closed(nodes)[i] = IF ~a[i].live \/ a[i].buf # None THEN a[i]
                           ELSE IF tracked[i] = None THEN [a[i] EXCEPT !.live = FALSE]
                           ELSE [a[i] EXCEPT !.buf = Home(tracked[i])]
    BY <1>2 DEF Closed, Materialize
  <1> HIDE DEF a
  <1>5. \A y : IsNode([a[i] EXCEPT !.live = y]) /\ IsNode([a[i] EXCEPT !.buf = y])
    BY <1>3 DEF IsNode
  <1> HIDE DEF Home
  <1> QED BY <1>3, <1>4, <1>5

(* What RebindExact says of a DAG and the memory it left.                   *)
RebindOf(c, m) ==
  LET there == {Other(s) : s \in Storage}
      nodes == Rebound(c, [i \in DOMAIN c |-> Other(c[i].buf)])
      after == Program(nodes, [s \in Storage \cup there |->
                                 IF s \in Storage THEN m[s] ELSE Fresh[s[1]]])
  IN  \A s \in Storage : after[Other(s)] = m[s] /\ after[s] = m[s]

(* The rebound nodes are those of the DAG on other storage.                 *)
LEMMA ReboundMoves ==
  ASSUME NEW c, NEW n, ClosedShape(c, n), ClosedLive(c, n), ~StoreNotLive(c),
         \A i \in 1 .. n : IsNode(c[i])
  PROVE  MovedNodes(c, Rebound(c, [i \in DOMAIN c |-> Other(c[i].buf)]), n)
  <1> DEFINE buf == [i \in DOMAIN c |-> Other(c[i].buf)]
             c2 == Rebound(c, buf)
  <1>1. n \in Nat /\ DOMAIN c = 1 .. n
    BY DEF ClosedShape, Ordered
  <1>2. \A i \in 1 .. n : buf[i] = Other(c[i].buf)
    BY <1>1
  <1> HIDE DEF buf
  <1>3. c2 = [i \in 1 .. n |-> IF i \in Inputs(c) \cup Live(c)
                               THEN [c[i] EXCEPT !.buf = buf[i]] ELSE c[i]]
    BY <1>1 DEF Rebound
  <1> HIDE DEF c2
  <1>4. DOMAIN c2 = 1 .. n /\ Len(c2) = n
    BY <1>1, <1>3
  <1>5. ASSUME NEW i \in 1 .. n
        PROVE  /\ c2[i].op = c[i].op /\ c2[i].in = c[i].in
               /\ c2[i].buf = IF c[i].buf = None THEN None ELSE Other(c[i].buf)
    <2>1. CASE i \in Inputs(c) \cup Live(c)
      <3>1. c2[i] = [c[i] EXCEPT !.buf = buf[i]]
        BY <1>3, <2>1
      <3>2. IsNode(c[i])
        OBVIOUS
      <3>3. c2[i].op = c[i].op /\ c2[i].in = c[i].in /\ c2[i].buf = buf[i]
        BY <3>1, <3>2 DEF IsNode
      <3>4. c[i].buf # None
        BY <1>1, <2>1, NoneAssumption DEF Inputs, Live, ClosedShape, ClosedLive
      <3> QED BY <1>2, <3>3, <3>4
    <2>2. CASE i \notin Inputs(c) \cup Live(c)
      <3>1. c2[i] = c[i]
        BY <1>3, <2>2
      <3>2. c[i].op # "input" /\ ~c[i].live
        BY <1>1, <2>2 DEF Inputs, Live
      <3>3. c[i].op # "copy"
        BY <1>1, <3>2 DEF StoreNotLive
      <3>4. c[i].buf = None
        BY <3>2, <3>3 DEF ClosedLive
      <3> QED BY <3>1, <3>4
    <2> QED BY <2>1, <2>2
  <1> QED BY <1>4, <1>5 DEF MovedNodes, c2, buf

(* The rebound program leaves on the other storage what the program left.   *)
LEMMA RebindEager ==
  ASSUME NEW c, NEW n, ClosedOk(c, n), ~StoreNotLive(c), \A i \in 1 .. n : IsNode(c[i]),
         NEW m, m = Program(c, Fresh)
  PROVE  RebindOf(c, m)
  <1> DEFINE c2 == Rebound(c, [i \in DOMAIN c |-> Other(c[i].buf)])
  <1>1. ClosedShape(c, n) /\ ClosedLive(c, n) /\ ClosedHomes(c, n)
    BY DEF ClosedOk
  <1>2. PICK M, X : ClosedRun(c, n, M, X)
    BY DEF ClosedOk
  <1>3. MovedNodes(c, c2, n)
    BY <1>1, ReboundMoves
  <1> DEFINE a == MemAt(c, M, X, n)
  <1>4. m = a
    BY <1>1, <1>2, ProgramEager
  <1>5. Moved(m, Fresh) = [s \in Storage \cup {Other(s) : s \in Storage} |->
                            IF s \in Storage THEN m[s] ELSE Fresh[s[1]]]
    BY DEF Moved, There
  <1> DEFINE after == Program(c2, Moved(m, Fresh))
  <1>6. RebindOf(c, m) <=> \A s \in Storage : after[Other(s)] = m[s] /\ after[s] = m[s]
    BY <1>5, Zenon DEF RebindOf
  <1>7. DOMAIN a = Storage
    BY DEF MemAt
  <1> HIDE DEF c2
  <1>8. after = Moved(m, a)
    BY <1>1, <1>2, <1>3, ProgramMoved
  <1> HIDE DEF after, a
  <1>9. ASSUME NEW s \in Storage PROVE after[Other(s)] = m[s] /\ after[s] = m[s]
    <2>1. Moved(m, a)[Other(s)] = a[s] /\ Moved(m, a)[s] = m[s]
      BY <1>7, MovedFacts
    <2> QED BY <1>4, <1>8, <2>1
  <1> QED BY <1>6, <1>9

-----------------------------------------------------------------------------
(* The eager results are values.                                            *)
LEMMA TracingRef ==
  ASSUME RecInv, ExecInv, phase = "tracing"
  PROVE  ref \in [Buffers -> Val]
  <1>1. PICK M, X : RunOf(dag.nodes, M, X) /\ Outcome(dag.nodes, M, X)
    BY DEF ExecInv
  <1>2. M \in [0 .. Len(dag.nodes) -> [Buffers -> Val]] /\ M[Len(dag.nodes)] = ref
    BY <1>1 DEF RunOf, Outcome
  <1>3. Len(dag.nodes) \in 0 .. Len(dag.nodes)
    BY DEF RecInv, Wf, DagT
  <1> HIDE DEF Val
  <1> QED BY <1>2, <1>3

(* The types while a trace is recorded follow from the invariants of        *)
(* recording.                                                               *)
LEMMA TracingTypes ==
  ASSUME RecInv, ExecInv, phase = "tracing", mem = Fresh, home = {}, fused = FALSE
  PROVE  TypeOK
  <1>1. /\ Wf(dag) /\ SlotsT /\ Counted /\ Tracked(tracked, jitSlot)
    BY DEF RecInv
  <1>2. /\ Shaped(dag.nodes) /\ tref \in [Temps -> Val]
    BY DEF ExecInv
  <1>3. dag \in DagT /\ Len(dag.nodes) \in Nat /\ DOMAIN dag.nodes = 1 .. Len(dag.nodes)
        /\ \A i \in 1 .. Len(dag.nodes) : dag.nodes[i] \in NodeT
    BY <1>1 DEF Wf, DagT
  <1>4. \A i \in DOMAIN dag.nodes :
          /\ dag.nodes[i].buf \in Storage \cup {None}
          /\ Sources(dag.nodes[i]) \subseteq 1 .. i - 1
    BY <1>1, <1>3 DEF Wf, NodeT, Storage, Sources
  <1>5. \A b \in Buffers : {dag.act[b], dag.inp[b]} \subseteq 0 .. Len(dag.nodes)
    <2> SUFFICES ASSUME NEW b \in Buffers
                 PROVE  dag.act[b] \in 0 .. Len(dag.nodes) /\ dag.inp[b] \in 0 .. Len(dag.nodes)
      OBVIOUS
    <2>1. dag.act[b] \in Nat /\ dag.inp[b] \in Nat
      BY <1>3 DEF DagT
    <2>2. dag.act[b] <= Len(dag.nodes) /\ dag.inp[b] <= Len(dag.nodes)
      BY <1>1 DEF Wf
    <2> QED BY <1>3, <2>1, <2>2
  <1>6. ref \in [Buffers -> Val]
    BY TracingRef
  <1>7. /\ jitSlot \in [Temps -> 0 .. Len(dag.nodes)]
        /\ tracked \in [Slots -> Temps \cup {None}] /\ reads \in 0 .. MaxReads
    BY <1>1 DEF SlotsT, Tracked, Counted
  <1>8. mem \in [Storage -> Val]
    BY FreshType
  <1> HIDE DEF Storage, Val
  <1> QED BY <1>2, <1>4, <1>5, <1>6, <1>7, <1>8 DEF TypeOK

(* Between traces nothing of one is left.                                   *)
LEMMA IdleTypes ==
  ASSUME phase = "idle", dag = EmptyDag, jitSlot = [t \in Temps |-> 0],
         tracked = [s \in Slots |-> None], reads = 0, tref = [t \in Temps |-> <<>>],
         ref \in [Buffers -> Val], mem \in [Storage -> Val], home \subseteq Temps,
         fused \in BOOLEAN
  PROVE  TypeOK
  <1>1. /\ dag.nodes = <<>> /\ Len(dag.nodes) = 0 /\ DOMAIN dag.nodes = {}
        /\ \A b \in Buffers : dag.act[b] = 0 /\ dag.inp[b] = 0
    BY DEF EmptyDag
  <1>2. jitSlot \in [Temps -> 0 .. Len(dag.nodes)] /\ reads \in 0 .. MaxReads
    BY <1>1, MaxReadsAssumption
  <1>3. <<>> \in Val
    BY DEF Val
  <1> HIDE DEF Val
  <1>4. tref \in [Temps -> Val] /\ tracked \in [Slots -> Temps \cup {None}]
    BY <1>3
  <1>5. \A b \in Buffers : {dag.act[b], dag.inp[b]} \subseteq 0 .. Len(dag.nodes)
    BY <1>1
  <1>6. \A i \in DOMAIN dag.nodes :
          /\ dag.nodes[i].buf \in Storage \cup {None}
          /\ Sources(dag.nodes[i]) \subseteq 1 .. i - 1
    BY <1>1
  <1> HIDE DEF Storage
  <1> QED BY <1>2, <1>4, <1>5, <1>6 DEF TypeOK

(* An abort leaves no variable symbolic.                                    *)
LEMMA AbortIdle ==
  ASSUME RecInv, AbortTrace
  PROVE  jitSlot' = [t \in Temps |-> 0]
  <1>1. Tracked(tracked, jitSlot)
    BY DEF RecInv, AbortTrace
  <1>2. \A t \in Temps : (IF \E s \in Slots : tracked[s] = t THEN 0 ELSE jitSlot[t]) = 0
    BY <1>1 DEF Tracked
  <1> QED BY <1>2 DEF AbortTrace

(* Recording goes on, or is aborted.                                        *)
LEMMA RecordPhase ==
  ASSUME Record
  PROVE  (phase' = "tracing" \/ AbortTrace) /\ mem' = Fresh /\ home' = {} /\ fused' = FALSE
  <1>1. BeginTrace => phase' = "tracing"
    BY DEF BeginTrace
  <1>2. Statement => phase' = "tracing"
    BY DEF Statement, RecordOp, RecordStore, RecordInplaceTensor, RecordInplaceTemp, Recording
  <1>3. ASSUME NEW t \in Temps, DropTemp(t) PROVE phase' = "tracing"
    BY <1>3 DEF DropTemp
  <1>4. ASSUME NEW t \in Temps, NEW u \in Temps, MoveTemp(t, u) PROVE phase' = "tracing"
    BY <1>4 DEF MoveTemp
  <1> QED BY <1>1, <1>2, <1>3, <1>4 DEF Record, RecordNext

(* end_trace() leaves the eager results in the storage of the client, on    *)
(* any executor, and the same results on other storage.                     *)
LEMMA EndTraceRan ==
  ASSUME RecInv, ExecInv, EndTrace
  PROVE  ReplayExact' /\ RebindExact'
  <1> DEFINE c == Closed(dag.nodes)
             n == Len(dag.nodes)
  <1>1. phase = "tracing"
    BY DEF EndTrace
  <1>2. ClosedOk(c, n)
    BY <1>1, ClosedDag
  <1>3. \A i \in 1 .. n : IsNode(c[i])
    <2>1. dag.nodes \in Seq(NodeT)
      BY <1>1 DEF RecInv, Wf, DagT
    <2> QED BY <2>1, ClosedRecords
  <1>4. dag'.nodes = c
    <2>1. dag \in DagT
      BY <1>1 DEF RecInv, Wf
    <2>2. dag' = [dag EXCEPT !.nodes = c, !.act = [b \in Buffers |-> 0]]
      BY DEF EndTrace
    <2> HIDE DEF c
    <2> QED BY <2>1, <2>2 DEF DagT
  <1>5. /\ home' = {t \in Temps : \E i \in Live(c) : c[i].buf = Home(t)}
        /\ fused' \in BOOLEAN /\ (fused' => Fusable(c))
        /\ mem' = Execute(c, Fresh, fused')
        /\ ref' = ref /\ tref' = tref
    BY DEF EndTrace
  <1> HIDE DEF c, n
  <1>6. ReplayExact'
    <2> SUFFICES ASSUME fused' => /\ ~StoreNotLive(c) /\ ~StaleRead(c)
                                  /\ ~PostReadsOverwritten(c)
                 PROVE  RanAsEager'
      BY <1>4 DEF ReplayExact
    <2>1. AsEager(c, mem')
      BY <1>2, <1>5, ExecuteEager
    <2> HIDE DEF Home
    <2> QED BY <1>5, <2>1 DEF AsEager, RanAsEager
  <1>7. RebindExact'
    <2> SUFFICES ASSUME ~fused', ~StoreNotLive(c)
                 PROVE  RebindOf(c, mem')
      BY <1>4, Zenon DEF RebindExact, RebindOf
    <2>1. mem' = Program(c, Fresh)
      BY <1>5 DEF Execute
    <2> QED BY <1>2, <1>3, <2>1, RebindEager
  <1> QED BY <1>6, <1>7

(* end_trace() leaves the types.                                            *)
LEMMA EndTraceTypes ==
  ASSUME RecInv, ExecInv, EndTrace
  PROVE  TypeOK'
  <1> DEFINE c == Closed(dag.nodes)
             n == Len(dag.nodes)
  <1>1. phase = "tracing"
    BY DEF EndTrace
  <1>2. ClosedOk(c, n)
    BY <1>1, ClosedDag
  <1>3. /\ dag \in DagT /\ Counted /\ n \in Nat
        /\ \A b \in Buffers : dag.inp[b] \in Nat /\ dag.inp[b] <= n
    BY <1>1 DEF RecInv, Wf, DagT
  <1>4. dag'.nodes = c /\ dag'.inp = dag.inp /\ \A b \in Buffers : dag'.act[b] = 0
    <2>1. dag' = [dag EXCEPT !.nodes = c, !.act = [b \in Buffers |-> 0]]
      BY DEF EndTrace
    <2> HIDE DEF c
    <2> QED BY <1>3, <2>1 DEF DagT
  <1>5. /\ fused' \in BOOLEAN /\ mem' = Execute(c, Fresh, fused')
        /\ ref' = ref /\ tref' = tref /\ reads' = reads /\ phase' = "ran"
        /\ jitSlot' = [t \in Temps |-> 0] /\ tracked' = [s \in Slots |-> None]
        /\ home' \subseteq Temps
    BY DEF EndTrace
  <1> HIDE DEF c, n
  <1>6. ClosedShape(c, n) /\ Ordered(c, n) /\ Len(c) = n /\ DOMAIN c = 1 .. n
    BY <1>2 DEF ClosedOk, ClosedShape, Ordered
  <1>7. (\A i \in DOMAIN dag.nodes : /\ dag.nodes[i].buf \in Storage \cup {None}
                                     /\ Sources(dag.nodes[i]) \subseteq 1 .. i - 1)'
    BY <1>4, <1>6 DEF ClosedShape, Ordered, Sources
  <1>8. (\A b \in Buffers : {dag.act[b], dag.inp[b]} \subseteq 0 .. Len(dag.nodes))'
    BY <1>3, <1>4, <1>6
  <1>9. (mem \in [Storage -> Val])'
    BY <1>2, <1>5, ExecuteType
  <1>10. (jitSlot \in [Temps -> 0 .. Len(dag.nodes)])'
    BY <1>3, <1>4, <1>5, <1>6
  <1>11. (tracked \in [Slots -> Temps \cup {None}] /\ reads \in 0 .. MaxReads)'
    BY <1>3, <1>5 DEF Counted
  <1>12. (ref \in [Buffers -> Val] /\ tref \in [Temps -> Val])'
    BY <1>1, <1>5, TracingRef DEF ExecInv
  <1> HIDE DEF Storage, Val
  <1> QED BY <1>5, <1>7, <1>8, <1>9, <1>10, <1>11, <1>12 DEF TypeOK

(* What holds beside the invariants of recording: storage is untouched      *)
(* while a trace is recorded, an idle context is empty, and a trace that    *)
(* ran left what its ops would have.                                        *)
IdleOk ==
  /\ dag = EmptyDag /\ jitSlot = [t \in Temps |-> 0] /\ tracked = [s \in Slots |-> None]
  /\ reads = 0 /\ tref = [t \in Temps |-> <<>>]
  /\ ref \in [Buffers -> Val] /\ mem \in [Storage -> Val] /\ home \subseteq Temps
  /\ fused \in BOOLEAN

RestInv ==
  /\ phase \in {"idle", "tracing", "ran"}
  /\ phase = "tracing" => mem = Fresh /\ home = {} /\ fused = FALSE
  /\ phase = "idle" => IdleOk
  /\ phase = "ran" => TypeOK /\ ReplayExact /\ RebindExact

(* It holds before the first trace,                                         *)
LEMMA InitRest == Init => RestInv
  <1> SUFFICES ASSUME Init PROVE RestInv
    OBVIOUS
  <1>1. ref \in [Buffers -> Val]
    <2>1. \A b \in Buffers : Content(b) \in Val
      <3> SUFFICES ASSUME NEW b \in Buffers PROVE Content(b) \in Val
        OBVIOUS
      <3>1. Content(b) \in Seq(Names)
        BY ContentAssumption
      <3> QED BY <3>1 DEF Val
    <2> HIDE DEF Val
    <2> QED BY <2>1 DEF Init, TraceInit
  <1>2. mem \in [Storage -> Val]
    BY FreshType DEF Init
  <1> HIDE DEF Storage, Val
  <1>3. phase = "idle" /\ IdleOk
    BY <1>1, <1>2 DEF Init, TraceInit, IdleOk
  <1> QED BY <1>3 DEF RestInv

(* and every step keeps it: recording touches no storage, end_trace() runs  *)
(* what was recorded, and an abort or a throw empties the context.          *)
LEMMA NextRest == RecInv /\ ExecInv /\ RestInv /\ [Next]_vars => RestInv'
  <1> SUFFICES ASSUME RecInv, ExecInv, RestInv, [Next]_vars PROVE RestInv'
    OBVIOUS
  <1>1. CASE Record
    <2>1. (phase' = "tracing" \/ AbortTrace) /\ mem' = Fresh /\ home' = {} /\ fused' = FALSE
      BY <1>1, RecordPhase
    <2>2. CASE phase' = "tracing"
      BY <2>1, <2>2 DEF RestInv
    <2>3. CASE AbortTrace
      <3>1. jitSlot' = [t \in Temps |-> 0]
        BY <2>3, AbortIdle
      <3>2. ref' \in [Buffers -> Val]
        BY <2>3, TracingRef DEF AbortTrace
      <3>3. mem' \in [Storage -> Val]
        BY <2>1, FreshType
      <3> HIDE DEF Storage, Val
      <3>4. phase' = "idle" /\ IdleOk'
        BY <2>1, <2>3, <3>1, <3>2, <3>3 DEF AbortTrace, IdleOk
      <3> QED BY <3>4 DEF RestInv
    <2> QED BY <2>1, <2>2, <2>3
  <1>2. CASE EndTrace
    <2>1. TypeOK' /\ ReplayExact' /\ RebindExact'
      BY <1>2, EndTraceTypes, EndTraceRan
    <2>2. phase' = "ran"
      BY <1>2 DEF EndTrace
    <2> QED BY <2>1, <2>2 DEF RestInv
  <1>3. CASE EndTraceThrows
    <2>1. phase = "tracing" /\ mem = Fresh /\ home = {} /\ fused = FALSE
      BY <1>3 DEF EndTraceThrows, RestInv
    <2>2. ref \in [Buffers -> Val] /\ mem \in [Storage -> Val]
      BY <2>1, TracingRef, FreshType
    <2> HIDE DEF Storage, Val
    <2>3. phase' = "idle" /\ IdleOk'
      BY <1>3, <2>1, <2>2 DEF EndTraceThrows, IdleOk
    <2> QED BY <2>3 DEF RestInv
  <1>4. CASE UNCHANGED vars
    <2>1. TypeOK => TypeOK'
      BY <1>4 DEF vars, recVars, TypeOK
    <2>2. ReplayExact => ReplayExact'
      BY <1>4 DEF vars, recVars, ReplayExact, RanAsEager
    <2>3. RebindExact => RebindExact'
      <3>1. RebindExact => (phase = "ran" /\ ~fused /\ ~StoreNotLive(dag.nodes)
                              => RebindOf(dag.nodes, mem))
        BY Zenon DEF RebindExact, RebindOf
      <3>2. (phase = "ran" /\ ~fused /\ ~StoreNotLive(dag.nodes)
                              => RebindOf(dag.nodes, mem))' => RebindExact'
        BY Zenon DEF RebindExact, RebindOf
      <3> QED BY <1>4, <3>1, <3>2 DEF vars, recVars
    <2>4. IdleOk => IdleOk'
      BY <1>4 DEF vars, recVars, IdleOk
    <2>5. phase' = phase /\ mem' = mem /\ home' = home /\ fused' = fused
      BY <1>4 DEF vars, recVars
    <2> QED BY <2>1, <2>2, <2>3, <2>4, <2>5 DEF RestInv
  <1> QED BY <1>1, <1>2, <1>3, <1>4 DEF Next

(* So it holds in every state.                                              *)
THEOREM RestHolds == Spec => []RestInv
  BY InitRest, NextRest, RecordingCorrect, EagerRunExists, PTL DEF Spec

(* TypeOK: the context, its DAG and the memory have their types, for any    *)
(* client program; outside of a trace nothing remains of one but its result.*)
THEOREM ReplayTypes == Spec => []TypeOK
  <1>1. RecInv /\ ExecInv /\ RestInv => TypeOK
    <2> SUFFICES ASSUME RecInv, ExecInv, RestInv PROVE TypeOK
      OBVIOUS
    <2>1. CASE phase = "tracing"
      BY <2>1, TracingTypes DEF RestInv
    <2>2. CASE phase = "idle"
      BY <2>2, IdleTypes DEF RestInv, IdleOk
    <2>3. CASE phase = "ran"
      BY <2>3 DEF RestInv
    <2> QED BY <2>1, <2>2, <2>3 DEF RestInv
  <1> QED BY <1>1, RecordingCorrect, EagerRunExists, RestHolds, PTL

(* ReplayExact: whatever the ops of a trace and whichever executor runs it, *)
(* every buffer of the client and every tensor end_trace() gave storage     *)
(* hold what the ops would have left one by one.                            *)
THEOREM ReplayExactHolds == Spec => []ReplayExact
  <1>1. RestInv => ReplayExact
    BY DEF RestInv, ReplayExact
  <1> QED BY <1>1, RestHolds, PTL

(* RebindExact: a cached eager program, rebound to the storage of a later   *)
(* trace, leaves there what the first left in its own, and writes nothing   *)
(* of the first.                                                            *)
THEOREM RebindExactHolds == Spec => []RebindExact
  <1>1. RestInv => RebindExact
    <2>1. phase # "ran" => RebindExact
      BY DEF RebindExact
    <2> QED BY <2>1 DEF RestInv
  <1> QED BY <1>1, RestHolds, PTL
=============================================================================
