---------------------------- MODULE TensorProofs ----------------------------
(***************************************************************************)
(* The device registry and the ownership of Tensor storage, for any number  *)
(* of threads, devices, objects, shapes and blocks.                         *)
(*                                                                         *)
(* The registry's argument is mutual exclusion: at most one thread is past  *)
(* the mutex of init(), none once done is stored.  Choice then says that a  *)
(* client's default can be undone only by a thread that has already tested  *)
(* the flag, and that such a meeting is marked.  OwnedOnce and ShapeBacked  *)
(* are inductive together with their types.                                 *)
(***************************************************************************)
EXTENDS Tensor, FiniteSetTheorems, SequenceTheorems, TLAPS

Inside == {"probe", "store", "flag", "publish"}
Labels == Inside \cup {"idle", "lock", "setStore", "setFlag"}

(* One thread at a time is inside init().                                   *)
Exclusion ==
  /\ pc \in [Threads -> Labels]
  /\ \A th \in Threads : pc[th] \in Inside => lock = th

(* How far init() has come.                                                 *)
Progress ==
  /\ inited => done
  /\ done => setFlag /\ probed = Built /\ \A th \in Threads : pc[th] \notin Inside
  /\ \A th \in Threads : pc[th] \in {"store", "flag", "publish"} => probed = Built
  /\ \A th \in Threads : pc[th] = "publish" => setFlag

(* A choice nobody is about to undo is the default.                         *)
Choice ==
  (chosen # None /\ ~raced) => default = chosen /\ \A th \in Threads : pc[th] # "store"

RegistryInv == Exclusion /\ Progress /\ Choice

StorageType ==
  /\ registered \subseteq Devices
  /\ t \in [Objs -> [data : Blocks \cup {None}, shape : Shapes, dev : Devices,
                     owns : BOOLEAN, cap : Nat]]
  /\ heap \in [Blocks -> [dev : Devices, size : Nat] \cup {None}]

StorageInv == StorageType /\ OwnedOnce /\ ShapeBacked

-----------------------------------------------------------------------------
(* The registry starts idle.                                                *)
LEMMA RegistryInitInv == RegistryInit => RegistryInv
  BY DEF RegistryInit, RegistryInv, Exclusion, Progress, Choice, Inside, Labels

(* Every call of the registry keeps its invariant.                          *)
LEMMA RegistryStep == RegistryInv /\ RegistryNext => RegistryInv'
  <1> SUFFICES ASSUME RegistryInv, NEW th \in Threads,
                 \/ InitFast(th) \/ InitEnter(th) \/ InitLock(th) \/ InitTest(th)
                 \/ InitStore(th) \/ InitFlag(th) \/ InitPublish(th)
                 \/ \E d \in Built : InitProbe(th, d)
                 \/ \E d \in Devices : SetCheck(th, d) \/ ScopeOpen(th, d)
                 \/ SetStore(th) \/ SetFlag(th) \/ ScopeClose(th)
               PROVE  RegistryInv'
    BY DEF RegistryNext
  <1> USE ThreadsAssumption DEF RegistryInv, Exclusion, Progress, Choice, Inside, Labels, Goto
  <1>1. CASE InitFast(th)
    BY <1>1 DEF InitFast
  <1>2. CASE InitEnter(th)
    BY <1>2 DEF InitEnter
  <1>3. CASE InitLock(th)
    BY <1>3 DEF InitLock
  <1>4. CASE InitTest(th)
    BY <1>4 DEF InitTest
  <1>5. CASE InitStore(th)
    BY <1>5 DEF InitStore
  <1>6. CASE InitFlag(th)
    BY <1>6 DEF InitFlag
  <1>7. CASE InitPublish(th)
    BY <1>7 DEF InitPublish
  <1>8. ASSUME NEW d \in Built, InitProbe(th, d) PROVE RegistryInv'
    BY <1>8 DEF InitProbe
  <1>9. ASSUME NEW d \in Devices, SetCheck(th, d) \/ ScopeOpen(th, d) PROVE RegistryInv'
    BY <1>9 DEF SetCheck, ScopeOpen
  <1>10. CASE SetStore(th)
    BY <1>10 DEF SetStore
  <1>11. CASE SetFlag(th)
    BY <1>11 DEF SetFlag
  <1>12. CASE ScopeClose(th)
    BY <1>12 DEF ScopeClose
  <1> QED BY <1>1, <1>2, <1>3, <1>4, <1>5, <1>6, <1>7, <1>8, <1>9, <1>10, <1>11, <1>12

(* The tensors leave the registry alone.                                    *)
LEMMA TensorKeepsRegistry == TensorNext => UNCHANGED regVars
  BY DEF TensorNext, Destroy, ResizeFits, ResizeAllocates, ResizeThrows, Create, Copy,
     Move, To, View, AssignNew

(* init(), set_default_device() and DeviceScope keep their invariant.       *)
THEOREM RegistryCorrect == Spec => []RegistryInv
  <1>1. Init => RegistryInv
    BY RegistryInitInv DEF Init
  <1>2. RegistryInv /\ [Next]_vars => RegistryInv'
    <2> SUFFICES ASSUME RegistryInv, [Next]_vars PROVE RegistryInv'
      OBVIOUS
    <2>1. CASE RegistryNext
      BY <2>1, RegistryStep
    <2>2. CASE UNCHANGED regVars
      BY <2>2 DEF regVars, RegistryInv, Exclusion, Progress, Choice
    <2> QED BY <2>1, <2>2, TensorKeepsRegistry DEF Next, vars
  <1> QED BY <1>1, <1>2, PTL DEF Spec

(* When init() has returned to a thread, all of its work is done.           *)
THEOREM InitCompleteHolds == Spec => []InitComplete
  <1>1. RegistryInv => InitComplete
    BY DEF RegistryInv, Progress, InitComplete
  <1> QED BY <1>1, RegistryCorrect, PTL

(* A default chosen by set_default_device() is kept unless init() was met   *)
(* between its test and its store.                                          *)
THEOREM ExplicitKeptHolds == Spec => []ExplicitKept
  <1>1. RegistryInv => ExplicitKept
    BY DEF RegistryInv, Choice, ExplicitKept, DefaultDevice
  <1> QED BY <1>1, RegistryCorrect, PTL

-----------------------------------------------------------------------------
(* What release_() leaves allocated.                                        *)
LEMMA ReleasedHeap ==
  ASSUME StorageInv, NEW o \in Objs
  PROVE  /\ Released(o) \in [Blocks -> [dev : Devices, size : Nat] \cup {None}]
         /\ \A b \in Blocks :
              Released(o)[b] = IF t[o].owns /\ t[o].data = b THEN None ELSE heap[b]
  BY BlocksAssumption DEF StorageInv, StorageType, OwnedOnce, Released

(* The heap with a fresh block.                                             *)
LEMMA AllocatedHeap ==
  ASSUME StorageInv, NEW d \in registered, NEW s \in Shapes,
         NEW h \in [Blocks -> [dev : Devices, size : Nat] \cup {None}],
         NEW b \in Blocks
  PROVE  /\ Allocated(h, b, d, s) \in [Blocks -> [dev : Devices, size : Nat] \cup {None}]
         /\ \A c \in Blocks : Allocated(h, b, d, s)[c] =
              IF Bytes[s] # 0 /\ c = b THEN [dev |-> d, size |-> Bytes[s]] ELSE h[c]
  BY ShapesAssumption DEF StorageInv, StorageType, Allocated

(* Replacing the value of an object by a fresh one, at a block that is free *)
(* once the old value is released.                                          *)
LEMMA FreshStep ==
  ASSUME StorageInv, NEW o \in Objs, NEW d \in registered, NEW s \in Shapes,
         NEW b \in Blocks, Released(o)[b] = None,
         t' = [t EXCEPT ![o] = Fresh(b, d, s)],
         heap' = Allocated(Released(o), b, d, s),
         starved' = starved \ {o},
         registered' = registered
  PROVE  StorageInv'
  <1> DEFINE v == Fresh(b, d, s)
  <1>1. /\ v \in [data : Blocks \cup {None}, shape : Shapes, dev : Devices,
                  owns : BOOLEAN, cap : Nat]
        /\ v.owns <=> Bytes[s] # 0
        /\ v.data = IF Bytes[s] = 0 THEN None ELSE b
        /\ v.shape = s /\ v.dev = d /\ v.cap = Bytes[s]
    BY ShapesAssumption DEF StorageInv, StorageType, Fresh
  <1>2. /\ heap' \in [Blocks -> [dev : Devices, size : Nat] \cup {None}]
        /\ \A c \in Blocks : heap'[c] =
             IF Bytes[s] # 0 /\ c = b THEN [dev |-> d, size |-> Bytes[s]]
             ELSE IF t[o].owns /\ t[o].data = c THEN None ELSE heap[c]
    <2>1. /\ Released(o) \in [Blocks -> [dev : Devices, size : Nat] \cup {None}]
          /\ \A c \in Blocks :
               Released(o)[c] = IF t[o].owns /\ t[o].data = c THEN None ELSE heap[c]
      BY ReleasedHeap
    <2>2. /\ heap' \in [Blocks -> [dev : Devices, size : Nat] \cup {None}]
          /\ \A c \in Blocks : heap'[c] =
               IF Bytes[s] # 0 /\ c = b THEN [dev |-> d, size |-> Bytes[s]] ELSE Released(o)[c]
      BY <2>1, AllocatedHeap
    <2> QED BY <2>1, <2>2
  <1>3. \A q \in Objs : t'[q] = IF q = o THEN v ELSE t[q]
    BY DEF StorageInv, StorageType
  <1>4. (t[o].owns /\ t[o].data = b) \/ heap[b] = None
    BY ReleasedHeap
  <1> HIDE DEF v
  <1>5. StorageType'
    BY <1>1, <1>2, ReleasedHeap DEF StorageInv, StorageType, v
  <1>6. \A q \in Objs \ {o} : t[q].owns => t[q].data # b /\ ~(t[o].owns /\ t[o].data = t[q].data)
    <2> SUFFICES ASSUME NEW q \in Objs \ {o}, t[q].owns
                 PROVE  t[q].data # b /\ ~(t[o].owns /\ t[o].data = t[q].data)
      OBVIOUS
    <2>1. ~(t[o].owns /\ t[o].data = t[q].data)
      BY DEF StorageInv, OwnedOnce
    <2>2. [dev |-> t[q].dev, size |-> t[q].cap] \in [dev : Devices, size : Nat]
      BY DEF StorageInv, StorageType
    <2>3. t[q].data = b => heap[b] # None
      BY <2>2, BlocksAssumption DEF StorageInv, OwnedOnce
    <2> QED BY <2>1, <2>3, <1>4
  <1>7. OwnedOnce'
    <2>1. ASSUME NEW q \in Objs, t'[q].owns
          PROVE  t'[q].data # None /\ heap'[t'[q].data] = [dev |-> t'[q].dev, size |-> t'[q].cap]
      <3>1. CASE q = o
        BY <2>1, <3>1, <1>1, <1>2, <1>3, BlocksAssumption
      <3>2. CASE q # o
        BY <2>1, <3>2, <1>2, <1>3, <1>6, BlocksAssumption DEF StorageInv, StorageType, OwnedOnce
      <3> QED BY <3>1, <3>2
    <2>2. ASSUME NEW c \in Blocks, heap'[c] # None
          PROVE  \E q \in Objs : t'[q].owns /\ t'[q].data = c
      <3>1. CASE Bytes[s] # 0 /\ c = b
        BY <3>1, <1>1, <1>3
      <3>2. CASE ~(Bytes[s] # 0 /\ c = b)
        <4>1. heap[c] # None /\ ~(t[o].owns /\ t[o].data = c)
          BY <2>2, <3>2, <1>2
        <4>2. PICK q \in Objs : t[q].owns /\ t[q].data = c
          BY <4>1 DEF StorageInv, OwnedOnce
        <4> QED BY <4>1, <4>2, <1>3
      <3> QED BY <3>1, <3>2
    <2>3. ASSUME NEW q \in Objs, NEW r \in Objs, t'[q].owns, t'[r].owns, t'[q].data = t'[r].data
          PROVE  q = r
      BY <2>3, <1>1, <1>3, <1>6 DEF StorageInv, OwnedOnce
    <2> QED BY <2>1, <2>2, <2>3 DEF OwnedOnce
  <1>8. ShapeBacked'
    BY <1>1, <1>3, ShapesAssumption, BlocksAssumption DEF StorageInv, ShapeBacked
  <1> QED BY <1>5, <1>7, <1>8 DEF StorageInv

(* Replacing it by a value that owns nothing.                               *)
LEMMA BareStep ==
  ASSUME StorageInv, NEW o \in Objs,
         NEW v \in [data : Blocks \cup {None}, shape : Shapes, dev : Devices,
                   owns : BOOLEAN, cap : Nat],
         ~v.owns, v.data = None => Bytes[v.shape] = 0 \/ o \in starved',
         t' = [t EXCEPT ![o] = v],
         heap' = Released(o),
         \A q \in Objs \ {o} : q \in starved => q \in starved',
         registered' = registered
  PROVE  StorageInv'
  <1>1. \A q \in Objs : t'[q] = IF q = o THEN v ELSE t[q]
    BY DEF StorageInv, StorageType
  <1>2. /\ heap' \in [Blocks -> [dev : Devices, size : Nat] \cup {None}]
        /\ \A c \in Blocks :
             heap'[c] = IF t[o].owns /\ t[o].data = c THEN None ELSE heap[c]
    BY ReleasedHeap
  <1>3. StorageType'
    BY <1>2 DEF StorageInv, StorageType
  <1>4. OwnedOnce'
    <2>1. ASSUME NEW q \in Objs, t'[q].owns
          PROVE  t'[q].data # None /\ heap'[t'[q].data] = [dev |-> t'[q].dev, size |-> t'[q].cap]
      BY <2>1, <1>1, <1>2, BlocksAssumption DEF StorageInv, StorageType, OwnedOnce
    <2>2. ASSUME NEW c \in Blocks, heap'[c] # None
          PROVE  \E q \in Objs : t'[q].owns /\ t'[q].data = c
      <3>1. heap[c] # None /\ ~(t[o].owns /\ t[o].data = c)
        BY <2>2, <1>2
      <3>2. PICK q \in Objs : t[q].owns /\ t[q].data = c
        BY <3>1 DEF StorageInv, OwnedOnce
      <3> QED BY <3>1, <3>2, <1>1
    <2>3. ASSUME NEW q \in Objs, NEW r \in Objs, t'[q].owns, t'[r].owns, t'[q].data = t'[r].data
          PROVE  q = r
      BY <2>3, <1>1 DEF StorageInv, OwnedOnce
    <2> QED BY <2>1, <2>2, <2>3 DEF OwnedOnce
  <1>5. ShapeBacked'
    BY <1>1, ShapesAssumption DEF StorageInv, ShapeBacked
  <1> QED BY <1>3, <1>4, <1>5 DEF StorageInv

(* The registry only adds devices.                                          *)
LEMMA RegistryKeepsStorage ==
  ASSUME StorageInv, RegistryNext, UNCHANGED tensorVars
  PROVE  StorageInv'
  <1>1. registered' \subseteq Devices
    BY DEF StorageInv, StorageType, RegistryNext, InitFast, InitEnter, InitLock, InitTest,
       InitStore, InitFlag, InitPublish, InitProbe, SetCheck, ScopeOpen, SetStore, SetFlag,
       ScopeClose, Devices
  <1> QED BY <1>1 DEF StorageInv, StorageType, OwnedOnce, ShapeBacked, tensorVars

(* Moving a value: the target's storage is released, the source is void.    *)
LEMMA MoveStep ==
  ASSUME StorageInv, NEW o \in Objs, NEW q \in Objs, Move(o, q)
  PROVE  StorageInv'
  <1> DEFINE w == [Void EXCEPT !.dev = t[q].dev]
  <1>1. /\ w \in [data : Blocks \cup {None}, shape : Shapes, dev : Devices,
                  owns : BOOLEAN, cap : Nat]
        /\ ~w.owns /\ w.data = None /\ Bytes[w.shape] = 0
    BY ShapesAssumption DEF StorageInv, StorageType, Void
  <1>2. o # q /\ \A r \in Objs : t'[r] = IF r = q THEN w ELSE IF r = o THEN t[q] ELSE t[r]
    BY DEF Move, StorageInv, StorageType
  <1>3. /\ heap' \in [Blocks -> [dev : Devices, size : Nat] \cup {None}]
        /\ \A c \in Blocks :
             heap'[c] = IF t[o].owns /\ t[o].data = c THEN None ELSE heap[c]
    BY ReleasedHeap DEF Move
  <1>4. StorageType'
    <2>1. t' \in [Objs -> [data : Blocks \cup {None}, shape : Shapes, dev : Devices,
                           owns : BOOLEAN, cap : Nat]]
      BY <1>1 DEF Move, StorageInv, StorageType
    <2> QED BY <2>1, <1>3 DEF Move, regVars, StorageInv, StorageType
  <1> HIDE DEF w
  <1>5. OwnedOnce'
    <2>1. ASSUME NEW r \in Objs, t'[r].owns
          PROVE  t'[r].data # None /\ heap'[t'[r].data] = [dev |-> t'[r].dev, size |-> t'[r].cap]
      BY <2>1, <1>1, <1>2, <1>3, BlocksAssumption DEF StorageInv, StorageType, OwnedOnce
    <2>2. ASSUME NEW c \in Blocks, heap'[c] # None
          PROVE  \E r \in Objs : t'[r].owns /\ t'[r].data = c
      <3>1. heap[c] # None /\ ~(t[o].owns /\ t[o].data = c)
        BY <2>2, <1>3
      <3>2. PICK r \in Objs : t[r].owns /\ t[r].data = c
        BY <3>1 DEF StorageInv, OwnedOnce
      <3> QED BY <3>1, <3>2, <1>2
    <2>3. ASSUME NEW r \in Objs, NEW u \in Objs, t'[r].owns, t'[u].owns, t'[r].data = t'[u].data
          PROVE  r = u
      BY <2>3, <1>1, <1>2 DEF StorageInv, OwnedOnce
    <2> QED BY <2>1, <2>2, <2>3 DEF OwnedOnce
  <1>6. ShapeBacked'
    BY <1>1, <1>2 DEF StorageInv, ShapeBacked, Move
  <1> QED BY <1>4, <1>5, <1>6 DEF StorageInv

(* resize() within the capacity changes the shape only.                     *)
LEMMA ResizeFitsStep ==
  ASSUME StorageInv, NEW o \in Objs, NEW s \in Shapes, ResizeFits(o, s)
  PROVE  StorageInv'
  <1>1. StorageType'
    BY DEF ResizeFits, regVars, StorageInv, StorageType
  <1>2. \A q \in Objs : /\ t'[q].owns = t[q].owns /\ t'[q].data = t[q].data
                        /\ t'[q].dev = t[q].dev /\ t'[q].cap = t[q].cap
                        /\ t'[q].shape = IF q = o THEN s ELSE t[q].shape
    BY DEF ResizeFits, StorageInv, StorageType
  <1>3. OwnedOnce'
    BY <1>2 DEF ResizeFits, StorageInv, OwnedOnce
  <1>4. ShapeBacked'
    <2> SUFFICES ASSUME NEW q \in Objs
                 PROVE  /\ t'[q].owns => Bytes[t'[q].shape] <= t'[q].cap
                        /\ t'[q].data = None => Bytes[t'[q].shape] = 0 \/ q \in starved'
      BY DEF ShapeBacked
    <2>1. CASE q = o
      <3>1. t[o].owns /\ Bytes[s] <= t[o].cap
        BY DEF ResizeFits
      <3>2. t[o].data # None
        BY <3>1 DEF StorageInv, OwnedOnce
      <3> QED BY <2>1, <3>1, <3>2, <1>2
    <2>2. CASE q # o
      BY <2>2, <1>2 DEF ResizeFits, StorageInv, ShapeBacked
    <2> QED BY <2>1, <2>2
  <1> QED BY <1>1, <1>3, <1>4 DEF StorageInv

(* A new tensor assigned to an object.                                      *)
LEMMA AssignNewStep ==
  ASSUME StorageInv, NEW o \in Objs, NEW d, NEW s \in Shapes, AssignNew(o, d, s)
  PROVE  StorageInv'
  <1>1. PICK b \in Free(heap) : /\ t' = [t EXCEPT ![o] = Fresh(b, d, s)]
                                /\ heap' = Allocated(Released(o), b, d, s)
    BY DEF AssignNew
  <1>2. b \in Blocks /\ Released(o)[b] = None
    BY ReleasedHeap DEF Free
  <1> QED BY <1>1, <1>2, FreshStep DEF AssignNew, regVars

(* Every operation of Tensor keeps the storage invariant.                   *)
LEMMA TensorStep ==
  ASSUME StorageInv, TensorNext
  PROVE  StorageInv'
  <1>1. ASSUME NEW o \in Objs, Destroy(o) PROVE StorageInv'
    <2>1. Void \in [data : Blocks \cup {None}, shape : Shapes, dev : Devices,
                    owns : BOOLEAN, cap : Nat] /\ ~Void.owns /\ Bytes[Void.shape] = 0
      BY ShapesAssumption DEF Void, Devices
    <2> QED BY <1>1, <2>1, BareStep DEF Destroy, regVars
  <1>2. ASSUME NEW o \in Objs, NEW s \in Shapes, ResizeAllocates(o, s) PROVE StorageInv'
    <2>1. PICK b \in Free(Released(o)) : /\ t' = [t EXCEPT ![o] = Fresh(b, t[o].dev, s)]
                                         /\ heap' = Allocated(Released(o), b, t[o].dev, s)
      BY <1>2 DEF ResizeAllocates
    <2>2. b \in Blocks /\ Released(o)[b] = None
      BY DEF Free
    <2> QED BY <1>2, <2>1, <2>2, FreshStep DEF ResizeAllocates, regVars
  <1>3. ASSUME NEW o \in Objs, NEW s \in Shapes, ResizeThrows(o, s) PROVE StorageInv'
    <2> DEFINE v == [t[o] EXCEPT !.data = None, !.owns = FALSE, !.cap = 0]
    <2>1. /\ v \in [data : Blocks \cup {None}, shape : Shapes, dev : Devices,
                    owns : BOOLEAN, cap : Nat]
          /\ ~v.owns
      BY DEF StorageInv, StorageType
    <2>2. t' = [t EXCEPT ![o] = v]
      BY <1>3 DEF ResizeThrows, StorageInv, StorageType
    <2> QED BY <1>3, <2>1, <2>2, BareStep DEF ResizeThrows, regVars
  <1>4. ASSUME NEW o \in Objs, NEW q \in Objs, NEW s \in Shapes, View(o, q, s) PROVE StorageInv'
    <2> DEFINE v == [data |-> t[q].data, shape |-> s, dev |-> t[q].dev,
                     owns |-> FALSE, cap |-> 0]
    <2>1. /\ v \in [data : Blocks \cup {None}, shape : Shapes, dev : Devices,
                    owns : BOOLEAN, cap : Nat]
          /\ ~v.owns /\ v.data # None
      BY <1>4 DEF View, StorageInv, StorageType
    <2> QED BY <1>4, <2>1, BareStep DEF View, regVars
  <1>5. ASSUME NEW o \in Objs, NEW q \in Objs, Copy(o, q) PROVE StorageInv'
    BY <1>5, AssignNewStep DEF Copy, StorageInv, StorageType
  <1>6. ASSUME NEW o \in Objs, NEW q \in Objs, NEW d, To(o, q, d) PROVE StorageInv'
    BY <1>6, AssignNewStep DEF To, StorageInv, StorageType
  <1>7. ASSUME NEW o \in Objs, NEW s \in Shapes, NEW th \in Threads, Create(th, o, s)
        PROVE  StorageInv'
    BY <1>7, AssignNewStep DEF Create
  <1> QED BY <1>1, <1>2, <1>3, <1>4, <1>5, <1>6, <1>7, MoveStep, ResizeFitsStep DEF TensorNext

(* The storage invariant holds throughout.                                  *)
THEOREM StorageCorrect == Spec => []StorageInv
  <1>1. Init => StorageInv
    BY ShapesAssumption, BlocksAssumption
       DEF Init, RegistryInit, TensorInit, StorageInv, StorageType, OwnedOnce, ShapeBacked,
           Void, Devices
  <1>2. StorageInv /\ [Next]_vars => StorageInv'
    <2> SUFFICES ASSUME StorageInv, [Next]_vars PROVE StorageInv'
      OBVIOUS
    <2>1. CASE UNCHANGED vars
      BY <2>1 DEF vars, regVars, tensorVars, StorageInv, StorageType, OwnedOnce, ShapeBacked
    <2> QED BY <2>1, RegistryKeepsStorage, TensorStep DEF Next
  <1> QED BY <1>1, <1>2, PTL DEF Spec

(* No sequence of moves, copies, views, migrations, resizes and failed      *)
(* allocations leaks a block, frees one twice or leaves a shape without its *)
(* bytes, a resize() that threw apart.                                      *)
THEOREM StorageSoundHolds == Spec => []StorageSound
  <1>1. StorageInv => StorageSound
    BY DEF StorageInv, StorageSound
  <1> QED BY <1>1, StorageCorrect, PTL

-----------------------------------------------------------------------------
(***************************************************************************)
(* Devices in use are registered.                                           *)
(***************************************************************************)

(* A nonempty set of naturals has a least element.                          *)
LEMMA LeastNatural ==
  ASSUME NEW S \in SUBSET Nat, S # {}
  PROVE  \E x \in S : \A y \in S : x <= y
  <1> DEFINE R == OpToRel(<, Nat)
  <1>1. \E x \in S : \A y \in S : ~ (<<y, x>> \in R)
    BY NatLessThanWellFounded, WFMin
  <1>2. \A x, y \in Nat : x < y => <<x, y>> \in R
    BY Zenon DEF OpToRel
  <1> HIDE DEF R
  <1>3. PICK x \in S : \A y \in S : ~ (<<y, x>> \in R)
    BY <1>1
  <1>4. ASSUME NEW y \in S PROVE x <= y
    <2>1. x \in Nat /\ y \in Nat /\ ~(y < x)
      BY <1>2, <1>3
    <2> QED BY <2>1
  <1> QED BY <1>4

(* A finite one has a greatest, which is what pick_default_from_available   *)
(* takes: the element with the fewest above it.                             *)
LEMMA GreatestNatural ==
  ASSUME NEW S \in SUBSET Nat, IsFiniteSet(S), S # {}
  PROVE  Max(S) \in S
  <1> DEFINE Above(x) == {y \in S : y > x}
  <1>1. \A x \in S : IsFiniteSet(Above(x)) /\ Cardinality(Above(x)) \in Nat
    BY FS_Subset, FS_CardinalityType
  <1> DEFINE Counts == {Cardinality(Above(x)) : x \in S}
  <1>2. PICK n \in Counts : \A m \in Counts : n <= m
    <2>1. Counts \in SUBSET Nat /\ Counts # {}
      BY <1>1
    <2> HIDE DEF Counts
    <2> QED BY <2>1, LeastNatural
  <1>3. PICK x \in S : n = Cardinality(Above(x))
    BY <1>2
  <1>4. ASSUME NEW z \in S, z > x PROVE FALSE
    <2>1. Above(z) \in SUBSET Above(x) /\ Above(z) # Above(x)
      <3>1. x \in Nat /\ z \in Nat /\ S \subseteq Nat
        OBVIOUS
      <3>2. \A y \in Nat : y > z => y > x
        BY <1>4, <3>1
      <3>3. z \in Above(x) /\ z \notin Above(z)
        BY <1>4, <3>1
      <3> QED BY <3>1, <3>2, <3>3
    <2>2. Cardinality(Above(z)) <= Cardinality(Above(x)) /\ Cardinality(Above(z)) # Cardinality(Above(x))
      BY <1>1, <2>1, FS_Subset
    <2>3. Cardinality(Above(x)) <= Cardinality(Above(z))
      BY <1>2, <1>3
    <2> QED BY <1>1, <2>2, <2>3
  <1>5. \A y \in S : x >= y
    BY <1>4
  <1> QED BY <1>5 DEF Max

(* What default_device() and init() may pick is registered.                 *)
LEMMA PickRegistered ==
  ASSUME registered \subseteq Devices, 0 \in registered
  PROVE  PickDefaultFromAvailable \in registered /\ InitChoice \in registered
  <1>1. IsFiniteSet(Devices) /\ Devices \subseteq Nat
    BY BuiltAssumption, FS_AddElement DEF Devices
  <1>2. IsFiniteSet(registered) /\ registered \in SUBSET Nat /\ registered # {}
    BY <1>1, FS_Subset
  <1> QED BY <1>2, GreatestNatural DEF PickDefaultFromAvailable, InitChoice

(* The CPU is registered, and so is the device of every tensor and block.   *)
DevicesRegistered ==
  /\ 0 \in registered
  /\ \A o \in Objs : t[o].dev \in registered
  /\ \A b \in Blocks : heap[b] # None => heap[b].dev \in registered
  /\ starved \subseteq Objs

DeviceInv == RegistryTypeOK /\ DevicesRegistered

(* Every call of the registry keeps its types: registered only grows.       *)
LEMMA RegistryTypes ==
  ASSUME RegistryTypeOK, 0 \in registered, RegistryNext
  PROVE  RegistryTypeOK' /\ registered \subseteq registered'
  <1> PICK th \in Threads :
        \/ InitFast(th) \/ InitEnter(th) \/ InitLock(th) \/ InitTest(th)
        \/ InitStore(th) \/ InitFlag(th) \/ InitPublish(th)
        \/ \E d \in Built : InitProbe(th, d)
        \/ \E d \in Devices : SetCheck(th, d) \/ ScopeOpen(th, d)
        \/ SetStore(th) \/ SetFlag(th) \/ ScopeClose(th)
    BY DEF RegistryNext
  <1> USE DEF RegistryTypeOK, Goto
  <1>1. CASE InitFast(th)
    BY <1>1 DEF InitFast
  <1>2. CASE InitEnter(th)
    BY <1>2 DEF InitEnter
  <1>3. CASE InitLock(th)
    BY <1>3 DEF InitLock
  <1>4. CASE InitTest(th)
    BY <1>4, PickRegistered DEF InitTest
  <1>5. CASE InitStore(th)
    BY <1>5 DEF InitStore
  <1>6. CASE InitFlag(th)
    BY <1>6 DEF InitFlag
  <1>7. CASE InitPublish(th)
    BY <1>7 DEF InitPublish
  <1>8. ASSUME NEW d \in Built, InitProbe(th, d) PROVE RegistryTypeOK' /\ registered \subseteq registered'
    <2>1. registered' \subseteq Devices /\ registered \subseteq registered' /\ probed' \subseteq Built
      BY <1>8 DEF InitProbe, Devices
    <2>2. scope' \in [Threads -> Seq(registered')]
      <3>1. Seq(registered) \subseteq Seq(registered')
        BY <2>1, SeqMonotonic
      <3> QED BY <1>8, <3>1 DEF InitProbe
    <2> QED BY <1>8, <2>1, <2>2 DEF InitProbe
  <1>9. ASSUME NEW d \in Devices, SetCheck(th, d) \/ ScopeOpen(th, d)
        PROVE  RegistryTypeOK' /\ registered \subseteq registered'
    <2>1. CASE SetCheck(th, d)
      BY <2>1 DEF SetCheck
    <2>2. CASE ScopeOpen(th, d)
      BY <2>2 DEF ScopeOpen
    <2> QED BY <1>9, <2>1, <2>2
  <1>10. CASE SetStore(th)
    BY <1>10 DEF SetStore
  <1>11. CASE SetFlag(th)
    BY <1>11 DEF SetFlag
  <1>12. CASE ScopeClose(th)
    <2>1. Front(scope[th]) \in Seq(registered)
      BY <1>12 DEF ScopeClose, Front
    <2> QED BY <1>12, <2>1 DEF ScopeClose
  <1> QED BY <1>1, <1>2, <1>3, <1>4, <1>5, <1>6, <1>7, <1>8, <1>9, <1>10, <1>11, <1>12

(* release_() leaves blocks on registered devices.                          *)
LEMMA ReleasedRegistered ==
  ASSUME StorageInv, DevicesRegistered, NEW o \in Objs
  PROVE  \A b \in Blocks : Released(o)[b] # None => Released(o)[b].dev \in registered
  BY ReleasedHeap DEF DevicesRegistered

(* A fresh value is on a registered device.                                 *)
LEMMA FreshRegistered ==
  ASSUME StorageInv, DevicesRegistered, NEW o \in Objs, NEW d \in registered, NEW s \in Shapes,
         NEW b \in Blocks,
         t' = [t EXCEPT ![o] = Fresh(b, d, s)],
         heap' = Allocated(Released(o), b, d, s),
         starved' = starved \ {o},
         registered' = registered
  PROVE  DevicesRegistered'
  <1>1. \A q \in Objs : t'[q].dev \in registered
    BY DEF StorageInv, StorageType, Fresh, DevicesRegistered
  <1>2. \A c \in Blocks : heap'[c] # None => heap'[c].dev \in registered
    <2>1. Released(o) \in [Blocks -> [dev : Devices, size : Nat] \cup {None}]
      BY ReleasedHeap
    <2>2. \A c \in Blocks : heap'[c] =
            IF Bytes[s] # 0 /\ c = b THEN [dev |-> d, size |-> Bytes[s]] ELSE Released(o)[c]
      BY <2>1, AllocatedHeap
    <2> QED BY <2>2, ReleasedRegistered
  <1> QED BY <1>1, <1>2 DEF DevicesRegistered

(* Every operation of Tensor allocates and works on registered devices.     *)
LEMMA TensorRegistered ==
  ASSUME StorageInv, DevicesRegistered, TensorNext
  PROVE  DevicesRegistered'
  <1>1. ASSUME NEW o \in Objs, NEW d, NEW s \in Shapes, AssignNew(o, d, s) PROVE DevicesRegistered'
    <2>1. PICK b \in Free(heap) : /\ t' = [t EXCEPT ![o] = Fresh(b, d, s)]
                                  /\ heap' = Allocated(Released(o), b, d, s)
      BY <1>1 DEF AssignNew
    <2> QED BY <1>1, <2>1, FreshRegistered DEF AssignNew, Free, regVars
  <1>2. ASSUME NEW o \in Objs, NEW s \in Shapes, ResizeAllocates(o, s) PROVE DevicesRegistered'
    <2>1. PICK b \in Free(Released(o)) : /\ t' = [t EXCEPT ![o] = Fresh(b, t[o].dev, s)]
                                         /\ heap' = Allocated(Released(o), b, t[o].dev, s)
      BY <1>2 DEF ResizeAllocates
    <2> QED BY <1>2, <2>1, FreshRegistered DEF ResizeAllocates, Free, regVars
  <1>3. ASSUME NEW o \in Objs, heap' = Released(o), registered' = registered, starved' \subseteq Objs,
               \A q \in Objs : t'[q].dev \in registered
        PROVE  DevicesRegistered'
    BY <1>3, ReleasedRegistered DEF DevicesRegistered
  <1>4. ASSUME NEW o \in Objs, Destroy(o) PROVE DevicesRegistered'
    <2>1. \A q \in Objs : t'[q].dev \in registered
      BY <1>4 DEF Destroy, StorageInv, StorageType, Void, DevicesRegistered
    <2> QED BY <1>3, <1>4, <2>1 DEF Destroy, regVars, DevicesRegistered
  <1>5. ASSUME NEW o \in Objs, NEW s \in Shapes, ResizeThrows(o, s) PROVE DevicesRegistered'
    <2>1. \A q \in Objs : t'[q].dev \in registered
      BY <1>5 DEF ResizeThrows, StorageInv, StorageType, DevicesRegistered
    <2> QED BY <1>3, <1>5, <2>1 DEF ResizeThrows, regVars, DevicesRegistered
  <1>6. ASSUME NEW o \in Objs, NEW q \in Objs, NEW s \in Shapes, View(o, q, s) PROVE DevicesRegistered'
    <2>1. \A r \in Objs : t'[r].dev \in registered
      BY <1>6 DEF View, StorageInv, StorageType, DevicesRegistered
    <2> QED BY <1>3, <1>6, <2>1 DEF View, regVars, DevicesRegistered
  <1>7. ASSUME NEW o \in Objs, NEW q \in Objs, Move(o, q) PROVE DevicesRegistered'
    <2>1. \A r \in Objs : t'[r].dev \in registered
      BY <1>7 DEF Move, StorageInv, StorageType, Void, DevicesRegistered
    <2> QED BY <1>3, <1>7, <2>1 DEF Move, regVars, DevicesRegistered
  <1>8. ASSUME NEW o \in Objs, NEW s \in Shapes, ResizeFits(o, s) PROVE DevicesRegistered'
    <2>1. \A q \in Objs : t'[q].dev \in registered
      BY <1>8 DEF ResizeFits, StorageInv, StorageType, DevicesRegistered
    <2> QED BY <1>8, <2>1 DEF ResizeFits, regVars, DevicesRegistered
  <1>9. \A q \in Objs : t[q].shape \in Shapes
    BY DEF StorageInv, StorageType
  <1> QED BY <1>1, <1>2, <1>4, <1>5, <1>6, <1>7, <1>8, <1>9 DEF TensorNext, Create, Copy, To

(* Whatever the threads and the probes do, no tensor, block, scope or       *)
(* default is ever on a device whose backend is not registered.             *)
THEOREM TensorTypes == Spec => []TypeOK
  <1>1. Init => DeviceInv
    <2> SUFFICES ASSUME Init PROVE DeviceInv
      OBVIOUS
    <2>1. scope \in [Threads -> Seq(registered)]
      BY DEF Init, RegistryInit
    <2>2. RegistryTypeOK /\ 0 \in registered
      BY <2>1 DEF Init, RegistryInit, RegistryTypeOK, Devices
    <2> QED BY <2>2, BlocksAssumption DEF Init, TensorInit, Void, DevicesRegistered, DeviceInv
  <1>2. StorageInv /\ DeviceInv /\ [Next]_vars => DeviceInv'
    <2> SUFFICES ASSUME StorageInv, DeviceInv, [Next]_vars PROVE DeviceInv'
      OBVIOUS
    <2>1. CASE RegistryNext /\ UNCHANGED tensorVars
      BY <2>1, RegistryTypes DEF DeviceInv, DevicesRegistered, tensorVars
    <2>2. CASE TensorNext
      BY <2>2, TensorRegistered, TensorKeepsRegistry DEF DeviceInv, RegistryTypeOK, regVars
    <2>3. CASE UNCHANGED vars
      BY <2>3 DEF vars, regVars, tensorVars, DeviceInv, RegistryTypeOK, DevicesRegistered
    <2> QED BY <2>1, <2>2, <2>3 DEF Next
  <1>3. StorageInv /\ DeviceInv => TypeOK
    BY DEF StorageInv, StorageType, DeviceInv, DevicesRegistered, TypeOK
  <1> QED BY <1>1, <1>2, <1>3, StorageCorrect, PTL DEF Spec
=============================================================================
