------------------------------- MODULE Tensor -------------------------------
(***************************************************************************)
(* brotensor::Tensor as an owner of device memory (src/src/tensor.cpp):     *)
(* factories, views, moves, copies, migration, resize() and the destructor, *)
(* over the devices of DeviceRegistry.  rows, cols and dtype are a shape,   *)
(* of which Bytes is the storage; an allocation may throw at any time.      *)
(* Symbolic tensors are those of TraceDAG.                                  *)
(***************************************************************************)
EXTENDS DeviceRegistry

CONSTANTS Objs,     \* Tensor objects
          Blocks,   \* what the backends can allocate at once
          Shapes, Bytes,
          Zero      \* the shape of a default-constructed tensor

ASSUME ShapesAssumption == /\ Zero \in Shapes
                           /\ Bytes \in [Shapes -> Nat]
                           /\ Bytes[Zero] = 0
ASSUME BlocksAssumption == None \notin Blocks /\ None \notin [dev : Devices, size : Nat]

VARIABLES
  t,        \* the Tensor objects
  heap,     \* device and size of each allocated block
  starved   \* history: objects whose last resize() threw out of the allocation

tensorVars == <<t, heap, starved>>
vars == <<regVars, tensorVars>>

Void == [data |-> None, shape |-> Zero, dev |-> 0, owns |-> FALSE, cap |-> 0]

TensorInit == /\ t = [o \in Objs |-> Void]
              /\ heap = [b \in Blocks |-> None]
              /\ starved = {}

Init == RegistryInit /\ TensorInit

-----------------------------------------------------------------------------
Free(h) == {b \in Blocks : h[b] = None}

(* release_(): the heap without what o owns.                                *)
Released(o) ==
  IF t[o].owns /\ t[o].data # None THEN [heap EXCEPT ![t[o].data] = None] ELSE heap

(* backend_alloc of the storage for shape s at b: no storage for no bytes.  *)
Fresh(b, d, s) ==
  [data |-> IF Bytes[s] = 0 THEN None ELSE b, shape |-> s, dev |-> d,
   owns |-> Bytes[s] # 0, cap |-> Bytes[s]]
Allocated(h, b, d, s) ==
  IF Bytes[s] = 0 THEN h ELSE [h EXCEPT ![b] = [dev |-> d, size |-> Bytes[s]]]

(* o = empty_on(d, s), also as the first half of clone() and to(): the new  *)
(* storage is there before the old is released by the move assignment.      *)
(* Should the allocation throw, nothing has changed.                        *)
AssignNew(o, d, s) ==
  /\ d \in registered
  /\ \E b \in Free(heap) :
       /\ t' = [t EXCEPT ![o] = Fresh(b, d, s)]
       /\ heap' = Allocated(Released(o), b, d, s)
  /\ starved' = starved \ {o}
  /\ UNCHANGED regVars

(* empty, zeros, from_host: on the default device of the calling thread.    *)
Create(th, o, s) == AssignNew(o, DefaultDevice(th), s)

(* The copy constructor and assignment: clone(), then the move.             *)
Copy(o, q) == o # q /\ AssignNew(o, t[q].dev, t[q].shape)

(* o = q.to(d).                                                             *)
To(o, q, d) == AssignNew(o, d, t[q].shape)

(* o = Tensor::view(...) of the storage q has, no larger than it is.        *)
View(o, q, s) ==
  /\ o # q
  /\ t[q].data # None /\ heap[t[q].data] # None
  /\ Bytes[s] <= heap[t[q].data].size
  /\ t' = [t EXCEPT ![o] = [data |-> t[q].data, shape |-> s, dev |-> t[q].dev,
                            owns |-> FALSE, cap |-> 0]]
  /\ heap' = Released(o)
  /\ starved' = starved \ {o}
  /\ UNCHANGED regVars

(* Mutant: the source of a move goes on owning.                             *)
MoveShares(o, q) ==
  /\ o # q
  /\ t' = [t EXCEPT ![o] = t[q]]
  /\ heap' = Released(o)
  /\ starved' = IF q \in starved THEN (starved \cup {o}) \ {q} ELSE starved \ {o}
  /\ UNCHANGED regVars

(* o = std::move(q).                                                        *)
Move(o, q) ==
  /\ o # q
  /\ t' = [t EXCEPT ![o] = t[q], ![q] = [Void EXCEPT !.dev = t[q].dev]]
  /\ heap' = Released(o)
  /\ starved' = IF q \in starved THEN (starved \cup {o}) \ {q} ELSE starved \ {o}
  /\ UNCHANGED regVars

(* ~Tensor().                                                               *)
Destroy(o) ==
  /\ t' = [t EXCEPT ![o] = Void]
  /\ heap' = Released(o)
  /\ starved' = starved \ {o}
  /\ UNCHANGED regVars

(* The early return of resize().                                            *)
ResizeNothing(o, s) == s = t[o].shape /\ t[o].data # None

(* A view over storage is refused.                                          *)
Resizable(o) == t[o].owns \/ t[o].data = None

(* resize() to a shape that fits what is allocated.                         *)
ResizeFits(o, s) ==
  /\ ~ResizeNothing(o, s)
  /\ Resizable(o)
  /\ t[o].owns /\ Bytes[s] <= t[o].cap
  /\ t' = [t EXCEPT ![o].shape = s]
  /\ UNCHANGED <<heap, starved, regVars>>

(* resize() that allocates, after the old storage is released.              *)
ResizeAllocates(o, s) ==
  /\ ~ResizeNothing(o, s)
  /\ Resizable(o)
  /\ Bytes[s] > t[o].cap \/ ~t[o].owns
  /\ t[o].dev \in registered
  /\ \E b \in Free(Released(o)) :
       /\ t' = [t EXCEPT ![o] = Fresh(b, t[o].dev, s)]
       /\ heap' = Allocated(Released(o), b, t[o].dev, s)
  /\ starved' = starved \ {o}
  /\ UNCHANGED regVars

(* The same where the allocation throws: the shape stays, over nothing.     *)
ResizeThrows(o, s) ==
  /\ ~ResizeNothing(o, s)
  /\ Resizable(o)
  /\ Bytes[s] > 0
  /\ Bytes[s] > t[o].cap \/ ~t[o].owns
  /\ t' = [t EXCEPT ![o].data = None, ![o].owns = FALSE, ![o].cap = 0]
  /\ heap' = Released(o)
  /\ starved' = starved \cup {o}
  /\ UNCHANGED regVars

TensorNext ==
  \/ \E o \in Objs : Destroy(o)
  \/ \E o \in Objs, s \in Shapes :
       \/ ResizeFits(o, s) \/ ResizeAllocates(o, s) \/ ResizeThrows(o, s)
       \/ \E th \in Threads : Create(th, o, s)
  \/ \E o, q \in Objs :
       \/ Copy(o, q) \/ Move(o, q)
       \/ \E d \in Devices : To(o, q, d)
       \/ \E s \in Shapes : View(o, q, s)

(* Backends are registered "before any op call" (dispatch.cpp).             *)
Next == \/ RegistryNext /\ UNCHANGED tensorVars
        \/ done /\ TensorNext

Spec == Init /\ [][Next]_vars

-----------------------------------------------------------------------------
(* Types of both halves.                                                    *)
TypeOK ==
  /\ RegistryTypeOK
  /\ t \in [Objs -> [data : Blocks \cup {None}, shape : Shapes, dev : registered,
                     owns : BOOLEAN, cap : Nat]]
  /\ heap \in [Blocks -> [dev : registered, size : Nat] \cup {None}]
  /\ starved \subseteq Objs

(* Every allocated block has exactly one owner, which knows its device and  *)
(* size: nothing leaks, is freed twice, or freed on another device.         *)
OwnedOnce ==
  /\ \A o \in Objs : t[o].owns =>
       t[o].data # None /\ heap[t[o].data] = [dev |-> t[o].dev, size |-> t[o].cap]
  /\ \A b \in Blocks : heap[b] # None =>
       \E o \in Objs : t[o].owns /\ t[o].data = b
  /\ \A o, q \in Objs : (t[o].owns /\ t[q].owns /\ t[o].data = t[q].data) => o = q

(* A shape is backed by its bytes; a shape over no storage is left only by  *)
(* a resize() that threw, and a later successful one repairs it.            *)
ShapeBacked ==
  \A o \in Objs :
    /\ t[o].owns => Bytes[t[o].shape] <= t[o].cap
    /\ t[o].data = None => Bytes[t[o].shape] = 0 \/ o \in starved

(* Whatever sequence of moves, copies, views, migrations, resizes and       *)
(* failed allocations a client makes, ownership and shapes stay sound.      *)
StorageSound == OwnedOnce /\ ShapeBacked
=============================================================================
