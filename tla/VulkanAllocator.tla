--------------------------- MODULE VulkanAllocator ---------------------------
(***************************************************************************)
(* The Vulkan backend's allocator (src/vulkan/allocator.cpp), as pure      *)
(* operators on an allocator state m.  Each stands for a critical section  *)
(* of its mutex mu_, with the destruction of the blocks it gives up.       *)
(*                                                                         *)
(* Sizes are abstracted to two kinds of request: one that fits a pool      *)
(* block, which is divided into Cells, and one that gets a dedicated       *)
(* block.  The device has memory for Cardinality(Blocks) blocks; a request *)
(* that needs one more is out of memory.  Which free range best fit picks  *)
(* is left open.                                                           *)
(***************************************************************************)
EXTENDS Naturals, FiniteSets

CONSTANTS
    Blocks,     \* the device memory blocks that can exist
    Cells       \* the ranges of a pool block

ASSUME CellsAssumption == 1 \in Cells
ASSUME BlocksAssumption == IsFiniteSet(Blocks)

Addresses == Blocks \X Cells

Kinds == {"pool", "dedicated"}

(***************************************************************************)
(* blocks[b] is "none" (the driver has it), a kind (blocks_ has it), or    *)
(* "deferred" (freed, waiting in deferred_ for the GPU).  live is live_.   *)
(***************************************************************************)
InitAllocator ==
    [ blocks   |-> [b \in Blocks |-> "none"],
      live     |-> {},
      deferred |-> {} ]

Alive(m, b) == m.blocks[b] # "none"

LiveIn(m, b) == {a \in m.live : a[1] = b}

\* Blocks the driver may still give: vkAllocateMemory succeeds for one of these.
Creatable(m) == {b \in Blocks : m.blocks[b] = "none"}

(***************************************************************************)
(* The addresses alloc_locked may return: a free range of a pool block, or *)
(* the start of a new block.  None: VK_ERROR_OUT_OF_DEVICE_MEMORY.         *)
(***************************************************************************)
FreeRanges(m) == {a \in Addresses : m.blocks[a[1]] = "pool"} \ m.live

Places(m, kind) ==
    IF kind = "pool" /\ FreeRanges(m) # {} THEN FreeRanges(m)
    ELSE IF kind = "pool" THEN Creatable(m) \X Cells
    ELSE Creatable(m) \X {1}

alloc_locked(m, kind, a) ==
    [m EXCEPT !.blocks[a[1]] = kind, !.live = @ \cup {a}]

\* Mutant: a dedicated block is destroyed without waiting for the GPU.
free_at_once(m, a, tag, completed) ==
    LET freed == [m EXCEPT !.live = @ \ {a}]
    IN  IF m.blocks[a[1]] = "pool" THEN freed ELSE [freed EXCEPT !.blocks[a[1]] = "none"]

\* Allocator::free under the lock, when no capture holds frees: a range goes straight back
\* to its pool block; a dedicated block is destroyed, or deferred until tag completes.
free_locked(m, a, tag, completed) ==
    LET freed == [m EXCEPT !.live = @ \ {a}]
    IN  IF m.blocks[a[1]] = "pool" THEN freed
        ELSE IF completed >= tag THEN [freed EXCEPT !.blocks[a[1]] = "none"]
        ELSE [freed EXCEPT !.blocks[a[1]] = "deferred",
                           !.deferred = @ \cup {[serial |-> tag, block |-> a[1]]}]

\* Destroy the deferred blocks whose work has completed.
collect(m, completed) ==
    LET done == {d \in m.deferred : d.serial <= completed}
    IN  [m EXCEPT !.deferred = @ \ done,
                  !.blocks = [b \in Blocks |-> IF \E d \in done : d.block = b
                                               THEN "none" ELSE m.blocks[b]]]

\* Fully free pool blocks; trim gives back all but keep of them.
EmptyPools(m) == {b \in Blocks : m.blocks[b] = "pool" /\ LiveIn(m, b) = {}}

TrimChoices(m, keep) ==
    {v \in SUBSET EmptyPools(m) : \/ Cardinality(EmptyPools(m)) - Cardinality(v) = keep
                                  \/ v = {} /\ Cardinality(EmptyPools(m)) < keep}

trim(m, victims) ==
    [m EXCEPT !.blocks = [b \in Blocks |-> IF b \in victims THEN "none" ELSE m.blocks[b]]]

AllocatorType ==
    [ blocks   : [Blocks -> Kinds \cup {"none", "deferred"}],
      live     : SUBSET Addresses,
      deferred : SUBSET [serial : Nat, block : Blocks] ]
=============================================================================
