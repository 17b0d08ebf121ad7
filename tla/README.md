# A TLA+ verification project for brotensor

brotensor is a C++ tensor library with CPU, CUDA, Metal and Vulkan backends, a
tracing JIT, and readers for model files. This directory holds TLA+ models of
the parts of it that are hard to test, the TLC configurations that check them
on small instances, and TLAPS proofs of what matters most for every instance.

Paths below are relative to the repository (`src/vulkan/stream.cpp`);
`PROJECT.json` gives, for every definition that models code, the file and the
lines it stands for.

- [1. The system](#1-the-system)
- [2. Plan](#2-plan)
- [3. Modules](#3-modules)
- [4. Runs](#4-runs)
- [5. Fairness](#5-fairness)
- [6. Proofs](#6-proofs)
- [7. Findings](#7-findings)
- [8. What is left out](#8-what-is-left-out)
- [9. Running it](#9-running-it)

## 1. The system

| Component | State | Operations | What is hard | What makes it correct |
|---|---|---|---|---|
| **Vulkan command stream** `src/vulkan/stream.cpp` | one per device: `kSlots` command buffers, the open batch, serials (`next_serial_`, `submitted_`, `work_serial_`), a timeline semaphore, the capture being recorded | dispatch/copy/fill/update, flush, sync, wait, begin/end/abort capture, launch | many threads, one mutex, lock-free reads of serials; the GPU reorders what no barrier orders; waiting with the mutex held | executes like an in-order queue; no command buffer is touched while queued; events and waits mean what they say; waits end |
| **Vulkan events and graphs** `src/vulkan/graph.cpp` | an event's serial; a graph's command buffers, held allocations, last launch | record, query, wait; capture, finish, abandon, launch, destroy | three objects (stream, allocator, capture) changed in separate critical sections | a replay uses only memory that is still the graph's; what was held is freed once |
| **Vulkan allocator** `src/vulkan/allocator.cpp` | blocks, free ranges, live allocations, deferred blocks tagged with a serial, the hold list | alloc (with a drain-and-retry when out of memory), free, collect, trim | its mutex is not the stream's; a range is reused while its previous owner's commands are queued | no memory is destroyed while work uses it; nothing leaks or is freed twice |
| **Vulkan transfers** `src/vulkan/tensor.cpp` | none of its own | h2d, d2h, d2d, memset, sync, mem_trim | checks made before the action they guard | the host touches a mapping only when no queued command can |
| **Compiled-trace cache** `src/jit/trace_cache.cpp` | a fixed open-addressing table: per entry an atomic key, a plain `shared_ptr`, an atomic published pointer | lookup, insert, clear; used by `compile_and_cache` | lock-free; full table; wrapping probe runs; signature 0 | one entry per signature; never the wrong trace; no torn read; no published signature missed |
| **CPU thread pool** `src/cpu/thread_pool.cpp` | the current job, a cursor, a count of outstanding workers, a generation | run, worker loop, shutdown | atomics with wait/notify, job state shared without a lock, nested calls | each index once; no worker in a job that has returned; calls return |
| **Trace recording** `src/jit/trace_dag.cpp`, `trace_ops.cpp` | thread-local context, DAG of nodes, slots keyed on buffer addresses | record, store, materialise | in-place nodes, addresses reused during a trace | a replay computes what the eager ops would |
| **Trace compilation, autodiff** `src/jit/trace_compiler_*.cpp`, `trace_plan.cpp`, `trace_eager.cpp` | compiled kernels | plan, compile, rebind, execute | a kernel of two passes over buffers it updates; programs rebound to other storage | every executor leaves what the eager ops would |
| **Kernel disk cache** `src/jit/kernel_disk_cache.cpp` | files shared by processes | load, store, remove, load an image as a library | crashes between steps, several writers, equal process ids | a load sees a whole entry or none; what is removed is built again; requests end |
| **Tensor** `src/tensor.cpp` | pointer, shape, dtype, device, ownership, capacity | create, resize, move, view, to(device) | allocation failing midway | shape and storage agree |
| **Device registry, dispatch** `src/init.cpp`, `dispatch.cpp` | op tables per device, default device, scopes | init, set_default_device, default_device | one-time initialisation against explicit choices | an explicit choice is not undone |
| **Device-neutral graph capture** `src/graph.cpp` | forwards to CUDA or Vulkan | begin, end, launch | | as the backend |
| **Vulkan device, pipelines, custom kernels** `src/vulkan/instance.cpp`, `pipelines.cpp`, `custom.cpp` | lazily created objects under mutexes | get, create | creation races | created once |
| **Model file readers** `src/safetensors.cpp`, `gguf.cpp`, `json.h` | parsed headers | open, look up | bounds, overflow | accepted ranges lie in the file |
| **Numeric kernels; CUDA and Metal backends; JavaScript API** | none that outlives a call | | floating point, vendors' runtimes | compared with references by the repository's tests |

**How the parts interact.** An op on a Vulkan tensor is recorded by its thread on
the device's one stream. A transfer or `mem_trim` drains the stream and then
uses the mapping or the allocator. `Allocator::free` reads the stream's
`work_serial()` and `completed()` without the stream's lock and uses the former
to tag what the GPU may still use; `Stream::sync` and `wait` call back
`Allocator::collect`. A graph capture redirects the stream's recording into
segments and installs a hold list in the allocator, so that memory freed during
the recording stays with the graph. Independently, the JIT's
`compile_and_cache` looks traces up in the cache from any thread, and CPU
kernels run their loops on the thread pool. A trace is recorded by the operators
of `trace_ops.cpp` into a thread-local context, closed by `end_trace()`, planned
and compiled (with the emitted kernels kept in the disk cache), and executed on
the caller's buffers. Tensors are created on the device `default_device()` names.

`PROJECT.json` lists the hazards of this code one by one, at the line where each
bites, with the properties below that would catch it going wrong.

## 2. Plan

The stream carries every Vulkan op, so it comes first, then what depends on its
serials, then the two lock-free structures. Entries marked *done* are in this
directory.

1. *done* `VulkanStream`: the stream's operations as functions of its state;
   `VulkanQueue`: threads and a reordering GPU around it; `InOrderStream`: the
   abstract queue it implements; `VulkanStreamProofs`, `VulkanQueueProofs`.
2. *done* `VulkanAllocator` and `VulkanRuntime`: the composition of stream,
   allocator, transfers and graph objects; `VulkanRuntimeProofs`.
3. *done* `TraceCache`, `TraceCacheProofs`.
4. *done* `ThreadPool`, `ThreadPoolProofs`.
5. *done* `TraceDAG`, `TracePlan`, `TraceReplay`: recording, planning and
   executing a trace against eager execution of the same ops; `TraceDAGProofs`.
6. *done* `KernelDiskCache`: several processes that store, load and remove, with
   crashes; the scalar/vector pair of one trace; `KernelDiskCacheProofs`.
7. *done* `DeviceRegistry` and `Tensor`, which composes with it: `init` against
   `set_default_device`; ownership and resize with failing allocations;
   `TensorProofs`.
8. The allocator's free list: best fit, splitting, coalescing, as operators
   checked against "the free ranges are the complement of the live ones".
9. The transfers through a staging buffer, and the error paths of `launch`.
10. The header checks of the file readers, as operators over small inputs.
11. Gamma, beta and broadcasting in `TracePlan`; the gradient traces of
    `trace_autodiff.cpp`.
12. *done* Proofs of every safety property of the runs of `VulkanQueue`,
    `VulkanRuntime`, `TraceCache`, `ThreadPool`, `KernelDiskCache` and `Tensor`.
13. *done* Proofs: `ReplayExact`, `RebindExact` and `TypeOK` of `TraceReplay`. With
    them every safety property of every passing run is proved.

## 3. Modules

A definition keeps the name of the function or field it models where TLA+
allows it; properties carry their statement as a comment. Operators under a
comment that starts with "Mutant" are plausible bugs: each replaces the
definition that follows it to show that a property notices.

### VulkanStream

`Stream` as a record and its operations as functions from a record to the next:
every public operation takes `mu_`, so its body is one step. A command buffer
is the sequence of its entries (barrier, to_host barrier, command).
`open_locked`, `submit_locked`, `begin_capture`, `launch` and the rest
correspond to the functions of the same name, and `record_command` to
`before_command_locked` with the `vkCmd*` call. Operators that reach
`vkQueueSubmit` take its outcome as a parameter: as in the code, a slot is
tagged and closed before the submission that may throw. `StreamInv` is what all
operations keep true.

Two details are folded in. The wait inside `open_locked` happens with `mu_`
held, so nothing else can move the stream meanwhile and it is the enabling
condition `SlotReady` of the whole step. `capturing` stands for `capture_cb_`
and the atomic `capturing_`, which change together under `mu_`.
The `throw_if_capturing` inside `submit_locked`'s path from `wait` has no
counterpart: `OpenBatch` shows that a batch is never open during a capture.

### VulkanQueue

Threads that dispatch, flush, sync, record/query/await an event, capture, launch
and destroy a graph, on one stream. `sync` and `wait` release the mutex before
they wait and are several actions; `throw_if_capturing`, which `sync` calls
before it locks, is a step of its own. `Execute` lets the GPU run any queued
command that no barrier separates from an unfinished earlier one;
`GpuSignal` completes submissions in order. The rest are history variables:
`issued` and `captured`, the commands given to the device and to the capture in
the order of the calls; `ran`, those the GPU executed, in its order; `retired`,
how many commands the signalled submissions had; `visible`, how many results a
to_host barrier has made visible. When the driver refuses the open batch its
commands leave `issued` (`IssuedBefore`), and of a launch only the segments that
were accepted enter it (`CapturedIn`).

### InOrderStream

The abstract specification: commands are issued at the tail of a queue and run
in the order they were issued. A refused submission drops commands from the tail
that have not run (`Lose`).

### VulkanAllocator and VulkanRuntime

`VulkanAllocator` is the allocator's critical sections as functions of its
state: a request is either for a range of a pool block (`Cells`) or for a block
of its own; which free range is chosen, and which fully free blocks `trim`
keeps, is left open. `VulkanRuntime` composes it with `VulkanStream`: its
actions are the critical sections of `vk_alloc`/`vk_free`, `vk_sync`,
`vk_mem_trim`, `vk_h2d`, `vk_d2h`, and of the constructors, `finish`, `launch`
and destructors of `VulkanGraphCapture` and `VulkanGraph`. `work_serial()` is
read in a step before the lock of `free` (`FreeTag`), as in the code.
`completed()` and the lock after it are one step: a smaller value read earlier
only makes `collect` and `free` keep a block longer. The queue executes in
order, which is what `VulkanQueue` establishes.

The clients obey what the headers ask of them: a thread uses and frees its own
tensors, does not transfer a tensor a launch is about to use, and does not free
a graph's tensors before the graph, unless during its capture. What they do
*not* coordinate is the constant `Unguarded`. With `{}` other threads keep off
the device while one constructs or ends a capture, trims, or allocates with
memory exhausted; with `"capture"` or `"trim"` they do not. Syncs and transfers
are never kept off a capture: one that is under way when a capture begins or ends
(`InTransfer`) may have passed its test for a capture, and its update then lands
in the recording (section 7).

### TraceCache

`lookup` and `insert` one atomic access at a time, with `compile_and_cache` as
the client: look up, and on a miss compile, insert, and run what was compiled.
The acquire/release pairs on `published` and the acq_rel compare-exchange on
`key` order the plain `owner` between them; so sequentially consistent steps
suffice. The compiler may throw, which ends the call with the table as it was.
`known` is a history field: the signature was published when the
lookup began. `Clear` runs when no call is in progress, as its comment asks.
Of two threads that race on a signature `trace_cache.h` says that the loser
"uses the winner's" trace; `compile_and_cache` has the loser run its own. Either
is a trace of the signature, which is what `RightTrace` asks for.

### ThreadPool

`run`, `worker_loop` and `shutdown` one atomic access at a time. The check of
`std::atomic::wait` and going to sleep are one step, as the standard requires
of it; after that only a notification wakes the thread, to look again. The
notification is a separate step, and the last worker's can come after `run`
has returned. `fn_` is the number of
the job, `ran` counts the calls per index. Nested calls, on the caller or on a
worker, take the sequential branch when `t_active` is set and otherwise would
start a job of their own.

### TraceDAG, TracePlan, TraceReplay

`TraceDAG` is the recording. The client has buffers, tensors that are views of
them (a buffer may have views of several shapes), and variables for traced
results. An action is one statement of the client: `RecordOp` is `t = op(a, b)`
with the resolution of its operands, the node, and the move of the result over
what `t` held; `RecordStore`, `RecordInplaceTensor` and `RecordInplaceTemp` are
`store` and the updating operators; `MoveTemp` and `DropTemp` are what
`Tensor`'s moves and destructor tell the context through `slot_retarget`.
`act` and `inp` are `active_ptr_to_slot_` and `input_ptr_to_slot_`.

Beside the DAG the same program runs eagerly: `ref` and `tref` are what its
buffers and variables would hold. Values are terms over the contents the buffers
had at `begin_trace()`, so equal values mean the same computation whatever the
data and the ops.

`TracePlan` says what a closed DAG does to memory: `ElementwiseKernel`,
`RowNormKernel` (two passes, with the plan of `build_row_norm_plan` that accepts
or refuses it) and `Program`, the eager replay. A tensor is one value, because
every operand of a fused kernel is addressed alike and a thread reads and writes
one place in each buffer; a norm also depends on a statistic of its row, which
`Norm` keeps apart from the data so that a pass that reads changed data is seen.
`TraceReplay` adds `end_trace()`: liveness, storage for the results that are
still held, the executor, and the comparison with the eager values.

Each op has one operand ("map", "norm") or two ("add"), of one shape. Two cases
the properties name and exempt: `StaleRead`, an op that reads a buffer through a
view of another shape after the trace wrote it, and `StoreNotLive`, a `store()`
that the trace reads again (section 7).

### KernelDiskCache

Processes that share a cache directory, one file operation per step:
`emit_or_load_spirv` asks for the pair of kernels of a vectorised Vulkan trace or
for the one kernel of another, `compile_or_load_cpu_kernel` for one image that is
then written under `.rt`, loaded as a library and unlinked; if there is no image,
or it does not load, the in-memory code generator takes over, and may fail. A
process may be killed at any step; any create, write, rename or library load may
fail; in a power loss any entry may be torn or lost, since nothing is synced. `Pid` maps processes to process ids, and two
may have the same one, as in containers that share a volume.

`LoadOpen` takes the contents of the file as it is opened: entries are only ever
replaced by a rename, so an open file does not change under its reader. The
removal of a corrupt entry (`LoadCorrupt`, `LibraryFails`) names the path: it
takes whatever another process has put there meanwhile. `kept` is a history
variable: the entries that were stored, without those that a failed store, the
linker, the crash of a process that was about to store them, or a power loss has
left missing.

### DeviceRegistry and Tensor

`DeviceRegistry` is `init()`, `set_default_device()`, `default_device()` and
`DeviceScope`, one load or store of a shared atomic per step; a backend's probe
registers it or throws. `chosen`, `raced` and `inited` are history variables.
`Tensor` adds objects that own device memory: `AssignNew` is a factory or a copy
followed by the move assignment of its result, so the new storage exists before
the old is released; `resize()` releases first, and `ResizeThrows` is its
allocation failing after that. `starved` remembers the objects this happened to.

## 4. Runs

| Run | Instance | Shows |
|---|---|---|
| `vk_queue_safety` | 2 threads, 2 slots, batches of 2, 2 commands, 3 issued, 3 serials, captures of 2 | types, `StreamInvariant`, `SlotsExclusive`, `EventMeansDone`, `FreedBuffersNotQueued`, `WaitsDeliver`, and the refinement `ExecutesInOrder` |
| `vk_queue_live` | as above with 1 slot and 1 command | `SlotReusable`, `CallsReturn`, `PolledEventCompletes` |
| `vk_queue_refused` (violation) | one submission may be refused | `SlotReusable` fails: finding 1 |
| `vk_runtime_safety` | 2 threads, 2 blocks, 2 commands, 4 serials, `Unguarded = {}` | `PendingMemoryAlive`, `GraphMemoryHeld`, `HostAccessSafe`, `LiveAccounted` |
| `vk_runtime_capture_window` (violation) | `Unguarded = {"capture"}` | `GraphMemoryHeld` fails: finding 2 |
| `vk_runtime_trim_race` (violation) | `Unguarded = {"trim"}` | `PendingMemoryAlive` fails: finding 3 |
| `trace_cache` | 3 threads, 4 signatures (0 among them), 2 entries, 5 calls | `UniqueKeys`, `PublishedIsWritten`, `RightTrace`, `NoFalseMiss`, `WriteOnce` |
| `thread_pool` | 2 workers, jobs of up to 3 indices, 3 jobs, 2 shutdowns | `EachIndexOnce`, `JobStillRunning`, `CallsReturn` |
| `trace_replay` | 2 buffers, 3 tensors (one a second view of a buffer), 2 variables, ops reading 4 operands in all, fused and not | `TrackingExact`, `SlotsFaithful`, `ReplayExact`, `RebindExact` |
| `trace_row_norm` (violation) | as above, 3 operands | `RowNormExact` fails: finding 4 |
| `kernel_disk_cache` | 2 processes of the same id, 4 entries, crashes and power losses without bound | `UsedWhole`, `PublishedWhole`, `RemovedRebuilt`, `RequestsEnd` |
| `device_tensor` | 2 threads, 2 devices, 2 tensors, 3 blocks, shapes of 0, 1 and 2 bytes, scopes of depth 1, the environment naming the CPU | `InitComplete`, `ExplicitKept`, `StorageSound` |

**Why the bounds are enough.**
*Stream*: batches fill (2 commands), a batch closes by being full, by a flush,
by a sync, by an event and by a capture; with three serials on two slots a slot
comes round; captures fill a segment and begin another; two different commands
let `ExecutesInOrder` see a swap. One slot makes every batch wait for the last.
*Runtime*: two blocks are enough to have one pool block and one dedicated
block, to run out of memory, and to hand a freed range to the other thread.
One cell per pool block makes a block fully free as soon as its range is, the
case in which trim may take it.
*Cache*: more signatures than entries, so the table fills and probe runs wrap;
0 is among them; three threads can race on one signature while a third looks
it up. *Pool*: more indices than workers and fewer (1 index, 3 threads), two
consecutive jobs with a late notification of the first, `run` after `shutdown`.
*Trace*: four operands are a read, an in-place update, a store and a norm, or
a two-operand update between two reads; that is enough for every kind of node to
feed and to follow every other, for a buffer to be written twice, and for a
variable to be overwritten while its old node is still read. Two variables let
one be moved onto another. *Disk cache*: all steps of two requests interleave,
of the same kernels or of different ones, which is enough for one process to
remove what the other has just stored, and for either to find its image gone.
*Tensor*: two objects and three blocks let both own storage while a third is
allocated before one of them is released, and let a view share its owner's; a
second shape that fits in the first separates capacity from size. One backend beside the CPU may register or be absent, and the
environment names the device that would not be picked without it.

`Threads` are interchangeable and so are commands, blocks, objects and variables; the runs
that declare a symmetry check invariants and step properties only, never
liveness. `CHECK_DEADLOCK FALSE` is said where a bound on issued work or on calls makes
the system stop; in the remaining runs a state with nothing to do cannot be
reached, because some call is always open to a thread.

## 5. Fairness

`VulkanQueue`: the GPU executes and signals what was submitted (`WF(Execute)`,
`WF(GpuSignal)`), which the Vulkan specification demands of a timeline signal
that is queued; a thread inside a call is scheduled (`SyncSubmit`,
`SyncReturn`, `WaitReturn`, `FreeCommandBuffers`). Nothing makes a client call
anything: dispatch, flush and capture are not fair. `PolledEventCompletes`
is about a client that polls in a loop, so `PollingSpec` adds weak fairness of
`EventQuery`; the header promises that "polling an event always makes progress".
`ThreadPool`: the operating system schedules every thread and `fn` terminates.
`run` and `shutdown` need not be called.
`KernelDiskCache`: a running process is scheduled (`WF(Step(p))`). Which branch
it takes is not fair: every file operation and every library load may fail for
ever. Requests, crashes and power losses need not happen.

## 6. Proofs

Eight modules hold theorems. They are proved for every value of the constants;
the bounds of the runs appear in the specifications only as guards, and the
theorems hold whatever they are.

**VulkanStreamProofs, VulkanQueueProofs** (`StreamCorrect`,
`StreamInvariantHolds`, `SlotsExclusiveHolds`). That no command buffer is
recorded into or submitted again while queued (`SlotExclusive`) is not
inductive: it rests on the wait of `open_locked`, which compares the slot's tag
with the timeline. So one needs that the tag covers every queued submission of
the slot (`SlotTags`), that what is queued is above the timeline and in
increasing order (`SerialOrder`), and that an open batch is the next serial's
and its slot was ready (`OpenBatch`). `StreamInv` is their conjunction. One
lemma per operator of `VulkanStream` says that it keeps `StreamInv` and the
types; `VulkanQueueProofs` has one step per action, each an appeal to a
lemma. Refused submissions are included. Assumptions: `kSlots` and `batch_limit`
are positive, `Nobody` is not a thread.

The same induction gives `QueueTypes`. Three further parts of `VulkanQueueProofs`
rest on it.

*The order* (`StreamExecutesInOrder`: `Spec => ExecutesInOrder`, the refinement of
`InOrderStream`, refused submissions included). Command buffers are not flattened:
`OrderInv` has a function `b` that says how many commands were issued before each
queued submission. `QueueHolds` then says that the k-th submission holds the
issued commands from `b[k] + 1` to `b[k + 1]`, each behind a barrier of its own;
`Opened` that the open batch holds the rest; `RanTo` that what the GPU has executed
is exactly the first `Len(ran)`. So no command but the next one is free of
unfinished predecessors. `CaptureInv` says the same of the segments of a capture and
of a graph, all full but the last, which a launch turns into submissions.

*Events and waits* (`EventsMeanDone`, `CallsDeliver`). `PromiseInv` adds to
`OrderInv` what a serial was given out for: none of the marked commands is in a
later submission (`Marks`), and for `sync` one no later makes them visible to the
host (`Carried`). That needs the serials without gaps and a to_host barrier at the
end of the queue (`Tight`).

*Graph memory* (`FreedBuffers`). A queued segment of a graph has a serial no later
than `last_launch`, or its owner is inside the destructor, waiting for it
(`OwnerInv`, `ReplayInv`).

The last two carry the hypothesis `fails = 0`: they are about behaviours, or the
part of one, without a refused submission. It is needed; with one refusal TLC finds
each of the three properties violated. A refused batch has not advanced
`next_serial_`, so a later launch takes and signals the serial an event was
recorded with; a `wait` for the serial of lost work finds nothing submitted or
open under it and returns; and a launch that is refused after its first segments throws
before `last_launch` is set, so the destructor frees command buffers that are queued.

**VulkanRuntimeProofs**, for any number of threads, blocks, ranges, slots and
commands. `Covered(s, A, n)`, every command on the memory `A` has a serial of at most
`n`, is the notion the stream, the allocator and the calls share; one lemma per
stream operation says what it does to it. `RuntimeTypes`, `NothingLeaks` and
`HostAccess` assume nothing of the clients beyond what the headers ask.
`NothingLeaks` needs that the recording, the graph and the threads (with what they
are in the middle of freeing) partition the live addresses, and that a block is
deferred once (`AccountInv`, `BlocksOK`), which in turn needs whose capture and
graph it is at each point of a call (`ControlInv`). `HostAccess` needs that a
transfer waits for a serial that covers its tensor (`HostInv`); that another thread
cannot record on it meanwhile is `NothingLeaks`' separation of owners.

`ReplayMemoryHeld` assumes `"capture" \notin Unguarded`, and
`PendingMemory` assumes `"trim" \notin Unguarded` as well. These are the clients'
coordination of section 3; findings 2 and 3 are the runs in which each is dropped
and the property fails, so the assumptions are needed. `WindowInv` is their
consequence: while a thread is in a window all others are between calls, or beside
a capture in a sync or a transfer, which frees nothing.
`CaptureInv` says that frees are held for as long as the capture records, so what
was recorded stays live; `PendingInv` that the tag of a deferred block, of a free
that has read it but not locked yet, and the serial a trim waits for all cover the
memory they are about to give back.

**TraceCacheProofs** (`CacheTypes`, `UniqueKeysHolds`, `PublishedIsWrittenHolds`,
`RightTraceHolds`, `NoFalseMissHolds`, `WriteOnceHolds`), for any number of
threads and any capacity. The core is that the claimed entries can be reached:
every entry of a signature is at the end of a probe run that meets only other
signatures (`KeysReachable`), and a thread that is probing has met only those
(`ProbesReached`). Two entries of one signature would each be on the other's
probe run; a lookup that meets an empty entry cannot have passed its own. That
an entry being written has one writer and is unpublished (`OneWriter`) gives
the rest.

**ThreadPoolProofs** (`PoolCorrect`, `PoolTypes`, `EachIndexOnceHolds`,
`JobStillRunningHolds`), for any finite number of workers and any job size.
`Counted` says that `outstanding_` is the number of workers that have not
counted down for the published generation, so that `run` returns only when none
is left in the job; `Progress` and `InHand` say that an index below `cursor_`
has been run once or is in exactly one thread's hands. Cardinalities come from
`FiniteSetTheorems`.

**TraceDAGProofs** (`RecordingCorrect`, `TrackingExactHolds`,
`SlotsFaithfulHolds`), for any buffers, views, variables and length of a trace.
`RecInv` has, beside the types, five parts. `Wf`: operands precede their node, the entries of the
two address maps are nodes of that buffer. `Counted`: a trace has at most two
nodes per operand read, so a new node's slot is free. `Tracked`: exact tracking,
which with `Counted` survives a new result. `Sourced`: a buffer no node of the
trace has written still holds what it held at the beginning, which is what an
input node stands for. `Faithful`: without a stale read the address map and the
variables compute the eager values. It rests on `Fits`: the slot resolved
for an operand computes its eager value, or it is an input whose buffer the
trace has written, and then the node that reads it is a stale read. So each
action either keeps every name faithful or makes the premise false.
Assumptions: tensors are pairs of a buffer and a shape, variables are not
tensors, contents are sequences of names.

The second half of the module is about `end_trace()` (`EagerRunExists`,
`ReplayTypes`, `ReplayExactHolds`, `RebindExactHolds`), again for any client
program and any number of nodes, and argues as follows.

*The run.* `ref` and `tref` keep only the results of the eager ops, and the eager
program must be compared with all of their intermediate states. So `ExecInv` says
that a run exists: `M[i]`, what the buffers hold after node `i`, and `X[i]`, what
node `i` computes from the contents of its operands when its turn comes, ending in
`ref` and `tref`. Each recording action extends the run by a node. `ExecInv` also
has how ops fill the fields of a node (`Shaped`), that an update reads the latest
writer of its buffer unless through an input (`Updates`), and that without a stale
read the last writer of a buffer computes its eager value (`Written`).

*The recursive functions* `Chain`, `Program` and `InPre` are `CHOOSE`s of a function
that satisfies its equation. A solution is exhibited (for `Program` the run itself,
for `Chain` the terms of the nodes, for `InPre` the least set closed under
operands), and any two agree, since the least node at which they differ would have
operands at which they do not. No induction over data is needed, only that a
nonempty set of naturals has a least element, which is cited from
`WellFoundedInduction`.

*The eager program* follows the run step by step (`ProgramSteps`): homes and scratch
tensors hold `X`, the buffers hold `M`. So it is exact even with a stale read or a
store that is not live. The rebound program does the same on other storage
(`MovedStep`).

*The fused kernels* store the terms of the live nodes (`StoreEager`). The row norm
does so in two passes, and that these amount to one (`StoreTwice`) has three parts:
pass two finds `x` as pass one computed it, because `x` is the last node of the pre
chain and so the last to be stored in its buffer (`ReloadedX`); the post chain reads
only `x`, the norm, itself and inputs no pre output has overwritten (`PostVals`); and
whatever pass two stores in a buffer comes later in the trace than what pass one
stored there (`PassOrder`). The last holds because a node of the pre chain that
writes a buffer is read by another, so it is no live store but an update, and updates
of one buffer form a chain: a writer outside of the pre chain cannot stand between
two inside it (`FeedingFirst`). The code checks none of this; it relies on it.

*The rest.* `RestInv` adds that storage is untouched while a trace is recorded and
that an idle context is empty, which with the two invariants above gives `TypeOK`.
Two further assumptions, which the values TLC uses satisfy: the storage
`end_trace()` allocates is none of the client's (`HomeAssumption`), and that of a
later trace none of the first's (`OtherAssumption`).

**KernelDiskCacheProofs** (`CacheCorrect`, `TypeOKHolds`, `UsedWholeHolds`,
`PublishedWholeHolds`, `RemovedRebuiltHolds`), for any number of processes and any
assignment of process ids. `UsedWhole` needs what each point of a request has in
hand: the kernel already loaded while the second of a pair is looked up, whole
contents in what is about to be renamed, and images under `.rt` that are whole
or absent, which is where equal process ids matter. `RemovedRebuilt` is
inductive with the types: both removals lead straight to the build, the build to
the stores, and of a pair the second store follows the first.

**TensorProofs** (`RegistryCorrect`, `InitCompleteHolds`, `ExplicitKeptHolds`,
`StorageSoundHolds`, `TensorTypes`), for any threads, backends, objects, blocks and
shapes.
For the registry the invariant says who holds the mutex at which step, that
`done` implies all probes and the flag, and that outside the raced window the
default is the chosen device and no thread is about to store another. `OwnedOnce`
and `ShapeBacked` are inductive as they stand, together with the types.
`TensorTypes` says more than types: no tensor, block, scope or default is on a
device whose backend is not registered.

**Only model-checked**: liveness (`SlotReusable`, `CallsReturn`,
`PolledEventCompletes`, `RequestsEnd`), which the prover does not do.

## 7. Findings

1. **A refused submission blocks its slot.** `submit_locked` tags and closes the
   slot before `vkQueueSubmit`. If that throws, the next command selects the
   same slot and `open_locked` waits, with the mutex held and without a timeout,
   for a serial nobody will signal.
2. **The capture window.** A capture starts recording before the hold list is
   installed, and removes the list before it stops recording. Another
   thread's op and free in between leave the graph with memory it does not hold.
3. **Trim after sync.** `vk_mem_trim` and the out-of-memory retry of `alloc`
   drain the stream and trim in separate critical sections; an op recorded and
   its range freed in between lose their block.
4. **A row norm reloads an input it has overwritten.** `build_row_norm_plan`
   checks that the post chain needs no value of the pre chain but `x`, and skips
   operands that are inputs. If an in-place op of the pre chain updates such an
   input, pass one stores the update and pass two reads it back where the ops
   meant the old value: in `t = x*2; x += p; r = rms_norm(x)`, `t` is computed
   from the updated `x`.

`ReplayExact`, `RebindExact` and `ExplicitKept` exempt, by name, three more
cases in which the code differs from the plainest reading. A `store()`
into a buffer the trace reads afterwards has a consumer, so `analyze_liveness`
does not count it as live and no fused kernel writes the buffer; a rebound
program still writes it to the first trace's buffer (`StoreNotLive`). A buffer
read through a view of another shape after the trace wrote it is read as it was
before the trace by the fused kernels (`StaleRead`). `set_default_device()`
between the test and the store of `init()` is undone (`raced`). The
repository's tests reach none of them: the trace tests store last, use one
view per buffer, and choose a device after `init()`.

No property says that an upload beside a capture throws or is carried out, as
`vulkan.h` has it ("sync(), downloads and uploads of the capturing device throw"):
`vk_memcpy_h2d` tests for a capture first and updates later, so a capture that
begins in between records the update, which then reaches the device with each
launch and not before. `vk_runtime_safety` has these interleavings, and shows that
the memory stays with the graph and host accesses stay safe.

## 8. What is left out

- `StreamStats` and the stream's destructor. Errors of Vulkan calls other than
  `vkQueueSubmit`.
- Several events or graphs at once: their states are independent of each other,
  the stream and allocator they share are modelled.
- In `VulkanRuntime`: staging buffers, d2d copies, memset, `mem_info`; sizes and
  fragmentation (plan, 8 and 9); refused submissions.
- In `ThreadPool`: several calling threads, which the header excludes, and
  callbacks that throw. `run` with `n = 0` returns before it touches the pool.
- In the trace modules: gamma and beta, broadcasting, ops of three operands,
  dtypes and casts (a cast is a copy), the lowering of extended ops, the
  hand-written CPU patterns, differentiation, results of zero elements and
  allocation failure in `materialize_`, and shape errors, which the model
  excludes by `Legal`. Which of the fused kernels a backend has is left open
  (`fused`).
- In `KernelDiskCache`: the switch that disables the cache, the directory
  override and the counters; a SPIR-V entry that passes the checksum and does not
  decode counts as invalid; files orphaned by a crash are never looked at and
  forgotten.
- In `DeviceRegistry`: device indexes, aliases (a CUDA device resolved to
  another GPU), and memory orders weaker than sequential consistency: `init()`'s
  two relaxed stores may be seen in the other order, which gives a concurrent
  reader the CPU. The two loads of `default_device()` are one step.
- In `Tensor`: contents, and operations before `init()` has returned; a view
  that outlives its owner is the client's mistake and is not followed.

### Not modelled

Plan items 8 to 11 are open. The rest of the repository is out of reach of a
model checker for reasons that will not change: about nineteen lines in twenty
are numeric kernels (CPU, CUDA, Metal, Vulkan shaders), the wrappers that check
their arguments and launch them, and instruction emitters. They keep no state
between calls, so there is no protocol to check; what they compute is floating
point, which the repository compares with reference implementations in its
tests. The share of the source lines these modules stand for is small for that
reason; of the stateful and concurrent code the modules cover most.
The vendors' runtimes and the JavaScript binding's host are outside the
repository.

## 9. Running it

```
tlc -config VulkanQueueSafety.cfg MCVulkanQueue
tlc -config ThreadPool.cfg ThreadPool
tlc -config TraceReplay.cfg MCTraceReplay
tlapm ThreadPoolProofs.tla
```

The `runs` of `PROJECT.json` name the module and the configuration of each run.
