---------------------------- MODULE VulkanRuntime ----------------------------
(***************************************************************************)
(* A Vulkan device as its clients use it: threads that allocate, free,     *)
(* compute, transfer, trim, capture and replay (src/vulkan/tensor.cpp,     *)
(* allocator.cpp and graph.cpp), over the command stream and the           *)
(* allocator.  The two have separate mutexes and read each other's atomics *)
(* without them: work_serial() before Allocator::free locks, completed(),  *)
(* capturing().  Each critical section is one action.                      *)
(*                                                                         *)
(* Clients obey what the headers ask: a thread uses and frees only its own *)
(* tensors, a graph is not launched amid a transfer of a tensor it uses,   *)
(* and that tensor is not freed before the graph unless during its         *)
(* capture.  Unguarded says what they do NOT coordinate:                   *)
(*   "capture"  other threads use the device while one is inside the       *)
(*              constructor, finish() or destructor of a capture (syncs    *)
(*              and transfers that are under way overlap it in any case);  *)
(*   "trim"     other threads use the device while one trims it, or        *)
(*              allocates when memory has run out.                         *)
(* The GPU is taken as VulkanQueue shows it: an in-order queue.            *)
(***************************************************************************)
EXTENDS VulkanStream, VulkanAllocator

CONSTANTS
    Threads,
    Nobody,          \* no thread
    Unguarded,       \* subset of {"capture", "trim"}
    MaxCommands,     \* bound: commands recorded
    MaxSerial        \* bound: serials taken

ASSUME ThreadsAssumption == Nobody \notin Threads
ASSUME UnguardedAssumption == Unguarded \subseteq {"capture", "trim"}
ASSUME BoundsAssumption == {MaxCommands, MaxSerial} \subseteq Nat

VARIABLES
    st,         \* the stream
    mem,        \* the allocator
    hold,       \* whose capture's list hold_ points to, or Nobody
    held,       \* the addresses on that list
    capturer,   \* the thread with an active VulkanGraphCapture
    graph,      \* the VulkanGraph
    own,        \* per thread: the addresses of its tensors
    op,         \* per thread: the call it is inside of
    commands    \* commands recorded so far

vars == <<st, mem, hold, held, capturer, graph, own, op, commands>>

NoAddress == <<"none", 0>>
NoGraph == [owner |-> Nobody, cbs |-> << >>, held |-> {}, last_launch |-> 0]

(***************************************************************************)
(* A call in progress: where it is, what a sync inside it returns to, the  *)
(* serial it waits for or tags with, the address it is about, the          *)
(* addresses it has yet to free, the kind of allocation it retries.        *)
(***************************************************************************)
Idle == [pc |-> "idle", then |-> "idle", serial |-> 0, addr |-> NoAddress,
         todo |-> {}, kind |-> "pool"]

Init ==
    /\ st = InitStream
    /\ mem = InitAllocator
    /\ hold = Nobody
    /\ held = {}
    /\ capturer = Nobody
    /\ graph = NoGraph
    /\ own = [t \in Threads |-> {}]
    /\ op = [t \in Threads |-> Idle]
    /\ commands = 0

-----------------------------------------------------------------------------
(***************************************************************************)
(* Calls, and the coordination of the clients.                             *)
(***************************************************************************)
CapturePoints == {"cap_begin", "cap_hold", "finish", "abort"}

Trimming(u) == {op[u].pc, op[u].then} \cap {"trim", "reclaim"} # {}

InWindow(u) ==
    \/ op[u].pc \in CapturePoints /\ "capture" \notin Unguarded
    \/ Trimming(u) /\ "trim" \notin Unguarded

\* t starts a call.
Start(t) == op[t].pc = "idle" /\ ~ \E u \in Threads : InWindow(u)

\* u is inside a sync or a transfer.  It may have passed throw_if_capturing or
\* require_not_capturing when another thread's capture begins, or ends.
InTransfer(u) ==
    op[u].pc \in {"sync", "sync_submit", "sync_wait", "h2d", "h2d_busy", "host"} /\ ~Trimming(u)

\* t starts one that other threads keep clear of, unless it is Unguarded.
StartAlone(t, what) ==
    /\ Start(t)
    /\ what \notin Unguarded =>
          \A u \in Threads \ {t} : op[u].pc = "idle" \/ (what = "capture" /\ InTransfer(u))

Goto(t, fields) == op' = [op EXCEPT ![t] = fields]

Return(t) == Goto(t, Idle)

-----------------------------------------------------------------------------
(***************************************************************************)
(* Ops.  An op, or the inline update of an upload, is recorded with the    *)
(* address it works on.                                                    *)
(***************************************************************************)
Op(a) == [addr |-> a]
DeviceCommands == [addr : Addresses]

Record(c) ==
    /\ commands < MaxCommands
    /\ st.next_serial < MaxSerial
    /\ SlotReady(st)
    /\ st' = dispatch(st, c, TRUE)
    /\ commands' = commands + 1

Compute(t, a) ==
    /\ Start(t)
    /\ a \in own[t]
    /\ Record(Op(a))
    /\ UNCHANGED <<mem, hold, held, capturer, graph, own, op>>

-----------------------------------------------------------------------------
(***************************************************************************)
(* Allocation.  The out-of-memory path is taken when a capture is not      *)
(* recording: sync, collect, trim(0) and one retry.                        *)
(***************************************************************************)
Reclaimed == IF mem.deferred = {} THEN mem ELSE collect(mem, st.timeline)

Take(t, m, kind, a) ==
    /\ mem' = alloc_locked(m, kind, a)
    /\ own' = [own EXCEPT ![t] = @ \cup {a}]
    /\ Return(t)
    /\ UNCHANGED <<st, hold, held, capturer, graph, commands>>

Alloc(t, kind) ==
    /\ Start(t)
    /\ \E a \in Places(Reclaimed, kind) : Take(t, Reclaimed, kind, a)

\* Every place is taken, and a deferred block that collect gave back would be one: drain,
\* trim and retry.
AllocOutOfMemory(t, kind) ==
    /\ StartAlone(t, "trim")
    /\ Places(Reclaimed, kind) = {}
    /\ ~st.capturing                        \* otherwise it throws
    /\ Goto(t, [Idle EXCEPT !.pc = "sync", !.then = "reclaim", !.kind = kind])
    /\ UNCHANGED <<st, mem, hold, held, capturer, graph, own, commands>>

\* The second alloc_locked; when it fails too, alloc throws.
AllocRetry(t) ==
    /\ op[t].pc = "retry"
    /\ \/ \E a \in Places(mem, op[t].kind) : Take(t, mem, op[t].kind, a)
       \/ /\ Places(mem, op[t].kind) = {}
          /\ Return(t)
          /\ UNCHANGED <<st, mem, hold, held, capturer, graph, own, commands>>

-----------------------------------------------------------------------------
(***************************************************************************)
(* Freeing: read work_serial without a lock, then lock.  While a capture   *)
(* holds frees the address goes on its list.                               *)
(***************************************************************************)
CommandsIn(cb) == {cb[i].arg : i \in {j \in DOMAIN cb : IsCommand(cb[j])}}

Uses(cb) == {c.addr : c \in CommandsIn(cb)}

GraphUses == UNION {Uses(graph.cbs[k]) : k \in DOMAIN graph.cbs}

Free(t, a) ==
    /\ Start(t)
    /\ a \in own[t] \ GraphUses
    /\ own' = [own EXCEPT ![t] = @ \ {a}]
    /\ Goto(t, [Idle EXCEPT !.pc = "free", !.todo = {a}])
    /\ UNCHANGED <<st, mem, hold, held, capturer, graph, commands>>

FreeTag(t) ==
    /\ op[t].pc = "free"
    /\ \E a \in op[t].todo :
          Goto(t, [op[t] EXCEPT !.pc = "free_locked", !.serial = st.work_serial,
                                !.addr = a, !.todo = @ \ {a}])
    /\ UNCHANGED <<st, mem, hold, held, capturer, graph, own, commands>>

FreeLocked(t) ==
    /\ op[t].pc = "free_locked"
    /\ IF hold # Nobody
       THEN held' = held \cup {op[t].addr} /\ UNCHANGED mem
       ELSE mem' = free_locked(mem, op[t].addr, op[t].serial, st.timeline) /\ UNCHANGED held
    /\ IF op[t].todo = {} THEN Return(t) ELSE Goto(t, [Idle EXCEPT !.pc = "free", !.todo = op[t].todo])
    /\ UNCHANGED <<st, hold, capturer, graph, own, commands>>

-----------------------------------------------------------------------------
(***************************************************************************)
(* Stream::sync, called by itself, by a transfer, by mem_trim and by alloc.*)
(***************************************************************************)
Sync(t) ==
    /\ Start(t)
    /\ Goto(t, [Idle EXCEPT !.pc = "sync"])
    /\ UNCHANGED <<st, mem, hold, held, capturer, graph, own, commands>>

\* throw_if_capturing: the whole call fails.
SyncThrows(t) ==
    /\ op[t].pc = "sync"
    /\ st.capturing
    /\ Return(t)
    /\ UNCHANGED <<st, mem, hold, held, capturer, graph, own, commands>>

SyncCheck(t) ==
    /\ op[t].pc = "sync"
    /\ ~st.capturing
    /\ Goto(t, [op[t] EXCEPT !.pc = "sync_submit"])
    /\ UNCHANGED <<st, mem, hold, held, capturer, graph, own, commands>>

SyncSubmit(t) ==
    /\ op[t].pc = "sync_submit"
    /\ st' = submit_locked(st, TRUE)
    /\ Goto(t, [op[t] EXCEPT !.pc = "sync_wait", !.serial = st'.submitted])
    /\ UNCHANGED <<mem, hold, held, capturer, graph, own, commands>>

SyncReturn(t) ==
    /\ op[t].pc = "sync_wait"
    /\ st.timeline >= op[t].serial
    /\ mem' = collect(mem, st.timeline)
    /\ IF op[t].then = "idle" THEN Return(t)
       ELSE Goto(t, [op[t] EXCEPT !.pc = op[t].then, !.then = "idle", !.serial = 0])
    /\ UNCHANGED <<st, hold, held, capturer, graph, own, commands>>

-----------------------------------------------------------------------------
(***************************************************************************)
(* mem_trim: sync, collect, trim.  Allocation's retry trims everything.    *)
(***************************************************************************)
MemTrim(t) ==
    /\ StartAlone(t, "trim")
    /\ ~st.capturing                        \* otherwise it returns false
    /\ Goto(t, [Idle EXCEPT !.pc = "sync", !.then = "trim"])
    /\ UNCHANGED <<st, mem, hold, held, capturer, graph, own, commands>>

Trim(t) ==
    /\ op[t].pc = "trim"
    /\ \E keep \in 0 .. Cardinality(Blocks) :
          LET m == collect(mem, st.timeline)
          IN  \E victims \in TrimChoices(m, keep) : mem' = trim(m, victims)
    /\ Return(t)
    /\ UNCHANGED <<st, hold, held, capturer, graph, own, commands>>

Reclaim(t) ==
    /\ op[t].pc = "reclaim"
    /\ LET m == collect(mem, st.timeline) IN mem' = trim(m, EmptyPools(m))
    /\ Goto(t, [op[t] EXCEPT !.pc = "retry"])
    /\ UNCHANGED <<st, hold, held, capturer, graph, own, commands>>

-----------------------------------------------------------------------------
(***************************************************************************)
(* Transfers whose memory the host can map: h2d writes when the stream is  *)
(* idle, else records an inline update (small) or syncs and writes; d2h    *)
(* syncs and reads.  The staging paths are not modelled here.              *)
(***************************************************************************)
Transfer(t, a, pc) ==
    /\ Start(t)
    /\ a \in own[t]
    /\ ~st.capturing                        \* require_not_capturing
    /\ Goto(t, [Idle EXCEPT !.pc = pc, !.addr = a, !.then = "host"])
    /\ UNCHANGED <<st, mem, hold, held, capturer, graph, own, commands>>

H2D(t, a) == Transfer(t, a, "h2d")

D2H(t, a) == Transfer(t, a, "sync")

UploadIdle(t) ==
    /\ op[t].pc = "h2d"
    /\ Goto(t, IF idle(st) THEN [op[t] EXCEPT !.pc = "host", !.then = "idle"]
                           ELSE [op[t] EXCEPT !.pc = "h2d_busy"])
    /\ UNCHANGED <<st, mem, hold, held, capturer, graph, own, commands>>

UploadInline(t) ==
    /\ op[t].pc = "h2d_busy"
    /\ Record(Op(op[t].addr))
    /\ Return(t)
    /\ UNCHANGED <<mem, hold, held, capturer, graph, own>>

UploadAfterSync(t) ==
    /\ op[t].pc = "h2d_busy"
    /\ Goto(t, [op[t] EXCEPT !.pc = "sync"])
    /\ UNCHANGED <<st, mem, hold, held, capturer, graph, own, commands>>

\* The memcpy through the mapping ends.
HostDone(t) ==
    /\ op[t].pc = "host"
    /\ Return(t)
    /\ UNCHANGED <<st, mem, hold, held, capturer, graph, own, commands>>

-----------------------------------------------------------------------------
(***************************************************************************)
(* VulkanGraphCapture and VulkanGraph.  (Bound: one graph, and             *)
(* one capture that may be recording while the graph still exists.)        *)
(***************************************************************************)

\* The constructor finds no hold list installed, ...
CaptureCheck(t) ==
    /\ StartAlone(t, "capture")
    /\ capturer = Nobody
    /\ hold = Nobody                        \* otherwise it throws
    /\ Goto(t, [Idle EXCEPT !.pc = "cap_begin"])
    /\ UNCHANGED <<st, mem, hold, held, capturer, graph, own, commands>>

\* ... begins the stream's capture (which throws if one is recording), ...
CaptureBegin(t) ==
    /\ op[t].pc = "cap_begin"
    /\ IF st.capturing THEN Return(t) /\ UNCHANGED <<st, capturer>>
       ELSE /\ st' = begin_capture(st, TRUE)
            /\ capturer' = t
            /\ Goto(t, [Idle EXCEPT !.pc = "cap_hold"])
    /\ UNCHANGED <<mem, hold, held, graph, own, commands>>

\* Mutant: the constructor installs no hold list.
CaptureUnheld(t) ==
    /\ op[t].pc = "cap_hold"
    /\ Return(t)
    /\ UNCHANGED <<st, mem, hold, held, capturer, graph, own, commands>>

\* ... and has frees held.
CaptureHold(t) ==
    /\ op[t].pc = "cap_hold"
    /\ hold' = t
    /\ Return(t)
    /\ UNCHANGED <<st, mem, held, capturer, graph, own, commands>>

\* finish() and the destructor of an unfinished capture first stop holding frees, ...
EndHold(t, pc) ==
    /\ StartAlone(t, "capture")
    /\ capturer = t
    /\ hold' = Nobody
    /\ Goto(t, [Idle EXCEPT !.pc = pc])
    /\ UNCHANGED <<st, mem, held, capturer, graph, own, commands>>

Finish(t) == graph = NoGraph /\ EndHold(t, "finish")

Abort(t) == EndHold(t, "abort")

\* ... then end the stream's capture; what was held becomes the graph's, ...
FinishCapture(t) ==
    /\ op[t].pc = "finish"
    /\ graph' = [owner |-> t, cbs |-> captured_segments(st), held |-> held, last_launch |-> 0]
    /\ st' = end_capture(st)
    /\ held' = {}
    /\ capturer' = Nobody
    /\ Return(t)
    /\ UNCHANGED <<mem, hold, own, commands>>

\* Free the addresses one after the other.
FreeAll(t, addrs) ==
    IF addrs = {} THEN Return(t) ELSE Goto(t, [Idle EXCEPT !.pc = "free", !.todo = addrs])

\* Mutant: an abandoned capture forgets what it held.
AbortForgetting(t) ==
    /\ op[t].pc = "abort"
    /\ st' = abort_capture(st)
    /\ held' = {}
    /\ capturer' = Nobody
    /\ Return(t)
    /\ UNCHANGED <<mem, hold, graph, own, commands>>

\* ... or is freed.
AbortCapture(t) ==
    /\ op[t].pc = "abort"
    /\ st' = abort_capture(st)
    /\ held' = {}
    /\ capturer' = Nobody
    /\ FreeAll(t, held)
    /\ UNCHANGED <<mem, hold, graph, own, commands>>

Launch(t) ==
    /\ Start(t)
    /\ graph.owner = t
    /\ \A u \in Threads : op[u].addr \notin GraphUses     \* no transfer races the launch
    /\ ~st.capturing                        \* otherwise it throws
    /\ st.next_serial + Len(graph.cbs) < MaxSerial
    /\ st' = launch(st, graph.cbs, TRUE, Len(graph.cbs))
    /\ graph' = [graph EXCEPT !.last_launch = launch_serial(st, graph.cbs)]
    /\ UNCHANGED <<mem, hold, held, capturer, own, op, commands>>

\* ~VulkanGraph: wait for the last launch (always submitted by then), ...
DestroyGraph(t) ==
    /\ Start(t)
    /\ graph.owner = t
    /\ Goto(t, [Idle EXCEPT !.pc = "destroy", !.serial = graph.last_launch])
    /\ UNCHANGED <<st, mem, hold, held, capturer, graph, own, commands>>

\* ... free its command buffers and what it held.
DestroyWaited(t) ==
    /\ op[t].pc = "destroy"
    /\ st.timeline >= op[t].serial
    /\ mem' = IF op[t].serial = 0 THEN mem ELSE collect(mem, st.timeline)
    /\ graph' = NoGraph
    /\ FreeAll(t, graph.held)
    /\ UNCHANGED <<st, hold, held, capturer, own, commands>>

\* The device completes the submission at the head of its queue.
GpuSignal ==
    /\ st.queue # << >>
    /\ st' = Signal(st)
    /\ UNCHANGED <<mem, hold, held, capturer, graph, own, op, commands>>

-----------------------------------------------------------------------------

Thread(t) ==
    \/ \E a \in own[t] : Compute(t, a) \/ Free(t, a) \/ H2D(t, a) \/ D2H(t, a)
    \/ \E kind \in Kinds : Alloc(t, kind) \/ AllocOutOfMemory(t, kind)
    \/ AllocRetry(t)
    \/ FreeTag(t) \/ FreeLocked(t)
    \/ Sync(t) \/ SyncThrows(t) \/ SyncCheck(t) \/ SyncSubmit(t) \/ SyncReturn(t)
    \/ MemTrim(t) \/ Trim(t) \/ Reclaim(t)
    \/ UploadIdle(t) \/ UploadInline(t) \/ UploadAfterSync(t) \/ HostDone(t)
    \/ CaptureCheck(t) \/ CaptureBegin(t) \/ CaptureHold(t)
    \/ Finish(t) \/ FinishCapture(t) \/ Abort(t) \/ AbortCapture(t)
    \/ Launch(t) \/ DestroyGraph(t) \/ DestroyWaited(t)

Next == (\E t \in Threads : Thread(t)) \/ GpuSignal

Spec == Init /\ [][Next]_vars

-----------------------------------------------------------------------------
(***************************************************************************)
(* Properties.                                                             *)
(***************************************************************************)

\* The type of the state.
TypeOK ==
    /\ st \in StreamType(DeviceCommands)
    /\ mem \in AllocatorType
    /\ hold \in Threads \cup {Nobody}
    /\ held \subseteq Addresses
    /\ capturer \in Threads \cup {Nobody}
    /\ graph \in [owner : Threads \cup {Nobody}, cbs : Seq(CommandBuffers(DeviceCommands)),
                  held : SUBSET Addresses, last_launch : Nat]
    /\ own \in [Threads -> SUBSET Addresses]
    /\ \A t \in Threads : op[t].serial \in Nat /\ op[t].todo \subseteq Addresses
    /\ commands \in 0 .. MaxCommands

\* The commands the GPU has yet to execute: submitted, or in the open batch.
PendingCommands == CommandsIn(st.cb) \cup UNION {CommandsIn(st.queue[k].cb) : k \in DOMAIN st.queue}

\* No block is returned to the driver while a recorded command uses it (the serial tags of
\* Allocator::free, collect, and "Caller has drained the stream" of Allocator::trim).
PendingMemoryAlive == \A c \in PendingCommands : Alive(mem, c.addr[1])

\* "Replays therefore never touch memory that has been given to somebody else": what a
\* recording or a graph uses stays allocated as long as either exists.
CaptureUses == UNION ({Uses(st.capture_cb)} \cup {Uses(st.capture_done[k]) : k \in DOMAIN st.capture_done})

GraphMemoryHeld == CaptureUses \cup GraphUses \subseteq mem.live

\* The host reads or writes a tensor through its mapping only when no recorded command can
\* still touch that memory, those of its previous owner included.
HostAccessSafe ==
    \A t \in Threads : op[t].pc = "host" => \A c \in PendingCommands : c.addr # op[t].addr

\* Every allocation has exactly one party that will free it: a tensor, a capture or graph
\* that holds it, or a call that is freeing it.  Nothing leaks and nothing is freed twice.
Freeing(t) == op[t].todo \cup (IF op[t].pc = "free_locked" THEN {op[t].addr} ELSE {})

LiveAccounted ==
    /\ mem.live = held \cup graph.held \cup UNION {own[t] \cup Freeing(t) : t \in Threads}
    /\ Cardinality(mem.live) = Cardinality(held) + Cardinality(graph.held)
         + Cardinality({p \in Threads \X Addresses : p[2] \in own[p[1]]})
         + Cardinality({p \in Threads \X Addresses : p[2] \in Freeing(p[1])})
=============================================================================
