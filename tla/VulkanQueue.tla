----------------------------- MODULE VulkanQueue -----------------------------
(***************************************************************************)
(* Threads using one Vulkan stream (src/vulkan/stream.cpp, and the events  *)
(* and graph objects of src/vulkan/graph.cpp) against a GPU that executes  *)
(* commands in any order the recorded barriers allow.                      *)
(*                                                                         *)
(* Grain: an operation that holds the stream's mutex throughout is one     *)
(* action; sync and wait, which release it before they wait, are several.  *)
(* The allocator's part in them (collect) is VulkanRuntime's.              *)
(***************************************************************************)
EXTENDS VulkanStream, FiniteSets

CONSTANTS
    Threads,
    Nobody,          \* no thread
    Commands,        \* what a command may be told to do
    MaxIssued,       \* bound: commands issued to the device
    MaxSerial,       \* bound: serials taken
    MaxCaptured,     \* bound: commands in one capture
    MaxFails         \* bound: submissions the driver refuses

ASSUME ThreadsAssumption == Nobody \notin Threads
ASSUME BoundsAssumption == {MaxIssued, MaxSerial, MaxCaptured, MaxFails} \subseteq Nat

VARIABLES
    st,        \* the stream
    done,      \* entries <<serial, i>> of queued command buffers the GPU has executed
    issued,    \* history: the commands given to the device, in the order of the calls
    captured,  \* history: those of the capture, or of the graph, in the order of the calls
    retired,   \* history: how many commands the signalled submissions had
    ran,       \* history: the commands the GPU executed, in the order it did
    visible,   \* history: how many commands' results the host may read
    op,        \* per thread: the operation it is inside of
    event,     \* an Event the threads share: its serial, and how much it marks
    owner,     \* the thread that holds the capture or the graph
    graph,     \* the VulkanGraph: its segments, and the serial of its last launch
    fails      \* submissions refused so far

vars == <<st, done, issued, captured, retired, ran, visible, op, event, owner, graph, fails>>

Idle == [pc |-> "idle", serial |-> 0, mark |-> 0]
NoEvent == [serial |-> 0, mark |-> 0]
NoGraph == [cbs |-> << >>, last_launch |-> 0]

Init ==
    /\ st = InitStream
    /\ done = {}
    /\ issued = << >>
    /\ captured = << >>
    /\ retired = 0
    /\ ran = << >>
    /\ visible = 0
    /\ op = [t \in Threads |-> Idle]
    /\ event = NoEvent
    /\ owner = Nobody
    /\ graph = NoGraph
    /\ fails = 0

\* The outcomes vkQueueSubmit may have, when it is called at all.
Outcomes(submits) == {TRUE} \cup (IF submits /\ fails < MaxFails THEN {FALSE} ELSE {})

\* What has been given to the device without the batch that is open.
IssuedBefore == SubSeq(issued, 1, Len(issued) - (IF SubmitsOpen(st) THEN st.ops_in_batch ELSE 0))

\* When the driver refuses the open batch, its commands are lost.
Outcome(ok) ==
    /\ fails' = IF ok THEN fails ELSE fails + 1
    /\ issued' = IF ok THEN issued ELSE IssuedBefore

GpuUnchanged == UNCHANGED <<done, retired, ran, visible>>

-----------------------------------------------------------------------------
(***************************************************************************)
(* Recording and submitting.                                               *)
(***************************************************************************)

Dispatch(t, c) ==
    /\ op[t].pc = "idle"
    /\ SlotReady(st)
    /\ \E ok \in Outcomes(SubmitsOnCommand(st)) :
          /\ st' = dispatch(st, c, ok)
          /\ fails' = IF ok THEN fails ELSE fails + 1
          /\ IF st.capturing
             THEN /\ Len(captured) < MaxCaptured
                  /\ captured' = Append(captured, Command(c))
                  /\ UNCHANGED issued
             ELSE /\ Len(issued) < MaxIssued /\ st.next_serial <= MaxSerial
                  /\ issued' = IF ok THEN Append(issued, Command(c)) ELSE IssuedBefore
                  /\ UNCHANGED captured
    /\ GpuUnchanged
    /\ UNCHANGED <<op, event, owner, graph>>

Flush(t) ==
    /\ op[t].pc = "idle"
    /\ SubmitsOpen(st)
    /\ \E ok \in Outcomes(TRUE) : st' = submit_locked(st, ok) /\ Outcome(ok)
    /\ GpuUnchanged
    /\ UNCHANGED <<captured, op, event, owner, graph>>

-----------------------------------------------------------------------------
(***************************************************************************)
(* Stream::sync: throw_if_capturing without the lock; then, locked, submit *)
(* and read the target; then wait for it without the lock.                 *)
(***************************************************************************)

SyncCheck(t) ==
    /\ op[t].pc = "idle"
    /\ ~st.capturing                       \* otherwise it throws
    /\ op' = [op EXCEPT ![t].pc = "sync"]
    /\ GpuUnchanged
    /\ UNCHANGED <<st, issued, captured, event, owner, graph, fails>>

\* Mutant: sync waits for the serial that comes next.
SyncSubmitAhead(t) ==
    /\ op[t].pc = "sync"
    /\ \E ok \in Outcomes(SubmitsOpen(st)) :
          /\ st' = submit_locked(st, ok)
          /\ Outcome(ok)
          /\ op' = [op EXCEPT ![t] =
                       IF ok THEN [pc |-> "sync_wait", serial |-> st'.next_serial, mark |-> Len(issued)]
                             ELSE Idle]
    /\ GpuUnchanged
    /\ UNCHANGED <<captured, event, owner, graph>>

SyncSubmit(t) ==
    /\ op[t].pc = "sync"
    /\ \E ok \in Outcomes(SubmitsOpen(st)) :
          /\ st' = submit_locked(st, ok)
          /\ Outcome(ok)
          /\ op' = [op EXCEPT ![t] =
                       IF ok THEN [pc |-> "sync_wait", serial |-> st'.submitted, mark |-> Len(issued)]
                             ELSE Idle]
    /\ GpuUnchanged
    /\ UNCHANGED <<captured, event, owner, graph>>

SyncReturn(t) ==
    /\ op[t].pc = "sync_wait"
    /\ st.timeline >= op[t].serial
    /\ op' = [op EXCEPT ![t] = Idle]
    /\ GpuUnchanged
    /\ UNCHANGED <<st, issued, captured, event, owner, graph, fails>>

-----------------------------------------------------------------------------
(***************************************************************************)
(* Events.  record reads the atomic work serial and takes no lock.         *)
(***************************************************************************)

EventRecord(t) ==
    /\ op[t].pc = "idle"
    /\ event' = [serial |-> st.work_serial, mark |-> Len(issued)]
    /\ event' # event
    /\ GpuUnchanged
    /\ UNCHANGED <<st, issued, captured, op, owner, graph, fails>>

\* Mutant: query does not flush.
EventQueryUnflushed(t) ==
    /\ op[t].pc = "idle"
    /\ st.timeline < event.serial
    /\ UNCHANGED vars

\* Event::query of an event that is not complete: flush unless a capture is recording.
EventQuery(t) ==
    /\ op[t].pc = "idle"
    /\ st.timeline < event.serial
    /\ ~st.capturing
    /\ \E ok \in Outcomes(SubmitsOpen(st)) : st' = submit_locked(st, ok) /\ Outcome(ok)
    /\ GpuUnchanged
    /\ UNCHANGED <<captured, op, event, owner, graph>>

\* Stream::wait(serial) up to where it releases the lock; serial 0 then stands
\* for the early return, which waits for nothing.
WaitSubmit(t, serial, pc, mark) ==
    /\ op[t].pc = "idle"
    /\ \E ok \in Outcomes(wait_submit(st, serial, TRUE) # st) :
          /\ st' = wait_submit(st, serial, ok)
          /\ Outcome(ok)
          /\ op' = [op EXCEPT ![t] =
                       IF ~ok THEN Idle
                       ELSE [pc |-> pc, mark |-> mark,
                             serial |-> IF wait_returns_early(st, serial) THEN 0 ELSE serial]]
    /\ GpuUnchanged
    /\ UNCHANGED <<captured, event, owner, graph>>

EventWait(t) == event.serial # 0 /\ WaitSubmit(t, event.serial, "wait", event.mark)

WaitReturn(t) ==
    /\ op[t].pc = "wait"
    /\ st.timeline >= op[t].serial
    /\ op' = [op EXCEPT ![t] = Idle]
    /\ GpuUnchanged
    /\ UNCHANGED <<st, issued, captured, event, owner, graph, fails>>

-----------------------------------------------------------------------------
(***************************************************************************)
(* Capture, replay and destruction of a graph.                             *)
(***************************************************************************)

BeginCapture(t) ==
    /\ op[t].pc = "idle"
    /\ owner = Nobody
    /\ ~st.capturing
    /\ \E ok \in Outcomes(SubmitsOpen(st)) :
          /\ st' = begin_capture(st, ok)
          /\ Outcome(ok)
          /\ owner' = IF ok THEN t ELSE owner
    /\ GpuUnchanged
    /\ UNCHANGED <<captured, op, event, graph>>

EndCapture(t) ==
    /\ op[t].pc = "idle"
    /\ owner = t /\ st.capturing
    /\ graph' = [cbs |-> captured_segments(st), last_launch |-> 0]
    /\ st' = end_capture(st)
    /\ GpuUnchanged
    /\ UNCHANGED <<issued, captured, op, event, owner, fails>>

AbortCapture(t) ==
    /\ op[t].pc = "idle"
    /\ owner = t /\ st.capturing
    /\ st' = abort_capture(st)
    /\ owner' = Nobody
    /\ captured' = << >>
    /\ GpuUnchanged
    /\ UNCHANGED <<issued, op, event, graph, fails>>

\* The commands of the first n segments: all segments but the last are full.
CapturedIn(n) ==
    SubSeq(captured, 1, IF n * batch_limit < Len(captured) THEN n * batch_limit ELSE Len(captured))

\* n segments are accepted; when one is refused, launch throws and last_launch stays as it was.
Launch(t) ==
    /\ op[t].pc = "idle"
    /\ owner = t /\ graph # NoGraph
    /\ Len(issued) + Len(captured) <= MaxIssued
    /\ st.next_serial + Len(graph.cbs) <= MaxSerial
    /\ \E ok \in Outcomes(SubmitsOpen(st)) :
       \E n \in {Len(graph.cbs)} \cup (IF ok /\ fails < MaxFails THEN 0 .. Len(graph.cbs) - 1 ELSE {}) :
          /\ st' = launch(st, graph.cbs, ok, n)
          /\ fails' = IF ok /\ n = Len(graph.cbs) THEN fails ELSE fails + 1
          /\ issued' = IF ok THEN issued \o CapturedIn(n) ELSE IssuedBefore
          /\ graph' = IF ok /\ n = Len(graph.cbs)
                      THEN [graph EXCEPT !.last_launch = launch_serial(st, graph.cbs)]
                      ELSE graph
    /\ GpuUnchanged
    /\ UNCHANGED <<captured, op, event, owner>>

\* ~VulkanGraph: wait for the last launch (0, none, is waited for by nobody), ...
DestroyGraph(t) ==
    /\ owner = t /\ graph # NoGraph
    /\ WaitSubmit(t, graph.last_launch, "destroy", 0)

\* ... then free its command buffers.
FreeCommandBuffers(t) ==
    /\ op[t].pc = "destroy"
    /\ st.timeline >= op[t].serial
    /\ op' = [op EXCEPT ![t] = Idle]
    /\ graph' = NoGraph
    /\ captured' = << >>
    /\ owner' = Nobody
    /\ GpuUnchanged
    /\ UNCHANGED <<st, issued, event, fails>>

-----------------------------------------------------------------------------
(***************************************************************************)
(* The GPU.  An entry may execute once no barrier separates it from an     *)
(* earlier command that has not; a submission is signalled when all its    *)
(* commands, and all earlier ones, have executed.                          *)
(***************************************************************************)

Before(p, q) == p[1] < q[1] \/ (p[1] = q[1] /\ p[2] < q[2])

Positions == UNION {{<<k, i>> : i \in DOMAIN st.queue[k].cb} : k \in DOMAIN st.queue}

EntryAt(p) == st.queue[p[1]].cb[p[2]]

Executed(p) == <<st.queue[p[1]].serial, p[2]>> \in done

Pending == {p \in Positions : IsCommand(EntryAt(p)) /\ ~Executed(p)}

Execute ==
    \E p \in Pending :
        /\ \A q \in Pending : Before(q, p) =>
               ~ \E b \in Positions : Before(q, b) /\ Before(b, p) /\ EntryAt(b) = Barrier
        /\ done' = done \cup {<<st.queue[p[1]].serial, p[2]>>}
        /\ ran' = Append(ran, EntryAt(p))
        /\ UNCHANGED <<st, issued, captured, retired, visible, op, event, owner, graph, fails>>

GpuSignal ==
    /\ st.queue # << >>
    /\ \A p \in Pending : p[1] # 1
    /\ LET buf == Head(st.queue).cb
       IN  /\ retired' = retired + Cardinality({i \in DOMAIN buf : IsCommand(buf[i])})
           /\ visible' = IF \E i \in DOMAIN buf : buf[i] = ToHost
                         THEN retired' ELSE visible
    /\ done' = {d \in done : d[1] # Head(st.queue).serial}
    /\ st' = Signal(st)
    /\ UNCHANGED <<issued, captured, ran, op, event, owner, graph, fails>>

-----------------------------------------------------------------------------

Thread(t) ==
    \/ \E c \in Commands : Dispatch(t, c)
    \/ Flush(t)
    \/ SyncCheck(t) \/ SyncSubmit(t) \/ SyncReturn(t)
    \/ EventRecord(t) \/ EventQuery(t) \/ EventWait(t) \/ WaitReturn(t)
    \/ BeginCapture(t) \/ EndCapture(t) \/ AbortCapture(t)
    \/ Launch(t) \/ DestroyGraph(t) \/ FreeCommandBuffers(t)

Next == (\E t \in Threads : Thread(t)) \/ Execute \/ GpuSignal

Spec == Init /\ [][Next]_vars

(***************************************************************************)
(* The GPU works through what it is given; a thread inside a call is       *)
(* scheduled; polling is a loop in the client, so it is fair as well.      *)
(***************************************************************************)
Fairness ==
    /\ WF_vars(Execute) /\ WF_vars(GpuSignal)
    /\ \A t \in Threads :
          /\ WF_vars(SyncSubmit(t)) /\ WF_vars(SyncReturn(t))
          /\ WF_vars(WaitReturn(t)) /\ WF_vars(FreeCommandBuffers(t))

FairSpec == Spec /\ Fairness

PollingSpec == FairSpec /\ \A t \in Threads : WF_vars(EventQuery(t))

-----------------------------------------------------------------------------
(***************************************************************************)
(* Properties.                                                             *)
(***************************************************************************)

\* What the stream and the graph object hold.
ControlTypes ==
    /\ st \in StreamType(Commands)
    /\ owner \in Threads \cup {Nobody}
    /\ graph \in [cbs : Seq(CommandBuffers(Commands)), last_launch : Nat]
    /\ fails \in Nat

\* The type of the state.
TypeOK ==
    /\ ControlTypes
    /\ done \subseteq Nat \X Nat
    /\ {issued, captured, ran} \subseteq Seq([op : {"command"}, arg : Commands])
    /\ retired \in Nat
    /\ visible \in Nat
    /\ op \in [Threads -> [pc : {"idle", "sync", "sync_wait", "wait", "destroy"},
                          serial : Nat, mark : Nat]]
    /\ event \in [serial : Nat, mark : Nat]

\* A slot's command buffer is never recorded into or submitted while the GPU has it
\* (open_locked's wait), and so at most kSlots batches are in flight.
SlotsExclusive == SlotExclusive(st)

\* SlotsExclusive with what makes it inductive: serials are signalled in the order they
\* were taken, a slot's tag covers its submissions, an open batch is the next serial's.
StreamInvariant == StreamInv(st)

\* Event: once completed() reaches the recorded serial, everything issued to the device
\* before Event::record has been executed.
EventMeansDone ==
    st.timeline >= event.serial => Len(ran) >= event.mark

\* sync returns only when all that was issued before it has run and is visible to host
\* reads; Event::wait only when the marked work has run.
WaitsDeliver ==
    [][\A t \in Threads : op'[t].pc = "idle" =>
          /\ op[t].pc = "sync_wait" => visible >= op[t].mark
          /\ op[t].pc = "wait" => Len(ran) >= op[t].mark]_vars

\* ~VulkanGraph frees no command buffer that is still queued.
FreedBuffersNotQueued ==
    graph = NoGraph => \A k \in DOMAIN st.queue : st.queue[k].slot # NoSlot

\* Whatever the GPU may reorder, the stream executes like one in-order queue.
InOrder == INSTANCE InOrderStream WITH issued <- issued, ran <- ran
ExecutesInOrder == InOrder!Spec

\* A slot the next batch must wait for becomes reusable (stream.cpp: "a slot is reusable
\* once its last submission has completed").
SlotReusable == ~SlotReady(st) ~> SlotReady(st)

\* Every sync, wait and graph destruction returns.
CallsReturn == \A t \in Threads : op[t].pc # "idle" ~> op[t].pc = "idle"

\* vulkan.h: "polling an event always makes progress".
PolledEventCompletes ==
    \A n \in 1 .. MaxSerial : event.serial = n ~> (st.timeline >= n \/ event.serial # n)
=============================================================================
