-------------------------- MODULE VulkanQueueProofs --------------------------
(***************************************************************************)
(* Theorems about VulkanQueue, for any number of threads, slots, commands  *)
(* and submissions.                                                        *)
(*                                                                         *)
(* 1. IInv, the types of the stream and the graph object with StreamInv:   *)
(*    each action reduces to the lemma of VulkanStreamProofs about the     *)
(*    stream operation it performs.  The types of the histories and of the *)
(*    calls rest on it.                                                    *)
(* 2. The graph's command buffers: a queued segment has a serial no later  *)
(*    than the graph's last launch, which its destructor waits for.        *)
(* 3. The order: commands are counted, not flattened.  A function b says   *)
(*    how many were issued before each queued submission; with it the      *)
(*    queue, the open batch and the captured segments hold exactly the     *)
(*    issued commands, each behind a barrier, and so the GPU can only      *)
(*    execute the next one.  This gives the refinement of InOrderStream.   *)
(* 4. The promises of events and waits, carried along with b: which serial *)
(*    the marked commands are under, and which submission makes them       *)
(*    visible to the host.                                                 *)
(*                                                                         *)
(* Parts 1 and 3 hold whatever submissions the driver refuses.  2 and 4    *)
(* are about the time before the first refusal, and are false after it:    *)
(* the serial of a refused batch is taken again by the next launch, and a  *)
(* launch refused after its first segments does not set last_launch.       *)
(***************************************************************************)
EXTENDS VulkanQueue, VulkanStreamProofs, FiniteSetTheorems

\* The inductive invariant.
IInv == ControlTypes /\ StreamInv(st)

\* An outcome of vkQueueSubmit is a Boolean, and counting it keeps a natural number.
LEMMA OutcomeType ==
    ASSUME NEW submits, NEW ok \in Outcomes(submits)
    PROVE  ok \in BOOLEAN
BY DEF Outcomes

\* Counting the refused submissions.
LEMMA FailsType ==
    ASSUME fails \in Nat, NEW ok \in BOOLEAN, fails' = IF ok THEN fails ELSE fails + 1
    PROVE  fails' \in Nat
<1>1. CASE ok  BY <1>1
<1>2. CASE ~ok  BY <1>2
<1> QED  BY <1>1, <1>2

\* The initial state.
LEMMA InitInv == Init => IInv
<1> SUFFICES ASSUME Init PROVE IInv  OBVIOUS
<1>1. st \in StreamType(Commands) /\ StreamInv(st)  BY InitStreamInv DEF Init
<1>2. graph \in [cbs : Seq(CommandBuffers(Commands)), last_launch : Nat]
  BY DEF Init, NoGraph
<1>3. owner \in Threads \cup {Nobody} /\ fails \in Nat  BY DEF Init
<1> QED  BY <1>1, <1>2, <1>3 DEF IInv, ControlTypes

\* An operation's effect on the stream keeps the invariant when its result does.
LEMMA StreamStep ==
    ASSUME IInv,
           st' \in StreamType(Commands), StreamInv(st'),
           owner' \in Threads \cup {Nobody},
           graph' \in [cbs : Seq(CommandBuffers(Commands)), last_launch : Nat],
           fails' \in Nat
    PROVE  IInv'
BY DEF IInv, ControlTypes, StreamType, StreamInv, SerialOrder, OpenBatch, SlotTags, SlotExclusive

\* Stream::wait under the lock, by Event::wait and by ~VulkanGraph.
LEMMA WaitSubmitStep ==
    ASSUME IInv, NEW t \in Threads, NEW serial, NEW pc, NEW mark, WaitSubmit(t, serial, pc, mark)
    PROVE  IInv'
<1>1. PICK ok \in Outcomes(wait_submit(st, serial, TRUE) # st) :
          st' = wait_submit(st, serial, ok) /\ Outcome(ok)
  BY DEF WaitSubmit
<1>2. ok \in BOOLEAN  BY OutcomeType
<1>3. st' \in StreamType(Commands) /\ StreamInv(st')
  BY <1>1, <1>2, WaitSubmitInv DEF IInv, ControlTypes
<1>4. fails' \in Nat  BY <1>1, <1>2, FailsType DEF Outcome, IInv, ControlTypes
<1> QED  BY <1>3, <1>4, StreamStep DEF WaitSubmit, IInv, ControlTypes

\* Replaying a graph.
LEMMA LaunchStep ==
    ASSUME IInv, NEW t \in Threads, Launch(t)
    PROVE  IInv'
<1> DEFINE len == Len(graph.cbs)
<1>1. graph.cbs \in Seq(CommandBuffers(Commands)) /\ len \in Nat /\ graph.last_launch \in Nat
  BY DEF IInv, ControlTypes
<1>2. PICK ok \in Outcomes(SubmitsOpen(st)) :
      \E n \in {len} \cup (IF ok /\ fails < MaxFails THEN 0 .. len - 1 ELSE {}) :
          /\ st' = launch(st, graph.cbs, ok, n)
          /\ fails' = IF ok /\ n = len THEN fails ELSE fails + 1
          /\ graph' = IF ok /\ n = len
                      THEN [graph EXCEPT !.last_launch = launch_serial(st, graph.cbs)]
                      ELSE graph
  BY DEF Launch
<1>3. PICK n \in {len} \cup (IF ok /\ fails < MaxFails THEN 0 .. len - 1 ELSE {}) :
          /\ st' = launch(st, graph.cbs, ok, n)
          /\ fails' = IF ok /\ n = len THEN fails ELSE fails + 1
          /\ graph' = IF ok /\ n = len
                      THEN [graph EXCEPT !.last_launch = launch_serial(st, graph.cbs)]
                      ELSE graph
  BY <1>2
<1>4. ok \in BOOLEAN /\ (ok /\ n = len) \in BOOLEAN  BY OutcomeType
<1>5. n \in 0 .. len
  <2>1. n = len \/ n \in 0 .. len - 1  BY <1>3
  <2> QED  BY <1>1, <2>1
<1>6. st' \in StreamType(Commands) /\ StreamInv(st')
  BY <1>1, <1>3, <1>4, <1>5, LaunchInv DEF IInv, ControlTypes
<1>7. launch_serial(st, graph.cbs) \in Nat
  BY <1>1, LaunchSerialType DEF IInv, ControlTypes
<1>8. graph' \in [cbs : Seq(CommandBuffers(Commands)), last_launch : Nat]
  BY <1>3, <1>7 DEF IInv, ControlTypes
<1>9. fails' \in Nat  BY <1>3, <1>4, FailsType DEF Outcome, IInv, ControlTypes
<1> QED  BY <1>6, <1>8, <1>9, StreamStep DEF Launch, IInv, ControlTypes

\* Every step keeps the invariant.
LEMMA NextInv == IInv /\ [Next]_vars => IInv'
<1> SUFFICES ASSUME IInv, [Next]_vars PROVE IInv'  OBVIOUS
<1> USE DEF ControlTypes
<1>0. st \in StreamType(Commands) /\ StreamInv(st)  BY DEF IInv
<1>1. ASSUME NEW t \in Threads, NEW c \in Commands, Dispatch(t, c) PROVE IInv'
  <2>1. PICK ok \in Outcomes(SubmitsOnCommand(st)) : st' = dispatch(st, c, ok) /\ fails' = IF ok THEN fails ELSE fails + 1
    BY <1>1 DEF Dispatch
  <2>2. ok \in BOOLEAN  BY OutcomeType
  <2>3. st' \in StreamType(Commands) /\ StreamInv(st')
    BY <1>0, <1>1, <2>1, <2>2, DispatchInv DEF Dispatch
  <2>4. fails' \in Nat  BY <2>1, <2>2, FailsType DEF Outcome, IInv
  <2> QED  BY <1>1, <2>3, <2>4, StreamStep DEF Dispatch, IInv
<1>2. ASSUME NEW t \in Threads, Flush(t) PROVE IInv'
  <2>1. PICK ok \in Outcomes(TRUE) : st' = submit_locked(st, ok) /\ Outcome(ok)
    BY <1>2 DEF Flush
  <2>2. ok \in BOOLEAN  BY OutcomeType
  <2>3. st' \in StreamType(Commands) /\ StreamInv(st')  BY <1>0, <2>1, <2>2, SubmitLockedInv
  <2>4. fails' \in Nat  BY <2>1, <2>2, FailsType DEF Outcome, IInv
  <2> QED  BY <1>2, <2>3, <2>4, StreamStep DEF Flush, IInv
<1>3. ASSUME NEW t \in Threads, SyncSubmit(t) PROVE IInv'
  <2>1. PICK ok \in Outcomes(SubmitsOpen(st)) : st' = submit_locked(st, ok) /\ Outcome(ok)
    BY <1>3 DEF SyncSubmit
  <2>2. ok \in BOOLEAN  BY OutcomeType
  <2>3. st' \in StreamType(Commands) /\ StreamInv(st')  BY <1>0, <2>1, <2>2, SubmitLockedInv
  <2>4. fails' \in Nat  BY <2>1, <2>2, FailsType DEF Outcome, IInv
  <2> QED  BY <1>3, <2>3, <2>4, StreamStep DEF SyncSubmit, IInv
<1>4. ASSUME NEW t \in Threads, EventQuery(t) PROVE IInv'
  <2>1. PICK ok \in Outcomes(SubmitsOpen(st)) : st' = submit_locked(st, ok) /\ Outcome(ok)
    BY <1>4 DEF EventQuery
  <2>2. ok \in BOOLEAN  BY OutcomeType
  <2>3. st' \in StreamType(Commands) /\ StreamInv(st')  BY <1>0, <2>1, <2>2, SubmitLockedInv
  <2>4. fails' \in Nat  BY <2>1, <2>2, FailsType DEF Outcome, IInv
  <2> QED  BY <1>4, <2>3, <2>4, StreamStep DEF EventQuery, IInv
<1>5. ASSUME NEW t \in Threads, BeginCapture(t) PROVE IInv'
  <2>1. PICK ok \in Outcomes(SubmitsOpen(st)) :
            st' = begin_capture(st, ok) /\ Outcome(ok) /\ owner' = IF ok THEN t ELSE owner
    BY <1>5 DEF BeginCapture
  <2>2. ok \in BOOLEAN  BY OutcomeType
  <2>3. st' \in StreamType(Commands) /\ StreamInv(st')  BY <1>0, <2>1, <2>2, BeginCaptureInv
  <2>4. fails' \in Nat  BY <2>1, <2>2, FailsType DEF Outcome, IInv
  <2> QED  BY <1>5, <2>1, <2>3, <2>4, StreamStep DEF BeginCapture, IInv
<1>6. ASSUME NEW t \in Threads, EndCapture(t) PROVE IInv'
  <2>1. st' \in StreamType(Commands) /\ StreamInv(st')
    BY <1>0, <1>6, LeaveCaptureInv DEF EndCapture, end_capture
  <2>2. graph' \in [cbs : Seq(CommandBuffers(Commands)), last_launch : Nat]
    BY <1>0, <1>6, CapturedSegmentsType DEF EndCapture
  <2> QED  BY <1>6, <2>1, <2>2, StreamStep DEF EndCapture, IInv
<1>7. ASSUME NEW t \in Threads, AbortCapture(t) PROVE IInv'
  <2>1. st' \in StreamType(Commands) /\ StreamInv(st')
    BY <1>0, <1>7, LeaveCaptureInv DEF AbortCapture, abort_capture
  <2> QED  BY <1>7, <2>1, StreamStep DEF AbortCapture, IInv
<1>8. ASSUME NEW t \in Threads, FreeCommandBuffers(t) PROVE IInv'
  <2>1. graph' \in [cbs : Seq(CommandBuffers(Commands)), last_launch : Nat]
    BY <1>8 DEF FreeCommandBuffers, NoGraph
  <2>2. st' = st /\ owner' = Nobody /\ fails' = fails  BY <1>8 DEF FreeCommandBuffers
  <2> QED  BY <1>0, <2>1, <2>2, StreamStep DEF IInv
<1>9. ASSUME NEW t \in Threads, SyncCheck(t) \/ SyncReturn(t) \/ EventRecord(t) \/ WaitReturn(t)
      PROVE  IInv'
  <2>1. UNCHANGED <<st, owner, graph, fails>>
    BY <1>9 DEF SyncCheck, SyncReturn, EventRecord, WaitReturn
  <2> QED  BY <1>0, <2>1, StreamStep DEF IInv
<1>10. ASSUME GpuSignal PROVE IInv'
  <2>1. st' = Signal(st) /\ UNCHANGED <<owner, graph, fails>> /\ st.queue # << >>
    BY <1>10 DEF GpuSignal
  <2>2. st' \in StreamType(Commands) /\ StreamInv(st')  BY <1>0, <2>1, SignalInv
  <2> QED  BY <2>1, <2>2, StreamStep DEF IInv
<1>11. CASE Execute \/ UNCHANGED vars
  <2>1. UNCHANGED <<st, owner, graph, fails>>  BY <1>11 DEF Execute, vars
  <2> QED  BY <1>0, <2>1, StreamStep DEF IInv
<1>12. ASSUME NEW t \in Threads, EventWait(t) \/ DestroyGraph(t) PROVE IInv'
  BY <1>12, WaitSubmitStep DEF EventWait, DestroyGraph
<1> QED
  BY <1>1, <1>2, <1>3, <1>4, <1>5, <1>6, <1>7, <1>8, <1>9, <1>10, <1>11, <1>12, LaunchStep
  DEF Next, Thread

\* The stream and the graph object always have their types, and the stream's serials,
\* slots, queue and timeline fit together.
THEOREM StreamCorrect == Spec => []IInv
<1> QED  BY InitInv, NextInv, PTL DEF Spec

\* Submissions are signalled in the order their serials were taken and a slot's tag
\* covers what was submitted from it (submit_locked, launch, open_locked).
THEOREM StreamInvariantHolds == Spec => []StreamInvariant
<1>1. IInv => StreamInvariant  BY DEF IInv, StreamInvariant
<1> QED  BY <1>1, StreamCorrect, PTL

\* open_locked never hands out a command buffer the GPU still has, however the threads'
\* operations interleave and even after refused submissions.
THEOREM SlotsExclusiveHolds == Spec => []SlotsExclusive
<1>1. IInv => SlotsExclusive  BY DEF IInv, StreamInv, SlotsExclusive
<1> QED  BY <1>1, StreamCorrect, PTL

-----------------------------------------------------------------------------
(***************************************************************************)
(* Types.                                                                  *)
(***************************************************************************)

\* Sequences of commands, as the clients issue them.
Calls == Seq([op : {"command"}, arg : Commands])

\* The types of the histories, and of the calls and the event.
HistoryTypes ==
    /\ done \subseteq Nat \X Nat
    /\ issued \in Calls /\ captured \in Calls /\ ran \in Calls
    /\ retired \in Nat /\ visible \in Nat

OpTypes ==
    /\ op \in [Threads -> [pc : {"idle", "sync", "sync_wait", "wait", "destroy"},
                          serial : Nat, mark : Nat]]
    /\ event \in [serial : Nat, mark : Nat]

\* The parts of TypeOK.
LEMMA TypeParts == TypeOK <=> ControlTypes /\ HistoryTypes /\ OpTypes
BY DEF TypeOK, HistoryTypes, OpTypes, Calls

\* A prefix of a sequence.
LEMMA PrefixCalls ==
    ASSUME NEW w \in Calls, NEW n \in Int, n <= Len(w)
    PROVE  /\ SubSeq(w, 1, n) \in Calls
           /\ Len(SubSeq(w, 1, n)) = IF n < 0 THEN 0 ELSE n
           /\ \A i \in 1 .. n : SubSeq(w, 1, n)[i] = w[i]
<1>1. CASE n < 1
  <2>1. SubSeq(w, 1, n) = << >>  BY <1>1
  <2> QED  BY <1>1, <2>1 DEF Calls
<1>2. CASE n >= 1
  <2> DEFINE E == [op : {"command"}, arg : Commands]
  <2>1. w \in Seq(E)  BY DEF Calls
  <2> HIDE DEF E
  <2>2. \A i \in 1 .. n : w[i] \in E
    <3>1. Len(w) \in Nat /\ DOMAIN w = 1 .. Len(w) /\ \A i \in 1 .. n : i \in 1 .. Len(w)  BY <2>1
    <3> QED  BY <2>1, <3>1
  <2>3. /\ SubSeq(w, 1, n) \in Seq(E) /\ Len(SubSeq(w, 1, n)) = n - 1 + 1
        /\ \A i \in 1 .. n - 1 + 1 : SubSeq(w, 1, n)[i] = w[1 + i - 1]
    BY <1>2, <2>2, SubSeqProperties
  <2>4. n - 1 + 1 = n /\ \A i \in 1 .. n : 1 + i - 1 = i  OBVIOUS
  <2> QED  BY <1>2, <2>3, <2>4 DEF Calls, E
<1> QED  BY <1>1, <1>2

\* What is kept of the issued commands when the open batch is refused.
LEMMA IssuedBeforeType ==
    ASSUME ControlTypes, issued \in Calls
    PROVE  IssuedBefore \in Calls
<1> DEFINE m == IF SubmitsOpen(st) THEN st.ops_in_batch ELSE 0
<1>1. m \in Nat /\ Len(issued) \in Nat  BY DEF ControlTypes, StreamType, Calls
<1>2. IssuedBefore = SubSeq(issued, 1, Len(issued) - m)  BY DEF IssuedBefore
<1> HIDE DEF m
<1> QED  BY <1>1, <1>2, PrefixCalls

\* The histories keep their types when a thread acts.
LEMMA ThreadHistories ==
    ASSUME IInv, TypeOK, NEW t \in Threads, Thread(t)
    PROVE  HistoryTypes'
<1>0. /\ done \subseteq Nat \X Nat /\ retired \in Nat /\ visible \in Nat /\ ran \in Calls
      /\ issued \in Calls /\ captured \in Calls /\ graph.cbs \in Seq(CommandBuffers(Commands))
  BY TypeParts DEF HistoryTypes, ControlTypes
<1>1. GpuUnchanged
  BY DEF Thread, Dispatch, Flush, SyncCheck, SyncSubmit, SyncReturn, EventRecord, EventQuery,
         EventWait, WaitSubmit, WaitReturn, BeginCapture, EndCapture, AbortCapture, Launch,
         DestroyGraph, FreeCommandBuffers
<1>2. IssuedBefore \in Calls  BY <1>0, IssuedBeforeType DEF IInv
<1>3. SUFFICES issued' \in Calls /\ captured' \in Calls
  BY <1>0, <1>1 DEF GpuUnchanged, HistoryTypes
<1>4. ASSUME NEW c \in Commands, Dispatch(t, c) PROVE issued' \in Calls /\ captured' \in Calls
  <2>1. Append(issued, Command(c)) \in Calls /\ Append(captured, Command(c)) \in Calls
    BY <1>0 DEF Calls, Command
  <2> QED  BY <1>0, <1>2, <1>4, <2>1 DEF Dispatch
<1>5. CASE Launch(t)
  <2>1. PICK ok \in Outcomes(SubmitsOpen(st)) :
        \E n \in {Len(graph.cbs)} \cup (IF ok /\ fails < MaxFails THEN 0 .. Len(graph.cbs) - 1 ELSE {}) :
          issued' = IF ok THEN issued \o CapturedIn(n) ELSE IssuedBefore
    BY <1>5 DEF Launch
  <2>2. PICK n \in {Len(graph.cbs)} \cup (IF ok /\ fails < MaxFails THEN 0 .. Len(graph.cbs) - 1 ELSE {}) :
          issued' = IF ok THEN issued \o CapturedIn(n) ELSE IssuedBefore
    BY <2>1
  <2>3. CapturedIn(n) \in Calls
    <3>1. n \in Nat  BY <1>0, <2>2
    <3>2. n * batch_limit \in Nat  BY <3>1, batch_limitAssumption
    <3> DEFINE m == n * batch_limit
    <3> HIDE DEF m
    <3>3. CapturedIn(n) = SubSeq(captured, 1, IF m < Len(captured) THEN m ELSE Len(captured))
      BY DEF CapturedIn, m
    <3>4. m \in Int /\ Len(captured) \in Int  BY <1>0, <3>2 DEF Calls, m
    <3> QED  BY <1>0, <3>3, <3>4, PrefixCalls
  <2>4. issued \o CapturedIn(n) \in Calls  BY <1>0, <2>3 DEF Calls
  <2> QED  BY <1>0, <1>2, <1>5, <2>2, <2>4 DEF Launch
<1>6. CASE \/ Flush(t) \/ SyncCheck(t) \/ SyncSubmit(t) \/ SyncReturn(t)
           \/ EventRecord(t) \/ EventQuery(t) \/ EventWait(t) \/ WaitReturn(t)
           \/ BeginCapture(t) \/ EndCapture(t) \/ AbortCapture(t)
           \/ DestroyGraph(t) \/ FreeCommandBuffers(t)
  <2>1. << >> \in Calls  BY DEF Calls
  <2>2. issued' \in {issued, IssuedBefore} /\ captured' \in {captured, << >>}
    BY <1>6 DEF Flush, SyncCheck, SyncSubmit, SyncReturn, EventRecord, EventQuery,
         EventWait, WaitSubmit, WaitReturn, BeginCapture, EndCapture, AbortCapture,
         DestroyGraph, FreeCommandBuffers, Outcome
  <2> QED  BY <1>0, <1>2, <2>1, <2>2
<1> QED  BY <1>4, <1>5, <1>6 DEF Thread

\* The calls and the event keep their types.
LEMMA NextOpTypes ==
    ASSUME IInv, TypeOK, IInv', [Next]_vars
    PROVE  OpTypes'
<1> DEFINE OpType == [pc : {"idle", "sync", "sync_wait", "wait", "destroy"}, serial : Nat, mark : Nat]
<1>0. /\ op \in [Threads -> OpType] /\ event \in [serial : Nat, mark : Nat]
      /\ Len(issued) \in Nat /\ st.work_serial \in Nat /\ st'.submitted \in Nat /\ graph.last_launch \in Nat
      /\ Idle \in OpType
  <2>1. op \in [Threads -> OpType] /\ event \in [serial : Nat, mark : Nat]  BY TypeParts DEF OpTypes
  <2>2. Len(issued) \in Nat  BY TypeParts DEF HistoryTypes, Calls
  <2>3. st.work_serial \in Nat /\ graph.last_launch \in Nat  BY DEF IInv, ControlTypes, StreamType
  <2>4. st'.submitted \in Nat  BY DEF IInv, ControlTypes, StreamType
  <2> QED  BY <2>1, <2>2, <2>3, <2>4 DEF Idle
<1>1. ASSUME NEW t \in Threads, NEW r \in OpType, op' = [op EXCEPT ![t] = r], event' = event
      PROVE  OpTypes'
  BY <1>0, <1>1 DEF OpTypes
<1>2. CASE UNCHANGED <<op, event>>  BY <1>0, <1>2 DEF OpTypes
<1>3. ASSUME NEW t \in Threads, SyncCheck(t) PROVE OpTypes'
  <2>1. [op[t] EXCEPT !.pc = "sync"] \in OpType  BY <1>0
  <2>2. op' = [op EXCEPT ![t] = [op[t] EXCEPT !.pc = "sync"]]  BY <1>0, <1>3 DEF SyncCheck
  <2> HIDE DEF OpType
  <2> QED  BY <1>1, <1>3, <2>1, <2>2 DEF SyncCheck
<1>4. ASSUME NEW t \in Threads, SyncSubmit(t) PROVE OpTypes'
  <2>1. [pc |-> "sync_wait", serial |-> st'.submitted, mark |-> Len(issued)] \in OpType  BY <1>0
  <2> HIDE DEF OpType
  <2> QED  BY <1>0, <1>1, <1>4, <2>1 DEF SyncSubmit
<1>5. ASSUME NEW t \in Threads, SyncReturn(t) \/ WaitReturn(t) \/ FreeCommandBuffers(t) PROVE OpTypes'
  <2> HIDE DEF OpType
  <2> QED  BY <1>0, <1>1, <1>5 DEF SyncReturn, WaitReturn, FreeCommandBuffers
<1>6. ASSUME NEW t \in Threads, EventRecord(t) PROVE OpTypes'
  BY <1>0, <1>6 DEF EventRecord, OpTypes
<1>7. ASSUME NEW t \in Threads, NEW serial \in Nat, NEW mark \in Nat, NEW pc \in {"wait", "destroy"},
             WaitSubmit(t, serial, pc, mark)
      PROVE  OpTypes'
  <2>1. \A n \in Nat : [pc |-> pc, mark |-> mark, serial |-> n] \in OpType  OBVIOUS
  <2> HIDE DEF OpType
  <2> QED  BY <1>0, <1>1, <1>7, <2>1 DEF WaitSubmit
<1>8. ASSUME NEW t \in Threads, EventWait(t) \/ DestroyGraph(t) PROVE OpTypes'
  BY <1>0, <1>7, <1>8 DEF EventWait, DestroyGraph
<1>9. ASSUME NEW t \in Threads, \/ (\E c \in Commands : Dispatch(t, c))
                                \/ Flush(t) \/ EventQuery(t)
                                \/ BeginCapture(t) \/ EndCapture(t) \/ AbortCapture(t) \/ Launch(t)
      PROVE  OpTypes'
  BY <1>2, <1>9 DEF Dispatch, Flush, EventQuery, BeginCapture, EndCapture, AbortCapture, Launch
<1>10. CASE Execute \/ GpuSignal \/ UNCHANGED vars
  BY <1>2, <1>10 DEF Execute, GpuSignal, vars
<1> QED  BY <1>3, <1>4, <1>5, <1>6, <1>8, <1>9, <1>10 DEF Next, Thread

\* The number of commands in a buffer.
LEMMA CountType ==
    ASSUME NEW S, NEW buf \in Seq(S)
    PROVE  Cardinality({i \in DOMAIN buf : IsCommand(buf[i])}) \in Nat
<1>1. DOMAIN buf = 1 .. Len(buf) /\ Len(buf) \in Int  OBVIOUS
<1>2. IsFiniteSet(1 .. Len(buf))  BY <1>1, FS_Interval
<1>3. {i \in DOMAIN buf : IsCommand(buf[i])} \in SUBSET (1 .. Len(buf))  BY <1>1
<1> QED  BY <1>2, <1>3, FS_Subset, FS_CardinalityType

\* A position of the queue is that of an entry.
LEMMA PositionType ==
    ASSUME st \in StreamType(Commands), NEW p \in Positions
    PROVE  /\ p = <<p[1], p[2]>> /\ p[1] \in DOMAIN st.queue /\ p[2] \in DOMAIN st.queue[p[1]].cb
           /\ p[1] \in Nat /\ p[2] \in Nat
           /\ EntryAt(p) \in Entries(Commands)
<1>1. PICK k \in DOMAIN st.queue : p \in {<<k, i>> : i \in DOMAIN st.queue[k].cb}  BY DEF Positions
<1>2. PICK i \in DOMAIN st.queue[k].cb : p = <<k, i>>  BY <1>1
<1>3. st.queue[k] \in Submissions(Commands)  BY QueueType
<1>4. st.queue[k].cb \in Seq(Entries(Commands))  BY <1>3 DEF Submissions, CommandBuffers
<1>5. st.queue \in Seq(Submissions(Commands))  BY DEF StreamType
<1>6. k \in Nat /\ i \in Nat /\ st.queue[k].cb[i] \in Entries(Commands)  BY <1>4, <1>5
<1> QED  BY <1>2, <1>6 DEF EntryAt

\* The histories keep their types.
LEMMA NextHistoryTypes ==
    ASSUME IInv, TypeOK, [Next]_vars
    PROVE  HistoryTypes'
<1>0. /\ done \subseteq Nat \X Nat /\ retired \in Nat /\ visible \in Nat /\ ran \in Calls
      /\ issued \in Calls /\ captured \in Calls /\ st \in StreamType(Commands)
  BY TypeParts DEF HistoryTypes, ControlTypes
<1>1. CASE Execute
  <2>1. PICK p \in Pending : /\ done' = done \cup {<<st.queue[p[1]].serial, p[2]>>}
                             /\ ran' = Append(ran, EntryAt(p))
    BY <1>1 DEF Execute
  <2>2. p \in Positions /\ IsCommand(EntryAt(p))  BY DEF Pending
  <2>3. EntryAt(p) \in Entries(Commands) /\ p[1] \in DOMAIN st.queue /\ p[2] \in Nat
    BY <1>0, <2>2, PositionType
  <2>4. EntryAt(p) \in [op : {"command"}, arg : Commands]
    BY <2>2, <2>3 DEF Entries, IsCommand
  <2>5. st.queue[p[1]].serial \in Nat  BY <1>0, <2>3, QueueType
  <2>6. Append(ran, EntryAt(p)) \in Calls  BY <1>0, <2>4 DEF Calls
  <2> QED  BY <1>0, <1>1, <2>1, <2>3, <2>5, <2>6 DEF Execute, HistoryTypes
<1>2. CASE GpuSignal
  <2> DEFINE buf == Head(st.queue).cb
  <2>1. buf \in Seq(Entries(Commands))
    <3>1. 1 \in DOMAIN st.queue /\ Head(st.queue) = st.queue[1]  BY <1>0, <1>2 DEF GpuSignal, StreamType
    <3>2. st.queue[1] \in Submissions(Commands)  BY <1>0, <3>1, QueueType
    <3> QED  BY <3>1, <3>2 DEF Submissions, CommandBuffers
  <2>2. Cardinality({i \in DOMAIN buf : IsCommand(buf[i])}) \in Nat  BY <2>1, CountType
  <2>3. retired' \in Nat  BY <1>0, <1>2, <2>2 DEF GpuSignal
  <2>4. visible' \in Nat  BY <1>0, <1>2, <2>3 DEF GpuSignal
  <2>5. done' \subseteq Nat \X Nat  BY <1>0, <1>2 DEF GpuSignal
  <2> QED  BY <1>0, <1>2, <2>3, <2>4, <2>5 DEF GpuSignal, HistoryTypes
<1>3. CASE UNCHANGED vars  BY <1>0, <1>3 DEF vars, HistoryTypes
<1> QED  BY <1>1, <1>2, <1>3, ThreadHistories DEF Next

\* Everything keeps its type, whatever the threads, the driver and the GPU do.
THEOREM QueueTypes == Spec => []TypeOK
<1>1. Init => TypeOK
  <2> SUFFICES ASSUME Init PROVE TypeOK  OBVIOUS
  <2>1. ControlTypes  BY InitInv DEF IInv
  <2>2. HistoryTypes  BY DEF Init, HistoryTypes, Calls
  <2>3. OpTypes  BY DEF Init, OpTypes, Idle, NoEvent
  <2> QED  BY <2>1, <2>2, <2>3, TypeParts
<1>2. IInv /\ IInv' /\ TypeOK /\ [Next]_vars => TypeOK'
  <2> SUFFICES ASSUME IInv, IInv', TypeOK, [Next]_vars PROVE TypeOK'  OBVIOUS
  <2>1. HistoryTypes'  BY NextHistoryTypes
  <2>2. OpTypes'  BY NextOpTypes
  <2>3. ControlTypes'  BY DEF IInv
  <2> QED  BY <2>1, <2>2, <2>3 DEF TypeOK, HistoryTypes, OpTypes, Calls
<1> QED  BY <1>1, <1>2, StreamCorrect, PTL DEF Spec

-----------------------------------------------------------------------------
(***************************************************************************)
(* The graph object's command buffers.  The segments in the queue belong   *)
(* to the one graph there is, and none was submitted after its last        *)
(* launch, as long as no launch was cut short by a refused submission.     *)
(***************************************************************************)

\* Who has the capture and the graph.
OwnerInv ==
    /\ st.capturing => owner # Nobody /\ graph = NoGraph
    /\ owner = Nobody => graph = NoGraph
    /\ graph.cbs = << >> => graph = NoGraph
    /\ \A t \in Threads : op[t].pc = "destroy" => owner = t /\ graph # NoGraph

\* What the last launch covers, and what ~VulkanGraph waits for.
ReplayInv ==
    fails = 0 =>
        /\ graph.last_launch <= st.submitted
        /\ \A k \in DOMAIN st.queue : st.queue[k].slot = NoSlot =>
              graph # NoGraph /\ st.queue[k].serial <= graph.last_launch
        /\ \A t \in Threads : op[t].pc = "destroy" => op[t].serial = graph.last_launch

\* From s to u no segment was submitted.
NoReplay(s, u) ==
    /\ s.submitted <= u.submitted
    /\ \A k \in DOMAIN u.queue : u.queue[k].slot = NoSlot =>
          \E j \in DOMAIN s.queue : u.queue[k] = s.queue[j]

\* An operation that leaves the queue alone submits no segment.
LEMMA SameQueue ==
    ASSUME NEW s \in StreamType(Commands), NEW u, u.queue = s.queue, u.submitted = s.submitted
    PROVE  NoReplay(s, u)
BY DEF NoReplay, StreamType

\* submit_locked submits a slot's buffer.
LEMMA SubmitNoReplay ==
    ASSUME NEW s \in StreamType(Commands), StreamInv(s), NEW ok \in BOOLEAN
    PROVE  NoReplay(s, submit_locked(s, ok)) /\ submit_locked(s, ok).capturing = s.capturing
<1> DEFINE u == submit_locked(s, ok)
<1>0. u.capturing = s.capturing  BY SubmitLockedInv
<1>1. CASE s.open_slot = NoSlot
  <2>1. u = s  BY <1>1 DEF submit_locked
  <2> QED  BY <2>1, SameQueue
<1>2. CASE s.open_slot # NoSlot /\ ~ok
  <2>1. ok = FALSE  BY <1>2
  <2>2. u.queue = s.queue /\ u.submitted = s.submitted  BY <1>2, <2>1, SubmitRefused
  <2> HIDE DEF u
  <2> QED  BY <1>0, <2>2, SameQueue DEF u
<1>3. CASE s.open_slot # NoSlot /\ ok
  <2> DEFINE sub == [serial |-> s.open_serial, slot |-> s.open_slot, cb |-> s.cb \o <<ToHost>>]
             n == Len(s.queue)
  <2>1. ok = TRUE  BY <1>3
  <2>2. u.queue = Append(s.queue, sub) /\ u.submitted = s.open_serial  BY <1>3, <2>1, SubmitAccepted
  <2>3. sub.slot # NoSlot  BY <1>3
  <2>4. s.submitted <= s.open_serial
    BY <1>3 DEF StreamInv, OpenBatch, SerialOrder, StreamType
  <2>5. /\ n \in Nat /\ DOMAIN s.queue = 1 .. n /\ DOMAIN Append(s.queue, sub) = 1 .. n + 1
        /\ Append(s.queue, sub)[n + 1] = sub
        /\ \A k \in 1 .. n : Append(s.queue, sub)[k] = s.queue[k]
    BY DEF StreamType
  <2> HIDE DEF u, sub, n
  <2>6. ASSUME NEW k \in DOMAIN u.queue, u.queue[k].slot = NoSlot
        PROVE  \E j \in DOMAIN s.queue : u.queue[k] = s.queue[j]
    <3>1. k # n + 1  BY <2>2, <2>3, <2>5, <2>6
    <3>2. k \in 1 .. n  BY <2>2, <2>5, <3>1
    <3> QED  BY <2>2, <2>5, <3>2
  <2> QED  BY <1>0, <2>2, <2>4, <2>6 DEF NoReplay, u
<1> QED  BY <1>0, <1>1, <1>2, <1>3

\* Recording submits no segment either.
LEMMA DispatchNoReplay ==
    ASSUME NEW s \in StreamType(Commands), StreamInv(s), SlotReady(s), NEW c \in Commands,
           NEW ok \in BOOLEAN
    PROVE  NoReplay(s, dispatch(s, c, ok)) /\ dispatch(s, c, ok).capturing = s.capturing
<1> DEFINE o == open_locked(s)
           r == record_command(o, c)
           u == after_command_locked(r, ok)
<1>1. o \in StreamType(Commands) /\ StreamInv(o)  BY OpenLockedType, OpenLockedInv
<1>2. o.queue = s.queue /\ o.submitted = s.submitted /\ o.capturing = s.capturing
  BY DEF open_locked, StreamType
<1> HIDE DEF o
<1>3. r \in StreamType(Commands) /\ StreamInv(r)  BY <1>1, RecordCommandInv
<1>4. r.queue = o.queue /\ r.submitted = o.submitted /\ r.capturing = o.capturing
  BY <1>1 DEF record_command, StreamType
<1> HIDE DEF r
<1>5. NoReplay(r, u) /\ u.capturing = r.capturing
  <2>1. CASE r.ops_in_batch < batch_limit
    <3>1. u = r  BY <2>1 DEF after_command_locked
    <3> QED  BY <1>3, <3>1, SameQueue
  <2>2. CASE ~(r.ops_in_batch < batch_limit) /\ ~r.capturing
    <3>1. u = submit_locked(r, ok)  BY <2>2 DEF after_command_locked
    <3> QED  BY <1>3, <3>1, SubmitNoReplay
  <2>3. CASE ~(r.ops_in_batch < batch_limit) /\ r.capturing
    <3>1. u = begin_capture_segment_locked([r EXCEPT !.capture_done = Append(@, r.capture_cb)])
      BY <2>3 DEF after_command_locked
    <3>2. u.queue = r.queue /\ u.submitted = r.submitted /\ u.capturing = r.capturing
      BY <1>3, <3>1 DEF begin_capture_segment_locked, StreamType
    <3> HIDE DEF u
    <3> QED  BY <1>3, <3>2, SameQueue
  <2> QED  BY <2>1, <2>2, <2>3
<1>6. dispatch(s, c, ok) = u  BY DEF dispatch, r, o
<1> QED  BY <1>2, <1>4, <1>5, <1>6 DEF NoReplay

\* Nor do begin_capture, end_capture, abort_capture and the GPU's signal.
LEMMA CaptureNoReplay ==
    ASSUME NEW s \in StreamType(Commands), StreamInv(s)
    PROVE  /\ \A ok \in BOOLEAN :
                 /\ NoReplay(s, begin_capture(s, ok))
                 /\ ~ok /\ SubmitsOpen(s) => begin_capture(s, ok).capturing = s.capturing
           /\ NoReplay(s, LeaveCapture(s)) /\ ~LeaveCapture(s).capturing
<1>1. NoReplay(s, LeaveCapture(s)) /\ ~LeaveCapture(s).capturing
  <2>1. LeaveCapture(s).queue = s.queue /\ LeaveCapture(s).submitted = s.submitted
        /\ ~LeaveCapture(s).capturing
    BY DEF LeaveCapture, StreamType
  <2> QED  BY <2>1, SameQueue
<1>2. ASSUME NEW ok \in BOOLEAN
      PROVE  /\ NoReplay(s, begin_capture(s, ok))
             /\ ~ok /\ SubmitsOpen(s) => begin_capture(s, ok).capturing = s.capturing
  <2> DEFINE u == submit_locked(s, ok)
             v == begin_capture_segment_locked([u EXCEPT !.capture_done = << >>, !.capturing = TRUE])
  <2>1. u \in StreamType(Commands) /\ NoReplay(s, u) /\ u.capturing = s.capturing
    BY SubmitLockedInv, SubmitNoReplay
  <2> HIDE DEF u
  <2>2. v.queue = u.queue /\ v.submitted = u.submitted
    BY <2>1 DEF begin_capture_segment_locked, StreamType
  <2> HIDE DEF v
  <2>3. NoReplay(s, v)  BY <2>1, <2>2 DEF NoReplay
  <2>4. begin_capture(s, ok) = IF SubmitsOpen(s) /\ ~ok THEN u ELSE v
    BY DEF begin_capture, u, v
  <2> QED  BY <2>1, <2>3, <2>4
<1> QED  BY <1>1, <1>2

\* The GPU's signal takes the head off the queue.
LEMMA SignalNoReplay ==
    ASSUME NEW s \in StreamType(Commands), StreamInv(s), s.queue # << >>
    PROVE  NoReplay(s, Signal(s)) /\ Signal(s).capturing = s.capturing
<1> DEFINE n == Len(s.queue)
<1>1. /\ n \in Nat /\ n # 0 /\ DOMAIN s.queue = 1 .. n /\ DOMAIN Tail(s.queue) = 1 .. n - 1
      /\ \A i \in 1 .. n - 1 : Tail(s.queue)[i] = s.queue[i + 1] /\ i + 1 \in DOMAIN s.queue
  BY DEF StreamType
<1>2. Signal(s).queue = Tail(s.queue) /\ Signal(s).submitted = s.submitted
      /\ Signal(s).capturing = s.capturing /\ s.submitted \in Nat
  BY DEF Signal, StreamType
<1> QED  BY <1>1, <1>2 DEF NoReplay

\* wait_submit is submit_locked, or nothing.
LEMMA WaitNoReplay ==
    ASSUME NEW s \in StreamType(Commands), StreamInv(s), NEW serial, NEW ok \in BOOLEAN
    PROVE  NoReplay(s, wait_submit(s, serial, ok)) /\ wait_submit(s, serial, ok).capturing = s.capturing
BY SubmitNoReplay, SameQueue DEF wait_submit

\* What a launch that is accepted to the last segment leaves: its serial is the last one submitted.
LEMMA LaunchSubmits ==
    ASSUME NEW s \in StreamType(Commands), StreamInv(s), NEW cbs \in Seq(CommandBuffers(Commands)),
           cbs # << >>
    PROVE  /\ launch(s, cbs, TRUE, Len(cbs)).submitted = launch_serial(s, cbs)
           /\ launch(s, cbs, TRUE, Len(cbs)).capturing = s.capturing
<1> DEFINE u == submit_locked(s, TRUE)
           v == launch_segments(u, cbs, Len(cbs))
<1>1. u \in StreamType(Commands) /\ u.capturing = s.capturing  BY SubmitLockedInv
<1> HIDE DEF u
<1>2. Len(cbs) # 0 /\ Len(cbs) \in Nat  OBVIOUS
<1>3. v.submitted = u.next_serial + Len(cbs) - 1 /\ v.capturing = u.capturing
  BY <1>1, <1>2 DEF launch_segments, StreamType
<1> QED  BY <1>1, <1>3 DEF launch, launch_serial, u

\* However a launch ends, it does not touch the capture.
LEMMA LaunchCapturing ==
    ASSUME NEW s \in StreamType(Commands), StreamInv(s), NEW cbs, NEW ok \in BOOLEAN, NEW n
    PROVE  launch(s, cbs, ok, n).capturing = s.capturing
<1> DEFINE u == submit_locked(s, ok)
<1>1. u \in StreamType(Commands) /\ u.capturing = s.capturing  BY SubmitLockedInv
<1> HIDE DEF u
<1>2. launch_segments(u, cbs, n).capturing = u.capturing  BY <1>1 DEF launch_segments, StreamType
<1> QED  BY <1>1, <1>2 DEF launch, u

\* Each thread's step keeps track of who has the capture and the graph.
LEMMA NextOwner ==
    ASSUME IInv, TypeOK, OwnerInv, [Next]_vars
    PROVE  OwnerInv'
<1>0. /\ st \in StreamType(Commands) /\ StreamInv(st) /\ Nobody \notin Threads
      /\ op \in [Threads -> [pc : {"idle", "sync", "sync_wait", "wait", "destroy"},
                            serial : Nat, mark : Nat]]
      /\ graph \in [cbs : Seq(CommandBuffers(Commands)), last_launch : Nat]
  BY ThreadsAssumption, TypeParts DEF IInv, ControlTypes, OpTypes
<1>1. ASSUME UNCHANGED <<owner, graph>>, st'.capturing = st.capturing,
             \A t \in Threads : op'[t].pc = "destroy" => op[t].pc = "destroy"
      PROVE  OwnerInv'
  BY <1>1 DEF OwnerInv
<1>2. ASSUME NEW t \in Threads, NEW c \in Commands, Dispatch(t, c) PROVE OwnerInv'
  <2>1. st'.capturing = st.capturing
    BY <1>0, <1>2, OutcomeType, DispatchNoReplay DEF Dispatch
  <2> QED  BY <1>1, <1>2, <2>1 DEF Dispatch
<1>3. ASSUME NEW t \in Threads, Flush(t) \/ EventQuery(t) PROVE OwnerInv'
  <2>1. PICK ok \in BOOLEAN : st' = submit_locked(st, ok)
    BY <1>3, OutcomeType DEF Flush, EventQuery
  <2>2. st'.capturing = st.capturing  BY <1>0, <2>1, SubmitNoReplay
  <2> QED  BY <1>1, <1>3, <2>2 DEF Flush, EventQuery
<1>4. ASSUME NEW t \in Threads, SyncSubmit(t) PROVE OwnerInv'
  <2>1. st'.capturing = st.capturing
    BY <1>0, <1>4, OutcomeType, SubmitNoReplay DEF SyncSubmit
  <2>2. \A u \in Threads : op'[u].pc = "destroy" => op[u].pc = "destroy"
    BY <1>0, <1>4 DEF SyncSubmit, Idle
  <2> QED  BY <1>1, <1>4, <2>1, <2>2 DEF SyncSubmit
<1>5. ASSUME NEW t \in Threads, SyncCheck(t) \/ SyncReturn(t) \/ WaitReturn(t) \/ EventRecord(t)
      PROVE  OwnerInv'
  <2>1. \A u \in Threads : op'[u].pc = "destroy" => op[u].pc = "destroy"
    <3>1. CASE SyncCheck(t)  BY <1>0, <3>1 DEF SyncCheck
    <3>2. CASE SyncReturn(t)  BY <1>0, <3>2 DEF SyncReturn, Idle
    <3>3. CASE WaitReturn(t)  BY <1>0, <3>3 DEF WaitReturn, Idle
    <3>4. CASE EventRecord(t)  BY <3>4 DEF EventRecord
    <3> QED  BY <1>5, <3>1, <3>2, <3>3, <3>4
  <2> QED  BY <1>1, <1>5, <2>1 DEF SyncCheck, SyncReturn, WaitReturn, EventRecord
<1>6. ASSUME NEW t \in Threads, EventWait(t) PROVE OwnerInv'
  <2>0. PICK ok \in Outcomes(wait_submit(st, event.serial, TRUE) # st) :
                st' = wait_submit(st, event.serial, ok)
    BY <1>6 DEF EventWait, WaitSubmit
  <2>a. ok \in BOOLEAN  BY OutcomeType
  <2>1. st'.capturing = st.capturing  BY <1>0, <2>0, <2>a, WaitNoReplay
  <2>2. \A u \in Threads : op'[u].pc = "destroy" => op[u].pc = "destroy"
    BY <1>0, <1>6 DEF EventWait, WaitSubmit, Idle
  <2> QED  BY <1>1, <1>6, <2>1, <2>2 DEF EventWait, WaitSubmit
<1>7. ASSUME NEW t \in Threads, DestroyGraph(t) PROVE OwnerInv'
  <2>0. PICK ok \in Outcomes(wait_submit(st, graph.last_launch, TRUE) # st) :
                st' = wait_submit(st, graph.last_launch, ok)
    BY <1>7 DEF DestroyGraph, WaitSubmit
  <2>a. ok \in BOOLEAN  BY OutcomeType
  <2>1. st'.capturing = st.capturing  BY <1>0, <2>0, <2>a, WaitNoReplay
  <2>2. \A u \in Threads : op'[u].pc = "destroy" => op[u].pc = "destroy" \/ u = t
    BY <1>0, <1>7 DEF DestroyGraph, WaitSubmit
  <2> QED  BY <1>7, <2>1, <2>2 DEF DestroyGraph, WaitSubmit, OwnerInv
<1>8. ASSUME NEW t \in Threads, BeginCapture(t) PROVE OwnerInv'
  <2>1. PICK ok \in Outcomes(SubmitsOpen(st)) : st' = begin_capture(st, ok) /\ owner' = IF ok THEN t ELSE owner
    BY <1>8 DEF BeginCapture
  <2>2. ok \in BOOLEAN /\ (~ok => SubmitsOpen(st))  BY DEF Outcomes
  <2>3. ~ok => st'.capturing = st.capturing  BY <1>0, <2>1, <2>2, CaptureNoReplay
  <2> QED  BY <1>0, <1>8, <2>1, <2>2, <2>3 DEF BeginCapture, OwnerInv
<1>9. ASSUME NEW t \in Threads, EndCapture(t) PROVE OwnerInv'
  <2>1. ~st'.capturing  BY <1>0, <1>9, CaptureNoReplay DEF EndCapture, end_capture
  <2>2. graph'.cbs # << >>
    <3> DEFINE last == st.capture_cb \o <<ToHost>>
    <3>1. st.capture_done \in Seq(CommandBuffers(Commands))  BY <1>0 DEF StreamType
    <3> HIDE DEF last
    <3>2. Len(Append(st.capture_done, last)) # 0  BY <3>1
    <3>3. Append(st.capture_done, last) # << >>  BY <3>2, SMTT(30)
    <3>4. captured_segments(st) # << >>  BY <3>3 DEF captured_segments, last
    <3> QED  BY <1>9, <3>4 DEF EndCapture
  <2>3. graph' # NoGraph  BY <2>2 DEF NoGraph
  <2> QED  BY <1>0, <1>9, <2>1, <2>2, <2>3 DEF EndCapture, OwnerInv
<1>10. ASSUME NEW t \in Threads, AbortCapture(t) PROVE OwnerInv'
  <2>1. ~st'.capturing  BY <1>0, <1>10, CaptureNoReplay DEF AbortCapture, abort_capture
  <2> QED  BY <1>10, <2>1 DEF AbortCapture, OwnerInv
<1>11. ASSUME NEW t \in Threads, Launch(t) PROVE OwnerInv'
  <2>1. st'.capturing = st.capturing
    BY <1>0, <1>11, OutcomeType, LaunchCapturing DEF Launch
  <2>2. graph'.cbs = graph.cbs  BY <1>0, <1>11 DEF Launch
  <2>3. graph # NoGraph  BY <1>11 DEF Launch
  <2>4. graph'.cbs # << >>  BY <2>2, <2>3 DEF OwnerInv
  <2>5. graph' # NoGraph  BY <2>4 DEF NoGraph
  <2> QED  BY <1>0, <1>11, <2>1, <2>3, <2>4, <2>5 DEF Launch, OwnerInv
<1>12. ASSUME NEW t \in Threads, FreeCommandBuffers(t) PROVE OwnerInv'
  <2>1. \A u \in Threads : op'[u].pc # "destroy"
    BY <1>0, <1>12 DEF FreeCommandBuffers, Idle, OwnerInv
  <2> QED  BY <1>12, <2>1 DEF FreeCommandBuffers, OwnerInv
<1>13. CASE GpuSignal
  <2>1. st'.capturing = st.capturing  BY <1>0, <1>13, SignalNoReplay DEF GpuSignal
  <2> QED  BY <1>1, <1>13, <2>1 DEF GpuSignal
<1>14. CASE Execute \/ UNCHANGED vars
  BY <1>1, <1>14 DEF Execute, vars
<1> QED  BY <1>2, <1>3, <1>4, <1>5, <1>6, <1>7, <1>8, <1>9, <1>10, <1>11, <1>12, <1>13, <1>14
         DEF Next, Thread

\* ... and, while nothing was refused, of what ~VulkanGraph has to wait for.
LEMMA NextReplay ==
    ASSUME IInv, IInv', TypeOK, OwnerInv, ReplayInv, [Next]_vars
    PROVE  ReplayInv'
<1> SUFFICES ASSUME fails' = 0
             PROVE  /\ graph'.last_launch <= st'.submitted
                    /\ \A k \in DOMAIN st'.queue : st'.queue[k].slot = NoSlot =>
                          graph' # NoGraph /\ st'.queue[k].serial <= graph'.last_launch
                    /\ \A t \in Threads : op'[t].pc = "destroy" => op'[t].serial = graph'.last_launch
  BY DEF ReplayInv
<1>0. /\ st \in StreamType(Commands) /\ StreamInv(st) /\ Nobody \notin Threads /\ fails \in Nat
      /\ st' \in StreamType(Commands) /\ StreamInv(st')
      /\ op \in [Threads -> [pc : {"idle", "sync", "sync_wait", "wait", "destroy"},
                            serial : Nat, mark : Nat]]
      /\ graph \in [cbs : Seq(CommandBuffers(Commands)), last_launch : Nat]
  BY ThreadsAssumption, TypeParts DEF IInv, ControlTypes, OpTypes
<1>u. st.submitted \in Nat /\ st'.submitted \in Nat /\ graph.last_launch \in Nat
  BY <1>0 DEF StreamType
<1>1. ASSUME fails = 0, graph' = graph, NoReplay(st, st'),
             \A t \in Threads : op'[t].pc = "destroy" =>
                 op'[t].serial = graph.last_launch \/ (op[t].pc = "destroy" /\ op'[t] = op[t])
      PROVE  /\ graph'.last_launch <= st'.submitted
             /\ \A k \in DOMAIN st'.queue : st'.queue[k].slot = NoSlot =>
                   graph' # NoGraph /\ st'.queue[k].serial <= graph'.last_launch
             /\ \A t \in Threads : op'[t].pc = "destroy" => op'[t].serial = graph'.last_launch
  <2>1. graph.last_launch <= st.submitted /\ st.submitted <= st'.submitted
    BY <1>1 DEF ReplayInv, NoReplay
  <2>2. ASSUME NEW k \in DOMAIN st'.queue, st'.queue[k].slot = NoSlot
        PROVE  graph # NoGraph /\ st'.queue[k].serial <= graph.last_launch
    <3>1. PICK j \in DOMAIN st.queue : st'.queue[k] = st.queue[j]  BY <1>1, <2>2 DEF NoReplay
    <3> QED  BY <1>1, <2>2, <3>1 DEF ReplayInv
  <2>3. \A t \in Threads : op'[t].pc = "destroy" => op'[t].serial = graph.last_launch
    BY <1>1 DEF ReplayInv
  <2> QED  BY <1>1, <1>u, <2>1, <2>2, <2>3
<1>2. ASSUME NEW t \in Threads, NEW c \in Commands, Dispatch(t, c) PROVE fails = 0 /\ NoReplay(st, st')
  <2>1. PICK ok \in Outcomes(SubmitsOnCommand(st)) :
            st' = dispatch(st, c, ok) /\ fails' = IF ok THEN fails ELSE fails + 1
    BY <1>2 DEF Dispatch
  <2>2. ok \in BOOLEAN  BY OutcomeType
  <2>3. SlotReady(st)  BY <1>2 DEF Dispatch
  <2>4. NoReplay(st, st')  BY <1>0, <2>1, <2>2, <2>3, DispatchNoReplay
  <2> QED  BY <1>0, <2>1, <2>4
<1>3. ASSUME NEW t \in Threads, Flush(t) \/ EventQuery(t) \/ SyncSubmit(t)
      PROVE  fails = 0 /\ NoReplay(st, st')
  <2>1. PICK ok \in BOOLEAN : st' = submit_locked(st, ok) /\ Outcome(ok)
    BY <1>3, OutcomeType DEF Flush, EventQuery, SyncSubmit
  <2>2. NoReplay(st, st')  BY <1>0, <2>1, SubmitNoReplay
  <2> QED  BY <1>0, <2>1, <2>2 DEF Outcome
<1>4. ASSUME NEW t \in Threads, NEW serial, NEW pc, NEW mark, WaitSubmit(t, serial, pc, mark)
      PROVE  /\ fails = 0 /\ NoReplay(st, st')
             /\ op' = [op EXCEPT ![t] = [pc |-> pc, mark |-> mark,
                             serial |-> IF wait_returns_early(st, serial) THEN 0 ELSE serial]]
  <2>1. PICK ok \in Outcomes(wait_submit(st, serial, TRUE) # st) :
            /\ st' = wait_submit(st, serial, ok)
            /\ Outcome(ok)
            /\ op' = [op EXCEPT ![t] =
                         IF ~ok THEN Idle
                         ELSE [pc |-> pc, mark |-> mark,
                               serial |-> IF wait_returns_early(st, serial) THEN 0 ELSE serial]]
    BY <1>4 DEF WaitSubmit
  <2>2. ok \in BOOLEAN  BY OutcomeType
  <2>3. NoReplay(st, st')  BY <1>0, <2>1, <2>2, WaitNoReplay
  <2>4. ok /\ fails = 0  BY <1>0, <2>1, <2>2 DEF Outcome
  <2> QED  BY <2>1, <2>3, <2>4
<1>5. ASSUME NEW t \in Threads, NEW c \in Commands, Dispatch(t, c) PROVE ReplayInv'
  BY <1>1, <1>2, <1>5 DEF Dispatch, ReplayInv
<1>6. ASSUME NEW t \in Threads, Flush(t) \/ EventQuery(t) PROVE ReplayInv'
  BY <1>1, <1>3, <1>6 DEF Flush, EventQuery, ReplayInv
<1>7. ASSUME NEW t \in Threads, SyncSubmit(t) PROVE ReplayInv'
  <2>1. fails = 0 /\ NoReplay(st, st')  BY <1>3, <1>7
  <2>2. \A u \in Threads : op'[u].pc = "destroy" => op[u].pc = "destroy" /\ op'[u] = op[u]
    BY <1>0, <1>7 DEF SyncSubmit, Idle
  <2> QED  BY <1>1, <1>7, <2>1, <2>2 DEF SyncSubmit, ReplayInv
<1>8. ASSUME NEW t \in Threads, SyncCheck(t) \/ SyncReturn(t) \/ WaitReturn(t) \/ EventRecord(t)
      PROVE  ReplayInv'
  <2>1. st' = st /\ graph' = graph /\ fails' = fails
    BY <1>8 DEF SyncCheck, SyncReturn, WaitReturn, EventRecord
  <2>2. \A u \in Threads : op'[u].pc = "destroy" => op[u].pc = "destroy" /\ op'[u] = op[u]
    <3>1. CASE SyncCheck(t)  BY <1>0, <3>1 DEF SyncCheck
    <3>2. CASE SyncReturn(t)  BY <1>0, <3>2 DEF SyncReturn, Idle
    <3>3. CASE WaitReturn(t)  BY <1>0, <3>3 DEF WaitReturn, Idle
    <3>4. CASE EventRecord(t)  BY <3>4 DEF EventRecord
    <3> QED  BY <1>8, <3>1, <3>2, <3>3, <3>4
  <2>3. NoReplay(st, st')  BY <1>0, <2>1, SameQueue
  <2> QED  BY <1>1, <2>1, <2>2, <2>3 DEF ReplayInv
<1>9. ASSUME NEW t \in Threads, EventWait(t) PROVE ReplayInv'
  <2>1. WaitSubmit(t, event.serial, "wait", event.mark)  BY <1>9 DEF EventWait
  <2>2. fails = 0 /\ NoReplay(st, st')  BY <1>4, <2>1
  <2>3. op' = [op EXCEPT ![t] = [pc |-> "wait", mark |-> event.mark,
                  serial |-> IF wait_returns_early(st, event.serial) THEN 0 ELSE event.serial]]
    BY <1>4, <2>1
  <2>4. \A u \in Threads : op'[u].pc = "destroy" => op[u].pc = "destroy" /\ op'[u] = op[u]
    BY <1>0, <2>3
  <2> QED  BY <1>1, <2>1, <2>2, <2>4 DEF WaitSubmit, ReplayInv
<1>10. ASSUME NEW t \in Threads, DestroyGraph(t) PROVE ReplayInv'
  <2>1. WaitSubmit(t, graph.last_launch, "destroy", 0)  BY <1>10 DEF DestroyGraph
  <2>2. fails = 0 /\ NoReplay(st, st')  BY <1>4, <2>1
  <2>3. op' = [op EXCEPT ![t] = [pc |-> "destroy", mark |-> 0,
            serial |-> IF wait_returns_early(st, graph.last_launch) THEN 0 ELSE graph.last_launch]]
    BY <1>4, <2>1
  <2>4. ~wait_returns_early(st, graph.last_launch)
    BY <1>u, <2>2 DEF wait_returns_early, ReplayInv
  <2>5. \A u \in Threads : op'[u].pc = "destroy" =>
           op'[u].serial = graph.last_launch \/ (op[u].pc = "destroy" /\ op'[u] = op[u])
    BY <1>0, <2>3, <2>4
  <2> QED  BY <1>1, <2>1, <2>2, <2>5 DEF WaitSubmit, ReplayInv
<1>11. ASSUME NEW t \in Threads, BeginCapture(t) PROVE ReplayInv'
  <2>1. PICK ok \in Outcomes(SubmitsOpen(st)) : st' = begin_capture(st, ok) /\ Outcome(ok)
    BY <1>11 DEF BeginCapture
  <2>2. ok \in BOOLEAN  BY OutcomeType
  <2>3. fails = 0 /\ NoReplay(st, st')  BY <1>0, <2>1, <2>2, CaptureNoReplay DEF Outcome
  <2> QED  BY <1>1, <1>11, <2>3 DEF BeginCapture, ReplayInv
<1>12. ASSUME NEW t \in Threads, EndCapture(t) PROVE ReplayInv'
  <2>1. NoReplay(st, st')  BY <1>0, <1>12, CaptureNoReplay DEF EndCapture, end_capture
  <2>2. graph = NoGraph /\ owner = t /\ op[t].pc = "idle" /\ op' = op /\ fails' = fails
        /\ graph'.last_launch = 0
    BY <1>12 DEF EndCapture, OwnerInv
  <2>3. \A k \in DOMAIN st'.queue : st'.queue[k].slot # NoSlot
    <3> SUFFICES ASSUME NEW k \in DOMAIN st'.queue, st'.queue[k].slot = NoSlot PROVE FALSE
      OBVIOUS
    <3>1. PICK j \in DOMAIN st.queue : st'.queue[k] = st.queue[j]  BY <2>1 DEF NoReplay
    <3> QED  BY <2>2, <3>1 DEF ReplayInv
  <2>4. \A u \in Threads : op'[u].pc # "destroy"  BY <2>2 DEF OwnerInv
  <2> QED  BY <1>u, <2>2, <2>3, <2>4 DEF ReplayInv
<1>13. ASSUME NEW t \in Threads, AbortCapture(t) PROVE ReplayInv'
  <2>1. NoReplay(st, st')  BY <1>0, <1>13, CaptureNoReplay DEF AbortCapture, abort_capture
  <2> QED  BY <1>1, <1>13, <2>1 DEF AbortCapture, ReplayInv
<1>14. ASSUME NEW t \in Threads, Launch(t) PROVE ReplayInv'
  <2> DEFINE len == Len(graph.cbs)
  <2>1. PICK ok \in Outcomes(SubmitsOpen(st)) :
          \E n \in {len} \cup (IF ok /\ fails < MaxFails THEN 0 .. len - 1 ELSE {}) :
            /\ st' = launch(st, graph.cbs, ok, n)
            /\ fails' = IF ok /\ n = len THEN fails ELSE fails + 1
            /\ graph' = IF ok /\ n = len
                        THEN [graph EXCEPT !.last_launch = launch_serial(st, graph.cbs)] ELSE graph
    BY <1>14 DEF Launch
  <2>2. PICK n :
            /\ st' = launch(st, graph.cbs, ok, n)
            /\ fails' = IF ok /\ n = len THEN fails ELSE fails + 1
            /\ graph' = IF ok /\ n = len
                        THEN [graph EXCEPT !.last_launch = launch_serial(st, graph.cbs)] ELSE graph
    BY <2>1
  <2>3. ok \in BOOLEAN  BY OutcomeType
  <2>4. ok /\ n = len /\ fails = 0  BY <1>0, <2>2, <2>3
  <2>5. /\ st' = launch(st, graph.cbs, TRUE, Len(graph.cbs))
        /\ graph' = [graph EXCEPT !.last_launch = launch_serial(st, graph.cbs)]
    BY <2>2, <2>3, <2>4
  <2> HIDE DEF len
  <2>6. graph # NoGraph /\ owner = t /\ op' = op /\ op[t].pc = "idle"  BY <1>14 DEF Launch
  <2>7. graph.cbs # << >>  BY <2>6 DEF OwnerInv
  <2>8. st'.submitted = launch_serial(st, graph.cbs)  BY <1>0, <2>5, <2>7, LaunchSubmits
  <2>9. graph'.last_launch = st'.submitted /\ graph'.cbs = graph.cbs  BY <1>0, <2>5, <2>8
  <2>10. graph' # NoGraph  BY <2>7, <2>9 DEF NoGraph
  <2>11. \A k \in DOMAIN st'.queue : st'.queue[k].serial <= st'.submitted
    BY <1>0 DEF StreamInv, SerialOrder
  <2>12. \A u \in Threads : op'[u].pc # "destroy"  BY <2>6 DEF OwnerInv
  <2> QED  BY <1>u, <2>9, <2>10, <2>11, <2>12 DEF ReplayInv
<1>15. ASSUME NEW t \in Threads, FreeCommandBuffers(t) PROVE ReplayInv'
  <2>1. /\ op[t].pc = "destroy" /\ st.timeline >= op[t].serial /\ graph' = NoGraph /\ st' = st
        /\ fails' = fails /\ op' = [op EXCEPT ![t] = Idle]
    BY <1>15 DEF FreeCommandBuffers
  <2>2. owner = t /\ op[t].serial = graph.last_launch  BY <2>1 DEF OwnerInv, ReplayInv
  <2>3. \A k \in DOMAIN st.queue : st.queue[k].slot # NoSlot
    <3> SUFFICES ASSUME NEW k \in DOMAIN st.queue, st.queue[k].slot = NoSlot PROVE FALSE
      OBVIOUS
    <3>1. st.queue[k].serial <= graph.last_launch  BY <2>1 DEF ReplayInv
    <3>2. st.timeline < st.queue[k].serial  BY <1>0 DEF StreamInv, SerialOrder
    <3>3. st.timeline \in Nat /\ st.queue \in Seq(Submissions(Commands))  BY <1>0 DEF StreamType
    <3>4. st.queue[k].serial \in Nat
      <4>1. st.queue[k] \in Submissions(Commands)  BY <3>3
      <4> QED  BY <4>1 DEF Submissions
    <3> QED  BY <1>u, <2>1, <2>2, <3>1, <3>2, <3>3, <3>4
  <2>4. \A u \in Threads : op'[u].pc # "destroy"  BY <1>0, <2>1, <2>2 DEF OwnerInv, Idle
  <2>5. NoGraph.last_launch = 0  BY DEF NoGraph
  <2> QED  BY <1>u, <2>1, <2>3, <2>4, <2>5 DEF ReplayInv
<1>16. CASE GpuSignal
  <2>1. NoReplay(st, st')  BY <1>0, <1>16, SignalNoReplay DEF GpuSignal
  <2> QED  BY <1>1, <1>16, <2>1 DEF GpuSignal, ReplayInv
<1>17. CASE Execute \/ UNCHANGED vars
  <2>1. st' = st /\ graph' = graph /\ fails' = fails /\ op' = op  BY <1>17 DEF Execute, vars
  <2>2. NoReplay(st, st')  BY <1>0, <2>1, SameQueue
  <2> QED  BY <1>1, <2>1, <2>2
<1>18. ReplayInv'
  BY <1>5, <1>6, <1>7, <1>8, <1>9, <1>10, <1>11, <1>12, <1>13, <1>14, <1>15, <1>16, <1>17
     DEF Next, Thread, ReplayInv
<1> QED  BY <1>18 DEF ReplayInv

\* ~VulkanGraph: while the driver has refused no submission, no command buffer of a graph that
\* is gone is in the queue (graph.cpp's wait for the last launch, before the buffers are freed).
THEOREM FreedBuffers == Spec => [](fails = 0 => FreedBuffersNotQueued)
<1>1. Init => OwnerInv /\ ReplayInv
  <2> SUFFICES ASSUME Init PROVE OwnerInv /\ ReplayInv
    OBVIOUS
  <2>1. /\ st = InitStream /\ owner = Nobody /\ graph = NoGraph
        /\ op = [t \in Threads |-> Idle]
    BY DEF Init
  <2>2. ~st.capturing /\ st.queue = << >> /\ st.submitted = 0  BY <2>1 DEF InitStream
  <2>3. \A t \in Threads : op[t].pc # "destroy"  BY <2>1 DEF Idle
  <2>4. graph.last_launch = 0  BY <2>1 DEF NoGraph
  <2> QED  BY <2>1, <2>2, <2>3, <2>4 DEF OwnerInv, ReplayInv
<1>2. IInv /\ IInv' /\ TypeOK /\ OwnerInv /\ ReplayInv /\ [Next]_vars => OwnerInv' /\ ReplayInv'
  BY NextOwner, NextReplay
<1>3. OwnerInv /\ ReplayInv => (fails = 0 => FreedBuffersNotQueued)
  BY DEF ReplayInv, FreedBuffersNotQueued
<1> QED  BY <1>1, <1>2, <1>3, QueueTypes, StreamCorrect, PTL DEF Spec

-----------------------------------------------------------------------------
(***************************************************************************)
(* The order of the commands.  b[k] is how many commands were issued       *)
(* before the k-th submission in the queue; what is queued and open is     *)
(* what was issued, in that order, and behind what is retired.             *)
(***************************************************************************)

\* The entries of cb that are commands are the m entries of w that follow the first a, each
\* behind a barrier of its own.
Holds(cb, w, a, m) ==
    /\ 2 * m <= Len(cb) /\ a + m <= Len(w)
    /\ \A i \in 1 .. m : cb[2 * i - 1] = Barrier /\ cb[2 * i] = w[a + i]
    /\ \A i \in DOMAIN cb : i > 2 * m => ~IsCommand(cb[i])

\* ... and cb is being recorded: need_barrier says whether a command is in it.
Recording(cb, w, a, m, need_barrier) ==
    /\ Holds(cb, w, a, m)
    /\ Len(cb) = IF m = 0 THEN 1 ELSE 2 * m
    /\ cb[1] = Barrier
    /\ need_barrier = (m # 0)

\* cb makes the results of what precedes it visible to the host.
HasToHost(cb) == \E i \in DOMAIN cb : cb[i] = ToHost

\* The k-th submission of the queue holds the commands b[k] + 1 to b[k + 1] of w.
QueueHolds(q, w, b) ==
    /\ b \in [1 .. Len(q) + 1 -> Nat]
    /\ \A j, k \in 1 .. Len(q) + 1 : j <= k => b[j] <= b[k]
    /\ \A k \in 1 .. Len(q) : Holds(q[k].cb, w, b[k], b[k + 1] - b[k])

\* The open batch holds what was issued after the first n commands.
Opened(s, w, n) ==
    IF SubmitsOpen(s)
    THEN /\ Len(w) = n + s.ops_in_batch
         /\ Recording(s.cb, w, n, s.ops_in_batch, s.need_barrier)
    ELSE Len(w) = n

\* The GPU has executed the queued commands up to the Len(x)-th, and no others.
RanTo(q, w, b, d, x, top) ==
    /\ \A k \in 1 .. Len(q) : \A i \in 1 .. b[k + 1] - b[k] :
          <<q[k].serial, 2 * i>> \in d <=> b[k] + i <= Len(x)
    /\ \A e \in d : e[1] <= top
    /\ b[1] <= Len(x) /\ Len(x) <= b[Len(q) + 1]
    /\ \A j \in 1 .. Len(x) : x[j] = w[j]

\* The stream s, to which w was issued, against a GPU that has executed x.
InOrderWith(s, w, b, d, x) ==
    /\ QueueHolds(s.queue, w, b)
    /\ Opened(s, w, b[Len(s.queue) + 1])
    /\ RanTo(s.queue, w, b, d, x, s.submitted)

\* A command buffer holds the commands of any sequence that agrees with w where it matters.
LEMMA HoldsAgree ==
    ASSUME NEW cb, NEW w, NEW x, NEW a \in Nat, NEW m \in Nat, NEW e \in Nat, Holds(cb, w, a, m),
           e + m <= Len(x), \A i \in 1 .. m : x[e + i] = w[a + i]
    PROVE  Holds(cb, x, e, m)
BY DEF Holds

\* Recording a command, and the barrier before it.
LEMMA RecordHolds ==
    ASSUME NEW cb \in CommandBuffers(Commands), NEW w \in Calls, NEW a \in Nat, NEW m \in Nat,
           NEW nb \in BOOLEAN, NEW c \in Commands, Recording(cb, w, a, m, nb), Len(w) = a + m
    PROVE  Recording(cb \o (IF nb THEN <<Barrier, Command(c)>> ELSE <<Command(c)>>),
                     Append(w, Command(c)), a, m + 1, TRUE)
<1> DEFINE y == Append(w, Command(c))
<1>1. /\ Len(y) = a + m + 1 /\ y[a + m + 1] = Command(c) /\ \A i \in 1 .. m : y[a + i] = w[a + i]
      /\ Len(w) \in Nat
  BY DEF Calls
<1>2. cb \in Seq(Entries(Commands)) /\ Len(cb) \in Nat /\ DOMAIN cb = 1 .. Len(cb)
  BY DEF CommandBuffers
<1> HIDE DEF y
<1>3. CASE m = 0
  <2> DEFINE z == cb \o <<Command(c)>>
  <2>1. Len(cb) = 1 /\ cb[1] = Barrier /\ nb = FALSE  BY <1>3 DEF Recording
  <2>2. Len(z) = 2 /\ DOMAIN z = 1 .. 2 /\ z[1] = Barrier /\ z[2] = Command(c)
    <3> DEFINE n == Len(cb)
    <3>1. /\ Len(z) = n + 1 /\ DOMAIN z = 1 .. n + 1
          /\ z[n + 1] = Command(c) /\ \A i \in 1 .. n : z[i] = cb[i]
      BY <1>2
    <3> HIDE DEF z
    <3> QED  BY <2>1, <3>1
  <2> HIDE DEF z
  <2>3. Recording(z, y, a, m + 1, TRUE)
    BY <1>1, <1>3, <2>2 DEF Recording, Holds
  <2> QED  BY <2>1, <2>3 DEF y, z
<1>4. CASE m # 0
  <2> DEFINE z == cb \o <<Barrier, Command(c)>>
  <2>1. Len(cb) = 2 * m /\ cb[1] = Barrier /\ nb = TRUE /\ Holds(cb, w, a, m)
    BY <1>4 DEF Recording
  <2>2. /\ Len(z) = 2 * m + 2 /\ DOMAIN z = 1 .. 2 * m + 2
        /\ z[2 * m + 1] = Barrier /\ z[2 * m + 2] = Command(c)
        /\ \A i \in 1 .. 2 * m : z[i] = cb[i]
    <3> DEFINE n == Len(cb)
    <3>1. /\ Len(z) = n + 2 /\ DOMAIN z = 1 .. n + 2
          /\ z[n + 1] = Barrier /\ z[n + 2] = Command(c) /\ \A i \in 1 .. n : z[i] = cb[i]
      BY <1>2
    <3> HIDE DEF z
    <3> QED  BY <2>1, <3>1
  <2> HIDE DEF z
  <2>3. ASSUME NEW i \in 1 .. m + 1 PROVE z[2 * i - 1] = Barrier /\ z[2 * i] = y[a + i]
    <3>1. CASE i \in 1 .. m
      <4>1. cb[2 * i - 1] = Barrier /\ cb[2 * i] = w[a + i]  BY <2>1, <3>1 DEF Holds
      <4>2. 2 * i - 1 \in 1 .. 2 * m /\ 2 * i \in 1 .. 2 * m  BY <3>1
      <4> QED  BY <1>1, <2>2, <3>1, <4>1, <4>2
    <3>2. CASE i = m + 1
      <4>1. 2 * i - 1 = 2 * m + 1 /\ 2 * i = 2 * m + 2 /\ a + i = a + m + 1  BY <3>2
      <4> QED  BY <1>1, <2>2, <4>1
    <3> QED  BY <3>1, <3>2
  <2>4. Holds(z, y, a, m + 1)  BY <1>1, <2>2, <2>3 DEF Holds
  <2>5. z[1] = Barrier  BY <1>4, <2>1, <2>2
  <2>6. Recording(z, y, a, m + 1, TRUE)  BY <1>4, <2>2, <2>4, <2>5 DEF Recording
  <2> QED  BY <2>1, <2>6 DEF y, z
<1> QED  BY <1>3, <1>4

\* Closing a buffer with the to_host barrier.
LEMMA CloseHolds ==
    ASSUME NEW cb \in CommandBuffers(Commands), NEW w, NEW a \in Nat, NEW m \in Nat, Holds(cb, w, a, m)
    PROVE  Holds(cb \o <<ToHost>>, w, a, m) /\ HasToHost(cb \o <<ToHost>>)
<1> DEFINE z == cb \o <<ToHost>>
           n == Len(cb)
<1>1. /\ n \in Nat /\ DOMAIN cb = 1 .. n /\ Len(z) = n + 1 /\ DOMAIN z = 1 .. n + 1
      /\ z[n + 1] = ToHost /\ \A i \in 1 .. n : z[i] = cb[i]
  BY DEF CommandBuffers
<1> HIDE DEF z, n
<1>2. 2 * m <= n /\ \A i \in 1 .. m : 2 * i - 1 \in 1 .. n /\ 2 * i \in 1 .. n
  BY <1>1 DEF Holds, n
<1>3. ~IsCommand(ToHost)  BY DEF IsCommand, ToHost
<1>4. \A i \in 1 .. m : z[2 * i - 1] = Barrier /\ z[2 * i] = w[a + i]
  BY <1>1, <1>2 DEF Holds
<1>5. ASSUME NEW i \in DOMAIN z, i > 2 * m PROVE ~IsCommand(z[i])
  <2>1. CASE i = n + 1  BY <1>1, <1>3, <2>1
  <2>2. CASE i # n + 1
    <3>1. i \in 1 .. n  BY <1>1, <2>2
    <3> QED  BY <1>1, <1>5, <3>1 DEF Holds
  <2> QED  BY <2>1, <2>2
<1>6. Holds(z, w, a, m)  BY <1>1, <1>2, <1>4, <1>5 DEF Holds
<1>7. HasToHost(z)  BY <1>1 DEF HasToHost
<1> QED  BY <1>6, <1>7 DEF z

\* Where the commands of n more submissions end: e[i] commands were issued up to the i-th of them.
Extend(q, b, e, n) ==
    [k \in 1 .. Len(q) + n + 1 |-> IF k <= Len(q) + 1 THEN b[k] ELSE e[k - Len(q) - 1]]

\* The i-th submission of p holds the commands of x from the e[i - 1]-th up to the e[i]-th.
Follows(p, x, e, n) ==
    /\ e \in [0 .. n -> Nat]
    /\ \A j, k \in 0 .. n : j <= k => e[j] <= e[k]
    /\ \A i \in 1 .. n : Holds(p[i].cb, x, e[i - 1], e[i] - e[i - 1])

\* x is w up to the a-th command.
Agrees(w, x, a) == a <= Len(x) /\ \A i \in 1 .. a : x[i] = w[i]

\* More submissions behind the queue: each holds the commands that follow those before it.
LEMMA QueueAppend ==
    ASSUME NEW q \in Seq(Submissions(Commands)), NEW p \in Seq(Submissions(Commands)),
           NEW n \in Nat, n = Len(p), NEW w, NEW x, NEW b, QueueHolds(q, w, b),
           NEW e, Follows(p, x, e, n), e[0] = b[Len(q) + 1],
           Len(x) \in Nat, Agrees(w, x, b[Len(q) + 1])
    PROVE  /\ QueueHolds(q \o p, x, Extend(q, b, e, n))
           /\ Len(q \o p) = Len(q) + n
           /\ \A k \in 1 .. Len(q) : (q \o p)[k] = q[k]
           /\ \A i \in 1 .. n : (q \o p)[Len(q) + i] = p[i]
           /\ \A k \in 1 .. Len(q) + 1 : Extend(q, b, e, n)[k] = b[k]
           /\ \A i \in 0 .. n : Extend(q, b, e, n)[Len(q) + 1 + i] = e[i]
<1> DEFINE l == Len(q)
           c == Extend(q, b, e, n)
           z == q \o p
<1>0. l \in Nat  OBVIOUS
<1>a. /\ e \in [0 .. n -> Nat]
      /\ \A j, k \in 0 .. n : j <= k => e[j] <= e[k]
      /\ \A i \in 1 .. n : Holds(p[i].cb, x, e[i - 1], e[i] - e[i - 1])
      /\ b[l + 1] <= Len(x) /\ \A i \in 1 .. b[l + 1] : x[i] = w[i]
  BY DEF Follows, Agrees
<1>1. /\ l \in Nat /\ Len(z) = l + n /\ \A k \in 1 .. l : z[k] = q[k]
      /\ \A i \in 1 .. n : z[l + i] = p[i]
  OBVIOUS
<1>2. /\ b \in [1 .. l + 1 -> Nat] /\ \A j, k \in 1 .. l + 1 : j <= k => b[j] <= b[k]
      /\ \A k \in 1 .. l : Holds(q[k].cb, w, b[k], b[k + 1] - b[k])
  BY DEF QueueHolds
<1>3. c = [k \in 1 .. l + n + 1 |-> IF k <= l + 1 THEN b[k] ELSE e[k - l - 1]]
  BY DEF Extend
<1> HIDE DEF l, c, z
<1>4. \A k \in 1 .. l + 1 : c[k] = b[k]  BY <1>1, <1>3
<1>5. \A i \in 0 .. n : c[l + 1 + i] = e[i]
  <2> SUFFICES ASSUME NEW i \in 0 .. n PROVE c[l + 1 + i] = e[i]
    OBVIOUS
  <2>1. CASE i = 0
    <3>1. l + 1 + i = l + 1  BY <1>1, <2>1
    <3> QED  BY <1>1, <1>4, <2>1, <3>1 DEF l
  <2>2. CASE i # 0
    <3> DEFINE k == l + 1 + i
    <3>2. k \in 1 .. l + n + 1 /\ ~(k <= l + 1) /\ k - l - 1 = i  BY <1>0, <2>2
    <3> HIDE DEF k
    <3>3. c[k] = e[k - l - 1]  BY <1>3, <3>2
    <3> QED  BY <3>2, <3>3 DEF k
  <2> QED  BY <2>1, <2>2
<1>6. c \in [1 .. l + n + 1 -> Nat]
  <2> SUFFICES ASSUME NEW k \in 1 .. l + n + 1 PROVE c[k] \in Nat
    BY <1>3
  <2>1. CASE k <= l + 1
    <3>1. k \in 1 .. l + 1  BY <1>1, <2>1
    <3> QED  BY <1>2, <1>4, <3>1
  <2>2. CASE ~(k <= l + 1)
    <3>1. k - l - 1 \in 0 .. n /\ k = l + 1 + (k - l - 1)  BY <1>1, <2>2
    <3>2. c[k] = e[k - l - 1]  BY <1>5, <3>1
    <3> QED  BY <1>a, <3>1, <3>2
  <2> QED  BY <2>1, <2>2
<1>7. ASSUME NEW j \in 1 .. l + n + 1, NEW k \in 1 .. l + n + 1, j <= k PROVE c[j] <= c[k]
  <2>1. CASE k <= l + 1
    <3>1. j \in 1 .. l + 1 /\ k \in 1 .. l + 1  BY <1>1, <1>7, <2>1
    <3> QED  BY <1>2, <1>4, <1>7, <3>1
  <2>2. CASE ~(k <= l + 1)
    <3>1. k - l - 1 \in 0 .. n /\ k = l + 1 + (k - l - 1) /\ 0 \in 0 .. n /\ 0 <= k - l - 1
      BY <1>1, <2>2
    <3>2. c[k] = e[k - l - 1]  BY <1>5, <3>1
    <3>3. CASE j <= l + 1
      <4>1. j \in 1 .. l + 1 /\ l + 1 \in 1 .. l + 1 /\ j <= l + 1  BY <1>1, <3>3
      <4>2. c[j] = b[j] /\ b[j] <= b[l + 1]  BY <1>2, <1>4, <4>1
      <4>3. b[l + 1] = e[0] /\ e[0] <= e[k - l - 1]  BY <1>a, <3>1 DEF l
      <4>4. b[j] \in Nat /\ e[0] \in Nat /\ e[k - l - 1] \in Nat  BY <1>2, <1>a, <3>1, <4>1
      <4> QED  BY <3>2, <4>2, <4>3, <4>4
    <3>4. CASE ~(j <= l + 1)
      <4>1. j - l - 1 \in 0 .. n /\ j = l + 1 + (j - l - 1) /\ j - l - 1 <= k - l - 1
        BY <1>0, <1>7, <3>4
      <4>2. c[j] = e[j - l - 1]  BY <1>5, <4>1
      <4> QED  BY <1>a, <3>1, <3>2, <4>1, <4>2
    <3> QED  BY <3>3, <3>4
  <2> QED  BY <2>1, <2>2
<1>8. ASSUME NEW k \in 1 .. l + n PROVE Holds(z[k].cb, x, c[k], c[k + 1] - c[k])
  <2>1. CASE k <= l
    <3> DEFINE m == b[k + 1] - b[k]
    <3>1. k \in 1 .. l /\ k \in 1 .. l + 1 /\ k + 1 \in 1 .. l + 1 /\ l + 1 \in 1 .. l + 1
          /\ k <= k + 1 /\ k + 1 <= l + 1
      BY <1>1, <2>1
    <3>2. c[k] = b[k] /\ c[k + 1] = b[k + 1] /\ z[k] = q[k]  BY <1>1, <1>4, <3>1
    <3>3. b[k] \in Nat /\ b[k + 1] \in Nat /\ b[l + 1] \in Nat  BY <1>2, <3>1
    <3>4. b[k] <= b[k + 1] /\ b[k + 1] <= b[l + 1]  BY <1>2, <3>1
    <3>5. Holds(q[k].cb, w, b[k], m)  BY <1>2, <3>1
    <3>6. m \in Nat /\ b[k] + m = b[k + 1]  BY <3>3, <3>4
    <3>7. b[k] + m <= Len(x)  BY <1>a, <3>3, <3>4, <3>6
    <3>8. \A i \in 1 .. m : x[b[k] + i] = w[b[k] + i]
      <4> SUFFICES ASSUME NEW i \in 1 .. m PROVE x[b[k] + i] = w[b[k] + i]
        OBVIOUS
      <4>1. b[k] + i \in 1 .. b[l + 1]  BY <3>3, <3>4, <3>6
      <4> QED  BY <1>a, <4>1
    <3> DEFINE a == b[k]
               cb == q[k].cb
    <3> HIDE DEF m, a, cb
    <3>9. a \in Nat /\ Holds(cb, w, a, m) /\ a + m <= Len(x) /\ \A i \in 1 .. m : x[a + i] = w[a + i]
      BY <3>3, <3>5, <3>7, <3>8 DEF a, cb
    <3>10. Holds(cb, x, a, m)  BY <3>6, <3>9, HoldsAgree
    <3> QED  BY <3>2, <3>10 DEF m, a, cb
  <2>2. CASE ~(k <= l)
    <3> DEFINE i == k - l
    <3>1. i \in 1 .. n /\ k = l + i /\ i - 1 \in 0 .. n /\ i \in 0 .. n /\ k = l + 1 + (i - 1)
          /\ k + 1 = l + 1 + i
      BY <1>1, <2>2
    <3> HIDE DEF i
    <3>2. z[k] = p[i] /\ c[k] = e[i - 1] /\ c[k + 1] = e[i]  BY <1>1, <1>5, <3>1
    <3> QED  BY <1>a, <3>1, <3>2
  <2> QED  BY <2>1, <2>2
<1>9. QueueHolds(z, x, c)  BY <1>1, <1>6, <1>7, <1>8 DEF QueueHolds
<1> QED  BY <1>1, <1>4, <1>5, <1>9 DEF l, c, z

\* ... none of which the GPU has touched: their serials are later than all it was given.
LEMMA RanAppend ==
    ASSUME NEW q \in Seq(Submissions(Commands)), NEW p \in Seq(Submissions(Commands)),
           NEW n \in Nat, n = Len(p), NEW w, NEW x, NEW b, NEW c,
           QueueHolds(q, w, b), QueueHolds(q \o p, x, c), Len(q \o p) = Len(q) + n,
           \A k \in 1 .. Len(q) : (q \o p)[k] = q[k],
           \A i \in 1 .. n : (q \o p)[Len(q) + i] = p[i],
           \A k \in 1 .. Len(q) + 1 : c[k] = b[k],
           Agrees(w, x, b[Len(q) + 1]),
           NEW d, NEW y \in Calls, NEW top \in Nat, NEW later \in Nat, top <= later,
           d \subseteq Nat \X Nat, RanTo(q, w, b, d, y, top), \A i \in 1 .. n : p[i].serial > top
    PROVE  RanTo(q \o p, x, c, d, y, later)
<1> DEFINE l == Len(q)
           z == q \o p
<1>1. l \in Nat /\ Len(y) \in Nat  BY DEF Calls
<1>2. b \in [1 .. l + 1 -> Nat] /\ c \in [1 .. l + n + 1 -> Nat]
      /\ \A j, k \in 1 .. l + n + 1 : j <= k => c[j] <= c[k]
  BY DEF QueueHolds
<1>3. Len(z) = l + n /\ (\A k \in 1 .. l : z[k] = q[k]) /\ (\A i \in 1 .. n : z[l + i] = p[i])
  OBVIOUS
<1>4. /\ \A k \in 1 .. l : \A i \in 1 .. b[k + 1] - b[k] :
            <<q[k].serial, 2 * i>> \in d <=> b[k] + i <= Len(y)
      /\ \A f \in d : f[1] <= top
      /\ b[1] <= Len(y) /\ Len(y) <= b[l + 1]
      /\ \A j \in 1 .. Len(y) : y[j] = w[j]
  BY DEF RanTo
<1>5. \A k \in 1 .. l + 1 : c[k] = b[k]  OBVIOUS
<1>5a. \A j \in 1 .. b[l + 1] : x[j] = w[j]  BY DEF Agrees
<1>5b. \A i \in 1 .. n : p[i].serial > top  OBVIOUS
<1> HIDE DEF l, z
<1>6. ASSUME NEW k \in 1 .. l + n, NEW i \in 1 .. c[k + 1] - c[k]
      PROVE  <<z[k].serial, 2 * i>> \in d <=> c[k] + i <= Len(y)
  <2>1. CASE k <= l
    <3>1. k \in 1 .. l /\ k \in 1 .. l + 1 /\ k + 1 \in 1 .. l + 1  BY <1>1, <2>1
    <3>2. c[k] = b[k] /\ c[k + 1] = b[k + 1] /\ z[k] = q[k]  BY <1>3, <1>5, <3>1
    <3> QED  BY <1>4, <1>6, <3>1, <3>2
  <2>2. CASE ~(k <= l)
    <3>1. k - l \in 1 .. n /\ k = l + (k - l) /\ l + 1 \in 1 .. l + n + 1 /\ k \in 1 .. l + n + 1
          /\ l + 1 <= k /\ l + 1 \in 1 .. l + 1
      BY <1>1, <2>2
    <3>2. z[k] = p[k - l]  BY <1>3, <3>1
    <3>3. z[k].serial > top  BY <1>5b, <3>1, <3>2
    <3>4. z[k].serial \in Nat
      <4>1. p[k - l] \in Submissions(Commands)  BY <3>1
      <4> QED  BY <3>2, <4>1 DEF Submissions
    <3>5. <<z[k].serial, 2 * i>> \notin d
      <4> SUFFICES ASSUME <<z[k].serial, 2 * i>> \in d PROVE FALSE
        OBVIOUS
      <4>1. z[k].serial <= top  BY <1>4
      <4> QED  BY <3>3, <3>4, <4>1
    <3>6. b[l + 1] = c[l + 1] /\ c[l + 1] <= c[k] /\ c[l + 1] \in Nat /\ c[k] \in Nat
      BY <1>2, <1>5, <3>1
    <3>7. ~(c[k] + i <= Len(y))  BY <1>1, <1>4, <3>6, SMTT(30)
    <3> QED  BY <3>5, <3>7
  <2> QED  BY <2>1, <2>2
<1>7. \A f \in d : f[1] <= later
  <2> SUFFICES ASSUME NEW f \in d PROVE f[1] <= later
    OBVIOUS
  <2>1. f[1] <= top /\ f[1] \in Nat  BY <1>4
  <2> QED  BY <2>1
<1>8. c[1] <= Len(y) /\ Len(y) <= c[l + n + 1]
  <2>1. 1 \in 1 .. l + 1 /\ l + 1 \in 1 .. l + 1 /\ l + 1 \in 1 .. l + n + 1 /\ 1 \in 1 .. l + n + 1
        /\ l + n + 1 \in 1 .. l + n + 1 /\ l + 1 <= l + n + 1
    BY <1>1
  <2>2. c[1] = b[1] /\ c[l + 1] = b[l + 1]  BY <1>5, <2>1
  <2>3. c[l + 1] <= c[l + n + 1]  BY <1>2, <2>1
  <2>4. c[l + 1] \in Nat /\ c[l + n + 1] \in Nat /\ c[1] \in Nat  BY <1>2, <2>1
  <2> QED  BY <1>1, <1>4, <2>2, <2>3, <2>4
<1>9. \A j \in 1 .. Len(y) : y[j] = x[j]
  <2> SUFFICES ASSUME NEW j \in 1 .. Len(y) PROVE y[j] = x[j]
    OBVIOUS
  <2>1. b[l + 1] \in Nat  BY <1>1, <1>2
  <2>2. j \in 1 .. b[l + 1]  BY <1>1, <1>4, <2>1
  <2> QED  BY <1>4, <1>5a, <2>2
<1>10. RanTo(z, x, c, d, y, later)  BY <1>3, <1>6, <1>7, <1>8, <1>9 DEF RanTo
<1> QED  BY <1>10 DEF z

\* Of the first mark commands none is in a submission after serial.
Marks(s, w, b, serial, mark) ==
    /\ mark <= Len(w)
    /\ \A k \in 1 .. Len(s.queue) : s.queue[k].serial > serial => mark <= b[k]
    /\ SubmitsOpen(s) /\ s.open_serial > serial => mark <= b[Len(s.queue) + 1]

\* A submission no later than serial makes the first mark commands visible to the host.
Carried(s, b, serial, mark) ==
    \E k \in 1 .. Len(s.queue) :
        s.queue[k].serial <= serial /\ HasToHost(s.queue[k].cb) /\ mark <= b[k + 1]

\* What was promised about the stream before a step is still promised after it.
Later(s, w, b, u, x, c) ==
    \A serial, mark \in Nat :
        /\ Marks(s, w, b, serial, mark) => Marks(u, x, c, serial, mark)
        /\ Carried(s, b, serial, mark) => Carried(u, c, serial, mark)

\* What an operation that was accepted makes of the order, b[1] commands being retired.
Accepts(s, w, b, u, x, d, y) ==
    \E c : InOrderWith(u, x, c, d, y) /\ Later(s, w, b, u, x, c) /\ c[1] = b[1]

\* A step that changes nothing keeps every promise.
LEMMA LaterSame == ASSUME NEW s, NEW w, NEW b PROVE Later(s, w, b, s, w, b)
BY DEF Later

\* What two steps keep one after the other, both keep together.
LEMMA LaterTwice ==
    ASSUME NEW s, NEW w, NEW b, NEW u, NEW x, NEW c, NEW v, NEW y, NEW e,
           Later(s, w, b, u, x, c), Later(u, x, c, v, y, e)
    PROVE  Later(s, w, b, v, y, e)
BY DEF Later

\* What InOrderWith and Later say of a stream whose queue, open batch and submitted serial are
\* the same.
LEMMA SameOrder ==
    ASSUME NEW s, NEW u, NEW w, NEW b, NEW d, NEW y, InOrderWith(s, w, b, d, y),
           u.queue = s.queue, u.submitted = s.submitted, ~SubmitsOpen(s), ~SubmitsOpen(u)
    PROVE  InOrderWith(u, w, b, d, y) /\ Later(s, w, b, u, w, b)
BY DEF InOrderWith, Opened, Later, Marks, Carried

\* A batch is opened: it holds nothing yet.
LEMMA OpenOrder ==
    ASSUME NEW s \in StreamType(Commands), NEW w \in Calls, NEW b, NEW d, NEW y, ~s.capturing,
           InOrderWith(s, w, b, d, y)
    PROVE  /\ InOrderWith(open_locked(s), w, b, d, y)
           /\ Later(s, w, b, open_locked(s), w, b)
           /\ ~SubmitsOpen(s) => open_locked(s).ops_in_batch = 0
<1> DEFINE u == open_locked(s)
           n == b[Len(s.queue) + 1]
<1>1. CASE SubmitsOpen(s)
  <2>1. u = s  BY <1>1 DEF open_locked, SubmitsOpen
  <2> QED  BY <1>1, <2>1, LaterSame
<1>2. CASE ~SubmitsOpen(s)
  <2>1. /\ u.queue = s.queue /\ u.submitted = s.submitted /\ u.cb = <<Barrier>>
        /\ u.ops_in_batch = 0 /\ u.need_barrier = FALSE
    BY <1>2 DEF open_locked, SubmitsOpen, StreamType
  <2> HIDE DEF u
  <2>2. Len(w) = n  BY <1>2 DEF InOrderWith, Opened
  <2>3. Len(w) \in Nat  BY DEF Calls
  <2>4. Recording(<<Barrier>>, w, n, 0, FALSE)
    <3>1. ~IsCommand(Barrier)  BY DEF IsCommand, Barrier
    <3>2. Len(<<Barrier>>) = 1 /\ DOMAIN <<Barrier>> = 1 .. 1 /\ <<Barrier>>[1] = Barrier  OBVIOUS
    <3> QED  BY <2>2, <2>3, <3>1, <3>2 DEF Recording, Holds
  <2>5. Opened(u, w, n)
    <3>1. Recording(u.cb, w, n, u.ops_in_batch, u.need_barrier)  BY <2>1, <2>4, Zenon
    <3>2. Len(w) = n + u.ops_in_batch  BY <2>1, <2>2, <2>3
    <3> HIDE DEF n
    <3> QED  BY <2>2, <3>1, <3>2 DEF Opened
  <2>6. InOrderWith(u, w, b, d, y)  BY <2>1, <2>5 DEF InOrderWith
  <2>7. Later(s, w, b, u, w, b)  BY <2>1, <2>2 DEF Later, Marks, Carried
  <2> QED  BY <1>2, <2>1, <2>6, <2>7 DEF u
<1> QED  BY <1>1, <1>2

\* A command is recorded into the open batch.
LEMMA RecordOrder ==
    ASSUME NEW s \in StreamType(Commands), NEW w \in Calls, NEW b, NEW d, NEW y \in Calls, ~s.capturing,
           SubmitsOpen(s), NEW c \in Commands, InOrderWith(s, w, b, d, y)
    PROVE  /\ InOrderWith(record_command(s, c), Append(w, Command(c)), b, d, y)
           /\ Later(s, w, b, record_command(s, c), Append(w, Command(c)), b)
           /\ record_command(s, c).ops_in_batch = s.ops_in_batch + 1
<1> DEFINE u == record_command(s, c)
           n == b[Len(s.queue) + 1]
           x == Append(w, Command(c))
           m == s.ops_in_batch
           l == Len(s.queue)
<1>1. /\ u.queue = s.queue /\ u.submitted = s.submitted /\ u.open_slot = s.open_slot
      /\ u.open_serial = s.open_serial
      /\ u.cb = s.cb \o (IF s.need_barrier THEN <<Barrier, Command(c)>> ELSE <<Command(c)>>)
      /\ u.ops_in_batch = m + 1 /\ u.need_barrier = TRUE
  BY DEF record_command, StreamType
<1>2. m \in Nat /\ s.cb \in CommandBuffers(Commands) /\ s.need_barrier \in BOOLEAN /\ l \in Nat
  BY DEF StreamType
<1>3. Len(w) \in Nat /\ Len(x) = Len(w) + 1 /\ \A i \in 1 .. Len(w) : x[i] = w[i]  BY DEF Calls
<1> HIDE DEF u, x
<1>4. /\ b \in [1 .. l + 1 -> Nat] /\ \A j, k \in 1 .. l + 1 : j <= k => b[j] <= b[k]
      /\ \A k \in 1 .. l : Holds(s.queue[k].cb, w, b[k], b[k + 1] - b[k])
  BY DEF InOrderWith, QueueHolds
<1>5. n \in Nat  BY <1>2, <1>4
<1>6. Len(w) = n + m /\ Recording(s.cb, w, n, m, s.need_barrier)  BY DEF InOrderWith, Opened
<1> HIDE DEF n, m, l
<1>7. Recording(u.cb, x, n, m + 1, TRUE)  BY <1>1, <1>2, <1>5, <1>6, RecordHolds DEF x
<1>8. Opened(u, x, n)
  <2>1. Recording(u.cb, x, n, u.ops_in_batch, u.need_barrier)  BY <1>1, <1>7, Zenon
  <2>2. Len(x) = n + u.ops_in_batch /\ SubmitsOpen(u)
    BY <1>1, <1>2, <1>3, <1>5, <1>6 DEF SubmitsOpen
  <2> QED  BY <2>1, <2>2 DEF Opened
<1>9. ASSUME NEW k \in 1 .. l PROVE Holds(s.queue[k].cb, x, b[k], b[k + 1] - b[k])
  <2> DEFINE a == b[k]
             j == b[k + 1] - b[k]
             cb == s.queue[k].cb
  <2>1. k \in 1 .. l + 1 /\ k + 1 \in 1 .. l + 1 /\ k <= k + 1  BY <1>2
  <2>2. a \in Nat /\ j \in Nat  BY <1>4, <2>1
  <2>3. Holds(cb, w, a, j)  BY <1>4
  <2> HIDE DEF a, j, cb
  <2>4. a + j <= Len(w)  BY <2>3 DEF Holds
  <2>5. \A i \in 1 .. j : x[a + i] = w[a + i]
    <3> SUFFICES ASSUME NEW i \in 1 .. j PROVE x[a + i] = w[a + i]
      OBVIOUS
    <3>1. a + i \in 1 .. Len(w)  BY <1>3, <2>2, <2>4
    <3> QED  BY <1>3, <3>1
  <2>6. a + j <= Len(x)  BY <1>3, <2>2, <2>4
  <2>7. Holds(cb, x, a, j)  BY <2>2, <2>3, <2>5, <2>6, HoldsAgree
  <2> QED  BY <2>7 DEF a, j, cb
<1>10. QueueHolds(u.queue, x, b)  BY <1>1, <1>4, <1>9 DEF QueueHolds, l
<1>11. RanTo(u.queue, x, b, d, y, u.submitted)
  <2>1. RanTo(s.queue, w, b, d, y, s.submitted)  BY DEF InOrderWith
  <2>2. Len(y) <= n  BY <2>1 DEF RanTo, n
  <2>3. \A j \in 1 .. Len(y) : y[j] = x[j]
    <3> SUFFICES ASSUME NEW j \in 1 .. Len(y) PROVE y[j] = x[j]
      OBVIOUS
    <3>1. y[j] = w[j]  BY <2>1 DEF RanTo
    <3>2. Len(y) \in Nat  BY DEF Calls
    <3>3. j \in 1 .. Len(w)  BY <1>2, <1>3, <1>5, <1>6, <2>2, <3>2
    <3> QED  BY <1>3, <3>1, <3>3
  <2> QED  BY <1>1, <2>1, <2>3 DEF RanTo
<1>12. InOrderWith(u, x, b, d, y)  BY <1>1, <1>8, <1>10, <1>11 DEF InOrderWith, n
<1>13. Later(s, w, b, u, x, b)
  <2>1. \A mark \in Nat : mark <= Len(w) => mark <= Len(x)  BY <1>3
  <2> QED  BY <1>1, <2>1 DEF Later, Marks, Carried, SubmitsOpen
<1> QED  BY <1>1, <1>12, <1>13 DEF u, x, m

\* More submissions behind the queue break no promise, when what was promised of the first of
\* them is kept.
LEMMA LaterAppend ==
    ASSUME NEW s \in StreamType(Commands), NEW u, NEW p \in Seq(Submissions(Commands)), NEW n \in Nat,
           NEW w \in Calls, NEW x \in Calls, NEW b, NEW c, u.queue = s.queue \o p, ~SubmitsOpen(u),
           QueueHolds(s.queue, w, b), QueueHolds(u.queue, x, c), Len(u.queue) = Len(s.queue) + n,
           \A k \in 1 .. Len(s.queue) : u.queue[k] = s.queue[k],
           \A i \in 1 .. n : u.queue[Len(s.queue) + i] = p[i],
           \A k \in 1 .. Len(s.queue) + 1 : c[k] = b[k],
           Len(w) <= Len(x),
           \A serial, mark \in Nat : Marks(s, w, b, serial, mark) =>
               \A i \in 1 .. n : p[i].serial > serial => mark <= b[Len(s.queue) + 1]
    PROVE  Later(s, w, b, u, x, c)
<1> DEFINE l == Len(s.queue)
<1>1. l \in Nat /\ Len(w) \in Nat /\ Len(x) \in Nat  BY DEF StreamType, Calls
<1>2. b \in [1 .. l + 1 -> Nat] /\ c \in [1 .. l + n + 1 -> Nat]
      /\ \A j, k \in 1 .. l + n + 1 : j <= k => c[j] <= c[k]
  BY DEF QueueHolds
<1>3. /\ Len(u.queue) = l + n /\ (\A k \in 1 .. l : u.queue[k] = s.queue[k])
      /\ (\A i \in 1 .. n : u.queue[l + i] = p[i]) /\ (\A k \in 1 .. l + 1 : c[k] = b[k])
  OBVIOUS
<1>4. \A serial, mark \in Nat : Marks(s, w, b, serial, mark) =>
          \A i \in 1 .. n : p[i].serial > serial => mark <= b[l + 1]
  OBVIOUS
<1>5. \A k \in 1 .. l : k \in 1 .. l + n /\ k \in 1 .. l + 1 /\ k + 1 \in 1 .. l + 1  BY <1>1
<1>6. ASSUME NEW serial \in Nat, NEW mark \in Nat, Marks(s, w, b, serial, mark)
      PROVE  Marks(u, x, c, serial, mark)
  <2>1. mark <= Len(w) /\ \A k \in 1 .. l : s.queue[k].serial > serial => mark <= b[k]
    BY <1>6 DEF Marks
  <2>2. mark <= Len(x)  BY <1>1, <2>1
  <2>3. ASSUME NEW k \in 1 .. l + n, u.queue[k].serial > serial PROVE mark <= c[k]
    <3>1. CASE k <= l
      <4>1. k \in 1 .. l  BY <1>1, <3>1
      <4> QED  BY <1>3, <1>5, <2>1, <2>3, <4>1
    <3>2. CASE ~(k <= l)
      <4> DEFINE i == k - l
      <4>1. i \in 1 .. n /\ k = l + i /\ l + 1 \in 1 .. l + n + 1 /\ k \in 1 .. l + n + 1 /\ l + 1 <= k
            /\ l + 1 \in 1 .. l + 1
        BY <1>1, <3>2
      <4> HIDE DEF i
      <4>2. u.queue[k] = p[i]  BY <1>3, <4>1
      <4>3. mark <= b[l + 1]  BY <1>4, <1>6, <2>3, <4>1, <4>2
      <4>4. b[l + 1] = c[l + 1] /\ c[l + 1] <= c[k] /\ c[l + 1] \in Nat /\ c[k] \in Nat
        BY <1>2, <1>3, <4>1
      <4> QED  BY <4>3, <4>4
    <3> QED  BY <3>1, <3>2
  <2> QED  BY <1>3, <2>2, <2>3 DEF Marks
<1>7. ASSUME NEW serial \in Nat, NEW mark \in Nat, Carried(s, b, serial, mark)
      PROVE  Carried(u, c, serial, mark)
  <2>1. PICK k \in 1 .. l : s.queue[k].serial <= serial /\ HasToHost(s.queue[k].cb) /\ mark <= b[k + 1]
    BY <1>7 DEF Carried
  <2>2. k \in 1 .. l + n /\ u.queue[k] = s.queue[k] /\ c[k + 1] = b[k + 1]  BY <1>3, <1>5
  <2> QED  BY <1>3, <2>1, <2>2 DEF Carried
<1> QED  BY <1>6, <1>7 DEF Later

\* The open batch is submitted.
LEMMA SubmitOrder ==
    ASSUME NEW s \in StreamType(Commands), StreamInv(s), NEW w \in Calls, NEW b, NEW d, NEW y \in Calls,
           d \subseteq Nat \X Nat, InOrderWith(s, w, b, d, y)
    PROVE  Accepts(s, w, b, submit_locked(s, TRUE), w, d, y)
<1> DEFINE u == submit_locked(s, TRUE)
<1>1. CASE s.open_slot = NoSlot
  <2>1. u = s  BY <1>1 DEF submit_locked
  <2> QED  BY <2>1, LaterSame DEF Accepts
<1>2. CASE s.open_slot # NoSlot
  <2> DEFINE sub == [serial |-> s.open_serial, slot |-> s.open_slot, cb |-> s.cb \o <<ToHost>>]
             q == s.queue
             p == <<sub>>
             l == Len(q)
             n == b[l + 1]
             m == s.ops_in_batch
             e == [i \in 0 .. 1 |-> IF i = 0 THEN n ELSE n + m]
             c == Extend(q, b, e, 1)
  <2>1. /\ u \in StreamType(Commands) /\ u.queue = Append(q, sub) /\ u.submitted = s.open_serial
        /\ u.open_slot = NoSlot
    BY <1>2, SubmitAccepted
  <2>2. q \in Seq(Submissions(Commands)) /\ l \in Nat /\ m \in Nat /\ s.cb \in CommandBuffers(Commands)
        /\ s.open_serial \in Nat /\ s.open_slot \in Slots \cup {NoSlot}
        /\ s.submitted \in Nat
    BY DEF StreamType
  <2>3. ToHost \in Entries(Commands)  BY DEF ToHost, Entries
  <2>4. s.cb \o <<ToHost>> \in CommandBuffers(Commands)  BY <2>2, <2>3 DEF CommandBuffers
  <2>5. sub \in Submissions(Commands)  BY <2>2, <2>4 DEF Submissions
  <2>6. s.submitted < s.open_serial  BY <1>2, <2>2 DEF StreamInv, OpenBatch, SerialOrder
  <2>7. /\ QueueHolds(q, w, b) /\ Opened(s, w, n) /\ RanTo(q, w, b, d, y, s.submitted)
    BY DEF InOrderWith
  <2>8. n \in Nat  BY <2>2, <2>7 DEF QueueHolds
  <2> HIDE DEF n, m
  <2>9. Len(w) = n + m /\ Recording(s.cb, w, n, m, s.need_barrier)
    BY <1>2, <2>7 DEF Opened, SubmitsOpen, m
  <2>10. Holds(s.cb, w, n, m)  BY <2>9 DEF Recording
  <2>11. Holds(sub.cb, w, n, m)  BY <2>2, <2>8, <2>10, CloseHolds DEF m
  <2>12. p \in Seq(Submissions(Commands)) /\ Len(p) = 1 /\ p[1] = sub  BY <2>5
  <2>13. u.queue = q \o p  BY <2>1, <2>2, <2>5, AppendIsConcat
  <2>14. sub.serial = s.open_serial  OBVIOUS
  <2> HIDE DEF u, sub, q, p, l
  <2>15. e \in [0 .. 1 -> Nat] /\ e[0] = n /\ e[1] = n + m  BY <2>2, <2>8 DEF m
  <2> HIDE DEF e
  <2>16. \A j, k \in 0 .. 1 : j <= k => e[j] <= e[k]
    <3>1. e[0] <= e[1] /\ e[0] \in Nat /\ e[1] \in Nat  BY <2>2, <2>8, <2>15 DEF m
    <3>2. \A j \in 0 .. 1 : j = 0 \/ j = 1  OBVIOUS
    <3> QED  BY <3>1, <3>2
  <2>17. \A i \in 1 .. 1 : Holds(p[i].cb, w, e[i - 1], e[i] - e[i - 1])
    <3>1. e[1] - e[0] = m  BY <2>2, <2>8, <2>15 DEF m
    <3>2. \A i \in 1 .. 1 : i = 1 /\ i - 1 = 0  OBVIOUS
    <3>3. Holds(p[1].cb, w, e[0], e[1] - e[0])  BY <2>11, <2>12, <2>15, <3>1
    <3> QED  BY <3>2, <3>3
  <2>18. n <= Len(w) /\ Len(w) \in Nat  BY <2>2, <2>8, <2>9 DEF m
  <2>19. /\ QueueHolds(q \o p, w, c)
         /\ Len(q \o p) = l + 1
         /\ \A k \in 1 .. l : (q \o p)[k] = q[k]
         /\ \A i \in 1 .. 1 : (q \o p)[l + i] = p[i]
         /\ \A k \in 1 .. l + 1 : c[k] = b[k]
         /\ \A i \in 0 .. 1 : c[l + 1 + i] = e[i]
    <3>1. e[0] = b[Len(q) + 1] /\ b[Len(q) + 1] <= Len(w)  BY <2>15, <2>18 DEF n, l
    <3>2. q \in Seq(Submissions(Commands)) /\ p \in Seq(Submissions(Commands)) /\ 1 \in Nat /\ 1 = Len(p)
      BY <2>2, <2>12
    <3>3. Agrees(w, w, b[Len(q) + 1]) /\ Follows(p, w, e, 1)
      BY <2>15, <2>16, <2>17, <3>1 DEF Agrees, Follows
    <3> HIDE DEF c
    <3>a. QueueHolds(q, w, b) /\ Len(w) \in Nat BY <2>7, <2>18
    <3>4. QueueHolds(q \o p, w, Extend(q, b, e, 1))  BY <3>a, <3>1, <3>2, <3>3, QueueAppend
    <3>5. Len(q \o p) = Len(q) + 1 /\ \A k \in 1 .. Len(q) : (q \o p)[k] = q[k]
      BY <3>a, <3>1, <3>2, <3>3, QueueAppend, ZenonT(60)
    <3>6. \A i \in 1 .. 1 : (q \o p)[Len(q) + i] = p[i]
      BY <3>2
    <3>7. \A k \in 1 .. Len(q) + 1 : Extend(q, b, e, 1)[k] = b[k]
      BY <3>2 DEF Extend
    <3>8. \A i \in 0 .. 1 : Extend(q, b, e, 1)[Len(q) + 1 + i] = e[i]
      BY <3>a, <3>1, <3>2, <3>3, QueueAppend, SMTT(30)
    <3> QED  BY <3>4, <3>5, <3>6, <3>7, <3>8 DEF l, c
  <2> HIDE DEF c
  <2>20. RanTo(q \o p, w, c, d, y, s.open_serial)
    <3>1. \A i \in 1 .. 1 : p[i].serial > s.submitted  BY <2>2, <2>6, <2>12, <2>14
    <3>2. s.submitted <= s.open_serial  BY <2>2, <2>6
    <3>3. Agrees(w, w, b[Len(q) + 1])  BY <2>18 DEF Agrees, n, l
    <3> QED  BY <2>2, <2>7, <2>12, <2>19, <3>1, <3>2, <3>3, RanAppend DEF l
  <2>21. c[l + 1 + 1] = n + m /\ c[1] = b[1]
    <3>1. 1 \in 0 .. 1 /\ 1 \in 1 .. l + 1  BY <2>2
    <3> QED  BY <2>15, <2>19, <3>1
  <2>22. InOrderWith(u, w, c, d, y)
    <3>1. Opened(u, w, c[l + 1 + 1])  BY <2>1, <2>9, <2>21 DEF Opened, SubmitsOpen
    <3> QED  BY <2>1, <2>13, <2>19, <2>20, <3>1 DEF InOrderWith
  <2>23. Later(s, w, b, u, w, c)
    <3>1. ASSUME NEW serial \in Nat, NEW mark \in Nat, Marks(s, w, b, serial, mark)
          PROVE  \A i \in 1 .. 1 : p[i].serial > serial => mark <= b[Len(s.queue) + 1]
      <4>1. s.open_serial > serial => mark <= b[Len(s.queue) + 1]
        BY <1>2, <3>1 DEF Marks, SubmitsOpen
      <4>2. \A i \in 1 .. 1 : p[i].serial = s.open_serial  BY <2>12, <2>14
      <4> QED  BY <4>1, <4>2
    <3>2. ~SubmitsOpen(u) /\ Len(w) <= Len(w)  BY <2>1, <2>18 DEF SubmitsOpen
    <3>3. /\ u.queue = s.queue \o p /\ QueueHolds(s.queue, w, b) /\ QueueHolds(u.queue, w, c)
          /\ Len(u.queue) = Len(s.queue) + 1
          /\ \A k \in 1 .. Len(s.queue) : u.queue[k] = s.queue[k]
          /\ \A i \in 1 .. 1 : u.queue[Len(s.queue) + i] = p[i]
          /\ \A k \in 1 .. Len(s.queue) + 1 : c[k] = b[k]
      BY <2>7, <2>13, <2>19 DEF l, q
    <3>4. 1 \in Nat  OBVIOUS
    <3> QED  BY <2>12, <3>1, <3>2, <3>3, <3>4, LaterAppend
  <2> QED  BY <2>21, <2>22, <2>23 DEF u, Accepts
<1> QED  BY <1>1, <1>2

\* The open batch is refused: its commands are gone, and none of them had run.
LEMMA RefuseOrder ==
    ASSUME NEW s \in StreamType(Commands), SubmitsOpen(s), NEW w \in Calls, NEW b, NEW d, NEW y \in Calls,
           InOrderWith(s, w, b, d, y)
    PROVE  /\ InOrderWith(submit_locked(s, FALSE), SubSeq(w, 1, Len(w) - s.ops_in_batch), b, d, y)
           /\ Len(y) <= Len(w) - s.ops_in_batch
<1> DEFINE u == submit_locked(s, FALSE)
           l == Len(s.queue)
           n == b[l + 1]
           m == s.ops_in_batch
           x == SubSeq(w, 1, Len(w) - m)
<1>1. u.queue = s.queue /\ u.submitted = s.submitted /\ u.open_slot = NoSlot
  BY SubmitRefused DEF SubmitsOpen
<1>2. m \in Nat /\ l \in Nat /\ Len(w) \in Nat /\ Len(y) \in Nat  BY DEF StreamType, Calls
<1>3. QueueHolds(s.queue, w, b) /\ Opened(s, w, n) /\ RanTo(s.queue, w, b, d, y, s.submitted)
  BY DEF InOrderWith
<1>4. /\ b \in [1 .. l + 1 -> Nat] /\ \A j, k \in 1 .. l + 1 : j <= k => b[j] <= b[k]
      /\ \A k \in 1 .. l : Holds(s.queue[k].cb, w, b[k], b[k + 1] - b[k])
  BY <1>3 DEF QueueHolds
<1>5. n \in Nat  BY <1>2, <1>4
<1>6. Len(w) = n + m  BY <1>3 DEF Opened
<1>7. n \in Int /\ n <= Len(w) /\ Len(w) - m = n  BY <1>2, <1>5, <1>6
<1>8. Len(x) = n /\ \A i \in 1 .. n : x[i] = w[i]
  <2> HIDE DEF n, m
  <2>1. x = SubSeq(w, 1, n)  BY <1>7
  <2> QED  BY <1>5, <1>7, <2>1, PrefixCalls
<1> HIDE DEF u, x, n, m, l
<1>9. ASSUME NEW k \in 1 .. l PROVE Holds(s.queue[k].cb, x, b[k], b[k + 1] - b[k])
  <2> DEFINE a == b[k]
             j == b[k + 1] - b[k]
             cb == s.queue[k].cb
  <2>1. k \in 1 .. l + 1 /\ k + 1 \in 1 .. l + 1 /\ k <= k + 1 /\ l + 1 \in 1 .. l + 1 /\ k + 1 <= l + 1
    BY <1>2
  <2>2. a \in Nat /\ j \in Nat /\ a + j = b[k + 1] /\ b[k + 1] \in Nat  BY <1>4, <2>1
  <2>3. Holds(cb, w, a, j)  BY <1>4
  <2>4. b[k + 1] <= n  BY <1>4, <2>1 DEF n
  <2> HIDE DEF a, j, cb
  <2>5. \A i \in 1 .. j : x[a + i] = w[a + i]
    <3> SUFFICES ASSUME NEW i \in 1 .. j PROVE x[a + i] = w[a + i]
      OBVIOUS
    <3>1. a + i \in 1 .. n  BY <1>5, <2>2, <2>4
    <3> QED  BY <1>8, <3>1
  <2>6. a + j <= Len(x)  BY <1>8, <2>2, <2>4
  <2>7. Holds(cb, x, a, j)  BY <2>2, <2>3, <2>5, <2>6, HoldsAgree
  <2> QED  BY <2>7 DEF a, j, cb
<1>10. QueueHolds(u.queue, x, b)  BY <1>1, <1>4, <1>9 DEF QueueHolds, l
<1>11. Len(y) <= n  BY <1>3 DEF RanTo, n, l
<1>12. RanTo(u.queue, x, b, d, y, u.submitted)
  <2>1. \A j \in 1 .. Len(y) : y[j] = x[j]
    <3> SUFFICES ASSUME NEW j \in 1 .. Len(y) PROVE y[j] = x[j]
      OBVIOUS
    <3>1. y[j] = w[j]  BY <1>3 DEF RanTo
    <3>2. j \in 1 .. n  BY <1>2, <1>5, <1>11
    <3> QED  BY <1>8, <3>1, <3>2
  <2> QED  BY <1>1, <1>3, <2>1 DEF RanTo
<1>13. Opened(u, x, n)  BY <1>1, <1>8 DEF Opened, SubmitsOpen
<1>14. InOrderWith(u, x, b, d, y)  BY <1>1, <1>10, <1>12, <1>13 DEF InOrderWith, n, l
<1> QED  BY <1>7, <1>11, <1>14 DEF u, x, m

-----------------------------------------------------------------------------
(***************************************************************************)
(* Captures and graphs hold the captured commands in the same way, cut     *)
(* into segments of batch_limit.                                           *)
(***************************************************************************)

\* How many of the commands of g are in the first k segments.
Part(g, k) == IF k * batch_limit < Len(g) THEN k * batch_limit ELSE Len(g)

\* cbs are the segments of the commands g, the last one with the to_host barrier.
GraphHolds(cbs, g) ==
    /\ Part(g, Len(cbs)) = Len(g)
    /\ \A k \in 1 .. Len(cbs) : Holds(cbs[k], g, Part(g, k - 1), Part(g, k) - Part(g, k - 1))
    /\ HasToHost(cbs[Len(cbs)])

\* A later segment begins no earlier.
LEMMA FullMonotone ==
    ASSUME NEW j \in Nat, NEW k \in Nat, j <= k
    PROVE  /\ j * batch_limit \in Nat /\ j * batch_limit <= k * batch_limit
           /\ 0 * batch_limit = 0 /\ (j + 1) * batch_limit = j * batch_limit + batch_limit
BY batch_limitAssumption

\* The first k segments hold a prefix of the captured commands, longer with k.
LEMMA PartMonotone ==
    ASSUME NEW g \in Calls
    PROVE  /\ Part(g, 0) = 0
           /\ \A k \in Nat : Part(g, k) \in Nat /\ Part(g, k) <= Len(g)
           /\ \A j, k \in Nat : j <= k => Part(g, j) <= Part(g, k)
<1>1. Len(g) \in Nat  BY DEF Calls
<1>2. Part(g, 0) = 0
  <2>1. 0 * batch_limit = 0  BY batch_limitAssumption
  <2> QED  BY <1>1, <2>1 DEF Part
<1>3. ASSUME NEW j \in Nat, NEW k \in Nat, j <= k
      PROVE  Part(g, j) \in Nat /\ Part(g, j) <= Len(g) /\ Part(g, j) <= Part(g, k)
  <2> DEFINE a == j * batch_limit
             e == k * batch_limit
  <2>1. a \in Nat /\ a <= e  BY <1>3, FullMonotone
  <2>2. e \in Nat  BY batch_limitAssumption
  <2>3. Part(g, j) = (IF a < Len(g) THEN a ELSE Len(g)) /\ Part(g, k) = IF e < Len(g) THEN e ELSE Len(g)
    BY DEF Part
  <2> HIDE DEF a, e
  <2> QED  BY <1>1, <2>1, <2>2, <2>3
<1>4. \A k \in Nat : Part(g, k) \in Nat /\ Part(g, k) <= Len(g)
  <2> TAKE k \in Nat
  <2>1. k <= k  OBVIOUS
  <2> QED  BY <1>3, <2>1
<1> QED  BY <1>2, <1>3, <1>4

\* The first n segments of a graph are submitted, when no batch is open.
LEMMA SegmentsOrder ==
    ASSUME NEW s \in StreamType(Commands), StreamInv(s), ~SubmitsOpen(s), NEW w \in Calls, NEW b, NEW d,
           NEW y \in Calls, d \subseteq Nat \X Nat, InOrderWith(s, w, b, d, y),
           NEW cbs \in Seq(CommandBuffers(Commands)), NEW g \in Calls, GraphHolds(cbs, g),
           NEW n \in 0 .. Len(cbs)
    PROVE  Accepts(s, w, b, launch_segments(s, cbs, n), w \o SubSeq(g, 1, Part(g, n)), d, y)
<1> DEFINE u == launch_segments(s, cbs, n)
           q == s.queue
           p == [i \in 1 .. n |-> [serial |-> s.next_serial + i - 1, slot |-> NoSlot, cb |-> cbs[i]]]
           l == Len(q)
           a == Len(w)
           h == SubSeq(g, 1, Part(g, n))
           x == w \o h
           e == [i \in 0 .. n |-> a + Part(g, i)]
           c == Extend(q, b, e, n)
<1>0. Len(cbs) \in Nat /\ n \in Nat /\ n <= Len(cbs) /\ (\A i \in 1 .. n : i \in 1 .. Len(cbs))
  OBVIOUS
<1>1. /\ q \in Seq(Submissions(Commands)) /\ l \in Nat /\ s.next_serial \in Nat /\ s.submitted \in Nat
      /\ s.open_slot = NoSlot
  BY DEF StreamType, SubmitsOpen
<1>2. s.submitted < s.next_serial  BY DEF StreamInv, SerialOrder
<1>3. /\ u.queue = q \o p /\ u.open_slot = s.open_slot
      /\ u.submitted = IF n = 0 THEN s.submitted ELSE s.next_serial + n - 1
  BY DEF launch_segments, StreamType
<1>4. \A i \in 1 .. n : p[i] \in Submissions(Commands)
  <2> SUFFICES ASSUME NEW i \in 1 .. n PROVE p[i] \in Submissions(Commands)
    OBVIOUS
  <2>1. cbs[i] \in CommandBuffers(Commands) /\ s.next_serial + i - 1 \in Nat  BY <1>0, <1>1
  <2> QED  BY <2>1 DEF Submissions
<1>5. p \in Seq(Submissions(Commands)) /\ n = Len(p)  BY <1>0, <1>4
<1>6. \A i \in 1 .. n : p[i].serial > s.submitted /\ p[i].cb = cbs[i]
  <2> SUFFICES ASSUME NEW i \in 1 .. n PROVE p[i].serial > s.submitted /\ p[i].cb = cbs[i]
    OBVIOUS
  <2>1. p[i].serial = s.next_serial + i - 1 /\ p[i].cb = cbs[i]  OBVIOUS
  <2> QED  BY <1>0, <1>1, <1>2, <2>1
<1>7. QueueHolds(q, w, b) /\ a = b[l + 1] /\ RanTo(q, w, b, d, y, s.submitted)
  BY DEF InOrderWith, Opened
<1>8. a \in Nat /\ Len(g) \in Nat  BY DEF Calls
<1>9. /\ Part(g, 0) = 0
      /\ \A k \in Nat : Part(g, k) \in Nat /\ Part(g, k) <= Len(g)
      /\ \A j, k \in Nat : j <= k => Part(g, j) <= Part(g, k)
  BY PartMonotone
<1>10. h \in Calls /\ Len(h) = Part(g, n) /\ \A i \in 1 .. Part(g, n) : h[i] = g[i]
  <2> DEFINE f == Part(g, n)
  <2>1. f \in Nat /\ f <= Len(g)  BY <1>0, <1>9
  <2> HIDE DEF f
  <2> QED  BY <2>1, PrefixCalls DEF f
<1> HIDE DEF h
<1>11. /\ x \in Calls /\ Len(x) = a + Part(g, n) /\ (\A i \in 1 .. a : x[i] = w[i])
       /\ (\A i \in 1 .. Part(g, n) : x[a + i] = h[i])
  <2> DEFINE E == [op : {"command"}, arg : Commands]
             f == Part(g, n)
  <2>1. w \in Seq(E) /\ h \in Seq(E) /\ Len(h) = f  BY <1>10 DEF Calls
  <2> HIDE DEF E, f
  <2>2. /\ x \in Seq(E) /\ Len(x) = a + f /\ (\A i \in 1 .. a : x[i] = w[i])
        /\ (\A i \in 1 .. f : x[a + i] = h[i])
    BY <2>1, SMTT(30)
  <2> QED  BY <2>2 DEF E, f, Calls
<1> HIDE DEF u, q, p, l, x
<1>12. e \in [0 .. n -> Nat] /\ \A i \in 0 .. n : e[i] = a + Part(g, i)
  <2>1. \A i \in 0 .. n : Part(g, i) \in Nat  BY <1>0, <1>9, SMTT(30)
  <2> HIDE DEF a
  <2>2. \A i \in 0 .. n : a + Part(g, i) \in Nat  BY <1>8, <2>1 DEF a
  <2> QED  BY <2>2
<1> HIDE DEF e, a
<1>13. \A j, k \in 0 .. n : j <= k => e[j] <= e[k]
  <2> SUFFICES ASSUME NEW j \in 0 .. n, NEW k \in 0 .. n, j <= k PROVE e[j] <= e[k]
    OBVIOUS
  <2>1. j \in Nat /\ k \in Nat  OBVIOUS
  <2>2. Part(g, j) <= Part(g, k) /\ Part(g, j) \in Nat /\ Part(g, k) \in Nat  BY <1>9, <2>1
  <2> QED  BY <1>8, <1>12, <2>2
<1>14. ASSUME NEW i \in 1 .. n PROVE Holds(p[i].cb, x, e[i - 1], e[i] - e[i - 1])
  <2> DEFINE f == Part(g, i - 1)
             m == Part(g, i) - Part(g, i - 1)
             cb == cbs[i]
  <2>1. i \in 0 .. n /\ i - 1 \in 0 .. n /\ i \in Nat /\ i - 1 \in Nat /\ i - 1 <= i /\ i <= n
        /\ i \in 1 .. Len(cbs)
    BY <1>0
  <2>a. Part(g, i - 1) \in Nat /\ Part(g, i) \in Nat /\ Part(g, i - 1) <= Part(g, i)  BY <1>9, <2>1
  <2>2. f \in Nat /\ m \in Nat /\ f + m = Part(g, i)  BY <2>a
  <2>3. Part(g, i) <= Part(g, n) /\ Part(g, n) \in Nat /\ Part(g, i) \in Nat  BY <1>0, <1>9, <2>1
  <2>4. Holds(cb, g, f, m)  BY <2>1 DEF GraphHolds
  <2>5. e[i - 1] = a + f /\ e[i] - e[i - 1] = m
    <3>1. e[i - 1] = a + Part(g, i - 1) /\ e[i] = a + Part(g, i)  BY <1>12, <2>1
    <3>2. a \in Nat  BY <1>8
    <3> QED  BY <2>a, <3>1, <3>2
  <2> HIDE DEF f, m, cb
  <2>6. \A j \in 1 .. m : x[a + f + j] = g[f + j]
    <3> SUFFICES ASSUME NEW j \in 1 .. m PROVE x[a + f + j] = g[f + j]
      OBVIOUS
    <3>1. f + j \in 1 .. Part(g, n) /\ a + f + j = a + (f + j)  BY <1>8, <2>2, <2>3
    <3> QED  BY <1>10, <1>11, <3>1
  <2>7. a + f \in Nat /\ a + f + m <= Len(x)  BY <1>8, <1>11, <2>2, <2>3
  <2>8. Holds(cb, x, a + f, m)
    <3> DEFINE z == a + f
    <3>1. z \in Nat /\ z + m <= Len(x) /\ \A j \in 1 .. m : x[z + j] = g[f + j]  BY <2>6, <2>7
    <3> HIDE DEF z
    <3>2. Holds(cb, x, z, m)  BY <2>2, <2>4, <3>1, HoldsAgree
    <3> QED  BY <3>2 DEF z
  <2> QED  BY <1>6, <2>5, <2>8 DEF cb
<1>15. Follows(p, x, e, n)  BY <1>12, <1>13, <1>14 DEF Follows
<1>16. e[0] = b[l + 1] /\ Agrees(w, x, b[l + 1]) /\ Len(x) \in Nat /\ a <= Len(x)
  <2>1. 0 \in 0 .. n /\ n \in Nat  BY <1>0
  <2>2. Part(g, n) \in Nat  BY <1>9, <2>1
  <2>3. e[0] = a  BY <1>8, <1>9, <1>12, <2>1
  <2> QED  BY <1>7, <1>8, <1>11, <2>2, <2>3 DEF Agrees
<1>17. /\ QueueHolds(q \o p, x, c)
       /\ Len(q \o p) = l + n
       /\ \A k \in 1 .. l : (q \o p)[k] = q[k]
       /\ \A i \in 1 .. n : (q \o p)[l + i] = p[i]
       /\ \A k \in 1 .. l + 1 : c[k] = b[k]
       /\ \A i \in 0 .. n : c[l + 1 + i] = e[i]
  <2>1. e[0] = b[Len(q) + 1] /\ Agrees(w, x, b[Len(q) + 1])  BY <1>16 DEF l
  <2>2. QueueHolds(q \o p, x, c)  BY <1>0, <1>1, <1>5, <1>7, <1>15, <1>16, <2>1, QueueAppend
  <2>3. Len(q \o p) = Len(q) + n /\ \A k \in 1 .. Len(q) : (q \o p)[k] = q[k]
    BY <1>0, <1>1, <1>5, <1>7, <1>15, <1>16, <2>1, QueueAppend
  <2>4. \A i \in 1 .. n : (q \o p)[Len(q) + i] = p[i]  BY <1>1, <1>5
  <2>5. \A k \in 1 .. Len(q) + 1 : c[k] = b[k]  BY <1>0, <1>1, <1>5 DEF Extend
  <2>6. \A i \in 0 .. n : c[Len(q) + 1 + i] = e[i]
    BY <1>0, <1>1, <1>5, <1>7, <1>15, <1>16, <2>1, QueueAppend
  <2> QED  BY <2>2, <2>3, <2>4, <2>5, <2>6 DEF l
<1> HIDE DEF c
<1>18. RanTo(q \o p, x, c, d, y, u.submitted)
  <2>1. s.submitted <= u.submitted /\ u.submitted \in Nat  BY <1>0, <1>1, <1>2, <1>3
  <2>2. \A i \in 1 .. n : p[i].serial > s.submitted  BY <1>6
  <2>3. Agrees(w, x, b[Len(q) + 1])  BY <1>16 DEF l
  <2> QED  BY <1>0, <1>1, <1>5, <1>7, <1>17, <2>1, <2>2, <2>3, RanAppend DEF l
<1>19. c[1] = b[1] /\ c[l + n + 1] = a + Part(g, n)
  <2>1. 1 \in 1 .. l + 1 /\ n \in 0 .. n /\ l + n + 1 = l + 1 + n  BY <1>0, <1>1
  <2> QED  BY <1>12, <1>17, <2>1
<1>20. InOrderWith(u, x, c, d, y)
  <2>1. Opened(u, x, c[l + n + 1])  BY <1>1, <1>3, <1>11, <1>19 DEF Opened, SubmitsOpen
  <2> QED  BY <1>3, <1>17, <1>18, <2>1 DEF InOrderWith
<1>21. Later(s, w, b, u, x, c)
  <2>1. ASSUME NEW serial \in Nat, NEW mark \in Nat, Marks(s, w, b, serial, mark)
        PROVE  \A i \in 1 .. n : p[i].serial > serial => mark <= b[Len(s.queue) + 1]
    BY <1>7, <2>1 DEF Marks, a, l, q
  <2>2. ~SubmitsOpen(u) /\ Len(w) <= Len(x)  BY <1>1, <1>3, <1>16 DEF SubmitsOpen, a
  <2>3. /\ u.queue = s.queue \o p /\ QueueHolds(s.queue, w, b) /\ QueueHolds(u.queue, x, c)
        /\ Len(u.queue) = Len(s.queue) + n
        /\ \A k \in 1 .. Len(s.queue) : u.queue[k] = s.queue[k]
        /\ \A i \in 1 .. n : u.queue[Len(s.queue) + i] = p[i]
        /\ \A k \in 1 .. Len(s.queue) + 1 : c[k] = b[k]
    BY <1>3, <1>7, <1>17 DEF l, q
  <2> QED  BY <1>0, <1>5, <1>11, <2>1, <2>2, <2>3, LaterAppend
<1> QED  BY <1>19, <1>20, <1>21 DEF u, x, h, Accepts

-----------------------------------------------------------------------------
(***************************************************************************)
(* The GPU's steps.                                                        *)
(***************************************************************************)

\* The commands of a buffer are at its even positions.
LEMMA HeldCommands ==
    ASSUME NEW cb \in CommandBuffers(Commands), NEW w \in Calls, NEW a \in Nat, NEW m \in Nat,
           Holds(cb, w, a, m)
    PROVE  /\ \A i \in 1 .. m : 2 * i \in DOMAIN cb /\ IsCommand(cb[2 * i])
           /\ \A i \in DOMAIN cb : IsCommand(cb[i]) => \E j \in 1 .. m : i = 2 * j
           /\ Cardinality({i \in DOMAIN cb : IsCommand(cb[i])}) = m
<1>1. /\ DOMAIN cb = 1 .. Len(cb) /\ Len(cb) \in Nat /\ Len(w) \in Nat
      /\ 2 * m <= Len(cb) /\ a + m <= Len(w)
  BY DEF CommandBuffers, Calls, Holds
<1>2. ASSUME NEW i \in 1 .. m PROVE 2 * i \in DOMAIN cb /\ IsCommand(cb[2 * i])
  <2>1. 2 * i \in DOMAIN cb /\ a + i \in 1 .. Len(w)  BY <1>1
  <2>2. w[a + i] \in [op : {"command"}, arg : Commands]
    <3> DEFINE E == [op : {"command"}, arg : Commands]
    <3>1. w \in Seq(E)  BY DEF Calls
    <3> HIDE DEF E
    <3>2. w[a + i] \in E  BY <2>1, <3>1
    <3> QED  BY <3>2 DEF E
  <2>3. cb[2 * i] = w[a + i]  BY DEF Holds
  <2> QED  BY <2>1, <2>2, <2>3 DEF IsCommand
<1>3. ASSUME NEW i \in DOMAIN cb, IsCommand(cb[i]) PROVE \E j \in 1 .. m : i = 2 * j
  <2>1. i \in Nat /\ i >= 1 /\ ~(i > 2 * m)  BY <1>1, <1>3 DEF Holds
  <2>2. i <= 2 * m  BY <2>1
  <2>3. PICK j \in 1 .. m : i = 2 * j \/ i = 2 * j - 1
    <3>1. CASE i % 2 = 0
      <4>1. i \div 2 \in 1 .. m /\ i = 2 * (i \div 2)  BY <2>1, <2>2, <3>1
      <4> QED  BY <4>1
    <3>2. CASE i % 2 # 0
      <4>1. (i + 1) \div 2 \in 1 .. m /\ i = 2 * ((i + 1) \div 2) - 1  BY <2>1, <2>2, <3>2
      <4> QED  BY <4>1
    <3> QED  BY <3>1, <3>2
  <2>4. ~IsCommand(Barrier)  BY DEF IsCommand, Barrier
  <2>5. cb[2 * j - 1] = Barrier  BY DEF Holds
  <2> QED  BY <1>3, <2>3, <2>4, <2>5
<1>4. Cardinality({i \in DOMAIN cb : IsCommand(cb[i])}) = m
  <2> DEFINE S == {i \in DOMAIN cb : IsCommand(cb[i])}
             f == [j \in 1 .. m |-> 2 * j]
  <2>1. f \in [1 .. m -> S]  BY <1>2
  <2>2. \A x, y \in 1 .. m : f[x] = f[y] => x = y  OBVIOUS
  <2>3. \A z \in S : \E j \in 1 .. m : f[j] = z  BY <1>3
  <2>4. DOMAIN f = 1 .. m  OBVIOUS
  <2> HIDE DEF f, S
  <2>5. ExistsBijection(1 .. m, S)
    BY <2>1, <2>2, <2>3, <2>4 DEF ExistsBijection, Bijection, Injection, Surjection, IsInjective
  <2>6. IsFiniteSet(1 .. m) /\ Cardinality(1 .. m) = m  BY FS_Interval
  <2>7. Cardinality(S) = m  BY <2>5, <2>6, FS_Bijection
  <2> QED  BY <2>7 DEF S
<1> QED  BY <1>2, <1>3, <1>4

\* What is issued before each submission once the head of the queue is gone.
Shift(q, b) == [k \in 1 .. Len(q) |-> b[k + 1]]

\* The head of the queue is signalled: its commands are retired.
LEMMA SignalOrder ==
    ASSUME NEW s \in StreamType(Commands), StreamInv(s), s.queue # << >>, NEW w \in Calls, NEW b,
           NEW d, NEW y \in Calls, d \subseteq Nat \X Nat, InOrderWith(s, w, b, d, y),
           \A i \in DOMAIN Head(s.queue).cb :
               IsCommand(Head(s.queue).cb[i]) => <<Head(s.queue).serial, i>> \in d
    PROVE  /\ InOrderWith(Signal(s), w, Shift(s.queue, b),
                          {e \in d : e[1] # Head(s.queue).serial}, y)
           /\ b[1] \in Nat /\ b[2] \in Nat /\ b[1] <= b[2] /\ Shift(s.queue, b)[1] = b[2]
           /\ Cardinality({i \in DOMAIN Head(s.queue).cb : IsCommand(Head(s.queue).cb[i])}) = b[2] - b[1]
           /\ \A serial, mark \in Nat :
                 /\ Marks(s, w, b, serial, mark) => Marks(Signal(s), w, Shift(s.queue, b), serial, mark)
                 /\ Carried(s, b, serial, mark) =>
                       \/ Carried(Signal(s), Shift(s.queue, b), serial, mark)
                       \/ HasToHost(Head(s.queue).cb) /\ mark <= b[2]
<1> DEFINE u == Signal(s)
           q == s.queue
           l == Len(q)
           c == Shift(q, b)
           hd == Head(q)
           m == b[2] - b[1]
           d2 == {e \in d : e[1] # hd.serial}
<1>1. /\ q \in Seq(Submissions(Commands)) /\ l \in Nat /\ l # 0 /\ DOMAIN q = 1 .. l /\ hd = q[1]
      /\ Len(Tail(q)) = l - 1 /\ \A i \in 1 .. l - 1 : Tail(q)[i] = q[i + 1]
  BY DEF StreamType
<1>2. /\ u.queue = Tail(q) /\ u.submitted = s.submitted /\ u.open_slot = s.open_slot /\ u.cb = s.cb
      /\ u.ops_in_batch = s.ops_in_batch /\ u.need_barrier = s.need_barrier
      /\ u.open_serial = s.open_serial
  BY DEF Signal, StreamType
<1>3. QueueHolds(q, w, b) /\ Opened(s, w, b[l + 1]) /\ RanTo(q, w, b, d, y, s.submitted)
  BY DEF InOrderWith
<1>4. /\ b \in [1 .. l + 1 -> Nat] /\ \A j, k \in 1 .. l + 1 : j <= k => b[j] <= b[k]
      /\ \A k \in 1 .. l : Holds(q[k].cb, w, b[k], b[k + 1] - b[k])
  BY <1>3 DEF QueueHolds
<1>5. c = [k \in 1 .. l |-> b[k + 1]]  BY DEF Shift
<1>6. 1 \in 1 .. l /\ 1 \in 1 .. l + 1 /\ 2 \in 1 .. l + 1 /\ 1 + 1 = 2 /\ l \in 1 .. l
  BY <1>1
<1>7. b[1] \in Nat /\ b[2] \in Nat /\ b[1] <= b[2] /\ m \in Nat  BY <1>4, <1>6
<1>8. hd \in Submissions(Commands) /\ Holds(hd.cb, w, b[1], m)
  <2>1. Holds(q[1].cb, w, b[1], b[1 + 1] - b[1])  BY <1>4, <1>6
  <2> QED  BY <1>1, <1>6, <2>1
<1>9. hd.cb \in CommandBuffers(Commands) /\ hd.serial \in Nat  BY <1>8 DEF Submissions
<1>10. \A i \in DOMAIN hd.cb : IsCommand(hd.cb[i]) => <<hd.serial, i>> \in d  OBVIOUS
<1> HIDE DEF u, q, l, c, hd, m
<1>11. /\ \A i \in 1 .. m : 2 * i \in DOMAIN hd.cb /\ IsCommand(hd.cb[2 * i])
       /\ Cardinality({i \in DOMAIN hd.cb : IsCommand(hd.cb[i])}) = m
  <2> DEFINE a == b[1]
  <2>1. a \in Nat /\ Holds(hd.cb, w, a, m)  BY <1>7, <1>8
  <2> HIDE DEF a
  <2> QED  BY <1>7, <1>9, <2>1, HeldCommands
<1>12. Len(y) \in Nat  BY DEF Calls
<1>13. b[2] <= Len(y)
  <2>1. CASE m = 0
    <3>1. b[1] <= Len(y)  BY <1>3 DEF RanTo
    <3> QED  BY <1>7, <1>12, <2>1, <3>1 DEF m
  <2>2. CASE m # 0
    <3>1. m \in 1 .. m  BY <1>7, <2>2
    <3>2. <<hd.serial, 2 * m>> \in d  BY <1>10, <1>11, <3>1
    <3>3. \A i \in 1 .. b[1 + 1] - b[1] : <<q[1].serial, 2 * i>> \in d <=> b[1] + i <= Len(y)
      BY <1>3, <1>6 DEF RanTo, l
    <3>4. b[1] + m <= Len(y)  BY <1>1, <3>1, <3>2, <3>3 DEF m
    <3> QED  BY <1>7, <3>4 DEF m
  <2> QED  BY <2>1, <2>2
<1>14. /\ c \in [1 .. l -> Nat] /\ \A k \in 1 .. l : c[k] = b[k + 1] /\ k + 1 \in 1 .. l + 1
  <2>1. \A k \in 1 .. l : k + 1 \in 1 .. l + 1  BY <1>1
  <2> QED  BY <1>4, <1>5, <2>1
<1>15. \A k \in 1 .. l - 1 : /\ k \in 1 .. l /\ k + 1 \in 1 .. l /\ u.queue[k] = q[k + 1]
                             /\ c[k] = b[k + 1] /\ c[k + 1] = b[k + 1 + 1]
  <2>1. \A k \in 1 .. l - 1 : k \in 1 .. l /\ k + 1 \in 1 .. l  BY <1>1
  <2> QED  BY <1>1, <1>2, <1>14, <2>1
<1>16. Len(u.queue) = l - 1 /\ l - 1 + 1 = l  BY <1>1, <1>2
<1>17. QueueHolds(u.queue, w, c)
  <2>1. \A j, k \in 1 .. l : j <= k => c[j] <= c[k]
    <3> SUFFICES ASSUME NEW j \in 1 .. l, NEW k \in 1 .. l, j <= k PROVE c[j] <= c[k]
      OBVIOUS
    <3>1. j + 1 <= k + 1  BY <1>1
    <3> QED  BY <1>4, <1>14, <3>1
  <2>2. \A k \in 1 .. l - 1 : Holds(u.queue[k].cb, w, c[k], c[k + 1] - c[k])
    BY <1>4, <1>15
  <2> QED  BY <1>14, <1>16, <2>1, <2>2 DEF QueueHolds
<1>18. Opened(u, w, c[l])  BY <1>1, <1>2, <1>3, <1>6, <1>14 DEF Opened, SubmitsOpen
<1>19. RanTo(u.queue, w, c, d2, y, u.submitted)
  <2>1. ASSUME NEW k \in 1 .. l - 1, NEW i \in 1 .. c[k + 1] - c[k]
        PROVE  <<u.queue[k].serial, 2 * i>> \in d2 <=> c[k] + i <= Len(y)
    <3> DEFINE j == k + 1
    <3>1. j \in 1 .. l /\ i \in 1 .. b[j + 1] - b[j] /\ u.queue[k] = q[j] /\ c[k] = b[j]  BY <1>15, <2>1
    <3>2. 1 < j  OBVIOUS
    <3> HIDE DEF j
    <3>3. <<q[j].serial, 2 * i>> \in d <=> b[j] + i <= Len(y)  BY <1>3, <3>1 DEF RanTo, l
    <3>4. q[j].serial # hd.serial
      <4>1. q[1].serial < q[j].serial  BY <1>1, <1>6, <3>1, <3>2 DEF StreamInv, SerialOrder, q
      <4>2. q[j] \in Submissions(Commands)  BY <1>1, <3>1
      <4>3. q[j].serial \in Nat  BY <4>2 DEF Submissions
      <4> QED  BY <1>1, <1>9, <4>1, <4>3
    <3> QED  BY <3>1, <3>3, <3>4
  <2>2. \A e \in d2 : e[1] <= u.submitted  BY <1>2, <1>3 DEF RanTo
  <2>3. c[1] <= Len(y) /\ Len(y) <= c[l]
    <3>1. c[1] = b[2] /\ c[l] = b[l + 1]  BY <1>6, <1>14
    <3> QED  BY <1>3, <1>13, <3>1 DEF RanTo, l
  <2>4. \A j \in 1 .. Len(y) : y[j] = w[j]  BY <1>3 DEF RanTo
  <2> QED  BY <1>16, <2>1, <2>2, <2>3, <2>4 DEF RanTo
<1>20. InOrderWith(u, w, c, d2, y)  BY <1>16, <1>17, <1>18, <1>19 DEF InOrderWith
<1>21. c[1] = b[2]  BY <1>6, <1>14
<1>22. ASSUME NEW serial \in Nat, NEW mark \in Nat, Marks(s, w, b, serial, mark)
       PROVE  Marks(u, w, c, serial, mark)
  <2>1. \A k \in 1 .. l - 1 : u.queue[k].serial > serial => mark <= c[k]
    BY <1>15, <1>22 DEF Marks, l, q
  <2>2. SubmitsOpen(u) /\ u.open_serial > serial => mark <= c[l]
    BY <1>2, <1>6, <1>14, <1>22 DEF Marks, SubmitsOpen, l, q
  <2> QED  BY <1>16, <1>22, <2>1, <2>2 DEF Marks
<1>23. ASSUME NEW serial \in Nat, NEW mark \in Nat, Carried(s, b, serial, mark)
       PROVE  Carried(u, c, serial, mark) \/ (HasToHost(hd.cb) /\ mark <= b[2])
  <2>1. PICK k \in 1 .. l : q[k].serial <= serial /\ HasToHost(q[k].cb) /\ mark <= b[k + 1]
    BY <1>23 DEF Carried, l, q
  <2>2. CASE k = 1  BY <1>1, <1>6, <2>1, <2>2
  <2>3. CASE k # 1
    <3> DEFINE j == k - 1
    <3>1. j \in 1 .. l - 1 /\ k = j + 1  BY <1>1, <2>3
    <3> HIDE DEF j
    <3>2. u.queue[j] = q[k] /\ c[j + 1] = b[k + 1]  BY <1>15, <3>1
    <3> QED  BY <1>16, <2>1, <3>1, <3>2 DEF Carried
  <2> QED  BY <2>2, <2>3
<1> QED  BY <1>7, <1>11, <1>20, <1>21, <1>22, <1>23 DEF u, c, q, hd, m

\* A nonempty set of naturals has a least element.
LEMMA LeastNatural ==
    ASSUME NEW S \in SUBSET Nat, S # {}
    PROVE  \E x \in S : \A y \in S : x <= y
<1> DEFINE R == OpToRel(<, Nat)
<1>1. \E x \in S : \A y \in S : ~(<<y, x>> \in R)  BY NatLessThanWellFounded, WFMin
<1>2. \A x, y \in Nat : x < y => <<x, y>> \in R  BY Zenon DEF OpToRel
<1> HIDE DEF R
<1>3. PICK x \in S : \A y \in S : ~(<<y, x>> \in R)  BY <1>1
<1>4. ASSUME NEW y \in S PROVE x <= y
  <2>1. x \in Nat /\ y \in Nat /\ ~(y < x)  BY <1>2, <1>3
  <2> QED  BY <2>1
<1> QED  BY <1>4

\* What the queue holds at a position: the j-th command of the k-th submission.
LEMMA PendingAt ==
    ASSUME st \in StreamType(Commands), issued \in Calls, ran \in Calls, NEW b,
           InOrderWith(st, issued, b, done, ran)
    PROVE  /\ \A k \in 1 .. Len(st.queue) : \A j \in 1 .. b[k + 1] - b[k] :
                 /\ <<k, 2 * j>> \in Positions /\ <<k, 2 * j - 1>> \in Positions
                 /\ EntryAt(<<k, 2 * j - 1>>) = Barrier /\ EntryAt(<<k, 2 * j>>) = issued[b[k] + j]
                 /\ (<<k, 2 * j>> \in Pending <=> b[k] + j > Len(ran))
           /\ \A p \in Pending : \E k \in 1 .. Len(st.queue) : \E j \in 1 .. b[k + 1] - b[k] :
                 p = <<k, 2 * j>>
<1> DEFINE q == st.queue
           l == Len(q)
<1>1. q \in Seq(Submissions(Commands)) /\ l \in Nat /\ DOMAIN q = 1 .. l  BY DEF StreamType
<1>2. /\ b \in [1 .. l + 1 -> Nat] /\ \A j, k \in 1 .. l + 1 : j <= k => b[j] <= b[k]
      /\ \A k \in 1 .. l : Holds(q[k].cb, issued, b[k], b[k + 1] - b[k])
  BY DEF InOrderWith, QueueHolds
<1> HIDE DEF q, l
<1>3. ASSUME NEW k \in 1 .. l
      PROVE  /\ b[k] \in Nat /\ b[k + 1] - b[k] \in Nat /\ q[k].cb \in CommandBuffers(Commands)
             /\ Holds(q[k].cb, issued, b[k], b[k + 1] - b[k])
  <2>1. k \in 1 .. l + 1 /\ k + 1 \in 1 .. l + 1 /\ k <= k + 1  BY <1>1
  <2>2. b[k] \in Nat /\ b[k + 1] \in Nat /\ b[k] <= b[k + 1]  BY <1>2, <2>1
  <2>3. q[k] \in Submissions(Commands)  BY <1>1
  <2>4. q[k].cb \in CommandBuffers(Commands)  BY <2>3 DEF Submissions
  <2> QED  BY <1>2, <2>2, <2>4
<1>4. ASSUME NEW k \in 1 .. l
      PROVE  /\ \A i \in 1 .. b[k + 1] - b[k] : 2 * i \in DOMAIN q[k].cb /\ IsCommand(q[k].cb[2 * i])
             /\ \A i \in DOMAIN q[k].cb : IsCommand(q[k].cb[i]) => \E j \in 1 .. b[k + 1] - b[k] : i = 2 * j
  <2> DEFINE a == b[k]
             m == b[k + 1] - b[k]
             cb == q[k].cb
  <2>1. a \in Nat /\ m \in Nat /\ cb \in CommandBuffers(Commands) /\ Holds(cb, issued, a, m)  BY <1>3
  <2> HIDE DEF a, m, cb
  <2>2. /\ \A i \in 1 .. m : 2 * i \in DOMAIN cb /\ IsCommand(cb[2 * i])
        /\ \A i \in DOMAIN cb : IsCommand(cb[i]) => \E j \in 1 .. m : i = 2 * j
    BY <2>1, HeldCommands
  <2> QED  BY <2>2 DEF m, cb
<1>5. ASSUME NEW k \in 1 .. l, NEW j \in 1 .. b[k + 1] - b[k]
      PROVE  /\ <<k, 2 * j>> \in Positions /\ <<k, 2 * j - 1>> \in Positions
             /\ EntryAt(<<k, 2 * j - 1>>) = Barrier /\ EntryAt(<<k, 2 * j>>) = issued[b[k] + j]
             /\ (<<k, 2 * j>> \in Pending <=> b[k] + j > Len(ran))
  <2>1. 2 * j \in DOMAIN q[k].cb /\ IsCommand(q[k].cb[2 * j])  BY <1>4
  <2>2. q[k].cb[2 * j - 1] = Barrier /\ q[k].cb[2 * j] = issued[b[k] + j]  BY <1>3 DEF Holds
  <2>3. 2 * j - 1 \in DOMAIN q[k].cb
    <3>1. DOMAIN q[k].cb = 1 .. Len(q[k].cb) /\ Len(q[k].cb) \in Nat  BY <1>3 DEF CommandBuffers
    <3> QED  BY <2>1, <3>1
  <2>4. <<k, 2 * j>> \in Positions /\ <<k, 2 * j - 1>> \in Positions
    <3>1. k \in DOMAIN st.queue  BY <1>1 DEF q
    <3> QED  BY <2>1, <2>3, <3>1 DEF Positions, q
  <2>5. EntryAt(<<k, 2 * j - 1>>) = Barrier /\ EntryAt(<<k, 2 * j>>) = issued[b[k] + j]
    BY <2>2 DEF EntryAt, q
  <2>6. <<q[k].serial, 2 * j>> \in done <=> b[k] + j <= Len(ran)
    BY DEF InOrderWith, RanTo, q, l
  <2>7. Executed(<<k, 2 * j>>) <=> <<q[k].serial, 2 * j>> \in done  BY DEF Executed, q
  <2>8. IsCommand(EntryAt(<<k, 2 * j>>))  BY <2>1 DEF EntryAt, q
  <2>9. <<k, 2 * j>> \in Pending <=> ~(b[k] + j <= Len(ran))  BY <2>4, <2>6, <2>7, <2>8 DEF Pending
  <2>10. b[k] + j \in Int  BY <1>3
  <2>11. Len(ran) \in Int  BY DEF Calls
  <2>12. ~(b[k] + j <= Len(ran)) <=> b[k] + j > Len(ran)  BY <2>10, <2>11
  <2> QED  BY <2>4, <2>5, <2>9, <2>12
<1>6. ASSUME NEW p \in Pending PROVE \E k \in 1 .. l : \E j \in 1 .. b[k + 1] - b[k] : p = <<k, 2 * j>>
  <2>1. p \in Positions /\ IsCommand(EntryAt(p))  BY DEF Pending
  <2>2. p = <<p[1], p[2]>> /\ p[1] \in DOMAIN q /\ p[2] \in DOMAIN q[p[1]].cb
    BY <2>1, PositionType DEF q
  <2>3. IsCommand(q[p[1]].cb[p[2]])  BY <2>1 DEF EntryAt, q
  <2>4. \E j \in 1 .. b[p[1] + 1] - b[p[1]] : p[2] = 2 * j  BY <1>1, <1>4, <2>2, <2>3
  <2> QED  BY <1>1, <2>2, <2>4
<1> QED  BY <1>5, <1>6 DEF q, l

\* The command the GPU may execute is the next one in the order of the calls: any other has a
\* barrier between it and the next one.
LEMMA ExecuteOrder ==
    ASSUME st \in StreamType(Commands), StreamInv(st), issued \in Calls, ran \in Calls, NEW b,
           done \subseteq Nat \X Nat, InOrderWith(st, issued, b, done, ran), Execute
    PROVE  /\ InOrderWith(st, issued, b, done', ran')
           /\ Len(ran) < Len(issued) /\ ran' = Append(ran, issued[Len(ran) + 1])
<1> DEFINE q == st.queue
           l == Len(q)
           r == Len(ran)
<1>1. q \in Seq(Submissions(Commands)) /\ l \in Nat /\ DOMAIN q = 1 .. l /\ st.submitted \in Nat
  BY DEF StreamType
<1>2. r \in Nat /\ Len(issued) \in Nat  BY DEF Calls
<1>3. QueueHolds(q, issued, b) /\ Opened(st, issued, b[l + 1]) /\ RanTo(q, issued, b, done, ran, st.submitted)
  BY DEF InOrderWith
<1>4. /\ b \in [1 .. l + 1 -> Nat] /\ \A j, k \in 1 .. l + 1 : j <= k => b[j] <= b[k]
      /\ \A k \in 1 .. l : Holds(q[k].cb, issued, b[k], b[k + 1] - b[k])
  BY <1>3 DEF QueueHolds
<1>5. /\ \A k \in 1 .. l : \A i \in 1 .. b[k + 1] - b[k] :
            <<q[k].serial, 2 * i>> \in done <=> b[k] + i <= r
      /\ \A e \in done : e[1] <= st.submitted
      /\ b[1] <= r /\ r <= b[l + 1]
      /\ \A j \in 1 .. r : ran[j] = issued[j]
  BY <1>3 DEF RanTo
<1>6. /\ \A k \in 1 .. l : \A j \in 1 .. b[k + 1] - b[k] :
            /\ <<k, 2 * j>> \in Positions /\ <<k, 2 * j - 1>> \in Positions
            /\ EntryAt(<<k, 2 * j - 1>>) = Barrier /\ EntryAt(<<k, 2 * j>>) = issued[b[k] + j]
            /\ (<<k, 2 * j>> \in Pending <=> b[k] + j > r)
      /\ \A p \in Pending : \E k \in 1 .. l : \E j \in 1 .. b[k + 1] - b[k] : p = <<k, 2 * j>>
  BY PendingAt
<1>7. PICK p \in Pending :
        /\ \A x \in Pending : Before(x, p) =>
               ~ \E f \in Positions : Before(x, f) /\ Before(f, p) /\ EntryAt(f) = Barrier
        /\ done' = done \cup {<<st.queue[p[1]].serial, p[2]>>}
        /\ ran' = Append(ran, EntryAt(p))
        /\ UNCHANGED <<st, issued>>
  BY DEF Execute
<1> HIDE DEF q, l, r
<1>8. PICK k \in 1 .. l : \E j \in 1 .. b[k + 1] - b[k] : p = <<k, 2 * j>>  BY <1>6
<1>9. PICK i \in 1 .. b[k + 1] - b[k] : p = <<k, 2 * i>>  BY <1>8
<1>10. p[1] = k /\ p[2] = 2 * i  BY <1>9
<1>11. ASSUME NEW j \in 1 .. l
       PROVE  b[j] \in Nat /\ b[j + 1] \in Nat /\ b[j] <= b[j + 1] /\ j + 1 \in 1 .. l + 1 /\ j \in 1 .. l + 1
  <2>1. j \in 1 .. l + 1 /\ j + 1 \in 1 .. l + 1 /\ j <= j + 1  BY <1>1
  <2> QED  BY <1>4, <2>1
<1>12. b[k] + i > r /\ EntryAt(p) = issued[b[k] + i] /\ b[k] + i <= b[k + 1]
  <2>1. <<k, 2 * i>> \in Pending  BY <1>9
  <2>2. EntryAt(<<k, 2 * i>>) = issued[b[k] + i] /\ b[k] + i > r  BY <1>6, <2>1
  <2>3. b[k] \in Nat /\ b[k + 1] \in Nat  BY <1>11
  <2>4. b[k] + i <= b[k + 1]  BY <2>3
  <2> QED  BY <1>9, <2>2, <2>4
<1>13. b[k] + i = r + 1
  <2> SUFFICES ASSUME b[k] + i # r + 1 PROVE FALSE
    OBVIOUS
  <2>1. b[k] + i > r + 1
    <3>1. b[k] \in Nat /\ i \in Int  BY <1>11
    <3> QED  BY <1>2, <1>12, <3>1
  <2> DEFINE S == {j \in 1 .. l : r < b[j + 1]}
  <2>2. k \in S /\ S \subseteq Nat
    <3>1. r < b[k + 1]  BY <1>2, <1>11, <1>12
    <3> QED  BY <3>1
  <2>3. PICK h \in S : \A j \in S : h <= j  BY <2>2, LeastNatural
  <2>4. h \in 1 .. l /\ r < b[h + 1] /\ h <= k  BY <2>2, <2>3
  <2>5. b[h] <= r
    <3>1. CASE h = 1  BY <1>5, <3>1
    <3>2. CASE h # 1
      <4> DEFINE g == h - 1
      <4>1. g \in 1 .. l /\ h = g + 1 /\ ~(h <= g)  BY <1>1, <2>4, <3>2
      <4> HIDE DEF g
      <4>2. g \notin S  BY <2>3, <4>1
      <4>3. ~(r < b[g + 1])  BY <4>1, <4>2
      <4>4. b[g + 1] \in Nat  BY <1>11, <4>1
      <4> QED  BY <1>2, <4>1, <4>3, <4>4
    <3> QED  BY <3>1, <3>2
  <2> HIDE DEF S
  <2> DEFINE j == r + 1 - b[h]
             x == <<h, 2 * j>>
             f == <<k, 2 * i - 1>>
  <2>6. j \in 1 .. b[h + 1] - b[h] /\ b[h] + j = r + 1  BY <1>2, <1>11, <2>4, <2>5, SMTT(30)
  <2> HIDE DEF j
  <2>7. x \in Pending
    <3>1. b[h] + j > r  BY <1>2, <2>6
    <3> QED  BY <1>6, <2>4, <2>6, <3>1
  <2>8. f \in Positions /\ EntryAt(f) = Barrier  BY <1>6
  <2>9. h < k \/ (h = k /\ j < i)
    <3>1. CASE h = k
      <4>1. b[k] + j = r + 1 /\ b[k] \in Nat  BY <1>11, <2>6, <3>1
      <4> QED  BY <1>2, <2>1, <2>6, <3>1, <4>1
    <3>2. CASE h # k  BY <2>4, <3>2
    <3> QED  BY <3>1, <3>2
  <2>10. j \in Int /\ i \in Int /\ h \in Int /\ k \in Int  BY <1>11, <2>4, <2>6
  <2>11. x[1] = h /\ x[2] = 2 * j /\ f[1] = k /\ f[2] = 2 * i - 1  OBVIOUS
  <2> HIDE DEF x, f
  <2>12. Before(x, f) /\ Before(f, p) /\ Before(x, p)
    BY <1>10, <2>9, <2>10, <2>11 DEF Before
  <2> QED  BY <1>7, <2>7, <2>8, <2>12
<1>14. r < Len(issued) /\ ran' = Append(ran, issued[r + 1])
  <2>1. b[k] + (b[k + 1] - b[k]) <= Len(issued)  BY <1>4 DEF Holds
  <2> QED  BY <1>2, <1>7, <1>11, <1>12, <1>13, <2>1, SMTT(30)
<1>15. /\ Len(ran') = r + 1 /\ ran'[r + 1] = issued[r + 1] /\ \A j \in 1 .. r : ran'[j] = ran[j]
  BY <1>14 DEF r, Calls
<1>16. done' = done \cup {<<q[k].serial, 2 * i>>}  BY <1>7, <1>10 DEF q
<1>17. ASSUME NEW j \in 1 .. l, NEW m \in 1 .. b[j + 1] - b[j]
       PROVE  <<q[j].serial, 2 * m>> \in done' <=> b[j] + m <= r + 1
  <2>1. <<q[j].serial, 2 * m>> \in done <=> b[j] + m <= r  BY <1>5
  <2>2. b[j] + m = r + 1 <=> j = k /\ m = i
    <3>1. CASE j = k  BY <1>11, <1>13, <3>1
    <3>2. CASE j < k
      <4>1. j + 1 \in 1 .. l + 1 /\ k \in 1 .. l + 1 /\ j + 1 <= k  BY <1>1, <3>2
      <4>2. b[j + 1] <= b[k]  BY <1>4, <4>1
      <4>3. b[j] \in Nat /\ b[j + 1] \in Nat /\ b[k] \in Nat  BY <1>11
      <4> QED  BY <1>13, <3>2, <4>2, <4>3
    <3>3. CASE k < j
      <4>1. k + 1 \in 1 .. l + 1 /\ j \in 1 .. l + 1 /\ k + 1 <= j  BY <1>1, <3>3
      <4>2. b[k + 1] <= b[j]  BY <1>4, <4>1
      <4>3. b[j] \in Nat /\ b[k + 1] \in Nat /\ b[k] \in Nat  BY <1>11
      <4> QED  BY <1>12, <1>13, <3>3, <4>2, <4>3
    <3>4. j < k \/ j = k \/ k < j  BY <1>1
    <3> QED  BY <3>1, <3>2, <3>3, <3>4
  <2>3. q[j].serial = q[k].serial => j = k
    <3>1. \A g, h \in 1 .. l : g < h => q[g].serial < q[h].serial
      BY <1>1 DEF StreamInv, SerialOrder, q
    <3>2. q[j].serial \in Nat /\ q[k].serial \in Nat
      <4>1. q[j] \in Submissions(Commands) /\ q[k] \in Submissions(Commands)  BY <1>1
      <4> QED  BY <4>1 DEF Submissions
    <3>3. j < k \/ j = k \/ k < j  BY <1>1
    <3> QED  BY <3>1, <3>2, <3>3
  <2>4. <<q[j].serial, 2 * m>> = <<q[k].serial, 2 * i>> <=> j = k /\ m = i
    <3>1. m \in Int /\ i \in Int  BY <1>11
    <3> QED  BY <2>3, <3>1
  <2>5. b[j] + m \in Int  BY <1>11
  <2>6. <<q[j].serial, 2 * m>> \in done' <=>
          <<q[j].serial, 2 * m>> \in done \/ <<q[j].serial, 2 * m>> = <<q[k].serial, 2 * i>>
    BY <1>16
  <2>7. <<q[j].serial, 2 * m>> \in done' <=> b[j] + m <= r \/ b[j] + m = r + 1
    BY <2>1, <2>2, <2>4, <2>6
  <2> QED  BY <1>2, <2>5, <2>7
<1>18. \A e \in done' : e[1] <= st.submitted
  <2> SUFFICES ASSUME NEW e \in done' PROVE e[1] <= st.submitted
    OBVIOUS
  <2>1. CASE e \in done  BY <1>5, <2>1
  <2>2. CASE e = <<q[k].serial, 2 * i>>
    <3>1. q[k].serial <= st.submitted  BY <1>1 DEF StreamInv, SerialOrder, q
    <3> QED  BY <2>2, <3>1
  <2> QED  BY <1>16, <2>1, <2>2
<1>19. b[1] <= r + 1 /\ r + 1 <= b[l + 1]
  <2>1. k + 1 \in 1 .. l + 1 /\ l + 1 \in 1 .. l + 1 /\ k + 1 <= l + 1 /\ 1 \in 1 .. l + 1  BY <1>1
  <2>2. b[k + 1] <= b[l + 1] /\ b[l + 1] \in Nat /\ b[1] \in Nat  BY <1>4, <2>1
  <2> QED  BY <1>2, <1>5, <1>11, <1>12, <1>13, <2>2
<1>20. \A j \in 1 .. r + 1 : ran'[j] = issued[j]
  <2> SUFFICES ASSUME NEW j \in 1 .. r + 1 PROVE ran'[j] = issued[j]
    OBVIOUS
  <2>1. CASE j = r + 1  BY <1>15, <2>1
  <2>2. CASE j # r + 1
    <3>1. j \in 1 .. r  BY <1>2, <2>2
    <3> QED  BY <1>5, <1>15, <3>1
  <2> QED  BY <2>1, <2>2
<1>21. RanTo(q, issued, b, done', ran', st.submitted)
  BY <1>15, <1>17, <1>18, <1>19, <1>20 DEF RanTo, l
<1> QED  BY <1>3, <1>14, <1>21 DEF InOrderWith, q, l, r

-----------------------------------------------------------------------------
(***************************************************************************)
(* The capture being recorded, and the graph it becomes.                   *)
(***************************************************************************)

\* The capture of s holds the commands g: in full segments, and in the one being recorded.
CaptureHolds(s, g) ==
    LET n == Len(s.capture_done)
    IN  /\ s.ops_in_batch < batch_limit
        /\ Len(g) = n * batch_limit + s.ops_in_batch
        /\ \A k \in 1 .. n : Holds(s.capture_done[k], g, (k - 1) * batch_limit, batch_limit)
        /\ Recording(s.capture_cb, g, n * batch_limit, s.ops_in_batch, s.need_barrier)

CaptureInv ==
    /\ st.capturing => CaptureHolds(st, captured)
    /\ owner = Nobody => captured = << >>
    /\ graph.cbs # << >> => GraphHolds(graph.cbs, captured)

\* An empty buffer that begins with its barrier holds nothing.
LEMMA BarrierRecords ==
    ASSUME NEW w \in Calls, NEW a \in Nat, a <= Len(w)
    PROVE  Recording(<<Barrier>>, w, a, 0, FALSE)
<1>1. ~IsCommand(Barrier)  BY DEF IsCommand, Barrier
<1>2. Len(<<Barrier>>) = 1 /\ DOMAIN <<Barrier>> = 1 .. 1 /\ <<Barrier>>[1] = Barrier  OBVIOUS
<1>3. Len(w) \in Nat  BY DEF Calls
<1> QED  BY <1>1, <1>2, <1>3 DEF Recording, Holds

\* A command is captured; a full segment is closed and another begun.
LEMMA CaptureRecord ==
    ASSUME NEW s \in StreamType(Commands), StreamInv(s), s.capturing, NEW g \in Calls, CaptureHolds(s, g),
           NEW c \in Commands, NEW ok \in BOOLEAN
    PROVE  /\ CaptureHolds(dispatch(s, c, ok), Append(g, Command(c)))
           /\ dispatch(s, c, ok).queue = s.queue
           /\ dispatch(s, c, ok).submitted = s.submitted
           /\ dispatch(s, c, ok).open_slot = s.open_slot
<1> DEFINE r == record_command(s, c)
           u == dispatch(s, c, ok)
           x == Append(g, Command(c))
           n == Len(s.capture_done)
           a == n * batch_limit
           m == s.ops_in_batch
<1>1. u = after_command_locked(r, ok)  BY DEF dispatch, open_locked
<1>2. /\ r.queue = s.queue /\ r.submitted = s.submitted /\ r.open_slot = s.open_slot /\ r.capturing
      /\ r.capture_cb = s.capture_cb \o (IF s.need_barrier THEN <<Barrier, Command(c)>> ELSE <<Command(c)>>)
      /\ r.ops_in_batch = m + 1 /\ r.need_barrier = TRUE /\ r.capture_done = s.capture_done
  BY DEF record_command, StreamType
<1>3. /\ m \in Nat /\ n \in Nat /\ s.capture_cb \in CommandBuffers(Commands) /\ s.need_barrier \in BOOLEAN
      /\ s.capture_done \in Seq(CommandBuffers(Commands)) /\ batch_limit \in Nat /\ batch_limit # 0
  BY batch_limitAssumption DEF StreamType
<1>4. a \in Nat  BY <1>3, FullMonotone
<1>5. /\ m < batch_limit /\ Len(g) = a + m
      /\ \A k \in 1 .. n : Holds(s.capture_done[k], g, (k - 1) * batch_limit, batch_limit)
      /\ Recording(s.capture_cb, g, a, m, s.need_barrier)
  BY DEF CaptureHolds
<1>6. x \in Calls /\ Len(x) = a + m + 1 /\ \A i \in 1 .. a + m : x[i] = g[i]
  <2> HIDE DEF a, m, n
  <2>1. Command(c) \in [op : {"command"}, arg : Commands]  BY DEF Command
  <2> QED  BY <1>5, <2>1 DEF Calls
<1> HIDE DEF u, x, r, a, m
<1>7. Recording(r.capture_cb, x, a, m + 1, TRUE)  BY <1>2, <1>3, <1>4, <1>5, RecordHolds, ZenonT(60) DEF x, m
<1>8. ASSUME NEW k \in 1 .. n PROVE Holds(s.capture_done[k], x, (k - 1) * batch_limit, batch_limit)
  <2> DEFINE e == (k - 1) * batch_limit
             cb == s.capture_done[k]
  <2>1. k - 1 \in Nat /\ k - 1 <= n /\ k \in Nat /\ k <= n /\ (k - 1) + 1 = k  BY <1>3
  <2>2. e \in Nat /\ e + batch_limit = k * batch_limit /\ k * batch_limit <= a
    <3>1. e \in Nat /\ ((k - 1) + 1) * batch_limit = e + batch_limit  BY <1>3, <2>1, FullMonotone
    <3>2. k * batch_limit <= a  BY <1>3, <2>1, FullMonotone DEF a
    <3> QED  BY <2>1, <3>1, <3>2
  <2>3. Holds(cb, g, e, batch_limit)  BY <1>5
  <2> HIDE DEF e, cb
  <2>4. e + batch_limit <= a  BY <2>2
  <2>5. \A i \in 1 .. batch_limit : x[e + i] = g[e + i]
    <3> SUFFICES ASSUME NEW i \in 1 .. batch_limit PROVE x[e + i] = g[e + i]
      OBVIOUS
    <3>1. m \in Nat  BY <1>3 DEF m
    <3>2. e + i \in 1 .. a + m  BY <1>3, <1>4, <2>2, <2>4, <3>1
    <3> QED  BY <1>6, <3>2
  <2>6. e + batch_limit <= Len(x)
    <3>1. m \in Nat  BY <1>3 DEF m
    <3> QED  BY <1>3, <1>4, <1>6, <2>2, <2>4, <3>1
  <2>7. Holds(cb, x, e, batch_limit)  BY <1>3, <2>2, <2>3, <2>5, <2>6, HoldsAgree
  <2> QED  BY <2>7 DEF e, cb
<1>m. m \in Nat  BY <1>3 DEF m
<1>9. CASE m + 1 < batch_limit
  <2>1. u = r  BY <1>1, <1>2, <1>9 DEF after_command_locked
  <2>2. Recording(u.capture_cb, x, a, u.ops_in_batch, u.need_barrier)
    BY <1>2, <1>7, <2>1, Zenon
  <2>3. Len(x) = a + u.ops_in_batch /\ u.ops_in_batch < batch_limit
    <3>1. u.ops_in_batch = m + 1  BY <1>2, <2>1
    <3>2. Len(x) = a + m + 1  BY <1>6
    <3> QED  BY <1>4, <1>9, <1>m, <3>1, <3>2
  <2>4. CaptureHolds(u, x)  BY <1>2, <1>8, <2>1, <2>2, <2>3 DEF CaptureHolds, a, n
  <2> QED  BY <1>2, <2>1, <2>4 DEF u, x
<1>10. CASE ~(m + 1 < batch_limit)
  <2>1. m + 1 = batch_limit  BY <1>3, <1>5, <1>10, <1>m
  <2>2. u = begin_capture_segment_locked([r EXCEPT !.capture_done = Append(r.capture_done, r.capture_cb)])
    BY <1>1, <1>2, <1>10 DEF after_command_locked
  <2>3. r \in StreamType(Commands)
    BY RecordCommandInv DEF r
  <2>4. /\ u.queue = s.queue /\ u.submitted = s.submitted /\ u.open_slot = s.open_slot
        /\ u.capture_done = Append(s.capture_done, r.capture_cb) /\ u.capture_cb = <<Barrier>>
        /\ u.ops_in_batch = 0 /\ u.need_barrier = FALSE
    BY <1>2, <2>2, <2>3 DEF begin_capture_segment_locked, StreamType
  <2>5. (n + 1) * batch_limit = a + batch_limit
    <3>1. n \in Nat /\ n <= n  BY <1>3
    <3> QED  BY <3>1, FullMonotone DEF a
  <2>6. Len(x) = (n + 1) * batch_limit + 0  BY <1>3, <1>4, <1>6, <1>m, <2>1, <2>5
  <2>7. (n + 1) * batch_limit \in Nat /\ (n + 1) * batch_limit <= Len(x)
    BY <1>3, <1>4, <2>5, <2>6
  <2>8. /\ Len(u.capture_done) = n + 1 /\ u.capture_done[n + 1] = r.capture_cb
        /\ \A k \in 1 .. n : u.capture_done[k] = s.capture_done[k]
    BY <1>3, <2>4
  <2>9. Recording(<<Barrier>>, x, (n + 1) * batch_limit, 0, FALSE)
    <3> DEFINE e == (n + 1) * batch_limit
    <3>1. e \in Nat /\ e <= Len(x)  BY <2>7
    <3> HIDE DEF e
    <3>2. Recording(<<Barrier>>, x, e, 0, FALSE)  BY <1>6, <3>1, BarrierRecords
    <3> QED  BY <3>2 DEF e
  <2>10. Recording(u.capture_cb, x, (n + 1) * batch_limit, u.ops_in_batch, u.need_barrier)
    BY <2>4, <2>9, Zenon
  <2>11. ASSUME NEW k \in 1 .. n + 1 PROVE Holds(u.capture_done[k], x, (k - 1) * batch_limit, batch_limit)
    <3>1. CASE k = n + 1
      <4>1. Holds(r.capture_cb, x, a, batch_limit)  BY <1>7, <2>1 DEF Recording
      <4>2. k - 1 = n  BY <1>3, <3>1
      <4> QED  BY <2>8, <3>1, <4>1, <4>2 DEF a
    <3>2. CASE k # n + 1
      <4>1. k \in 1 .. n  BY <1>3, <3>2
      <4> QED  BY <1>8, <2>8, <4>1
    <3> QED  BY <3>1, <3>2
  <2>12. 0 < batch_limit  BY <1>3
  <2>13. CaptureHolds(u, x)  BY <2>4, <2>6, <2>8, <2>10, <2>11, <2>12 DEF CaptureHolds
  <2> QED  BY <2>4, <2>13 DEF u, x
<1> QED  BY <1>9, <1>10

\* A capture begins empty.
LEMMA CaptureBegins ==
    ASSUME NEW s \in StreamType(Commands), StreamInv(s), NEW ok \in BOOLEAN, SubmitsOpen(s) => ok
    PROVE  CaptureHolds(begin_capture(s, ok), << >>)
<1> DEFINE u == submit_locked(s, ok)
           v == begin_capture(s, ok)
<1>1. u \in StreamType(Commands)  BY SubmitLockedInv
<1> HIDE DEF u
<1>2. v = begin_capture_segment_locked([u EXCEPT !.capture_done = << >>, !.capturing = TRUE])
  BY DEF begin_capture, u
<1>3. /\ v.capture_done = << >> /\ v.capture_cb = <<Barrier>> /\ v.ops_in_batch = 0
      /\ v.need_barrier = FALSE
  BY <1>1, <1>2 DEF begin_capture_segment_locked, StreamType
<1> HIDE DEF v
<1>4. << >> \in Calls /\ Len(<< >>) = 0  BY DEF Calls
<1>5. Recording(<<Barrier>>, << >>, 0, 0, FALSE)
  <2> DEFINE w == << >>
  <2>1. w \in Calls /\ 0 \in Nat /\ 0 <= Len(w)  BY <1>4
  <2> HIDE DEF w
  <2>2. Recording(<<Barrier>>, w, 0, 0, FALSE)  BY <2>1, BarrierRecords
  <2> QED  BY <2>2 DEF w
<1>6. Len(v.capture_done) = 0 /\ 0 * batch_limit = 0 /\ 0 < batch_limit
  BY <1>3, batch_limitAssumption
<1>7. Recording(v.capture_cb, << >>, 0, v.ops_in_batch, v.need_barrier)  BY <1>3, <1>5, Zenon
<1>8. CaptureHolds(v, << >>)  BY <1>3, <1>4, <1>6, <1>7 DEF CaptureHolds
<1> QED  BY <1>8 DEF v

\* The graph holds what was captured.
LEMMA CaptureEnds ==
    ASSUME NEW s \in StreamType(Commands), NEW g \in Calls, CaptureHolds(s, g)
    PROVE  GraphHolds(captured_segments(s), g)
<1> DEFINE n == Len(s.capture_done)
           a == n * batch_limit
           m == s.ops_in_batch
           last == s.capture_cb \o <<ToHost>>
           cbs == captured_segments(s)
<1>1. /\ m \in Nat /\ n \in Nat /\ s.capture_cb \in CommandBuffers(Commands)
      /\ s.capture_done \in Seq(CommandBuffers(Commands)) /\ batch_limit \in Nat /\ batch_limit # 0
  BY batch_limitAssumption DEF StreamType
<1>2. /\ m < batch_limit /\ Len(g) = a + m
      /\ \A k \in 1 .. n : Holds(s.capture_done[k], g, (k - 1) * batch_limit, batch_limit)
      /\ Recording(s.capture_cb, g, a, m, s.need_barrier)
  BY DEF CaptureHolds
<1>3. a \in Nat  BY <1>1, FullMonotone
<1> HIDE DEF a, m
<1>m. m \in Nat  BY <1>1 DEF m
<1>4. Holds(s.capture_cb, g, a, m)  BY <1>2 DEF Recording
<1>5. Holds(last, g, a, m) /\ HasToHost(last)  BY <1>1, <1>3, <1>4, <1>m, CloseHolds
<1> HIDE DEF last
<1>6. Len(cbs) = n + 1 /\ cbs[n + 1] = last /\ \A k \in 1 .. n : cbs[k] = s.capture_done[k]
  BY <1>1 DEF captured_segments, last
<1> HIDE DEF cbs
<1>7. ASSUME NEW k \in Nat, k <= n PROVE Part(g, k) = k * batch_limit
  <2>1. k * batch_limit \in Nat /\ k * batch_limit <= a  BY <1>1, <1>7, FullMonotone DEF a
  <2> QED  BY <1>2, <1>3, <1>m, <2>1 DEF Part
<1>8. Part(g, n + 1) = Len(g)
  <2>1. (n + 1) * batch_limit = a + batch_limit
    <3>1. n <= n  BY <1>1
    <3> QED  BY <1>1, <3>1, FullMonotone DEF a
  <2> QED  BY <1>1, <1>2, <1>3, <1>m, <2>1 DEF Part
<1>9. ASSUME NEW k \in 1 .. n + 1
      PROVE  Holds(cbs[k], g, Part(g, k - 1), Part(g, k) - Part(g, k - 1))
  <2>1. CASE k = n + 1
    <3>1. k - 1 = n /\ n <= n  BY <1>1, <2>1
    <3>2. Part(g, k - 1) = a  BY <1>1, <1>7, <3>1 DEF a
    <3>3. Part(g, k) - Part(g, k - 1) = m  BY <1>2, <1>3, <1>8, <1>m, <2>1, <3>2
    <3> QED  BY <1>5, <1>6, <2>1, <3>2, <3>3
  <2>2. CASE k # n + 1
    <3>1. k \in 1 .. n /\ k - 1 \in Nat /\ k - 1 <= n /\ k \in Nat /\ k <= n /\ (k - 1) + 1 = k
      BY <1>1, <2>2
    <3>2. Part(g, k - 1) = (k - 1) * batch_limit /\ Part(g, k) = k * batch_limit  BY <1>7, <3>1
    <3>3. (k - 1) * batch_limit \in Nat /\ k * batch_limit = (k - 1) * batch_limit + batch_limit
      <4> DEFINE j == k - 1
      <4>1. j \in Nat /\ j <= n /\ j + 1 = k  BY <3>1
      <4> HIDE DEF j
      <4>2. j * batch_limit \in Nat /\ (j + 1) * batch_limit = j * batch_limit + batch_limit
        BY <1>1, <4>1, FullMonotone
      <4> QED  BY <4>1, <4>2 DEF j
    <3>4. Part(g, k) - Part(g, k - 1) = batch_limit  BY <1>1, <3>2, <3>3
    <3>5. Holds(s.capture_done[k], g, (k - 1) * batch_limit, batch_limit)  BY <1>2, <3>1
    <3> QED  BY <1>6, <3>1, <3>2, <3>4, <3>5
  <2> QED  BY <2>1, <2>2
<1>10. GraphHolds(cbs, g)  BY <1>5, <1>6, <1>8, <1>9 DEF GraphHolds
<1> QED  BY <1>10 DEF cbs

\* The capture of s, if there is one, is that of u.
SameCapture(s, u) ==
    /\ u.capturing = s.capturing
    /\ s.capturing => /\ u.capture_done = s.capture_done /\ u.capture_cb = s.capture_cb
                      /\ u.ops_in_batch = s.ops_in_batch /\ u.need_barrier = s.need_barrier

\* Nothing is open during a capture, so there is nothing to submit.
LEMMA SubmitSameCapture ==
    ASSUME NEW s \in StreamType(Commands), StreamInv(s), NEW ok \in BOOLEAN, NEW serial
    PROVE  SameCapture(s, submit_locked(s, ok)) /\ SameCapture(s, wait_submit(s, serial, ok))
<1>1. SameCapture(s, submit_locked(s, ok))
  <2>1. submit_locked(s, ok).capturing = s.capturing  BY SubmitLockedInv
  <2>2. CASE s.capturing
    <3>1. s.open_slot = NoSlot  BY <2>2 DEF StreamInv, OpenBatch
    <3>2. submit_locked(s, ok) = s  BY <3>1 DEF submit_locked
    <3> QED  BY <3>2 DEF SameCapture
  <2>3. CASE ~s.capturing  BY <2>1, <2>3 DEF SameCapture
  <2> QED  BY <2>2, <2>3
<1>2. SameCapture(s, s)  BY DEF SameCapture
<1> QED  BY <1>1, <1>2 DEF wait_submit

\* What is captured is what the clients issued during the capture.
LEMMA NextCapture ==
    ASSUME IInv, TypeOK, OwnerInv, CaptureInv, [Next]_vars
    PROVE  CaptureInv'
<1>0. /\ st \in StreamType(Commands) /\ StreamInv(st) /\ Nobody \notin Threads /\ captured \in Calls
      /\ graph \in [cbs : Seq(CommandBuffers(Commands)), last_launch : Nat]
  BY ThreadsAssumption, TypeParts DEF IInv, ControlTypes, HistoryTypes
<1>1. ASSUME SameCapture(st, st'), captured' = captured, owner' = owner, graph'.cbs = graph.cbs
      PROVE  CaptureInv'
  <2>1. st.capturing => CaptureHolds(st', captured)
    BY <1>1 DEF SameCapture, CaptureInv, CaptureHolds
  <2> QED  BY <1>1, <2>1 DEF SameCapture, CaptureInv
<1>2. ASSUME NEW t \in Threads, NEW c \in Commands, Dispatch(t, c) PROVE CaptureInv'
  <2>1. PICK ok \in Outcomes(SubmitsOnCommand(st)) : st' = dispatch(st, c, ok)  BY <1>2 DEF Dispatch
  <2>2. ok \in BOOLEAN /\ SlotReady(st) /\ owner' = owner /\ graph' = graph
    BY <1>2, OutcomeType DEF Dispatch
  <2>3. CASE st.capturing
    <3>1. captured' = Append(captured, Command(c))  BY <1>2, <2>3 DEF Dispatch
    <3>2. CaptureHolds(st, captured)  BY <2>3 DEF CaptureInv
    <3>3. CaptureHolds(st', captured')  BY <1>0, <2>1, <2>2, <2>3, <3>1, <3>2, CaptureRecord
    <3>4. owner # Nobody /\ graph = NoGraph  BY <2>3 DEF OwnerInv
    <3>5. graph'.cbs = << >>  BY <2>2, <3>4 DEF NoGraph
    <3> QED  BY <2>2, <3>3, <3>4, <3>5 DEF CaptureInv
  <2>4. CASE ~st.capturing
    <3>1. captured' = captured  BY <1>2, <2>4 DEF Dispatch
    <3>2. st'.capturing = st.capturing  BY <1>0, <2>1, <2>2, DispatchNoReplay
    <3>3. SameCapture(st, st')  BY <2>4, <3>2 DEF SameCapture
    <3> QED  BY <1>1, <2>2, <3>1, <3>3
  <2> QED  BY <2>3, <2>4
<1>3. ASSUME NEW t \in Threads, Flush(t) \/ EventQuery(t) \/ SyncSubmit(t) PROVE CaptureInv'
  <2>1. PICK ok \in BOOLEAN : st' = submit_locked(st, ok)
    BY <1>3, OutcomeType DEF Flush, EventQuery, SyncSubmit
  <2>2. SameCapture(st, st')  BY <1>0, <2>1, SubmitSameCapture
  <2> QED  BY <1>1, <1>3, <2>2 DEF Flush, EventQuery, SyncSubmit
<1>4. ASSUME NEW t \in Threads, NEW serial, NEW pc, NEW mark, WaitSubmit(t, serial, pc, mark)
      PROVE  CaptureInv'
  <2>1. PICK ok \in Outcomes(wait_submit(st, serial, TRUE) # st) : st' = wait_submit(st, serial, ok)
    BY <1>4 DEF WaitSubmit
  <2>2. ok \in BOOLEAN  BY OutcomeType
  <2>3. SameCapture(st, st')  BY <1>0, <2>1, <2>2, SubmitSameCapture
  <2> QED  BY <1>1, <1>4, <2>3 DEF WaitSubmit
<1>5. ASSUME NEW t \in Threads, SyncCheck(t) \/ SyncReturn(t) \/ WaitReturn(t) \/ EventRecord(t)
      PROVE  CaptureInv'
  <2>1. st' = st /\ captured' = captured /\ owner' = owner /\ graph' = graph
    BY <1>5 DEF SyncCheck, SyncReturn, WaitReturn, EventRecord
  <2>2. SameCapture(st, st')  BY <2>1 DEF SameCapture
  <2> QED  BY <1>1, <2>1, <2>2
<1>6. ASSUME NEW t \in Threads, BeginCapture(t) PROVE CaptureInv'
  <2>1. PICK ok \in Outcomes(SubmitsOpen(st)) : st' = begin_capture(st, ok) /\ owner' = IF ok THEN t ELSE owner
    BY <1>6 DEF BeginCapture
  <2>2. ok \in BOOLEAN /\ (~ok => SubmitsOpen(st))  BY DEF Outcomes
  <2>3. owner = Nobody /\ ~st.capturing /\ captured' = captured /\ graph' = graph
    BY <1>6 DEF BeginCapture
  <2>4. CASE ok
    <3>1. captured = << >>  BY <2>3 DEF CaptureInv
    <3>2. CaptureHolds(st', captured')  BY <1>0, <2>1, <2>2, <2>3, <2>4, <3>1, CaptureBegins
    <3>3. owner' # Nobody  BY <1>0, <2>1, <2>4
    <3> QED  BY <2>3, <3>2, <3>3 DEF CaptureInv
  <2>5. CASE ~ok
    <3>1. st'.capturing = st.capturing  BY <1>0, <2>1, <2>2, <2>5, CaptureNoReplay
    <3>2. SameCapture(st, st')  BY <2>3, <3>1 DEF SameCapture
    <3> QED  BY <1>1, <2>1, <2>3, <2>5, <3>2
  <2> QED  BY <2>4, <2>5
<1>7. ASSUME NEW t \in Threads, EndCapture(t) PROVE CaptureInv'
  <2>1. /\ st.capturing /\ owner = t /\ owner' = owner /\ captured' = captured
        /\ graph'.cbs = captured_segments(st)
    BY <1>7 DEF EndCapture
  <2>2. ~st'.capturing  BY <1>0, <1>7, CaptureNoReplay DEF EndCapture, end_capture
  <2>3. CaptureHolds(st, captured)  BY <2>1 DEF CaptureInv
  <2>4. GraphHolds(graph'.cbs, captured')  BY <1>0, <2>1, <2>3, CaptureEnds
  <2> QED  BY <1>0, <2>1, <2>2, <2>4 DEF CaptureInv
<1>8. ASSUME NEW t \in Threads, AbortCapture(t) PROVE CaptureInv'
  <2>1. ~st'.capturing  BY <1>0, <1>8, CaptureNoReplay DEF AbortCapture, abort_capture
  <2>2. st.capturing /\ captured' = << >> /\ graph' = graph  BY <1>8 DEF AbortCapture
  <2>3. graph'.cbs = << >>  BY <2>2 DEF OwnerInv, NoGraph
  <2> QED  BY <2>1, <2>2, <2>3 DEF CaptureInv
<1>9. ASSUME NEW t \in Threads, Launch(t) PROVE CaptureInv'
  <2>1. st'.capturing = st.capturing
    BY <1>0, <1>9, OutcomeType, LaunchCapturing DEF Launch
  <2>2. graph'.cbs = graph.cbs  BY <1>0, <1>9 DEF Launch
  <2>3. graph # NoGraph /\ captured' = captured /\ owner' = owner  BY <1>9 DEF Launch
  <2>4. ~st.capturing  BY <2>3 DEF OwnerInv
  <2>5. SameCapture(st, st')  BY <2>1, <2>4 DEF SameCapture
  <2> QED  BY <1>1, <2>2, <2>3, <2>5
<1>10. ASSUME NEW t \in Threads, FreeCommandBuffers(t) PROVE CaptureInv'
  <2>1. /\ op[t].pc = "destroy" /\ st' = st /\ graph' = NoGraph /\ captured' = << >>
    BY <1>10 DEF FreeCommandBuffers
  <2>2. ~st.capturing  BY <2>1 DEF OwnerInv
  <2>3. graph'.cbs = << >>  BY <2>1 DEF NoGraph
  <2> QED  BY <2>1, <2>2, <2>3 DEF CaptureInv
<1>11. CASE GpuSignal
  <2>1. st' = Signal(st) /\ captured' = captured /\ owner' = owner /\ graph' = graph
    BY <1>11 DEF GpuSignal
  <2>2. SameCapture(st, st')  BY <1>0, <2>1 DEF SameCapture, Signal, StreamType
  <2> QED  BY <1>1, <2>1, <2>2
<1>12. CASE Execute \/ UNCHANGED vars
  <2>1. st' = st /\ captured' = captured /\ owner' = owner /\ graph' = graph
    BY <1>12 DEF Execute, vars
  <2>2. SameCapture(st, st')  BY <2>1 DEF SameCapture
  <2> QED  BY <1>1, <2>1, <2>2
<1> QED  BY <1>2, <1>3, <1>4, <1>5, <1>6, <1>7, <1>8, <1>9, <1>10, <1>11, <1>12
         DEF Next, Thread, EventWait, DestroyGraph

-----------------------------------------------------------------------------
(***************************************************************************)
(* Steps of the threads.                                                   *)
(***************************************************************************)

\* Two accepted operations, one after the other.
LEMMA AcceptsTwice ==
    ASSUME NEW s, NEW w, NEW b, NEW u, NEW x, NEW v, NEW z, NEW d, NEW y,
           Accepts(s, w, b, u, x, d, y),
           \A c : InOrderWith(u, x, c, d, y) => Accepts(u, x, c, v, z, d, y)
    PROVE  Accepts(s, w, b, v, z, d, y)
<1>1. PICK c : InOrderWith(u, x, c, d, y) /\ Later(s, w, b, u, x, c) /\ c[1] = b[1]  BY DEF Accepts
<1>2. Accepts(u, x, c, v, z, d, y)  BY <1>1
<1>3. PICK e : InOrderWith(v, z, e, d, y) /\ Later(u, x, c, v, z, e) /\ e[1] = c[1]
  BY <1>2 DEF Accepts
<1>4. Later(s, w, b, v, z, e)  BY <1>1, <1>3, LaterTwice
<1> QED  BY <1>1, <1>3, <1>4 DEF Accepts

\* A prefix that an appended command does not reach.
LEMMA PrefixAppend ==
    ASSUME NEW w \in Calls, NEW e \in [op : {"command"}, arg : Commands], NEW k \in Nat, k <= Len(w)
    PROVE  SubSeq(Append(w, e), 1, k) = SubSeq(w, 1, k) /\ Append(w, e) \in Calls
<1> DEFINE x == Append(w, e)
<1>1. Len(w) \in Nat /\ x \in Calls /\ Len(x) = Len(w) + 1 /\ \A i \in 1 .. Len(w) : x[i] = w[i]
  BY DEF Calls
<1> HIDE DEF x
<1>2. SubSeq(x, 1, k) \in Calls /\ Len(SubSeq(x, 1, k)) = k /\ \A i \in 1 .. k : SubSeq(x, 1, k)[i] = x[i]
  BY <1>1, PrefixCalls
<1>3. SubSeq(w, 1, k) \in Calls /\ Len(SubSeq(w, 1, k)) = k /\ \A i \in 1 .. k : SubSeq(w, 1, k)[i] = w[i]
  BY <1>1, PrefixCalls
<1>4. \A i \in 1 .. k : SubSeq(x, 1, k)[i] = SubSeq(w, 1, k)[i]
  <2> SUFFICES ASSUME NEW i \in 1 .. k PROVE SubSeq(x, 1, k)[i] = SubSeq(w, 1, k)[i]
    OBVIOUS
  <2>1. i \in 1 .. Len(w)  BY <1>1
  <2> QED  BY <1>1, <1>2, <1>3, <2>1
<1>5. SubSeq(x, 1, k) = SubSeq(w, 1, k)
  <2> DEFINE p == SubSeq(x, 1, k)
             q == SubSeq(w, 1, k)
             E == [op : {"command"}, arg : Commands]
  <2>1. p \in Seq(E) /\ q \in Seq(E) /\ Len(p) = Len(q) /\ \A i \in 1 .. Len(p) : p[i] = q[i]
    BY <1>2, <1>3, <1>4 DEF Calls
  <2> HIDE DEF p, q, E
  <2>2. p = q  BY <2>1, SeqEqual
  <2> QED  BY <2>2 DEF p, q
<1> QED  BY <1>1, <1>5 DEF x

\* A command issued outside a capture.
LEMMA DispatchOrder ==
    ASSUME NEW s \in StreamType(Commands), StreamInv(s), SlotReady(s), ~s.capturing, NEW c \in Commands,
           NEW w \in Calls, NEW b, NEW d, NEW y \in Calls, d \subseteq Nat \X Nat, InOrderWith(s, w, b, d, y)
    PROVE  /\ Accepts(s, w, b, dispatch(s, c, TRUE), Append(w, Command(c)), d, y)
           /\ SubmitsOnCommand(s) =>
                 InOrderWith(dispatch(s, c, FALSE),
                             SubSeq(w, 1, Len(w) - (IF SubmitsOpen(s) THEN s.ops_in_batch ELSE 0)), b, d, y)
<1> DEFINE o == open_locked(s)
           r == record_command(o, c)
           x == Append(w, Command(c))
           k == IF SubmitsOpen(s) THEN s.ops_in_batch ELSE 0
<1>1. o \in StreamType(Commands) /\ StreamInv(o)  BY OpenLockedType, OpenLockedInv
<1>2. InOrderWith(o, w, b, d, y) /\ Later(s, w, b, o, w, b) /\ (~SubmitsOpen(s) => o.ops_in_batch = 0)
  BY OpenOrder
<1>3. o.capturing = s.capturing /\ SubmitsOpen(o)
  <2>1. o.capturing = s.capturing  BY DEF open_locked, StreamType
  <2>2. o.capturing \/ o.open_slot # NoSlot  BY OpenLockedInv
  <2> QED  BY <2>1, <2>2 DEF SubmitsOpen
<1>4. SubmitsOpen(s) => o = s  BY DEF open_locked, SubmitsOpen
<1>5. o.ops_in_batch = k  BY <1>2, <1>4
<1>6. SubmitsOnCommand(s) => k + 1 >= batch_limit  BY <1>5 DEF SubmitsOnCommand
<1> HIDE DEF o
<1>7. /\ InOrderWith(r, x, b, d, y) /\ Later(o, w, b, r, x, b) /\ r.ops_in_batch = o.ops_in_batch + 1
  BY <1>1, <1>2, <1>3, RecordOrder
<1>8. r \in StreamType(Commands) /\ StreamInv(r)  BY <1>1, RecordCommandInv
<1>9. ~r.capturing /\ SubmitsOpen(r)  BY <1>1, <1>3 DEF record_command, StreamType, SubmitsOpen
<1>10. dispatch(s, c, TRUE) = after_command_locked(r, TRUE) /\ dispatch(s, c, FALSE) = after_command_locked(r, FALSE)
  BY DEF dispatch, o
<1> HIDE DEF r
<1>11. Later(s, w, b, r, x, b)  BY <1>2, <1>7, LaterTwice
<1>12. Command(c) \in [op : {"command"}, arg : Commands]  BY DEF Command
<1>13. x \in Calls /\ Len(w) \in Nat /\ Len(x) = Len(w) + 1  BY <1>12 DEF Calls
<1>14. Accepts(s, w, b, dispatch(s, c, TRUE), x, d, y)
  <2>1. CASE r.ops_in_batch < batch_limit
    <3>1. dispatch(s, c, TRUE) = r  BY <1>10, <2>1 DEF after_command_locked
    <3> QED  BY <1>7, <1>11, <3>1 DEF Accepts
  <2>2. CASE ~(r.ops_in_batch < batch_limit)
    <3>1. dispatch(s, c, TRUE) = submit_locked(r, TRUE)  BY <1>9, <1>10, <2>2 DEF after_command_locked
    <3> HIDE DEF x
    <3>2. \A e : InOrderWith(r, x, e, d, y) => Accepts(r, x, e, submit_locked(r, TRUE), x, d, y)
      BY <1>8, <1>13, SubmitOrder
    <3>3. Accepts(s, w, b, r, x, d, y)  BY <1>7, <1>11 DEF Accepts
    <3>4. Accepts(s, w, b, submit_locked(r, TRUE), x, d, y)  BY <3>2, <3>3, AcceptsTwice
    <3> QED  BY <3>1, <3>4
  <2> QED  BY <2>1, <2>2
<1>15. ASSUME SubmitsOnCommand(s) PROVE InOrderWith(dispatch(s, c, FALSE), SubSeq(w, 1, Len(w) - k), b, d, y)
  <2>1. k \in Nat /\ batch_limit \in Nat  BY batch_limitAssumption DEF StreamType
  <2>2. r.ops_in_batch = k + 1 /\ ~(r.ops_in_batch < batch_limit)  BY <1>5, <1>6, <1>7, <1>15, <2>1
  <2>3. dispatch(s, c, FALSE) = submit_locked(r, FALSE)  BY <1>9, <1>10, <2>2 DEF after_command_locked
  <2>4. /\ InOrderWith(submit_locked(r, FALSE), SubSeq(x, 1, Len(x) - r.ops_in_batch), b, d, y)
        /\ Len(y) <= Len(x) - r.ops_in_batch
    <3> HIDE DEF x
    <3> QED  BY <1>7, <1>8, <1>9, <1>13, RefuseOrder
  <2>5. Len(y) \in Nat  BY DEF Calls
  <2> HIDE DEF k
  <2>6. Len(x) - r.ops_in_batch = Len(w) - k /\ Len(w) - k \in Nat /\ Len(w) - k <= Len(w)
    BY <1>13, <2>1, <2>2, <2>4, <2>5
  <2>7. SubSeq(x, 1, Len(w) - k) = SubSeq(w, 1, Len(w) - k)
    <3> DEFINE j == Len(w) - k
    <3>1. j \in Nat /\ j <= Len(w)  BY <2>6
    <3> HIDE DEF j
    <3>2. SubSeq(x, 1, j) = SubSeq(w, 1, j)  BY <1>12, <3>1, PrefixAppend
    <3> QED  BY <3>2 DEF j
  <2> QED  BY <2>3, <2>4, <2>6, <2>7
<1> QED  BY <1>14, <1>15

\* One is a prefix of the other.
Extends(w, x) == Agrees(w, x, Len(w))

\* What a thread's step makes of the order: it is accepted, and adds commands; or the open batch
\* is refused, and the latest commands are dropped.
OrderStep(b) ==
    \/ Accepts(st, issued, b, st', issued', done, ran) /\ Extends(issued, issued')
    \/ fails' # 0 /\ InOrderWith(st', issued', b, done, ran) /\ Extends(issued', issued)

\* Every sequence is a prefix of itself.
LEMMA ExtendsSame == ASSUME NEW w \in Calls PROVE Extends(w, w)
<1>1. Len(w) \in Nat  BY DEF Calls
<1> QED  BY <1>1 DEF Extends, Agrees

\* What a refused batch leaves is a prefix of what was issued.
LEMMA ExtendsPrefix ==
    ASSUME NEW w \in Calls, NEW n \in Int, n <= Len(w)
    PROVE  Extends(SubSeq(w, 1, n), w)
<1> DEFINE x == SubSeq(w, 1, n)
<1>1. Len(w) \in Nat  BY DEF Calls
<1>2. Len(x) = (IF n < 0 THEN 0 ELSE n) /\ \A i \in 1 .. n : x[i] = w[i]  BY PrefixCalls
<1> HIDE DEF x
<1>3. Len(x) <= Len(w) /\ \A i \in 1 .. Len(x) : i \in 1 .. n  BY <1>1, <1>2
<1>4. Extends(x, w)  BY <1>2, <1>3 DEF Extends, Agrees
<1> QED  BY <1>4 DEF x

\* A launch adds at the end of what was issued.
LEMMA ExtendsConcat ==
    ASSUME NEW w \in Calls, NEW x \in Calls
    PROVE  Extends(w, w \o x) /\ w \o x \in Calls
<1> DEFINE E == [op : {"command"}, arg : Commands]
<1>1. w \in Seq(E) /\ x \in Seq(E)  BY DEF Calls
<1> HIDE DEF E
<1>2. w \o x \in Seq(E) /\ Len(w) <= Len(w \o x) /\ \A i \in 1 .. Len(w) : (w \o x)[i] = w[i]  BY <1>1
<1> QED  BY <1>2 DEF E, Calls, Extends, Agrees

\* A thread's step keeps the order.
LEMMA ThreadOrder ==
    ASSUME IInv, TypeOK, OwnerInv, CaptureInv, NEW t \in Threads, Thread(t), NEW b,
           InOrderWith(st, issued, b, done, ran)
    PROVE  OrderStep(b)
<1>0. /\ st \in StreamType(Commands) /\ StreamInv(st) /\ issued \in Calls /\ captured \in Calls /\ ran \in Calls
      /\ done \subseteq Nat \X Nat /\ fails \in Nat
      /\ graph \in [cbs : Seq(CommandBuffers(Commands)), last_launch : Nat]
  BY TypeParts DEF IInv, ControlTypes, HistoryTypes
<1>1. Len(issued) \in Nat /\ st.ops_in_batch \in Nat  BY <1>0 DEF Calls, StreamType
<1>2. ASSUME st' = st, issued' = issued PROVE OrderStep(b)
  <2>1. Accepts(st, issued, b, st', issued', done, ran)  BY <1>2, LaterSame DEF Accepts
  <2>2. Extends(issued, issued')  BY <1>0, <1>2, ExtendsSame
  <2> QED  BY <2>1, <2>2 DEF OrderStep
<1>3. ASSUME ~SubmitsOpen(st), ~SubmitsOpen(st'), st'.queue = st.queue, st'.submitted = st.submitted,
             issued' = issued
      PROVE  OrderStep(b)
  <2>1. InOrderWith(st', issued, b, done, ran) /\ Later(st, issued, b, st', issued, b)
    BY <1>3, SameOrder
  <2>2. Accepts(st, issued, b, st', issued', done, ran)  BY <1>3, <2>1 DEF Accepts
  <2>3. Extends(issued, issued')  BY <1>0, <1>3, ExtendsSame
  <2> QED  BY <2>2, <2>3 DEF OrderStep
<1>4. ASSUME SubmitsOpen(st), st' = submit_locked(st, FALSE), issued' = IssuedBefore, fails' = fails + 1
      PROVE  OrderStep(b)
  <2>1. issued' = SubSeq(issued, 1, Len(issued) - st.ops_in_batch)  BY <1>4 DEF IssuedBefore
  <2>2. InOrderWith(st', issued', b, done, ran)  BY <1>0, <1>4, <2>1, RefuseOrder
  <2>3. Extends(issued', issued)
    <3> DEFINE n == Len(issued) - st.ops_in_batch
    <3>1. n \in Int /\ n <= Len(issued)  BY <1>1
    <3> HIDE DEF n
    <3>2. Extends(SubSeq(issued, 1, n), issued)  BY <1>0, <3>1, ExtendsPrefix
    <3> QED  BY <2>1, <3>2 DEF n
  <2>4. fails' # 0  BY <1>0, <1>4
  <2> QED  BY <2>2, <2>3, <2>4 DEF OrderStep
<1>5. ASSUME NEW ok \in BOOLEAN, st' = submit_locked(st, ok), Outcome(ok), ~ok => SubmitsOpen(st)
      PROVE  OrderStep(b)
  <2>1. CASE ok
    <3>1. st' = submit_locked(st, TRUE) /\ issued' = issued  BY <1>5, <2>1 DEF Outcome
    <3>2. Accepts(st, issued, b, st', issued', done, ran)  BY <1>0, <3>1, SubmitOrder
    <3>3. Extends(issued, issued')  BY <1>0, <3>1, ExtendsSame
    <3> QED  BY <3>2, <3>3 DEF OrderStep
  <2>2. CASE ~ok
    <3>1. st' = submit_locked(st, FALSE) /\ issued' = IssuedBefore /\ fails' = fails + 1
      BY <1>5, <2>2 DEF Outcome
    <3> QED  BY <1>4, <1>5, <2>2, <3>1
  <2> QED  BY <2>1, <2>2
<1>6. ASSUME NEW c \in Commands, Dispatch(t, c) PROVE OrderStep(b)
  <2>1. SlotReady(st)  BY <1>6 DEF Dispatch
  <2>2. CASE st.capturing
    <3>1. PICK ok \in Outcomes(SubmitsOnCommand(st)) : st' = dispatch(st, c, ok)  BY <1>6 DEF Dispatch
    <3>2. ok \in BOOLEAN /\ issued' = issued  BY <1>6, <2>2, OutcomeType DEF Dispatch
    <3>3. CaptureHolds(st, captured)  BY <2>2 DEF CaptureInv
    <3>4. st'.queue = st.queue /\ st'.submitted = st.submitted /\ st'.open_slot = st.open_slot
      BY <1>0, <2>2, <3>1, <3>2, <3>3, CaptureRecord
    <3>5. ~SubmitsOpen(st)  BY <1>0, <2>2 DEF StreamInv, OpenBatch, SubmitsOpen
    <3> QED  BY <1>3, <3>2, <3>4, <3>5 DEF SubmitsOpen
  <2>3. CASE ~st.capturing
    <3>1. PICK ok \in Outcomes(SubmitsOnCommand(st)) :
             /\ st' = dispatch(st, c, ok)
             /\ fails' = IF ok THEN fails ELSE fails + 1
             /\ issued' = IF ok THEN Append(issued, Command(c)) ELSE IssuedBefore
      BY <1>6, <2>3 DEF Dispatch
    <3>2. ok \in BOOLEAN /\ (~ok => SubmitsOnCommand(st))  BY DEF Outcomes
    <3>3. CASE ok
      <4>1. st' = dispatch(st, c, TRUE) /\ issued' = Append(issued, Command(c))  BY <3>1, <3>2, <3>3
      <4>2. Accepts(st, issued, b, st', issued', done, ran)  BY <1>0, <2>1, <2>3, <4>1, DispatchOrder
      <4>3. Extends(issued, issued')
        <5>1. Len(Append(issued, Command(c))) = Len(issued) + 1
              /\ \A i \in 1 .. Len(issued) : Append(issued, Command(c))[i] = issued[i]
          BY <1>0 DEF Calls
        <5> QED  BY <1>1, <4>1, <5>1 DEF Extends, Agrees
      <4> QED  BY <4>2, <4>3 DEF OrderStep
    <3>4. CASE ~ok
      <4> DEFINE k == IF SubmitsOpen(st) THEN st.ops_in_batch ELSE 0
      <4>1. st' = dispatch(st, c, FALSE) /\ fails' = fails + 1  BY <3>1, <3>2, <3>4
      <4>2. issued' = SubSeq(issued, 1, Len(issued) - k)  BY <3>1, <3>4 DEF IssuedBefore
      <4>3. InOrderWith(st', issued', b, done, ran)
        BY <1>0, <2>1, <2>3, <3>2, <3>4, <4>1, <4>2, DispatchOrder
      <4>4. Extends(issued', issued)
        <5> DEFINE n == Len(issued) - k
        <5>1. n \in Int /\ n <= Len(issued)  BY <1>1
        <5> HIDE DEF n, k
        <5>2. Extends(SubSeq(issued, 1, n), issued)  BY <1>0, <5>1, ExtendsPrefix
        <5> QED  BY <4>2, <5>2 DEF n
      <4>5. fails' # 0  BY <1>0, <4>1
      <4> QED  BY <4>3, <4>4, <4>5 DEF OrderStep
    <3> QED  BY <3>2, <3>3, <3>4
  <2> QED  BY <2>2, <2>3
<1>7. ASSUME Flush(t) \/ EventQuery(t) \/ SyncSubmit(t) PROVE OrderStep(b)
  <2>1. PICK ok \in Outcomes(SubmitsOpen(st)) : st' = submit_locked(st, ok) /\ Outcome(ok)
    <3>1. CASE Flush(t)
      <4>1. SubmitsOpen(st) = TRUE  BY <3>1 DEF Flush, SubmitsOpen
      <4> QED  BY <3>1, <4>1 DEF Flush
    <3>2. CASE EventQuery(t)  BY <3>2 DEF EventQuery
    <3>3. CASE SyncSubmit(t)  BY <3>3 DEF SyncSubmit
    <3> QED  BY <1>7, <3>1, <3>2, <3>3
  <2>2. ok \in BOOLEAN /\ (~ok => SubmitsOpen(st))  BY DEF Outcomes
  <2> QED  BY <1>5, <2>1, <2>2
<1>8. ASSUME NEW serial, NEW pc, NEW mark, WaitSubmit(t, serial, pc, mark) PROVE OrderStep(b)
  <2>1. PICK ok \in Outcomes(wait_submit(st, serial, TRUE) # st) :
            st' = wait_submit(st, serial, ok) /\ Outcome(ok)
    BY <1>8 DEF WaitSubmit
  <2>2. ok \in BOOLEAN /\ (~ok => wait_submit(st, serial, TRUE) # st)  BY DEF Outcomes
  <2>3. CASE serial > st.submitted /\ SubmitsOpen(st) /\ serial = st.open_serial
    <3>1. st' = submit_locked(st, ok)  BY <2>1, <2>3 DEF wait_submit
    <3> QED  BY <1>5, <2>1, <2>2, <2>3, <3>1
  <2>4. CASE ~(serial > st.submitted /\ SubmitsOpen(st) /\ serial = st.open_serial)
    <3>1. st' = st /\ wait_submit(st, serial, TRUE) = st  BY <2>1, <2>4 DEF wait_submit
    <3>2. issued' = issued  BY <2>1, <2>2, <3>1 DEF Outcome
    <3> QED  BY <1>2, <3>1, <3>2
  <2> QED  BY <2>3, <2>4
<1>9. ASSUME SyncCheck(t) \/ SyncReturn(t) \/ WaitReturn(t) \/ EventRecord(t) \/ FreeCommandBuffers(t)
      PROVE  OrderStep(b)
  BY <1>2, <1>9 DEF SyncCheck, SyncReturn, WaitReturn, EventRecord, FreeCommandBuffers
<1>10. ASSUME BeginCapture(t) PROVE OrderStep(b)
  <2>1. PICK ok \in Outcomes(SubmitsOpen(st)) : st' = begin_capture(st, ok) /\ Outcome(ok)
    BY <1>10 DEF BeginCapture
  <2>2. ok \in BOOLEAN /\ (~ok => SubmitsOpen(st))  BY DEF Outcomes
  <2>3. CASE ok
    <3> DEFINE u == submit_locked(st, TRUE)
    <3>1. u \in StreamType(Commands) /\ StreamInv(u) /\ u.open_slot = NoSlot  BY <1>0, SubmitLockedInv
    <3>2. st' = begin_capture_segment_locked([u EXCEPT !.capture_done = << >>, !.capturing = TRUE])
      BY <2>1, <2>2, <2>3 DEF begin_capture
    <3>3. issued' = issued  BY <2>1, <2>3 DEF Outcome
    <3>4. Accepts(st, issued, b, u, issued, done, ran)  BY <1>0, SubmitOrder
    <3> HIDE DEF u
    <3>5. st'.queue = u.queue /\ st'.submitted = u.submitted /\ ~SubmitsOpen(u) /\ ~SubmitsOpen(st')
      BY <3>1, <3>2 DEF begin_capture_segment_locked, StreamType, SubmitsOpen
    <3>6. ASSUME NEW c, InOrderWith(u, issued, c, done, ran)
          PROVE  Accepts(u, issued, c, st', issued, done, ran)
      <4>1. InOrderWith(st', issued, c, done, ran) /\ Later(u, issued, c, st', issued, c)
        BY <3>5, <3>6, SameOrder
      <4> QED  BY <4>1 DEF Accepts
    <3>7. Accepts(st, issued, b, st', issued', done, ran)  BY <3>3, <3>4, <3>6, AcceptsTwice
    <3>8. Extends(issued, issued')  BY <1>0, <3>3, ExtendsSame
    <3> QED  BY <3>7, <3>8 DEF OrderStep
  <2>4. CASE ~ok
    <3>1. st' = submit_locked(st, ok)  BY <2>1, <2>2, <2>4 DEF begin_capture
    <3> QED  BY <1>5, <2>1, <2>2, <3>1
  <2> QED  BY <2>3, <2>4
<1>11. ASSUME EndCapture(t) \/ AbortCapture(t) PROVE OrderStep(b)
  <2>1. st.capturing /\ st' = LeaveCapture(st) /\ issued' = issued
    BY <1>11 DEF EndCapture, AbortCapture, end_capture, abort_capture
  <2>2. ~SubmitsOpen(st)  BY <1>0, <2>1 DEF StreamInv, OpenBatch, SubmitsOpen
  <2>3. st'.queue = st.queue /\ st'.submitted = st.submitted /\ st'.open_slot = st.open_slot
    BY <1>0, <2>1 DEF LeaveCapture, StreamType
  <2> QED  BY <1>3, <2>1, <2>2, <2>3 DEF SubmitsOpen
<1>12. ASSUME Launch(t) PROVE OrderStep(b)
  <2> DEFINE len == Len(graph.cbs)
  <2>1. PICK ok \in Outcomes(SubmitsOpen(st)) :
          \E n \in {len} \cup (IF ok /\ fails < MaxFails THEN 0 .. len - 1 ELSE {}) :
            /\ st' = launch(st, graph.cbs, ok, n)
            /\ fails' = IF ok /\ n = len THEN fails ELSE fails + 1
            /\ issued' = IF ok THEN issued \o CapturedIn(n) ELSE IssuedBefore
    BY <1>12 DEF Launch
  <2>2. ok \in BOOLEAN /\ (~ok => SubmitsOpen(st))  BY DEF Outcomes
  <2>3. PICK n \in {len} \cup (IF ok /\ fails < MaxFails THEN 0 .. len - 1 ELSE {}) :
            /\ st' = launch(st, graph.cbs, ok, n)
            /\ fails' = IF ok /\ n = len THEN fails ELSE fails + 1
            /\ issued' = IF ok THEN issued \o CapturedIn(n) ELSE IssuedBefore
    BY <2>1
  <2>4. len \in Nat /\ n \in 0 .. len
    <3>1. len \in Nat  BY <1>0
    <3>2. n = len \/ n \in 0 .. len - 1  BY <2>3
    <3> QED  BY <3>1, <3>2
  <2>5. CASE ok
    <3> DEFINE u == submit_locked(st, TRUE)
               x == issued \o SubSeq(captured, 1, Part(captured, n))
    <3>1. u \in StreamType(Commands) /\ StreamInv(u) /\ ~SubmitsOpen(u)
      BY <1>0, SubmitLockedInv DEF SubmitsOpen
    <3>2. st' = launch_segments(u, graph.cbs, n)  BY <2>2, <2>3, <2>5 DEF launch
    <3>3. issued' = x  BY <2>3, <2>5 DEF CapturedIn, Part
    <3>4. Accepts(st, issued, b, u, issued, done, ran)  BY <1>0, SubmitOrder
    <3>5. GraphHolds(graph.cbs, captured)
      <4>1. graph # NoGraph  BY <1>12 DEF Launch
      <4> QED  BY <4>1 DEF OwnerInv, CaptureInv
    <3>6. graph.cbs \in Seq(CommandBuffers(Commands))  BY <1>0
    <3> HIDE DEF u
    <3>7. ASSUME NEW c, InOrderWith(u, issued, c, done, ran)
          PROVE  Accepts(u, issued, c, st', x, done, ran)
      BY <1>0, <2>4, <3>1, <3>2, <3>5, <3>6, <3>7, SegmentsOrder
    <3>8. Extends(issued, x)
      <4>1. Part(captured, n) \in Nat /\ Part(captured, n) <= Len(captured)
        <5>1. n \in Nat  BY <2>4
        <5> QED  BY <1>0, <5>1, PartMonotone
      <4>2. SubSeq(captured, 1, Part(captured, n)) \in Calls  BY <1>0, <4>1, PrefixCalls
      <4> QED  BY <1>0, <4>2, ExtendsConcat
    <3> HIDE DEF x
    <3>9. Accepts(st, issued, b, st', x, done, ran)  BY <3>4, <3>7, AcceptsTwice
    <3> QED  BY <3>3, <3>8, <3>9 DEF OrderStep
  <2>6. CASE ~ok
    <3>1. st' = submit_locked(st, FALSE) /\ issued' = IssuedBefore /\ fails' = fails + 1
      BY <2>2, <2>3, <2>6 DEF launch
    <3> QED  BY <1>4, <2>2, <2>6, <3>1
  <2> QED  BY <2>2, <2>5, <2>6
<1> QED  BY <1>6, <1>7, <1>8, <1>9, <1>10, <1>11, <1>12 DEF Thread, EventWait, DestroyGraph

-----------------------------------------------------------------------------
(***************************************************************************)
(* The stream implements the in-order queue.                               *)
(***************************************************************************)

\* What was issued is retired, queued or open, in order, and the GPU has executed a prefix of it.
OrderInv == \E b : InOrderWith(st, issued, b, done, ran) /\ b[1] = retired

\* The signal of the head of the queue: c counts for the queue without it.
LEMMA SignalStep ==
    ASSUME IInv, TypeOK, NEW b, InOrderWith(st, issued, b, done, ran), b[1] = retired, GpuSignal
    PROVE  /\ InOrderWith(st', issued', Shift(st.queue, b), done', ran')
           /\ Shift(st.queue, b)[1] = retired' /\ retired' = b[2]
           /\ \A serial, mark \in Nat :
                 /\ Marks(st, issued, b, serial, mark) =>
                       Marks(st', issued, Shift(st.queue, b), serial, mark)
                 /\ Carried(st, b, serial, mark) =>
                       \/ Carried(st', Shift(st.queue, b), serial, mark)
                       \/ HasToHost(Head(st.queue).cb) /\ mark <= b[2]
<1>0. /\ st \in StreamType(Commands) /\ StreamInv(st) /\ issued \in Calls /\ ran \in Calls
      /\ done \subseteq Nat \X Nat /\ st.queue # << >> /\ issued' = issued /\ ran' = ran
      /\ st' = Signal(st) /\ done' = {e \in done : e[1] # Head(st.queue).serial}
  BY TypeParts DEF IInv, ControlTypes, HistoryTypes, GpuSignal
<1>1. \A i \in DOMAIN Head(st.queue).cb :
          IsCommand(Head(st.queue).cb[i]) => <<Head(st.queue).serial, i>> \in done
  <2> SUFFICES ASSUME NEW i \in DOMAIN Head(st.queue).cb, IsCommand(Head(st.queue).cb[i]),
                      <<Head(st.queue).serial, i>> \notin done
               PROVE  FALSE
    OBVIOUS
  <2>1. st.queue \in Seq(Submissions(Commands))  BY <1>0 DEF StreamType
  <2>2. 1 \in DOMAIN st.queue /\ Head(st.queue) = st.queue[1]  BY <1>0, <2>1
  <2> DEFINE p == <<1, i>>
  <2>3. p \in Positions  BY <2>2 DEF Positions
  <2>4. p[1] = 1 /\ p[2] = i  OBVIOUS
  <2> HIDE DEF p
  <2>5. IsCommand(EntryAt(p)) /\ ~Executed(p)  BY <2>2, <2>4 DEF EntryAt, Executed
  <2>6. p \in Pending  BY <2>3, <2>5 DEF Pending
  <2> QED  BY <2>4, <2>6 DEF GpuSignal
<1> DEFINE c == Shift(st.queue, b)
           d == {e \in done : e[1] # Head(st.queue).serial}
           k == Cardinality({i \in DOMAIN Head(st.queue).cb : IsCommand(Head(st.queue).cb[i])})
<1>2. /\ InOrderWith(Signal(st), issued, c, d, ran)
      /\ b[1] \in Nat /\ b[2] \in Nat /\ c[1] = b[2] /\ k = b[2] - b[1]
      /\ \A serial, mark \in Nat :
            /\ Marks(st, issued, b, serial, mark) => Marks(Signal(st), issued, c, serial, mark)
            /\ Carried(st, b, serial, mark) =>
                  \/ Carried(Signal(st), c, serial, mark)
                  \/ HasToHost(Head(st.queue).cb) /\ mark <= b[2]
  BY <1>0, <1>1, SignalOrder
<1>3. retired' = retired + k  BY DEF GpuSignal
<1> HIDE DEF c, d, k
<1>4. retired' = b[2]  BY <1>2, <1>3
<1> QED  BY <1>0, <1>2, <1>4 DEF c, d

\* A thread's step is none of the GPU's.
LEMMA ThreadGpu ==
    ASSUME NEW t \in Threads, Thread(t)
    PROVE  done' = done /\ ran' = ran /\ retired' = retired /\ visible' = visible
BY DEF Thread, GpuUnchanged, Dispatch, Flush, SyncCheck, SyncSubmit, SyncReturn, EventRecord, EventQuery,
       EventWait, WaitSubmit, WaitReturn, BeginCapture, EndCapture, AbortCapture, Launch, DestroyGraph,
       FreeCommandBuffers

\* The order is kept by every step.
LEMMA NextOrder ==
    ASSUME IInv, TypeOK, OwnerInv, CaptureInv, OrderInv, [Next]_vars
    PROVE  OrderInv'
<1>0. /\ st \in StreamType(Commands) /\ StreamInv(st) /\ issued \in Calls /\ ran \in Calls
      /\ done \subseteq Nat \X Nat
  BY TypeParts DEF IInv, ControlTypes, HistoryTypes
<1>1. PICK b : InOrderWith(st, issued, b, done, ran) /\ b[1] = retired  BY DEF OrderInv
<1>2. ASSUME NEW t \in Threads, Thread(t) PROVE OrderInv'
  <2>1. OrderStep(b)  BY <1>1, <1>2, ThreadOrder
  <2>2. done' = done /\ ran' = ran /\ retired' = retired  BY <1>2, ThreadGpu
  <2>3. CASE Accepts(st, issued, b, st', issued', done, ran)
    <3>1. PICK c : InOrderWith(st', issued', c, done, ran) /\ c[1] = b[1]  BY <2>3 DEF Accepts
    <3> QED  BY <1>1, <2>2, <3>1 DEF OrderInv
  <2>4. CASE InOrderWith(st', issued', b, done, ran)  BY <1>1, <2>2, <2>4 DEF OrderInv
  <2> QED  BY <2>1, <2>3, <2>4 DEF OrderStep
<1>3. CASE Execute
  <2>1. InOrderWith(st, issued, b, done', ran')  BY <1>0, <1>1, <1>3, ExecuteOrder
  <2>2. st' = st /\ issued' = issued /\ retired' = retired  BY <1>3 DEF Execute
  <2> QED  BY <1>1, <2>1, <2>2 DEF OrderInv
<1>4. CASE GpuSignal
  <2>1. /\ InOrderWith(st', issued', Shift(st.queue, b), done', ran')
        /\ Shift(st.queue, b)[1] = retired'
    BY <1>1, <1>4, SignalStep
  <2> QED  BY <2>1 DEF OrderInv
<1>5. CASE UNCHANGED vars  BY <1>1, <1>5 DEF vars, OrderInv
<1> QED  BY <1>2, <1>3, <1>4, <1>5 DEF Next

\* Nothing was issued yet.
LEMMA InitOrder == Init => CaptureInv /\ OrderInv
<1> SUFFICES ASSUME Init PROVE CaptureInv /\ OrderInv
  OBVIOUS
<1>1. /\ st = InitStream /\ issued = << >> /\ ran = << >> /\ done = {} /\ retired = 0
      /\ captured = << >> /\ graph = NoGraph
  BY DEF Init
<1>2. ~st.capturing /\ st.queue = << >> /\ st.submitted = 0 /\ ~SubmitsOpen(st)
  BY <1>1 DEF InitStream, SubmitsOpen
<1>3. CaptureInv
  <2>1. graph.cbs = << >>  BY <1>1 DEF NoGraph
  <2> QED  BY <1>1, <1>2, <2>1 DEF CaptureInv
<1> DEFINE b == [k \in 1 .. 1 |-> 0]
<1>4. Len(st.queue) = 0 /\ 1 \in 1 .. 1 /\ b[1] = 0 /\ b \in [1 .. 1 -> Nat]  BY <1>2
<1> HIDE DEF b
<1>5. QueueHolds(st.queue, issued, b)  BY <1>4 DEF QueueHolds
<1>6. Opened(st, issued, b[Len(st.queue) + 1])  BY <1>1, <1>2, <1>4 DEF Opened
<1>7. RanTo(st.queue, issued, b, done, ran, st.submitted)  BY <1>1, <1>4 DEF RanTo
<1>8. InOrderWith(st, issued, b, done, ran)  BY <1>5, <1>6, <1>7 DEF InOrderWith
<1> QED  BY <1>1, <1>3, <1>4, <1>8 DEF OrderInv

\* The GPU has executed no more than was issued.
LEMMA RanBound ==
    ASSUME NEW s \in StreamType(Commands), NEW w \in Calls, NEW b, NEW d, NEW y \in Calls,
           InOrderWith(s, w, b, d, y)
    PROVE  Len(y) <= Len(w)
<1> DEFINE n == b[Len(s.queue) + 1]
<1>1. Len(w) \in Nat /\ Len(y) \in Nat /\ Len(s.queue) \in Nat /\ s.ops_in_batch \in Nat
  BY DEF Calls, StreamType
<1>2. n \in Nat
  <2>1. Len(s.queue) + 1 \in 1 .. Len(s.queue) + 1  BY <1>1
  <2> QED  BY <2>1 DEF InOrderWith, QueueHolds
<1>3. Len(y) <= n  BY DEF InOrderWith, RanTo
<1>4. Len(w) = n \/ Len(w) = n + s.ops_in_batch  BY DEF InOrderWith, Opened
<1> HIDE DEF n
<1> QED  BY <1>1, <1>2, <1>3, <1>4

\* Extends is IsPrefix.
LEMMA ExtendsIsPrefix ==
    ASSUME NEW w \in Calls, NEW x \in Calls, Extends(w, x)
    PROVE  InOrder!IsPrefix(w, x)
<1> DEFINE E == [op : {"command"}, arg : Commands]
<1>1. w \in Seq(E) /\ x \in Seq(E) /\ Len(w) <= Len(x) /\ \A i \in 1 .. Len(w) : x[i] = w[i]
  BY DEF Calls, Extends, Agrees
<1> HIDE DEF E
<1>2. SubSeq(w, 1, Len(w)) = SubSeq(x, 1, Len(w))
  <2> DEFINE p == SubSeq(w, 1, Len(w))
             r == SubSeq(x, 1, Len(w))
  <2>1. /\ p \in Seq(E) /\ Len(p) = Len(w) /\ \A i \in 1 .. Len(w) : p[i] = w[i]
        /\ r \in Seq(E) /\ Len(r) = Len(w) /\ \A i \in 1 .. Len(w) : r[i] = x[i]
    BY <1>1
  <2> HIDE DEF p, r
  <2>2. Len(p) = Len(r) /\ \A i \in 1 .. Len(p) : p[i] = r[i]  BY <1>1, <2>1
  <2>3. p = r  BY <2>1, <2>2, SeqEqual
  <2> QED  BY <2>3 DEF p, r
<1> QED  BY <1>1, <1>2 DEF InOrder!IsPrefix

\* Every step is one of the in-order queue, or leaves it as it is.
LEMMA NextImplements ==
    ASSUME IInv, TypeOK, TypeOK', IInv', OwnerInv, CaptureInv, OrderInv, OrderInv', [Next]_vars
    PROVE  [InOrder!Next]_(InOrder!vars)
<1>0. /\ st \in StreamType(Commands) /\ StreamInv(st) /\ issued \in Calls /\ ran \in Calls
      /\ done \subseteq Nat \X Nat
  BY TypeParts DEF IInv, ControlTypes, HistoryTypes
<1>0a. st' \in StreamType(Commands) /\ issued' \in Calls /\ ran' \in Calls
  BY DEF TypeOK, ControlTypes, Calls
<1>1. PICK b : InOrderWith(st, issued, b, done, ran) /\ b[1] = retired  BY DEF OrderInv
<1>2. Len(ran') <= Len(issued')
  <2>1. PICK c : InOrderWith(st', issued', c, done', ran')  BY DEF OrderInv
  <2> QED  BY <1>0a, <2>1, RanBound
<1>3. ASSUME issued' = issued, ran' = ran PROVE [InOrder!Next]_(InOrder!vars)
  BY <1>3 DEF InOrder!vars
<1>4. ASSUME NEW t \in Threads, Thread(t) PROVE [InOrder!Next]_(InOrder!vars)
  <2>1. OrderStep(b)  BY <1>1, <1>4, ThreadOrder
  <2>2. ran' = ran  BY <1>4, ThreadGpu
  <2>3. CASE issued' = issued  BY <1>3, <2>2, <2>3
  <2>4. CASE issued' # issued /\ Extends(issued, issued')
    <3>1. InOrder!IsPrefix(issued, issued')  BY <1>0, <1>0a, <2>4, ExtendsIsPrefix
    <3>2. InOrder!Issue  BY <2>2, <2>4, <3>1 DEF InOrder!Issue
    <3> QED  BY <3>2 DEF InOrder!Next
  <2>5. CASE issued' # issued /\ Extends(issued', issued)
    <3>1. InOrder!IsPrefix(issued', issued)  BY <1>0, <1>0a, <2>5, ExtendsIsPrefix
    <3>2. InOrder!IsStrictPrefix(issued', issued)  BY <2>5, <3>1 DEF InOrder!IsStrictPrefix
    <3>3. InOrder!Lose  BY <1>2, <2>2, <3>2 DEF InOrder!Lose
    <3> QED  BY <3>3 DEF InOrder!Next
  <2> QED  BY <2>1, <2>3, <2>4, <2>5 DEF OrderStep
<1>5. CASE Execute
  <2>1. Len(ran) < Len(issued) /\ ran' = Append(ran, issued[Len(ran) + 1])
    BY <1>0, <1>1, <1>5, ExecuteOrder
  <2>2. issued' = issued  BY <1>5 DEF Execute
  <2>3. InOrder!Run  BY <2>1, <2>2 DEF InOrder!Run
  <2> QED  BY <2>3 DEF InOrder!Next
<1>6. CASE GpuSignal  BY <1>3, <1>6 DEF GpuSignal
<1>7. CASE UNCHANGED vars  BY <1>3, <1>7 DEF vars
<1> QED  BY <1>4, <1>5, <1>6, <1>7 DEF Next

\* Nobody has a graph yet.
LEMMA InitOwner == Init => OwnerInv
<1> SUFFICES ASSUME Init PROVE OwnerInv
  OBVIOUS
<1>1. st = InitStream /\ owner = Nobody /\ graph = NoGraph /\ op = [t \in Threads |-> Idle]  BY DEF Init
<1>2. ~st.capturing  BY <1>1 DEF InitStream
<1>3. \A t \in Threads : op[t].pc # "destroy"  BY <1>1 DEF Idle
<1> QED  BY <1>1, <1>2, <1>3 DEF OwnerInv

\* detail/stream.h, "Ordering": whatever the threads do, whichever submissions the driver refuses
\* and however the GPU reorders what no barrier orders, the stream implements the in-order queue.
THEOREM StreamExecutesInOrder == Spec => ExecutesInOrder
<1>1. Init => OwnerInv  BY InitOwner
<1>2. Init => InOrder!Init  BY DEF Init, InOrder!Init
<1>3. IInv /\ IInv' /\ TypeOK /\ OwnerInv /\ CaptureInv /\ OrderInv /\ [Next]_vars
        => OwnerInv' /\ CaptureInv' /\ OrderInv'
  BY NextOwner, NextCapture, NextOrder
<1>4. IInv /\ IInv' /\ TypeOK /\ TypeOK' /\ OwnerInv /\ CaptureInv /\ OrderInv /\ OrderInv' /\ [Next]_vars
        => [InOrder!Next]_(InOrder!vars)
  BY NextImplements
<1> QED  BY <1>1, <1>2, <1>3, <1>4, InitOrder, QueueTypes, StreamCorrect, PTL
         DEF Spec, ExecutesInOrder, InOrder!Spec

-----------------------------------------------------------------------------
(***************************************************************************)
(* What events and waits promise, as long as the driver has refused no     *)
(* submission: a wait for the serial of a refused batch returns at once,   *)
(* and other work may signal that serial.                                  *)
(***************************************************************************)

\* The serials in use have no gap, and what was submitted last makes results visible.
Tight(s) ==
    /\ s.next_serial = s.submitted + 1
    /\ ~SubmitsOpen(s) => s.work_serial = s.submitted
    /\ s.queue # << >> => HasToHost(s.queue[Len(s.queue)].cb)

\* From s to u the serials stay tight, the announced work does not go back, and the queue is not
\* emptied.
Keeps(s, u) ==
    Tight(s) => /\ Tight(u)
                /\ s.work_serial <= u.work_serial
                /\ u.queue = << >> => s.queue = << >>

\* Nothing that Tight speaks of is changed.
LEMMA KeepsSame ==
    ASSUME NEW s \in StreamType(Commands), NEW u, u.next_serial = s.next_serial, u.submitted = s.submitted,
           u.work_serial = s.work_serial, u.queue = s.queue, u.open_slot = s.open_slot
    PROVE  Keeps(s, u)
<1>1. s.work_serial \in Nat  BY DEF StreamType
<1> QED  BY <1>1 DEF Keeps, Tight, SubmitsOpen

\* Keeps is transitive.
LEMMA KeepsTwice ==
    ASSUME NEW s \in StreamType(Commands), NEW u \in StreamType(Commands), NEW v \in StreamType(Commands),
           Keeps(s, u), Keeps(u, v)
    PROVE  Keeps(s, v)
<1>1. s.work_serial \in Nat /\ u.work_serial \in Nat /\ v.work_serial \in Nat  BY DEF StreamType
<1> QED  BY <1>1 DEF Keeps

\* The open batch takes the next serial, and ends in the to_host barrier.
LEMMA SubmitTight ==
    ASSUME NEW s \in StreamType(Commands), StreamInv(s)
    PROVE  Keeps(s, submit_locked(s, TRUE))
<1> DEFINE u == submit_locked(s, TRUE)
           buf == s.cb \o <<ToHost>>
           sub == [serial |-> s.open_serial, slot |-> s.open_slot, cb |-> buf]
           n == Len(s.queue)
<1>1. CASE s.open_slot = NoSlot
  <2>1. u = s  BY <1>1 DEF submit_locked
  <2> QED  BY <2>1, KeepsSame
<1>2. CASE s.open_slot # NoSlot
  <2>1. /\ u.queue = Append(s.queue, sub) /\ u.submitted = s.open_serial
        /\ u.next_serial = s.next_serial + 1 /\ u.work_serial = s.work_serial /\ u.open_slot = NoSlot
    BY <1>2 DEF submit_locked, submit_cb_locked, StreamType
  <2>2. /\ n \in Nat /\ Len(Append(s.queue, sub)) = n + 1 /\ Append(s.queue, sub)[n + 1] = sub
    BY DEF StreamType
  <2>3. HasToHost(buf)
    <3>1. s.cb \in Seq(Entries(Commands))  BY DEF StreamType, CommandBuffers
    <3>2. Len(s.cb) + 1 \in DOMAIN buf /\ buf[Len(s.cb) + 1] = ToHost  BY <3>1
    <3> QED  BY <3>2 DEF HasToHost
  <2>4. s.open_serial = s.next_serial /\ s.work_serial = s.next_serial /\ s.next_serial \in Nat
    BY <1>2 DEF StreamInv, OpenBatch, StreamType
  <2>5. sub.cb = buf  OBVIOUS
  <2> HIDE DEF u, sub, n, buf
  <2>6. u.queue # << >> /\ HasToHost(u.queue[Len(u.queue)].cb)
    <3>1. Len(u.queue) = n + 1  BY <2>1, <2>2
    <3>2. u.queue[n + 1] = sub  BY <2>1, <2>2
    <3>3. u.queue # << >>  BY <2>2, <3>1
    <3> QED  BY <2>3, <2>5, <3>1, <3>2, <3>3
  <2>7. u.next_serial = u.submitted + 1 /\ u.work_serial = u.submitted /\ s.work_serial <= u.work_serial
    BY <2>1, <2>4
  <2> QED  BY <2>6, <2>7 DEF Keeps, Tight, u
<1> QED  BY <1>1, <1>2

\* Opening a batch announces the next serial.
LEMMA OpenTight ==
    ASSUME NEW s \in StreamType(Commands)
    PROVE  Keeps(s, open_locked(s))
<1> DEFINE u == open_locked(s)
<1>1. CASE s.capturing \/ s.open_slot # NoSlot
  <2>1. u = s  BY <1>1 DEF open_locked
  <2> QED  BY <2>1, KeepsSame
<1>2. CASE ~(s.capturing \/ s.open_slot # NoSlot)
  <2>1. /\ u.queue = s.queue /\ u.submitted = s.submitted /\ u.next_serial = s.next_serial
        /\ u.work_serial = s.next_serial /\ u.open_slot = NextSlot(s)
    BY <1>2 DEF open_locked, StreamType
  <2>2. NextSlot(s) \in Slots  BY NextSlotType DEF StreamType
  <2>3. SubmitsOpen(u) /\ ~SubmitsOpen(s)  BY <1>2, <2>1, <2>2, SlotNotNoSlot DEF SubmitsOpen
  <2>4. s.submitted \in Nat  BY DEF StreamType
  <2> HIDE DEF u
  <2>5. ASSUME Tight(s) PROVE Tight(u) /\ s.work_serial <= u.work_serial
    BY <2>1, <2>3, <2>4, <2>5 DEF Tight
  <2> QED  BY <2>1, <2>5 DEF Keeps, u
<1> QED  BY <1>1, <1>2

\* Recording a command, and submitting the batch it fills.
LEMMA DispatchTight ==
    ASSUME NEW s \in StreamType(Commands), StreamInv(s), SlotReady(s), NEW c \in Commands
    PROVE  Keeps(s, dispatch(s, c, TRUE))
<1> DEFINE o == open_locked(s)
           r == record_command(o, c)
           v == after_command_locked(r, TRUE)
<1>1. o \in StreamType(Commands) /\ StreamInv(o) /\ Keeps(s, o)
  BY OpenLockedType, OpenLockedInv, OpenTight
<1>2. v = dispatch(s, c, TRUE)  BY DEF dispatch
<1> HIDE DEF o
<1>3. r \in StreamType(Commands) /\ StreamInv(r)  BY <1>1, RecordCommandInv
<1>4. Keeps(o, r)
  <2>1. /\ r.next_serial = o.next_serial /\ r.submitted = o.submitted /\ r.work_serial = o.work_serial
        /\ r.queue = o.queue /\ r.open_slot = o.open_slot
    BY <1>1 DEF record_command, StreamType
  <2> HIDE DEF r
  <2> QED  BY <1>1, <2>1, KeepsSame
<1> HIDE DEF r
<1>5. v \in StreamType(Commands)  BY <1>3, AfterCommandInv
<1>6. Keeps(r, v)
  <2>1. CASE r.ops_in_batch < batch_limit
    <3>1. v = r  BY <2>1 DEF after_command_locked
    <3> QED  BY <1>3, <3>1, KeepsSame
  <2>2. CASE ~(r.ops_in_batch < batch_limit) /\ ~r.capturing
    <3>1. v = submit_locked(r, TRUE)  BY <2>2 DEF after_command_locked
    <3> QED  BY <1>3, <3>1, SubmitTight
  <2>3. CASE ~(r.ops_in_batch < batch_limit) /\ r.capturing
    <3>1. v = begin_capture_segment_locked([r EXCEPT !.capture_done = Append(@, r.capture_cb)])
      BY <2>3 DEF after_command_locked
    <3>2. /\ v.next_serial = r.next_serial /\ v.submitted = r.submitted /\ v.work_serial = r.work_serial
          /\ v.queue = r.queue /\ v.open_slot = r.open_slot
      BY <1>3, <3>1 DEF begin_capture_segment_locked, StreamType
    <3> HIDE DEF v
    <3> QED  BY <1>3, <3>2, KeepsSame
  <2> QED  BY <2>1, <2>2, <2>3
<1> HIDE DEF v
<1>7. Keeps(o, v)  BY <1>1, <1>3, <1>4, <1>5, <1>6, KeepsTwice
<1> QED  BY <1>1, <1>2, <1>5, <1>7, KeepsTwice

\* A launch that is accepted to its last segment, which has the to_host barrier.
LEMMA LaunchTight ==
    ASSUME NEW s \in StreamType(Commands), StreamInv(s), NEW cbs \in Seq(CommandBuffers(Commands)),
           cbs # << >>, HasToHost(cbs[Len(cbs)])
    PROVE  Keeps(s, launch(s, cbs, TRUE, Len(cbs)))
<1> DEFINE u == submit_locked(s, TRUE)
           n == Len(cbs)
           seg == [i \in 1 .. n |-> [serial |-> u.next_serial + i - 1, slot |-> NoSlot, cb |-> cbs[i]]]
           v == launch_segments(u, cbs, n)
<1>1. u \in StreamType(Commands) /\ StreamInv(u) /\ u.open_slot = NoSlot /\ Keeps(s, u)
  BY SubmitLockedInv, SubmitTight
<1>2. v = launch(s, cbs, TRUE, Len(cbs))  BY DEF launch
<1> HIDE DEF u
<1>3. n \in Nat /\ n # 0  OBVIOUS
<1>4. v \in StreamType(Commands)
  <2>1. launch(s, cbs, TRUE, n) \in StreamType(Commands)
    <3>1. n \in 0 .. Len(cbs)  BY <1>3
    <3> QED  BY <3>1, LaunchInv
  <2> QED  BY <1>2, <2>1
<1>5. /\ v.queue = u.queue \o seg /\ v.submitted = u.next_serial + n - 1
      /\ v.work_serial = u.next_serial + n - 1 /\ v.next_serial = u.next_serial + n
      /\ v.open_slot = NoSlot
  <2> DEFINE taken == IF n < Len(cbs) THEN n + 1 ELSE n
             sub == IF n = 0 THEN u.submitted ELSE u.next_serial + n - 1
  <2>1. v = [u EXCEPT !.queue = u.queue \o seg, !.submitted = sub,
                      !.work_serial = u.next_serial + taken - 1, !.next_serial = u.next_serial + taken]
    BY DEF launch_segments
  <2>2. taken = n /\ sub = u.next_serial + n - 1  BY <1>3
  <2> HIDE DEF seg, n, v, taken, sub
  <2> QED  BY <1>1, <2>1, <2>2 DEF StreamType
<1>6. seg \in Seq(Submissions(Commands)) /\ Len(seg) = n /\ seg[n].cb = cbs[n]
  <2>1. \A i \in 1 .. n : [serial |-> u.next_serial + i - 1, slot |-> NoSlot, cb |-> cbs[i]] \in Submissions(Commands)
    <3> SUFFICES ASSUME NEW i \in 1 .. n
                 PROVE  [serial |-> u.next_serial + i - 1, slot |-> NoSlot, cb |-> cbs[i]] \in Submissions(Commands)
      OBVIOUS
    <3>1. u.next_serial + i - 1 \in Nat
      <4>1. u.next_serial \in Nat  BY <1>1 DEF StreamType
      <4> QED  BY <1>3, <4>1
    <3>2. cbs[i] \in CommandBuffers(Commands)  OBVIOUS
    <3> QED  BY <3>1, <3>2 DEF Submissions
  <2>2. n \in 1 .. n  BY <1>3
  <2> QED  BY <1>3, <2>1, <2>2
<1>7. u.queue \in Seq(Submissions(Commands)) /\ u.next_serial \in Nat /\ u.work_serial \in Nat
      /\ u.submitted \in Nat
  BY <1>1 DEF StreamType
<1> HIDE DEF v, seg, n
<1>8. v.queue # << >> /\ HasToHost(v.queue[Len(v.queue)].cb)
  <2> DEFINE l == Len(u.queue)
  <2>1. l \in Nat /\ Len(u.queue \o seg) = l + n /\ (u.queue \o seg)[l + n] = seg[n]
    <3>1. l \in Nat /\ l + n \in 1 .. l + n /\ ~(l + n <= l) /\ l + n - l = n  BY <1>3, <1>7
    <3>2. /\ Len(u.queue \o seg) = Len(u.queue) + Len(seg)
          /\ \A i \in 1 .. Len(u.queue) + Len(seg) :
                (u.queue \o seg)[i] = IF i <= Len(u.queue) THEN u.queue[i] ELSE seg[i - Len(u.queue)]
      BY <1>6, <1>7, ConcatProperties
    <3> QED  BY <1>6, <3>1, <3>2
  <2> HIDE DEF l
  <2>2. Len(v.queue) = l + n /\ v.queue[l + n] = seg[n]  BY <1>5, <2>1
  <2>3. v.queue # << >>  BY <1>3, <2>1, <2>2
  <2> QED  BY <1>6, <2>2, <2>3 DEF n
<1>9. Keeps(u, v)
  <2>1. v.next_serial = v.submitted + 1 /\ v.work_serial = v.submitted  BY <1>3, <1>5, <1>7
  <2>2. ASSUME Tight(u) PROVE u.work_serial <= v.work_serial
    <3>1. u.work_serial = u.submitted /\ u.next_serial = u.submitted + 1
      BY <1>1, <2>2 DEF Tight, SubmitsOpen
    <3> QED  BY <1>3, <1>5, <1>7, <3>1
  <2> QED  BY <1>8, <2>1, <2>2 DEF Keeps, Tight
<1> QED  BY <1>1, <1>2, <1>4, <1>9, KeepsTwice

\* A refused submission is not forgotten.
LEMMA FailsGrow ==
    ASSUME fails \in Nat, NEW t \in Threads, Thread(t), fails' = 0
    PROVE  fails = 0
<1>1. fails' = fails \/ fails' = fails + 1
  BY DEF Thread, Outcome, Dispatch, Flush, SyncCheck, SyncSubmit, SyncReturn, EventRecord, EventQuery,
         EventWait, WaitSubmit, WaitReturn, BeginCapture, EndCapture, AbortCapture, Launch, DestroyGraph,
         FreeCommandBuffers
<1> QED  BY <1>1

\* A thread's step, when nothing is refused, keeps the serials tight.
LEMMA ThreadTight ==
    ASSUME IInv, TypeOK, OwnerInv, CaptureInv, NEW t \in Threads, Thread(t), fails' = 0
    PROVE  Keeps(st, st')
<1>0. /\ st \in StreamType(Commands) /\ StreamInv(st) /\ fails \in Nat
      /\ graph \in [cbs : Seq(CommandBuffers(Commands)), last_launch : Nat]
  BY DEF IInv, ControlTypes
<1>1. fails + 1 # 0  BY <1>0
<1>2. ASSUME st' = st PROVE Keeps(st, st')  BY <1>0, <1>2, KeepsSame
<1>3. ASSUME NEW ok \in BOOLEAN, st' = submit_locked(st, ok), Outcome(ok) PROVE Keeps(st, st')
  <2>1. ok = TRUE  BY <1>1, <1>3 DEF Outcome
  <2> QED  BY <1>0, <1>3, <2>1, SubmitTight
<1>4. ASSUME NEW c \in Commands, Dispatch(t, c) PROVE Keeps(st, st')
  <2>1. PICK ok \in Outcomes(SubmitsOnCommand(st)) :
            st' = dispatch(st, c, ok) /\ fails' = IF ok THEN fails ELSE fails + 1
    BY <1>4 DEF Dispatch
  <2>2. ok = TRUE  BY <1>1, <2>1, OutcomeType
  <2>3. SlotReady(st)  BY <1>4 DEF Dispatch
  <2> QED  BY <1>0, <2>1, <2>2, <2>3, DispatchTight
<1>5. ASSUME Flush(t) \/ EventQuery(t) \/ SyncSubmit(t) PROVE Keeps(st, st')
  <2>1. \E ok \in BOOLEAN : st' = submit_locked(st, ok) /\ Outcome(ok)
    BY <1>5, OutcomeType DEF Flush, EventQuery, SyncSubmit
  <2> QED  BY <1>3, <2>1
<1>6. ASSUME NEW serial, NEW pc, NEW mark, WaitSubmit(t, serial, pc, mark) PROVE Keeps(st, st')
  <2>1. PICK ok \in Outcomes(wait_submit(st, serial, TRUE) # st) :
            st' = wait_submit(st, serial, ok) /\ Outcome(ok)
    BY <1>6 DEF WaitSubmit
  <2>2. ok \in BOOLEAN  BY OutcomeType
  <2>3. st' = st \/ st' = submit_locked(st, ok)  BY <2>1 DEF wait_submit
  <2> QED  BY <1>2, <1>3, <2>1, <2>2, <2>3
<1>7. ASSUME SyncCheck(t) \/ SyncReturn(t) \/ WaitReturn(t) \/ EventRecord(t) \/ FreeCommandBuffers(t)
      PROVE  Keeps(st, st')
  BY <1>2, <1>7 DEF SyncCheck, SyncReturn, WaitReturn, EventRecord, FreeCommandBuffers
<1>8. ASSUME BeginCapture(t) PROVE Keeps(st, st')
  <2>1. PICK ok \in Outcomes(SubmitsOpen(st)) : st' = begin_capture(st, ok) /\ Outcome(ok)
    BY <1>8 DEF BeginCapture
  <2>2. ok = TRUE  BY <1>1, <2>1, OutcomeType DEF Outcome
  <2> DEFINE u == submit_locked(st, TRUE)
  <2>3. u \in StreamType(Commands) /\ Keeps(st, u)  BY <1>0, SubmitLockedInv, SubmitTight
  <2>4. st' = begin_capture_segment_locked([u EXCEPT !.capture_done = << >>, !.capturing = TRUE])
    BY <2>1, <2>2 DEF begin_capture
  <2>5. st' \in StreamType(Commands)  BY <1>0, <2>1, <2>2, BeginCaptureInv
  <2> HIDE DEF u
  <2>6. /\ st'.next_serial = u.next_serial /\ st'.submitted = u.submitted /\ st'.work_serial = u.work_serial
        /\ st'.queue = u.queue /\ st'.open_slot = u.open_slot
    BY <2>3, <2>4 DEF begin_capture_segment_locked, StreamType
  <2>7. Keeps(u, st')  BY <2>3, <2>6, KeepsSame
  <2> QED  BY <1>0, <2>3, <2>5, <2>7, KeepsTwice
<1>9. ASSUME EndCapture(t) \/ AbortCapture(t) PROVE Keeps(st, st')
  <2>1. st' = LeaveCapture(st)  BY <1>9 DEF EndCapture, AbortCapture, end_capture, abort_capture
  <2>2. /\ st'.next_serial = st.next_serial /\ st'.submitted = st.submitted
        /\ st'.work_serial = st.work_serial /\ st'.queue = st.queue /\ st'.open_slot = st.open_slot
    BY <1>0, <2>1 DEF LeaveCapture, StreamType
  <2> QED  BY <1>0, <2>2, KeepsSame
<1>10. ASSUME Launch(t) PROVE Keeps(st, st')
  <2> DEFINE len == Len(graph.cbs)
  <2>1. \E ok \in Outcomes(SubmitsOpen(st)) :
          \E n \in {len} \cup (IF ok /\ fails < MaxFails THEN 0 .. len - 1 ELSE {}) :
            /\ st' = launch(st, graph.cbs, ok, n)
            /\ fails' = IF ok /\ n = len THEN fails ELSE fails + 1
    BY <1>10 DEF Launch
  <2>2. st' = launch(st, graph.cbs, TRUE, len)  BY <1>1, <2>1, OutcomeType
  <2>3. graph.cbs # << >> /\ GraphHolds(graph.cbs, captured)
    <3>1. graph # NoGraph  BY <1>10 DEF Launch
    <3> QED  BY <3>1 DEF OwnerInv, CaptureInv
  <2>4. HasToHost(graph.cbs[len])  BY <2>3 DEF GraphHolds
  <2>5. graph.cbs \in Seq(CommandBuffers(Commands))  BY <1>0
  <2> QED  BY <1>0, <2>2, <2>3, <2>4, <2>5, LaunchTight
<1> QED  BY <1>4, <1>5, <1>6, <1>7, <1>8, <1>9, <1>10 DEF Thread, EventWait, DestroyGraph

\* Event::record: the work serial covers everything issued so far.
LEMMA RecordMarks ==
    ASSUME NEW s \in StreamType(Commands), StreamInv(s), Tight(s), NEW w \in Calls, NEW b
    PROVE  Marks(s, w, b, s.work_serial, Len(w))
<1>1. s.submitted \in Nat /\ s.work_serial \in Nat /\ s.next_serial \in Nat /\ Len(w) \in Nat
  BY DEF StreamType, Calls
<1>2. s.submitted <= s.work_serial
  <2>1. CASE SubmitsOpen(s)
    <3>1. s.work_serial = s.next_serial /\ s.submitted < s.next_serial
      BY <2>1 DEF SubmitsOpen, StreamInv, OpenBatch, SerialOrder
    <3> QED  BY <1>1, <3>1
  <2>2. CASE ~SubmitsOpen(s)  BY <1>1, <2>2 DEF Tight
  <2> QED  BY <2>1, <2>2
<1>3. \A k \in 1 .. Len(s.queue) : ~(s.queue[k].serial > s.work_serial)
  <2> SUFFICES ASSUME NEW k \in 1 .. Len(s.queue) PROVE ~(s.queue[k].serial > s.work_serial)
    OBVIOUS
  <2>1. k \in DOMAIN s.queue  BY DEF StreamType
  <2>2. s.queue[k].serial \in Nat /\ s.queue[k].serial <= s.submitted
    BY <2>1, QueueType DEF StreamInv, SerialOrder
  <2> QED  BY <1>1, <1>2, <2>2
<1>4. SubmitsOpen(s) => ~(s.open_serial > s.work_serial)
  BY <1>1 DEF SubmitsOpen, StreamInv, OpenBatch
<1> QED  BY <1>1, <1>3, <1>4 DEF Marks

\* sync: the last submission carries everything issued so far to the host.
LEMMA SyncCarries ==
    ASSUME NEW s \in StreamType(Commands), StreamInv(s), Tight(s), ~SubmitsOpen(s), NEW w \in Calls,
           NEW b, NEW d, NEW y, InOrderWith(s, w, b, d, y), NEW v \in Nat, s.queue = << >> => v = b[1]
    PROVE  Len(w) <= v \/ Carried(s, b, s.submitted, Len(w))
<1> DEFINE l == Len(s.queue)
<1>1. l \in Nat /\ DOMAIN s.queue = 1 .. l /\ Len(w) \in Nat /\ (l = 0 => s.queue = << >>)
  BY DEF StreamType, Calls
<1>2. Len(w) = b[l + 1]  BY DEF InOrderWith, Opened
<1>3. CASE l = 0
  <2>1. Len(w) = v  BY <1>1, <1>2, <1>3
  <2> QED  BY <1>1, <2>1
<1>4. CASE l # 0
  <2>1. l \in 1 .. l  BY <1>1, <1>4
  <2>2. HasToHost(s.queue[l].cb)
    <3>1. s.queue # << >>  BY <1>4
    <3> QED  BY <3>1 DEF Tight
  <2>3. s.queue[l].serial <= s.submitted  BY <1>1, <2>1 DEF StreamInv, SerialOrder
  <2>4. Len(w) <= b[l + 1]  BY <1>1, <1>2
  <2> QED  BY <2>1, <2>2, <2>3, <2>4 DEF Carried
<1> QED  BY <1>3, <1>4

\* Once serial is signalled, the commands it marks have run.
LEMMA MarkedRan ==
    ASSUME NEW s \in StreamType(Commands), StreamInv(s), NEW w \in Calls, NEW b, NEW d, NEW y \in Calls,
           InOrderWith(s, w, b, d, y), NEW serial \in Nat, NEW mark \in Nat,
           Marks(s, w, b, serial, mark), s.timeline >= serial
    PROVE  Len(y) >= mark
<1> DEFINE l == Len(s.queue)
<1>1. /\ l \in Nat /\ DOMAIN s.queue = 1 .. l /\ Len(w) \in Nat /\ Len(y) \in Nat
      /\ s.timeline \in Nat /\ s.next_serial \in Nat /\ s.submitted \in Nat
  BY DEF StreamType, Calls
<1>2. b[1] <= Len(y)  BY DEF InOrderWith, RanTo
<1>3. b[1] \in Nat
  <2>1. 1 \in 1 .. l + 1  BY <1>1
  <2> QED  BY <2>1 DEF InOrderWith, QueueHolds
<1>4. mark <= b[1]
  <2>1. CASE l # 0
    <3>1. 1 \in 1 .. l  BY <1>1, <2>1
    <3>2. s.timeline < s.queue[1].serial /\ s.queue[1].serial \in Nat
      BY <1>1, <3>1, QueueType DEF StreamInv, SerialOrder
    <3>3. s.queue[1].serial > serial  BY <1>1, <3>2
    <3> QED  BY <3>1, <3>3 DEF Marks
  <2>2. CASE l = 0 /\ SubmitsOpen(s)
    <3>1. s.open_serial = s.next_serial /\ s.timeline <= s.submitted /\ s.submitted < s.next_serial
      BY <2>2 DEF SubmitsOpen, StreamInv, OpenBatch, SerialOrder
    <3>2. s.open_serial > serial  BY <1>1, <3>1
    <3>3. mark <= b[l + 1]  BY <2>2, <3>2 DEF Marks
    <3> QED  BY <2>2, <3>3
  <2>3. CASE l = 0 /\ ~SubmitsOpen(s)
    <3>1. Len(w) = b[l + 1]  BY <2>3 DEF InOrderWith, Opened
    <3>2. mark <= Len(w)  BY DEF Marks
    <3> QED  BY <2>3, <3>1, <3>2
  <2> QED  BY <2>1, <2>2, <2>3
<1> QED  BY <1>1, <1>2, <1>3, <1>4

\* Once serial is signalled, no submission that could carry a result to the host is left.
LEMMA CarriedLeft ==
    ASSUME NEW s \in StreamType(Commands), StreamInv(s), NEW b, NEW serial \in Nat, NEW mark,
           Carried(s, b, serial, mark), s.timeline >= serial
    PROVE  FALSE
<1>1. PICK k \in 1 .. Len(s.queue) : s.queue[k].serial <= serial  BY DEF Carried
<1>2. k \in DOMAIN s.queue /\ s.timeline \in Nat  BY DEF StreamType
<1>3. s.queue[k].serial \in Nat /\ s.timeline < s.queue[k].serial
  BY <1>2, QueueType DEF StreamInv, SerialOrder
<1> QED  BY <1>1, <1>2, <1>3

\* What is promised to the thread in the call o: a wait's marked commands are in no later
\* submission; a sync's are visible to the host, or will be when its serial is signalled.
CallPromise(s, w, b, v, o) ==
    /\ o.pc = "wait" => Marks(s, w, b, o.serial, o.mark)
    /\ o.pc = "sync_wait" => o.mark <= v \/ Carried(s, b, o.serial, o.mark)

\* What holds while no submission was refused.
Promises(b) ==
    /\ Tight(st)
    /\ visible <= retired
    /\ st.queue = << >> => visible = retired
    /\ event.serial <= st.work_serial
    /\ Marks(st, issued, b, event.serial, event.mark)
    /\ \A t \in Threads : CallPromise(st, issued, b, visible, op[t])

\* OrderInv, with what events and waits promise.
PromiseInv ==
    \E b : /\ InOrderWith(st, issued, b, done, ran)
           /\ b[1] = retired
           /\ fails = 0 => Promises(b)

\* Nothing is promised at first.
LEMMA InitPromise == Init => PromiseInv
<1> SUFFICES ASSUME Init PROVE PromiseInv
  OBVIOUS
<1>1. PICK b : InOrderWith(st, issued, b, done, ran) /\ b[1] = retired  BY InitOrder DEF OrderInv
<1>2. /\ st = InitStream /\ issued = << >> /\ retired = 0 /\ visible = 0 /\ event = NoEvent
      /\ op = [t \in Threads |-> Idle]
  BY DEF Init
<1>3. /\ st.queue = << >> /\ st.next_serial = 1 /\ st.submitted = 0 /\ st.work_serial = 0
      /\ ~SubmitsOpen(st) /\ event.serial = 0 /\ event.mark = 0
  BY <1>2 DEF InitStream, SubmitsOpen, NoEvent
<1>4. Tight(st)  BY <1>3 DEF Tight
<1>5. Marks(st, issued, b, event.serial, event.mark)
  <2>1. Len(issued) = 0 /\ Len(st.queue) = 0  BY <1>2, <1>3
  <2> QED  BY <1>3, <2>1 DEF Marks
<1>6. \A t \in Threads : op[t].pc = "idle"  BY <1>2 DEF Idle
<1>7. \A t \in Threads : CallPromise(st, issued, b, visible, op[t])  BY <1>6 DEF CallPromise
<1>8. Promises(b)  BY <1>2, <1>3, <1>4, <1>5, <1>7 DEF Promises
<1> QED  BY <1>1, <1>8 DEF PromiseInv

\* A thread's step keeps what was promised, and what it promises holds.
LEMMA ThreadPromises ==
    ASSUME IInv, IInv', TypeOK, TypeOK', OwnerInv, CaptureInv, NEW t \in Threads, Thread(t), fails' = 0,
           NEW b, InOrderWith(st, issued, b, done, ran), b[1] = retired, Promises(b)
    PROVE  PromiseInv'
<1>0. /\ st \in StreamType(Commands) /\ StreamInv(st) /\ issued \in Calls /\ ran \in Calls
      /\ fails \in Nat /\ visible \in Nat /\ retired \in Nat
      /\ op \in [Threads -> [pc : {"idle", "sync", "sync_wait", "wait", "destroy"}, serial : Nat, mark : Nat]]
      /\ event \in [serial : Nat, mark : Nat]
  BY TypeParts DEF IInv, ControlTypes, HistoryTypes, OpTypes
<1>1. st' \in StreamType(Commands) /\ StreamInv(st') /\ issued' \in Calls
  BY DEF IInv, ControlTypes, TypeOK, Calls, StreamInv, SerialOrder, OpenBatch, SlotTags, SlotExclusive
<1>2. fails + 1 # 0 /\ event.serial \in Nat /\ event.mark \in Nat  BY <1>0
<1>3. done' = done /\ ran' = ran /\ retired' = retired /\ visible' = visible  BY ThreadGpu
<1>4. Accepts(st, issued, b, st', issued', done, ran)
  <2>1. OrderStep(b)  BY ThreadOrder
  <2> QED  BY <2>1 DEF OrderStep
<1>5. PICK c : InOrderWith(st', issued', c, done, ran) /\ Later(st, issued, b, st', issued', c) /\ c[1] = b[1]
  BY <1>4 DEF Accepts
<1>6. Keeps(st, st')  BY ThreadTight
<1>7. Tight(st') /\ st.work_serial <= st'.work_serial /\ (st'.queue = << >> => st.queue = << >>)
  BY <1>6 DEF Keeps, Promises
<1>8. visible' <= retired' /\ (st'.queue = << >> => visible' = retired')  BY <1>3, <1>7 DEF Promises
<1>9. Marks(st', issued', c, event.serial, event.mark)  BY <1>2, <1>5 DEF Later, Promises
<1> DEFINE EventKept == event'.serial <= st'.work_serial /\ Marks(st', issued', c, event'.serial, event'.mark)
           Kept(r) == CallPromise(st', issued', c, visible', op'[r])
<1>10. ASSUME event' = event PROVE EventKept
  <2>1. st.work_serial \in Nat /\ st'.work_serial \in Nat  BY <1>0, <1>1 DEF StreamType
  <2>2. event.serial <= st.work_serial  BY DEF Promises
  <2>3. event'.serial <= st'.work_serial  BY <1>2, <1>7, <1>10, <2>1, <2>2
  <2> QED  BY <1>9, <1>10, <2>3
<1>11. ASSUME NEW r \in Threads, op'[r] = op[r] PROVE Kept(r)
  <2>1. op[r].serial \in Nat /\ op[r].mark \in Nat  BY <1>0
  <2>2. CallPromise(st, issued, b, visible, op[r])  BY DEF Promises
  <2>3. op[r].pc = "wait" => Marks(st', issued', c, op[r].serial, op[r].mark)
    BY <1>5, <2>1, <2>2 DEF Later, CallPromise
  <2>4. op[r].pc = "sync_wait" => op[r].mark <= visible \/ Carried(st', c, op[r].serial, op[r].mark)
    BY <1>5, <2>1, <2>2 DEF Later, CallPromise
  <2> QED  BY <1>3, <1>11, <2>3, <2>4 DEF CallPromise
<1>12. ASSUME NEW r \in Threads, op'[r].pc \notin {"wait", "sync_wait"} PROVE Kept(r)
  BY <1>12 DEF CallPromise
<1>13. ASSUME EventKept, \A r \in Threads : Kept(r) PROVE PromiseInv'
  <2>1. Promises(c)'  BY <1>7, <1>8, <1>13 DEF Promises, Tight, HasToHost, SubmitsOpen, CallPromise, Marks, Carried
  <2> QED  BY <1>3, <1>5, <2>1 DEF PromiseInv
<1> HIDE DEF EventKept, Kept
<1>14. ASSUME event' = event, op' = op PROVE PromiseInv'  BY <1>10, <1>11, <1>13, <1>14
<1>15. ASSUME event' = event, NEW pc, op' = [op EXCEPT ![t] = pc], Kept(t) PROVE PromiseInv'
  <2>1. \A r \in Threads : r = t \/ op'[r] = op[r]  BY <1>0, <1>15
  <2>2. \A r \in Threads : Kept(r)  BY <1>11, <1>15, <2>1
  <2> QED  BY <1>10, <1>13, <1>15, <2>2
<1>16. ASSUME \E d \in Commands : Dispatch(t, d) PROVE PromiseInv'  BY <1>14, <1>16 DEF Dispatch
<1>17. ASSUME Flush(t) \/ EventQuery(t) \/ BeginCapture(t) \/ EndCapture(t) \/ AbortCapture(t) \/ Launch(t)
       PROVE  PromiseInv'
  BY <1>14, <1>17 DEF Flush, EventQuery, BeginCapture, EndCapture, AbortCapture, Launch
<1>18. ASSUME SyncReturn(t) \/ WaitReturn(t) \/ FreeCommandBuffers(t) PROVE PromiseInv'
  <2>1. op' = [op EXCEPT ![t] = Idle] /\ event' = event
    BY <1>18 DEF SyncReturn, WaitReturn, FreeCommandBuffers
  <2>2. op'[t].pc = "idle"  BY <1>0, <2>1 DEF Idle
  <2>3. Kept(t)  BY <1>12, <2>2
  <2> QED  BY <1>15, <2>1, <2>3
<1>19. ASSUME SyncCheck(t) PROVE PromiseInv'
  <2>1. op' = [op EXCEPT ![t].pc = "sync"] /\ event' = event  BY <1>19 DEF SyncCheck
  <2>2. op'[t].pc = "sync" /\ \A r \in Threads : r = t \/ op'[r] = op[r]  BY <1>0, <2>1
  <2>3. \A r \in Threads : Kept(r)  BY <1>11, <1>12, <2>2
  <2> QED  BY <1>10, <1>13, <2>1, <2>3
<1>20. ASSUME SyncSubmit(t) PROVE PromiseInv'
  <2>1. PICK ok \in Outcomes(SubmitsOpen(st)) :
          /\ st' = submit_locked(st, ok)
          /\ Outcome(ok)
          /\ op' = [op EXCEPT ![t] =
                       IF ok THEN [pc |-> "sync_wait", serial |-> st'.submitted, mark |-> Len(issued)]
                             ELSE Idle]
    BY <1>20 DEF SyncSubmit
  <2>2. ok = TRUE  BY <1>2, <2>1, OutcomeType DEF Outcome
  <2> DEFINE o == [pc |-> "sync_wait", serial |-> st'.submitted, mark |-> Len(issued)]
  <2>3. st' = submit_locked(st, TRUE) /\ issued' = issued /\ op' = [op EXCEPT ![t] = o] /\ event' = event
    BY <1>20, <2>1, <2>2 DEF Outcome, SyncSubmit
  <2>4. ~SubmitsOpen(st')  BY <1>0, <2>3, SubmitLockedInv DEF SubmitsOpen
  <2>5. Len(issued') <= visible' \/ Carried(st', c, st'.submitted, Len(issued'))
    <3>1. visible' \in Nat  BY <1>0, <1>3
    <3>2. st'.queue = << >> => visible' = c[1]  BY <1>3, <1>5, <1>8
    <3> QED  BY <1>1, <1>5, <1>7, <2>4, <3>1, <3>2, SyncCarries
  <2>6. op'[t] = o  BY <1>0, <2>3
  <2>7. o.pc = "sync_wait" /\ o.serial = st'.submitted /\ o.mark = Len(issued')  BY <2>3
  <2> HIDE DEF o
  <2>8. Kept(t)  BY <2>5, <2>6, <2>7 DEF Kept, CallPromise
  <2> QED  BY <1>15, <2>3, <2>8
<1>21. ASSUME EventRecord(t) PROVE PromiseInv'
  <2>1. /\ event' = [serial |-> st.work_serial, mark |-> Len(issued)] /\ st' = st /\ issued' = issued
        /\ op' = op
    BY <1>21 DEF EventRecord
  <2>2. Marks(st', issued', c, st'.work_serial, Len(issued'))  BY <1>1, <1>7, RecordMarks
  <2>3. event'.serial = st'.work_serial /\ event'.mark = Len(issued') /\ st'.work_serial \in Nat
    BY <1>1, <2>1 DEF StreamType
  <2>4. EventKept  BY <2>2, <2>3 DEF EventKept
  <2> QED  BY <1>11, <1>13, <2>1, <2>4
<1>22. ASSUME EventWait(t) PROVE PromiseInv'
  <2> DEFINE serial == event.serial
             o == [pc |-> "wait", mark |-> event.mark,
                   serial |-> IF wait_returns_early(st, serial) THEN 0 ELSE serial]
  <2>1. PICK ok \in Outcomes(wait_submit(st, serial, TRUE) # st) :
          /\ Outcome(ok)
          /\ op' = [op EXCEPT ![t] = IF ~ok THEN Idle ELSE o]
    BY <1>22 DEF EventWait, WaitSubmit
  <2>2. ok = TRUE  BY <1>2, <2>1, OutcomeType DEF Outcome
  <2>3. event' = event  BY <1>22 DEF EventWait, WaitSubmit
  <2>4. ~wait_returns_early(st, serial)
    <3>1. st.submitted \in Nat /\ st.next_serial \in Nat /\ st.work_serial \in Nat /\ serial \in Nat
      BY <1>0 DEF StreamType
    <3>2. serial <= st.work_serial /\ Tight(st)  BY DEF Promises
    <3>3. CASE SubmitsOpen(st)
      <4>1. st.open_serial = st.next_serial /\ st.work_serial = st.next_serial
        BY <1>0, <3>3 DEF SubmitsOpen, StreamInv, OpenBatch
      <4>2. st.next_serial = st.submitted + 1  BY <3>2 DEF Tight
      <4>3. serial > st.submitted => serial = st.open_serial  BY <3>1, <3>2, <4>1, <4>2
      <4> QED  BY <3>3, <4>3 DEF wait_returns_early
    <3>4. CASE ~SubmitsOpen(st)
      <4>1. st.work_serial = st.submitted  BY <3>2, <3>4 DEF Tight
      <4>2. ~(serial > st.submitted)  BY <3>1, <3>2, <4>1
      <4> QED  BY <4>2 DEF wait_returns_early
    <3> QED  BY <3>3, <3>4
  <2>5. o.pc = "wait" /\ o.serial = event.serial /\ o.mark = event.mark  BY <2>4
  <2> HIDE DEF o
  <2>6. op' = [op EXCEPT ![t] = o]  BY <2>1, <2>2
  <2>7. op'[t] = o  BY <1>0, <2>6
  <2>8. Kept(t)  BY <1>9, <2>5, <2>7 DEF Kept, CallPromise
  <2> QED  BY <1>15, <2>3, <2>6, <2>8
<1>23. ASSUME DestroyGraph(t) PROVE PromiseInv'
  <2> DEFINE serial == IF wait_returns_early(st, graph.last_launch) THEN 0 ELSE graph.last_launch
  <2>1. PICK ok \in BOOLEAN : op' = [op EXCEPT ![t] =
            IF ~ok THEN Idle ELSE [pc |-> "destroy", mark |-> 0, serial |-> serial]]
    BY <1>23, OutcomeType DEF DestroyGraph, WaitSubmit
  <2> HIDE DEF serial
  <2> DEFINE o == IF ~ok THEN Idle ELSE [pc |-> "destroy", mark |-> 0, serial |-> serial]
  <2>2. op' = [op EXCEPT ![t] = o] /\ o.pc \in {"idle", "destroy"}  BY <2>1 DEF Idle
  <2> HIDE DEF o
  <2>3. op'[t] = o /\ event' = event  BY <1>0, <1>23, <2>2 DEF DestroyGraph, WaitSubmit
  <2>4. Kept(t)  BY <1>12, <2>2, <2>3
  <2> QED  BY <1>15, <2>2, <2>3, <2>4
<1> QED  BY <1>16, <1>17, <1>18, <1>19, <1>20, <1>21, <1>22, <1>23 DEF Thread

\* A signal keeps what was promised: what a submission carried is visible when it is signalled.
LEMMA SignalPromises ==
    ASSUME IInv, TypeOK, NEW b, InOrderWith(st, issued, b, done, ran), b[1] = retired,
           fails = 0 => Promises(b), GpuSignal
    PROVE  PromiseInv'
<1>0. /\ st \in StreamType(Commands) /\ StreamInv(st) /\ issued \in Calls
      /\ visible \in Nat /\ retired \in Nat
      /\ op \in [Threads -> [pc : {"idle", "sync", "sync_wait", "wait", "destroy"}, serial : Nat, mark : Nat]]
      /\ event \in [serial : Nat, mark : Nat]
  BY TypeParts DEF IInv, ControlTypes, HistoryTypes, OpTypes
<1> DEFINE buf == Head(st.queue).cb
           l == Len(st.queue)
<1>1. /\ issued' = issued /\ op' = op /\ event' = event /\ fails' = fails /\ st.queue # << >>
      /\ st' = Signal(st) /\ visible' = IF HasToHost(buf) THEN retired' ELSE visible
  BY DEF GpuSignal, HasToHost
<1>2. PICK c : c = Shift(st.queue, b)  OBVIOUS
<1>3. /\ InOrderWith(st', issued', c, done', ran') /\ c[1] = retired' /\ retired' = b[2]
      /\ \A serial, mark \in Nat :
            /\ Marks(st, issued, b, serial, mark) => Marks(st', issued, c, serial, mark)
            /\ Carried(st, b, serial, mark) => Carried(st', c, serial, mark) \/ (HasToHost(buf) /\ mark <= b[2])
  BY <1>2, SignalStep
<1>4. /\ l \in Nat /\ l # 0 /\ Head(st.queue) = st.queue[1] /\ Len(Tail(st.queue)) = l - 1
      /\ \A i \in 1 .. l - 1 : Tail(st.queue)[i] = st.queue[i + 1]
  BY <1>0, <1>1 DEF StreamType
<1>5. /\ st'.queue = Tail(st.queue) /\ st'.submitted = st.submitted /\ st'.next_serial = st.next_serial
      /\ st'.work_serial = st.work_serial /\ st'.open_slot = st.open_slot
  BY <1>0, <1>1 DEF Signal, StreamType
<1>6. retired' \in Nat /\ retired <= retired'
  <2>1. 1 \in 1 .. l + 1 /\ 2 \in 1 .. l + 1  BY <1>4
  <2>2. /\ b \in [1 .. l + 1 -> Nat] /\ \A j, k \in 1 .. l + 1 : j <= k => b[j] <= b[k]
    BY DEF InOrderWith, QueueHolds
  <2> QED  BY <1>3, <2>1, <2>2
<1> HIDE DEF buf, l
<1>7. ASSUME Promises(b) PROVE Promises(c)'
  <2>1. Tight(st) /\ visible <= retired /\ event.serial <= st.work_serial  BY <1>7 DEF Promises
  <2>2. visible <= visible' /\ visible' <= retired' /\ visible' \in Nat  BY <1>0, <1>1, <1>6, <2>1
  <2>3. st'.queue # << >> => HasToHost(st'.queue[Len(st'.queue)].cb)
    <3> SUFFICES ASSUME st'.queue # << >> PROVE HasToHost(st'.queue[Len(st'.queue)].cb)
      OBVIOUS
    <3>1. Len(st'.queue) = l - 1 /\ l - 1 # 0
      <4>1. st'.queue \in Seq(Submissions(Commands))
        <5>1. st.queue \in Seq(Submissions(Commands))  BY <1>0 DEF StreamType
        <5> QED  BY <1>1, <1>5, <5>1
      <4> QED  BY <1>4, <1>5, <4>1
    <3>2. l - 1 \in 1 .. l - 1 /\ l - 1 + 1 = l  BY <1>4, <3>1
    <3>3. st'.queue[l - 1] = st.queue[l]  BY <1>4, <1>5, <3>2
    <3>4. HasToHost(st.queue[l].cb)  BY <1>1, <2>1 DEF Tight, l
    <3> QED  BY <3>1, <3>3, <3>4
  <2>4. Tight(st')  BY <1>5, <2>1, <2>3 DEF Tight, SubmitsOpen
  <2>5. st'.queue = << >> => visible' = retired'
    <3> SUFFICES ASSUME st'.queue = << >> PROVE visible' = retired'
      OBVIOUS
    <3>1. l = 1
      <4>1. st'.queue = << >> => Len(st'.queue) = 0  OBVIOUS
      <4>2. Len(st'.queue) = l - 1  BY <1>4, <1>5
      <4> QED  BY <1>4, <4>1, <4>2
    <3>2. HasToHost(st.queue[l].cb)  BY <1>1, <2>1 DEF Tight, l
    <3>3. HasToHost(buf)  BY <1>4, <3>1, <3>2 DEF buf
    <3> QED  BY <1>1, <3>3
  <2>6. event'.serial <= st'.work_serial  BY <1>1, <1>5, <2>1
  <2>7. Marks(st', issued', c, event'.serial, event'.mark)
    <3>1. event.serial \in Nat /\ event.mark \in Nat  BY <1>0
    <3>2. Marks(st, issued, b, event.serial, event.mark)  BY <1>7 DEF Promises
    <3> QED  BY <1>1, <1>3, <3>1, <3>2
  <2>8. ASSUME NEW t \in Threads PROVE CallPromise(st', issued', c, visible', op'[t])
    <3>1. op[t].serial \in Nat /\ op[t].mark \in Nat /\ op'[t] = op[t]  BY <1>0, <1>1
    <3>2. CallPromise(st, issued, b, visible, op[t])  BY <1>7 DEF Promises
    <3>3. ASSUME op[t].pc = "wait" PROVE Marks(st', issued', c, op[t].serial, op[t].mark)
      BY <1>1, <1>3, <3>1, <3>2, <3>3 DEF CallPromise
    <3>4. ASSUME op[t].pc = "sync_wait"
          PROVE  op[t].mark <= visible' \/ Carried(st', c, op[t].serial, op[t].mark)
      <4>1. op[t].mark <= visible \/ Carried(st, b, op[t].serial, op[t].mark)
        BY <3>2, <3>4 DEF CallPromise
      <4>2. CASE op[t].mark <= visible  BY <1>0, <2>2, <3>1, <4>2
      <4>3. CASE Carried(st, b, op[t].serial, op[t].mark)
        <5>1. Carried(st', c, op[t].serial, op[t].mark) \/ (HasToHost(buf) /\ op[t].mark <= b[2])
          BY <1>3, <3>1, <4>3
        <5>2. HasToHost(buf) => visible' = b[2]  BY <1>1, <1>3
        <5> QED  BY <5>1, <5>2
      <4> QED  BY <4>1, <4>2, <4>3
    <3> QED  BY <3>1, <3>3, <3>4 DEF CallPromise
  <2> QED  BY <2>2, <2>4, <2>5, <2>6, <2>7, <2>8
           DEF Promises, Tight, HasToHost, SubmitsOpen, CallPromise, Marks, Carried
<1> QED  BY <1>1, <1>3, <1>7 DEF PromiseInv

\* Every step keeps what was promised.
LEMMA NextPromise ==
    ASSUME IInv, IInv', TypeOK, TypeOK', OwnerInv, CaptureInv, PromiseInv, [Next]_vars
    PROVE  PromiseInv'
<1>0. /\ st \in StreamType(Commands) /\ StreamInv(st) /\ issued \in Calls /\ ran \in Calls
      /\ done \subseteq Nat \X Nat /\ fails \in Nat
  BY TypeParts DEF IInv, ControlTypes, HistoryTypes
<1>1. PICK b : /\ InOrderWith(st, issued, b, done, ran) /\ b[1] = retired
               /\ fails = 0 => Promises(b)
  BY DEF PromiseInv
<1>2. ASSUME NEW t \in Threads, Thread(t) PROVE PromiseInv'
  <2>1. CASE fails' = 0
    <3>1. fails = 0  BY <1>0, <1>2, <2>1, FailsGrow
    <3> QED  BY <1>1, <1>2, <2>1, <3>1, ThreadPromises
  <2>2. CASE fails' # 0
    <3>1. OrderInv  BY <1>1 DEF OrderInv
    <3>2. OrderInv'  BY <1>2, <3>1, NextOrder DEF Next
    <3> QED  BY <2>2, <3>2 DEF OrderInv, PromiseInv
  <2> QED  BY <2>1, <2>2
<1>3. CASE Execute
  <2>1. InOrderWith(st, issued, b, done', ran')  BY <1>0, <1>1, <1>3, ExecuteOrder
  <2>2. /\ st' = st /\ issued' = issued /\ retired' = retired /\ visible' = visible /\ op' = op
        /\ event' = event /\ fails' = fails
    BY <1>3 DEF Execute
  <2>3. ASSUME Promises(b) PROVE Promises(b)'  BY <2>2, <2>3 DEF Promises
  <2> QED  BY <1>1, <2>1, <2>2, <2>3 DEF PromiseInv
<1>4. CASE GpuSignal  BY <1>1, <1>4, SignalPromises
<1>5. CASE UNCHANGED vars
  <2>1. ASSUME Promises(b) PROVE Promises(b)'  BY <1>5, <2>1 DEF vars, Promises
  <2> QED  BY <1>1, <1>5, <2>1 DEF vars, PromiseInv
<1> QED  BY <1>2, <1>3, <1>4, <1>5 DEF Next

\* What the invariant says of a thread that returns.
LEMMA ReturnDelivers ==
    ASSUME IInv, TypeOK, PromiseInv, fails = 0, [Next]_vars
    PROVE  [\A t \in Threads : op'[t].pc = "idle" =>
               /\ op[t].pc = "sync_wait" => visible >= op[t].mark
               /\ op[t].pc = "wait" => Len(ran) >= op[t].mark]_vars
<1>0. /\ st \in StreamType(Commands) /\ StreamInv(st) /\ issued \in Calls /\ ran \in Calls /\ fails \in Nat
      /\ visible \in Nat
      /\ op \in [Threads -> [pc : {"idle", "sync", "sync_wait", "wait", "destroy"}, serial : Nat, mark : Nat]]
  BY TypeParts DEF IInv, ControlTypes, HistoryTypes, OpTypes
<1>1. PICK b : InOrderWith(st, issued, b, done, ran) /\ Promises(b)  BY DEF PromiseInv
<1> SUFFICES ASSUME Next, NEW t \in Threads, op'[t].pc = "idle"
             PROVE  /\ op[t].pc = "sync_wait" => visible >= op[t].mark
                    /\ op[t].pc = "wait" => Len(ran) >= op[t].mark
  OBVIOUS
<1>2. CallPromise(st, issued, b, visible, op[t])  BY <1>1 DEF Promises
<1>3. op[t].serial \in Nat /\ op[t].mark \in Nat  BY <1>0
<1>4. ASSUME op[t].pc \in {"sync_wait", "wait"} PROVE st.timeline >= op[t].serial
  <2>1. op' # op  BY <1>4
  <2>2. PICK r \in Threads : Thread(r)  BY <2>1 DEF Next, Execute, GpuSignal
  <2>3. \E o : op' = [op EXCEPT ![r] = o]
    <3>1. ASSUME SyncCheck(r) PROVE op' = [op EXCEPT ![r] = [op[r] EXCEPT !.pc = "sync"]]
      BY <1>0, <3>1 DEF SyncCheck
    <3> QED  BY <2>1, <2>2, <3>1
             DEF Thread, Dispatch, Flush, SyncSubmit, SyncReturn, EventRecord, EventQuery, EventWait,
                 WaitSubmit, WaitReturn, BeginCapture, EndCapture, AbortCapture, Launch, DestroyGraph,
                 FreeCommandBuffers
  <2>4. r = t  BY <1>0, <1>4, <2>3
  <2>5. op[t].pc # "idle" /\ op[t].pc # "sync" /\ op[t].pc # "destroy"  BY <1>4
  <2>6. SyncReturn(t) \/ WaitReturn(t)
    BY <2>2, <2>4, <2>5
       DEF Thread, Dispatch, Flush, SyncCheck, SyncSubmit, EventRecord, EventQuery, EventWait,
           WaitSubmit, BeginCapture, EndCapture, AbortCapture, Launch, DestroyGraph, FreeCommandBuffers
  <2> QED  BY <2>6 DEF SyncReturn, WaitReturn
<1>5. ASSUME op[t].pc = "sync_wait" PROVE visible >= op[t].mark
  <2>1. st.timeline >= op[t].serial  BY <1>4, <1>5
  <2>2. op[t].mark <= visible \/ Carried(st, b, op[t].serial, op[t].mark)
    BY <1>2, <1>5 DEF CallPromise
  <2>3. op[t].mark <= visible  BY <1>0, <1>3, <2>1, <2>2, CarriedLeft
  <2> QED  BY <1>0, <1>3, <2>3
<1>6. ASSUME op[t].pc = "wait" PROVE Len(ran) >= op[t].mark
  <2>1. st.timeline >= op[t].serial  BY <1>4, <1>6
  <2>2. Marks(st, issued, b, op[t].serial, op[t].mark)  BY <1>2, <1>6 DEF CallPromise
  <2> QED  BY <1>0, <1>1, <1>3, <2>1, <2>2, MarkedRan
<1> QED  BY <1>5, <1>6

\* The inductive invariant of the whole, with the types and the owner of the graph.
LEMMA PromisesHold == Spec => [](IInv /\ TypeOK /\ PromiseInv)
<1>1. IInv /\ IInv' /\ TypeOK /\ TypeOK' /\ OwnerInv /\ CaptureInv /\ PromiseInv /\ [Next]_vars
        => OwnerInv' /\ CaptureInv' /\ PromiseInv'
  BY NextOwner, NextCapture, NextPromise
<1> QED  BY <1>1, InitOwner, InitOrder, InitPromise, QueueTypes, StreamCorrect, PTL DEF Spec

\* Event::record reads the work serial without the lock, and yet, while the driver has refused no
\* submission, an event that is complete has everything issued before it executed.
THEOREM EventsMeanDone == Spec => [](fails = 0 => EventMeansDone)
<1>1. IInv /\ TypeOK /\ PromiseInv => (fails = 0 => EventMeansDone)
  <2> SUFFICES ASSUME IInv, TypeOK, PromiseInv, fails = 0, st.timeline >= event.serial
               PROVE  Len(ran) >= event.mark
    BY DEF EventMeansDone
  <2>1. /\ st \in StreamType(Commands) /\ StreamInv(st) /\ issued \in Calls /\ ran \in Calls
        /\ event.serial \in Nat /\ event.mark \in Nat
    BY TypeParts DEF IInv, ControlTypes, HistoryTypes, OpTypes
  <2>2. PICK b : InOrderWith(st, issued, b, done, ran) /\ Promises(b)  BY DEF PromiseInv
  <2>3. Marks(st, issued, b, event.serial, event.mark)  BY <2>2 DEF Promises
  <2> QED  BY <2>1, <2>2, <2>3, MarkedRan
<1> QED  BY <1>1, PromisesHold, PTL

\* In every behaviour in which the driver refuses no submission, sync returns only when what was
\* issued before it is visible to the host, and Event::wait only when the marked work has run.
THEOREM CallsDeliver == Spec /\ [](fails = 0) => WaitsDeliver
<1>1. IInv /\ TypeOK /\ PromiseInv /\ fails = 0 /\ [Next]_vars
        => [\A t \in Threads : op'[t].pc = "idle" =>
               /\ op[t].pc = "sync_wait" => visible >= op[t].mark
               /\ op[t].pc = "wait" => Len(ran) >= op[t].mark]_vars
  BY ReturnDelivers
<1> QED  BY <1>1, PromisesHold, PTL DEF Spec, WaitsDeliver
=============================================================================
