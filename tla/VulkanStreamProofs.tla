-------------------------- MODULE VulkanStreamProofs --------------------------
(***************************************************************************)
(* Every operation of the Vulkan stream keeps its type and the invariant   *)
(* StreamInv, for every number of slots, batch limit, outcome of the       *)
(* submissions and set of commands.                                        *)
(***************************************************************************)
EXTENDS VulkanStream, SequenceTheorems, TLAPS

USE kSlotsAssumption, batch_limitAssumption

\* open_locked keeps the type: the slot it selects, next_serial_ % kSlots, is a slot.
LEMMA NextSlotType ==
    ASSUME NEW s, s.next_serial \in Nat
    PROVE  NextSlot(s) \in Slots
BY DEF NextSlot, Slots

\* A slot is never confused with "no slot".
LEMMA SlotNotNoSlot == ASSUME NEW i \in Slots PROVE i # NoSlot /\ i \in Int
BY DEF Slots, NoSlot

\* What the device's queue holds: submissions, each with a serial.
LEMMA QueueType ==
    ASSUME NEW Cmds, NEW s \in StreamType(Cmds), NEW i \in DOMAIN s.queue
    PROVE  /\ s.queue[i] \in Submissions(Cmds)
           /\ s.queue[i].serial \in Nat
           /\ s.queue[i].slot \in Slots \cup {NoSlot}
           /\ s.queue[i].slot \in Int
<1>1. s.queue \in Seq(Submissions(Cmds))  BY DEF StreamType
<1>2. s.queue[i] \in Submissions(Cmds)  BY <1>1
<1> QED  BY <1>2, SlotNotNoSlot DEF Submissions, NoSlot

\* open_locked keeps the type of the stream state.
LEMMA OpenLockedType ==
    ASSUME NEW Cmds, NEW s \in StreamType(Cmds)
    PROVE  open_locked(s) \in StreamType(Cmds)
<1>1. NextSlot(s) \in Slots  BY NextSlotType DEF StreamType
<1>2. <<Barrier>> \in CommandBuffers(Cmds)  BY DEF CommandBuffers, Entries, Barrier
<1> QED  BY <1>1, <1>2 DEF StreamType, open_locked

\* open_locked keeps StreamInv: it waited until the slot's last submission was signalled.
LEMMA OpenLockedInv ==
    ASSUME NEW Cmds, NEW s \in StreamType(Cmds), StreamInv(s), SlotReady(s)
    PROVE  StreamInv(open_locked(s)) /\ (open_locked(s).capturing \/ open_locked(s).open_slot # NoSlot)
<1> DEFINE o == open_locked(s)
<1>1. CASE s.capturing \/ s.open_slot # NoSlot
  BY <1>1 DEF open_locked
<1>2. CASE ~(s.capturing \/ s.open_slot # NoSlot)
  <2>1. NextSlot(s) \in Slots  BY NextSlotType DEF StreamType
  <2>2. /\ o.open_slot = NextSlot(s) /\ o.open_serial = s.next_serial /\ o.work_serial = s.next_serial
        /\ o.queue = s.queue /\ o.timeline = s.timeline /\ o.slot_serial = s.slot_serial
        /\ o.next_serial = s.next_serial /\ o.submitted = s.submitted /\ o.capturing = s.capturing
    BY <1>2 DEF open_locked, StreamType
  <2>3. s.slot_serial[NextSlot(s)] <= s.timeline
    BY <1>2 DEF SlotReady
  <2>4. SerialOrder(o) /\ SlotTags(o)  BY <2>2 DEF StreamInv, SerialOrder, SlotTags
  <2>5. OpenBatch(o)  BY <1>2, <2>2, <2>3 DEF OpenBatch
  <2>6. ASSUME NEW i \in DOMAIN s.queue PROVE s.queue[i].slot # NextSlot(s)
    <3>1. s.queue[i].slot # NoSlot => s.queue[i].serial <= s.slot_serial[s.queue[i].slot]
      BY DEF StreamInv, SlotTags
    <3>2. s.timeline < s.queue[i].serial  BY DEF StreamInv, SerialOrder
    <3>3. s.slot_serial[NextSlot(s)] \in Nat /\ s.timeline \in Nat  BY <2>1 DEF StreamType
    <3> QED  BY <2>1, <2>3, <3>1, <3>2, <3>3, QueueType, SlotNotNoSlot
  <2>7. SlotExclusive(o)  BY <2>2, <2>6 DEF StreamInv, SlotExclusive
  <2> QED  BY <2>1, <2>2, <2>4, <2>5, <2>7, SlotNotNoSlot DEF StreamInv
<1> QED  BY <1>1, <1>2

\* The invariant looks at the serials, the slots and the queue only: an operation that
\* leaves them alone (recording a command, beginning a segment) keeps it.
LEMMA StreamInvFrame ==
    ASSUME NEW s, NEW u, StreamInv(s),
           u.queue = s.queue, u.timeline = s.timeline, u.slot_serial = s.slot_serial,
           u.open_slot = s.open_slot, u.open_serial = s.open_serial,
           u.next_serial = s.next_serial, u.submitted = s.submitted,
           u.work_serial = s.work_serial, u.capturing = s.capturing
    PROVE  StreamInv(u)
BY DEF StreamInv, SerialOrder, OpenBatch, SlotTags, SlotExclusive

\* record_command appends to one command buffer and keeps type and invariant.
LEMMA RecordCommandInv ==
    ASSUME NEW Cmds, NEW s \in StreamType(Cmds), StreamInv(s), NEW c \in Cmds
    PROVE  record_command(s, c) \in StreamType(Cmds) /\ StreamInv(record_command(s, c))
<1> DEFINE e == IF s.need_barrier THEN <<Barrier, Command(c)>> ELSE <<Command(c)>>
<1>1. Barrier \in Entries(Cmds) /\ Command(c) \in Entries(Cmds)
  BY DEF Barrier, Command, Entries
<1>2. e \in CommandBuffers(Cmds)  BY <1>1 DEF CommandBuffers
<1>3. s.cb \o e \in CommandBuffers(Cmds) /\ s.capture_cb \o e \in CommandBuffers(Cmds)
  BY <1>2 DEF CommandBuffers, StreamType
<1> HIDE DEF e
<1>4. record_command(s, c) = IF s.capturing
        THEN [[s EXCEPT !.need_barrier = TRUE, !.ops_in_batch = @ + 1] EXCEPT !.capture_cb = @ \o e]
        ELSE [[s EXCEPT !.need_barrier = TRUE, !.ops_in_batch = @ + 1] EXCEPT !.cb = @ \o e]
  BY DEF record_command, e
<1>5. record_command(s, c) \in StreamType(Cmds)
  <2> DEFINE rest == [s EXCEPT !.need_barrier = TRUE, !.ops_in_batch = @ + 1]
  <2>0. s.ops_in_batch + 1 \in Nat /\ TRUE \in BOOLEAN  BY DEF StreamType
  <2>1. rest \in StreamType(Cmds) /\ rest.cb = s.cb /\ rest.capture_cb = s.capture_cb
    BY <2>0 DEF StreamType
  <2> HIDE DEF rest
  <2>2. [rest EXCEPT !.capture_cb = @ \o e] \in StreamType(Cmds)
    BY <1>3, <2>1 DEF StreamType
  <2>3. [rest EXCEPT !.cb = @ \o e] \in StreamType(Cmds)
    BY <1>3, <2>1 DEF StreamType
  <2> QED  BY <1>4, <2>2, <2>3 DEF rest
<1>6. LET u == record_command(s, c) IN
      /\ u.queue = s.queue /\ u.timeline = s.timeline /\ u.slot_serial = s.slot_serial
      /\ u.open_slot = s.open_slot /\ u.open_serial = s.open_serial
      /\ u.next_serial = s.next_serial /\ u.submitted = s.submitted
      /\ u.work_serial = s.work_serial /\ u.capturing = s.capturing
  BY <1>4 DEF StreamType
<1> QED  BY <1>5, <1>6, StreamInvFrame

\* begin_capture_segment_locked keeps type and invariant.
LEMMA BeginSegmentInv ==
    ASSUME NEW Cmds, NEW s \in StreamType(Cmds), StreamInv(s)
    PROVE  /\ begin_capture_segment_locked(s) \in StreamType(Cmds)
           /\ StreamInv(begin_capture_segment_locked(s))
<1> DEFINE u == begin_capture_segment_locked(s)
<1>1. <<Barrier>> \in CommandBuffers(Cmds)  BY DEF CommandBuffers, Entries, Barrier
<1>2. u \in StreamType(Cmds)  BY <1>1 DEF StreamType, begin_capture_segment_locked
<1>3. /\ u.queue = s.queue /\ u.timeline = s.timeline /\ u.slot_serial = s.slot_serial
      /\ u.open_slot = s.open_slot /\ u.open_serial = s.open_serial
      /\ u.next_serial = s.next_serial /\ u.submitted = s.submitted
      /\ u.work_serial = s.work_serial /\ u.capturing = s.capturing
  BY DEF StreamType, begin_capture_segment_locked
<1> QED  BY <1>2, <1>3, StreamInvFrame

\* What submit_locked does to an open batch, field by field, when vkQueueSubmit takes it ...
LEMMA SubmitAccepted ==
    ASSUME NEW Cmds, NEW s \in StreamType(Cmds), s.open_slot # NoSlot
    PROVE  LET u == submit_locked(s, TRUE)
               sub == [serial |-> s.open_serial, slot |-> s.open_slot, cb |-> s.cb \o <<ToHost>>]
           IN  /\ u \in StreamType(Cmds)
               /\ u.queue = Append(s.queue, sub)
               /\ u.slot_serial = [s.slot_serial EXCEPT ![s.open_slot] = s.open_serial]
               /\ u.open_slot = NoSlot
               /\ u.submitted = s.open_serial
               /\ u.next_serial = s.next_serial + 1
               /\ u.timeline = s.timeline
               /\ u.work_serial = s.work_serial
               /\ u.capturing = s.capturing
<1> DEFINE sub == [serial |-> s.open_serial, slot |-> s.open_slot, cb |-> s.cb \o <<ToHost>>]
           closed == [s EXCEPT !.slot_serial[s.open_slot] = s.open_serial,
                               !.open_slot = NoSlot, !.cb = << >>]
           sent == [closed EXCEPT !.queue = Append(@, sub), !.submitted = s.open_serial]
<1>1. s.open_slot \in Slots  BY DEF StreamType
<1>2. sub \in Submissions(Cmds)
  <2>1. ToHost \in Entries(Cmds)  BY DEF ToHost, Entries
  <2>2. s.cb \o <<ToHost>> \in CommandBuffers(Cmds)  BY <2>1 DEF CommandBuffers, StreamType
  <2> QED  BY <1>1, <2>2 DEF Submissions, StreamType
<1>3. << >> \in CommandBuffers(Cmds)  BY DEF CommandBuffers
<1>4. /\ closed \in StreamType(Cmds)
      /\ closed.queue = s.queue /\ closed.timeline = s.timeline
      /\ closed.slot_serial = [s.slot_serial EXCEPT ![s.open_slot] = s.open_serial]
      /\ closed.open_slot = NoSlot /\ closed.next_serial = s.next_serial
      /\ closed.work_serial = s.work_serial /\ closed.capturing = s.capturing
  BY <1>1, <1>3 DEF StreamType
<1> HIDE DEF sub, closed
<1>5. Append(s.queue, sub) \in Seq(Submissions(Cmds))  BY <1>2 DEF StreamType
<1>6. /\ sent \in StreamType(Cmds)
      /\ sent.queue = Append(s.queue, sub) /\ sent.timeline = s.timeline
      /\ sent.slot_serial = closed.slot_serial /\ sent.submitted = s.open_serial
      /\ sent.open_slot = NoSlot /\ sent.next_serial = s.next_serial
      /\ sent.work_serial = s.work_serial /\ sent.capturing = s.capturing
  BY <1>4, <1>5 DEF StreamType
<1>7. submit_locked(s, TRUE) = [sent EXCEPT !.next_serial = @ + 1]
  BY DEF submit_locked, submit_cb_locked, closed, sub
<1> HIDE DEF sent
<1>8. [sent EXCEPT !.next_serial = @ + 1] \in StreamType(Cmds)
  <2>1. sent.next_serial + 1 \in Nat  BY <1>6 DEF StreamType
  <2> QED  BY <1>6, <2>1 DEF StreamType
<1> QED  BY <1>4, <1>6, <1>7, <1>8 DEF StreamType, sub

\* ... and when vkQueueSubmit throws: the batch is gone, its slot is tagged all the same.
LEMMA SubmitRefused ==
    ASSUME NEW Cmds, NEW s \in StreamType(Cmds), s.open_slot # NoSlot
    PROVE  LET u == submit_locked(s, FALSE)
           IN  /\ u \in StreamType(Cmds)
               /\ u.queue = s.queue
               /\ u.slot_serial = [s.slot_serial EXCEPT ![s.open_slot] = s.open_serial]
               /\ u.open_slot = NoSlot
               /\ u.submitted = s.submitted
               /\ u.next_serial = s.next_serial
               /\ u.timeline = s.timeline
               /\ u.work_serial = s.work_serial
               /\ u.capturing = s.capturing
<1>1. s.open_slot \in Slots  BY DEF StreamType
<1>2. << >> \in CommandBuffers(Cmds)  BY DEF CommandBuffers
<1> QED  BY <1>1, <1>2 DEF submit_locked, StreamType

\* Whether or not the driver takes the batch, submit_locked keeps type and invariant and
\* leaves no batch open.
LEMMA SubmitLockedInv ==
    ASSUME NEW Cmds, NEW s \in StreamType(Cmds), StreamInv(s), NEW ok \in BOOLEAN
    PROVE  /\ submit_locked(s, ok) \in StreamType(Cmds)
           /\ StreamInv(submit_locked(s, ok))
           /\ submit_locked(s, ok).open_slot = NoSlot
           /\ submit_locked(s, ok).capturing = s.capturing
<1>1. CASE s.open_slot = NoSlot
  BY <1>1 DEF submit_locked
<1>2. CASE s.open_slot # NoSlot
  <2>1. /\ s.open_slot \in Slots /\ s.open_serial = s.next_serial
        /\ \A i \in DOMAIN s.queue : s.queue[i].slot # s.open_slot
    BY <1>2 DEF StreamType, StreamInv, OpenBatch, SlotExclusive
  <2>2. /\ s.next_serial \in Nat /\ s.submitted \in Nat /\ s.timeline \in Nat
        /\ s.slot_serial \in [Slots -> Nat] /\ s.queue \in Seq(Submissions(Cmds))
    BY DEF StreamType
  <2>3. ASSUME NEW i \in DOMAIN s.queue,
               NEW tags, tags = [s.slot_serial EXCEPT ![s.open_slot] = s.open_serial]
        PROVE  s.queue[i].slot # NoSlot => s.queue[i].serial <= tags[s.queue[i].slot]
    <3>1. s.queue[i].slot # s.open_slot  BY <2>1
    <3>2. s.queue[i].slot # NoSlot => s.queue[i].slot \in Slots  BY QueueType
    <3>3. s.queue[i].slot # NoSlot => tags[s.queue[i].slot] = s.slot_serial[s.queue[i].slot]
      BY <2>2, <2>3, <3>1, <3>2
    <3> QED  BY <3>3 DEF StreamInv, SlotTags
  <2>4. CASE ~ok
    <3> DEFINE u == submit_locked(s, FALSE)
    <3>1. /\ u \in StreamType(Cmds) /\ u.queue = s.queue /\ u.open_slot = NoSlot
          /\ u.slot_serial = [s.slot_serial EXCEPT ![s.open_slot] = s.open_serial]
          /\ u.submitted = s.submitted /\ u.next_serial = s.next_serial
          /\ u.timeline = s.timeline /\ u.capturing = s.capturing
      BY <1>2, SubmitRefused
    <3> HIDE DEF u
    <3>2. SerialOrder(u)  BY <3>1 DEF StreamInv, SerialOrder
    <3>3. OpenBatch(u)  BY <3>1 DEF OpenBatch
    <3>4. SlotTags(u)  BY <2>3, <3>1 DEF SlotTags
    <3>5. SlotExclusive(u)  BY <3>1 DEF StreamInv, SlotExclusive
    <3> QED  BY <2>4, <3>1, <3>2, <3>3, <3>4, <3>5 DEF StreamInv, u
  <2>5. CASE ok
    <3> DEFINE u == submit_locked(s, TRUE)
               sub == [serial |-> s.open_serial, slot |-> s.open_slot, cb |-> s.cb \o <<ToHost>>]
               n == Len(s.queue)
    <3>1. /\ u \in StreamType(Cmds) /\ u.queue = Append(s.queue, sub) /\ u.open_slot = NoSlot
          /\ u.slot_serial = [s.slot_serial EXCEPT ![s.open_slot] = s.open_serial]
          /\ u.submitted = s.open_serial /\ u.next_serial = s.next_serial + 1
          /\ u.timeline = s.timeline /\ u.capturing = s.capturing
      BY <1>2, SubmitAccepted
    <3>2. sub.serial = s.next_serial /\ sub.slot = s.open_slot  BY <2>1
    <3> HIDE DEF u, sub
    <3>3. /\ n \in Nat /\ DOMAIN s.queue = 1 .. n /\ DOMAIN u.queue = 1 .. n + 1
          /\ u.queue[n + 1] = sub
          /\ \A i \in DOMAIN s.queue : u.queue[i] = s.queue[i]
      BY <2>2, <3>1
    <3> HIDE DEF n
    <3>4. \A i \in DOMAIN u.queue : i \in DOMAIN s.queue \/ i = n + 1
      BY <3>3
    <3>5. SerialOrder(u)
      <4>1. u.timeline <= u.submitted /\ u.submitted < u.next_serial
        BY <2>1, <2>2, <3>1 DEF StreamInv, SerialOrder
      <4>2. ASSUME NEW i \in DOMAIN u.queue
            PROVE  u.timeline < u.queue[i].serial /\ u.queue[i].serial <= u.submitted
        <5>1. CASE i \in DOMAIN s.queue
          BY <2>1, <2>2, <3>1, <3>3, <5>1, QueueType DEF StreamInv, SerialOrder
        <5>2. CASE i = n + 1
          BY <2>1, <2>2, <3>1, <3>2, <3>3, <5>2 DEF StreamInv, SerialOrder
        <5> QED  BY <3>4, <5>1, <5>2
      <4>3. ASSUME NEW i \in DOMAIN u.queue, NEW j \in DOMAIN u.queue, i < j
            PROVE  u.queue[i].serial < u.queue[j].serial
        <5>1. i \in DOMAIN s.queue  BY <3>3, <4>3
        <5>2. CASE j \in DOMAIN s.queue
          BY <3>3, <4>3, <5>1, <5>2 DEF StreamInv, SerialOrder
        <5>3. CASE j = n + 1
          BY <2>1, <2>2, <3>2, <3>3, <5>1, <5>3, QueueType, SMTT(30) DEF StreamInv, SerialOrder
        <5> QED  BY <3>4, <5>2, <5>3
      <4> QED  BY <4>1, <4>2, <4>3 DEF SerialOrder
    <3>6. OpenBatch(u)  BY <3>1 DEF OpenBatch
    <3>7. SlotTags(u)
      <4>1. ASSUME NEW i \in DOMAIN u.queue, u.queue[i].slot # NoSlot
            PROVE  u.queue[i].serial <= u.slot_serial[u.queue[i].slot]
        <5>1. CASE i \in DOMAIN s.queue
          BY <2>3, <3>1, <3>3, <4>1, <5>1
        <5>2. CASE i = n + 1
          BY <2>1, <2>2, <3>1, <3>2, <3>3, <5>2
        <5> QED  BY <3>4, <5>1, <5>2
      <4> QED  BY <4>1 DEF SlotTags
    <3>8. SlotExclusive(u)
      <4>1. ASSUME NEW i \in DOMAIN u.queue, NEW j \in DOMAIN u.queue,
                   u.queue[i].slot # NoSlot, u.queue[i].slot = u.queue[j].slot
            PROVE  i = j
        <5>1. CASE i \in DOMAIN s.queue /\ j \in DOMAIN s.queue
          BY <3>3, <4>1, <5>1 DEF StreamInv, SlotExclusive
        <5>2. CASE i = n + 1 \/ j = n + 1
          BY <2>1, <3>2, <3>3, <3>4, <4>1, <5>2
        <5> QED  BY <3>4, <5>1, <5>2
      <4> QED  BY <3>1, <4>1 DEF SlotExclusive
    <3> QED  BY <2>5, <3>1, <3>5, <3>6, <3>7, <3>8 DEF StreamInv, u
  <2> QED  BY <2>4, <2>5
<1> QED  BY <1>1, <1>2

\* after_command_locked keeps type and invariant: it submits a full batch, cuts a full
\* capture segment, or does nothing.
LEMMA AfterCommandInv ==
    ASSUME NEW Cmds, NEW s \in StreamType(Cmds), StreamInv(s), NEW ok \in BOOLEAN
    PROVE  /\ after_command_locked(s, ok) \in StreamType(Cmds)
           /\ StreamInv(after_command_locked(s, ok))
<1> DEFINE cut == [s EXCEPT !.capture_done = Append(@, s.capture_cb)]
<1>1. cut \in StreamType(Cmds) /\ StreamInv(cut)
  <2>1. Append(s.capture_done, s.capture_cb) \in Seq(CommandBuffers(Cmds))  BY DEF StreamType
  <2>2. cut \in StreamType(Cmds)  BY <2>1 DEF StreamType
  <2>3. /\ cut.queue = s.queue /\ cut.timeline = s.timeline /\ cut.slot_serial = s.slot_serial
        /\ cut.open_slot = s.open_slot /\ cut.open_serial = s.open_serial
        /\ cut.next_serial = s.next_serial /\ cut.submitted = s.submitted
        /\ cut.work_serial = s.work_serial /\ cut.capturing = s.capturing
    BY DEF StreamType
  <2> QED  BY <2>2, <2>3, StreamInvFrame
<1> HIDE DEF cut
<1>2. /\ begin_capture_segment_locked(cut) \in StreamType(Cmds)
      /\ StreamInv(begin_capture_segment_locked(cut))
  BY <1>1, BeginSegmentInv
<1> QED  BY <1>2, SubmitLockedInv DEF after_command_locked, cut

\* A whole dispatch, copy, fill or update keeps type and invariant.
LEMMA DispatchInv ==
    ASSUME NEW Cmds, NEW s \in StreamType(Cmds), StreamInv(s), SlotReady(s),
           NEW c \in Cmds, NEW ok \in BOOLEAN
    PROVE  dispatch(s, c, ok) \in StreamType(Cmds) /\ StreamInv(dispatch(s, c, ok))
<1> DEFINE o == open_locked(s)
           r == record_command(o, c)
<1>1. o \in StreamType(Cmds) /\ StreamInv(o)  BY OpenLockedType, OpenLockedInv
<1> HIDE DEF o
<1>2. r \in StreamType(Cmds) /\ StreamInv(r)  BY <1>1, RecordCommandInv
<1> HIDE DEF r
<1> QED  BY <1>2, AfterCommandInv DEF dispatch, r, o

\* Entering capture with no batch open keeps type and invariant.
LEMMA BeginCaptureInv ==
    ASSUME NEW Cmds, NEW s \in StreamType(Cmds), StreamInv(s), NEW ok \in BOOLEAN
    PROVE  begin_capture(s, ok) \in StreamType(Cmds) /\ StreamInv(begin_capture(s, ok))
<1> DEFINE u == submit_locked(s, ok)
           v == [u EXCEPT !.capture_done = << >>, !.capturing = TRUE]
<1>1. u \in StreamType(Cmds) /\ StreamInv(u) /\ u.open_slot = NoSlot  BY SubmitLockedInv
<1> HIDE DEF u
<1>2. v \in StreamType(Cmds)
  <2>1. << >> \in Seq(CommandBuffers(Cmds)) /\ TRUE \in BOOLEAN  OBVIOUS
  <2> QED  BY <1>1, <2>1 DEF StreamType
<1>3. StreamInv(v)
  <2>1. /\ v.queue = u.queue /\ v.timeline = u.timeline /\ v.slot_serial = u.slot_serial
        /\ v.open_slot = NoSlot /\ v.next_serial = u.next_serial /\ v.submitted = u.submitted
    BY <1>1 DEF StreamType
  <2> HIDE DEF v
  <2> QED  BY <1>1, <2>1 DEF StreamInv, SerialOrder, OpenBatch, SlotTags, SlotExclusive
<1> HIDE DEF v
<1>4. /\ begin_capture_segment_locked(v) \in StreamType(Cmds)
      /\ StreamInv(begin_capture_segment_locked(v))
  BY <1>2, <1>3, BeginSegmentInv
<1> QED  BY <1>1, <1>4 DEF begin_capture, u, v

\* Leaving capture (end_capture, abort_capture) keeps type and invariant.
LEMMA LeaveCaptureInv ==
    ASSUME NEW Cmds, NEW s \in StreamType(Cmds), StreamInv(s)
    PROVE  LeaveCapture(s) \in StreamType(Cmds) /\ StreamInv(LeaveCapture(s))
<1> DEFINE u == LeaveCapture(s)
<1>1. << >> \in Seq(CommandBuffers(Cmds)) /\ << >> \in CommandBuffers(Cmds)
  BY DEF CommandBuffers
<1>2. u \in StreamType(Cmds)  BY <1>1 DEF StreamType, LeaveCapture
<1>3. /\ u.queue = s.queue /\ u.timeline = s.timeline /\ u.slot_serial = s.slot_serial
      /\ u.open_slot = s.open_slot /\ u.open_serial = s.open_serial /\ u.capturing = FALSE
      /\ u.next_serial = s.next_serial /\ u.submitted = s.submitted /\ u.work_serial = s.work_serial
  BY DEF StreamType, LeaveCapture
<1> HIDE DEF u
<1> QED  BY <1>2, <1>3 DEF StreamInv, SerialOrder, OpenBatch, SlotTags, SlotExclusive, u

\* The segments end_capture returns are command buffers.
LEMMA CapturedSegmentsType ==
    ASSUME NEW Cmds, NEW s \in StreamType(Cmds)
    PROVE  captured_segments(s) \in Seq(CommandBuffers(Cmds))
<1>1. ToHost \in Entries(Cmds)  BY DEF ToHost, Entries
<1>2. s.capture_cb \o <<ToHost>> \in CommandBuffers(Cmds)  BY <1>1 DEF CommandBuffers, StreamType
<1> QED  BY <1>2 DEF captured_segments, StreamType

\* The GPU's signal pops the oldest submission; type and invariant are kept.
LEMMA SignalInv ==
    ASSUME NEW Cmds, NEW s \in StreamType(Cmds), StreamInv(s), s.queue # << >>
    PROVE  Signal(s) \in StreamType(Cmds) /\ StreamInv(Signal(s))
<1> DEFINE u == Signal(s)
           n == Len(s.queue)
<1>1. /\ s.queue \in Seq(Submissions(Cmds)) /\ n \in Nat /\ n # 0 /\ DOMAIN s.queue = 1 .. n
      /\ Head(s.queue) = s.queue[1] /\ 1 \in DOMAIN s.queue
      /\ Tail(s.queue) \in Seq(Submissions(Cmds))
      /\ DOMAIN Tail(s.queue) = 1 .. n - 1
      /\ \A i \in 1 .. n - 1 : Tail(s.queue)[i] = s.queue[i + 1] /\ i + 1 \in DOMAIN s.queue
  BY DEF StreamType
<1>2. s.queue[1].serial \in Nat  BY <1>1, QueueType
<1>3. u \in StreamType(Cmds)
  BY <1>1, <1>2 DEF StreamType, Signal
<1>4. /\ u.queue = Tail(s.queue) /\ u.timeline = s.queue[1].serial /\ u.slot_serial = s.slot_serial
      /\ u.open_slot = s.open_slot /\ u.open_serial = s.open_serial /\ u.capturing = s.capturing
      /\ u.next_serial = s.next_serial /\ u.submitted = s.submitted /\ u.work_serial = s.work_serial
  BY <1>1 DEF StreamType, Signal
<1> HIDE DEF u, n
<1>5. s.timeline < s.queue[1].serial /\ s.queue[1].serial <= s.submitted
  BY <1>1 DEF StreamInv, SerialOrder
<1>6. SerialOrder(u)
  <2>1. u.timeline <= u.submitted /\ u.submitted < u.next_serial
    BY <1>4, <1>5 DEF StreamInv, SerialOrder
  <2>2. ASSUME NEW i \in DOMAIN u.queue
        PROVE  u.timeline < u.queue[i].serial /\ u.queue[i].serial <= u.submitted
    <3>1. u.queue[i] = s.queue[i + 1] /\ i + 1 \in DOMAIN s.queue /\ 1 < i + 1  BY <1>1, <1>4
    <3> QED  BY <1>1, <1>4, <3>1 DEF StreamInv, SerialOrder
  <2>3. ASSUME NEW i \in DOMAIN u.queue, NEW j \in DOMAIN u.queue, i < j
        PROVE  u.queue[i].serial < u.queue[j].serial
    <3>1. /\ u.queue[i] = s.queue[i + 1] /\ i + 1 \in DOMAIN s.queue
          /\ u.queue[j] = s.queue[j + 1] /\ j + 1 \in DOMAIN s.queue /\ i + 1 < j + 1
      BY <1>1, <1>4, <2>3
    <3> QED  BY <3>1 DEF StreamInv, SerialOrder
  <2> QED  BY <2>1, <2>2, <2>3 DEF SerialOrder
<1>7. OpenBatch(u)
  <2>1. s.open_slot # NoSlot => s.slot_serial[s.open_slot] \in Nat  BY DEF StreamType
  <2>2. s.timeline \in Nat  BY DEF StreamType
  <2> QED  BY <1>2, <1>4, <1>5, <2>1, <2>2 DEF StreamInv, OpenBatch
<1>8. SlotTags(u)
  <2>1. ASSUME NEW i \in DOMAIN u.queue
        PROVE  u.queue[i] = s.queue[i + 1] /\ i + 1 \in DOMAIN s.queue
    BY <1>1, <1>4
  <2> QED  BY <1>4, <2>1 DEF StreamInv, SlotTags
<1>9. SlotExclusive(u)
  <2>1. ASSUME NEW i \in DOMAIN u.queue
        PROVE  u.queue[i] = s.queue[i + 1] /\ i + 1 \in DOMAIN s.queue /\ i \in Int
    BY <1>1, <1>4
  <2>2. u.open_slot # NoSlot => \A i \in DOMAIN u.queue : u.queue[i].slot # u.open_slot
    BY <1>4, <2>1 DEF StreamInv, SlotExclusive
  <2>3. ASSUME NEW i \in DOMAIN u.queue, NEW j \in DOMAIN u.queue,
               u.queue[i].slot # NoSlot, u.queue[i].slot = u.queue[j].slot
        PROVE  i = j
    <3>1. i + 1 = j + 1  BY <2>1, <2>3 DEF StreamInv, SlotExclusive
    <3> QED  BY <2>1, <3>1
  <2> QED  BY <2>2, <2>3 DEF SlotExclusive
<1> QED  BY <1>3, <1>6, <1>7, <1>8, <1>9 DEF StreamInv, u

\* launch after the open batch was submitted: the segments take the next serials in turn.
LEMMA LaunchSegmentsInv ==
    ASSUME NEW Cmds, NEW s \in StreamType(Cmds), StreamInv(s), s.open_slot = NoSlot,
           NEW cbs \in Seq(CommandBuffers(Cmds)), NEW n \in 0 .. Len(cbs)
    PROVE  launch_segments(s, cbs, n) \in StreamType(Cmds) /\ StreamInv(launch_segments(s, cbs, n))
<1> DEFINE taken == IF n < Len(cbs) THEN n + 1 ELSE n
           segs == [i \in 1 .. n |-> [serial |-> s.next_serial + i - 1, slot |-> NoSlot, cb |-> cbs[i]]]
           sub == IF n = 0 THEN s.submitted ELSE s.next_serial + n - 1
           u == launch_segments(s, cbs, n)
           m == Len(s.queue)
<1>1. /\ s.next_serial \in Nat /\ s.submitted \in Nat /\ s.timeline \in Nat
      /\ s.queue \in Seq(Submissions(Cmds)) /\ Len(cbs) \in Nat /\ n \in Nat /\ taken \in Nat
      /\ n <= taken
  BY DEF StreamType
<1>2. /\ s.timeline <= s.submitted /\ s.submitted < s.next_serial
      /\ s.timeline < s.next_serial
  BY <1>1 DEF StreamInv, SerialOrder
<1>3. segs \in Seq(Submissions(Cmds)) /\ Len(segs) = n
  <2>1. ASSUME NEW i \in 1 .. n
        PROVE  [serial |-> s.next_serial + i - 1, slot |-> NoSlot, cb |-> cbs[i]] \in Submissions(Cmds)
    <3>1. i \in 1 .. Len(cbs)  BY <1>1
    <3>2. cbs[i] \in CommandBuffers(Cmds)  BY <3>1
    <3>3. s.next_serial + i - 1 \in Nat  BY <1>1
    <3> QED  BY <3>2, <3>3 DEF Submissions
  <2> QED  BY <1>1, <2>1
<1>4. \A i \in 1 .. n : segs[i].serial = s.next_serial + i - 1 /\ segs[i].slot = NoSlot
  OBVIOUS
<1>5. sub \in Nat /\ s.next_serial + taken - 1 \in Nat /\ s.next_serial + taken \in Nat
  BY <1>1, <1>2
<1>6. u = [s EXCEPT !.queue = s.queue \o segs, !.submitted = sub,
                    !.work_serial = s.next_serial + taken - 1,
                    !.next_serial = s.next_serial + taken]
  BY DEF launch_segments
<1> HIDE DEF segs, sub, taken, u
<1>7. s.queue \o segs \in Seq(Submissions(Cmds))  BY <1>1, <1>3
<1>8. u \in StreamType(Cmds)  BY <1>5, <1>6, <1>7 DEF StreamType
<1>9. /\ u.queue = s.queue \o segs /\ u.submitted = sub /\ u.next_serial = s.next_serial + taken
      /\ u.timeline = s.timeline /\ u.slot_serial = s.slot_serial /\ u.open_slot = NoSlot
  BY <1>6 DEF StreamType
<1>10. /\ m \in Nat /\ DOMAIN s.queue = 1 .. m /\ DOMAIN u.queue = 1 .. m + n
       /\ \A i \in 1 .. m : u.queue[i] = s.queue[i]
       /\ \A i \in m + 1 .. m + n : u.queue[i] = segs[i - m]
  <2>1. m \in Nat /\ DOMAIN s.queue = 1 .. m  BY <1>1
  <2>2. u.queue \in Seq(Submissions(Cmds)) /\ Len(u.queue) = m + n
    <3>1. Len(s.queue \o segs) = Len(s.queue) + Len(segs)  BY <1>1, <1>3, ConcatProperties
    <3> QED  BY <1>3, <1>7, <1>9, <3>1
  <2>3. DOMAIN u.queue = 1 .. m + n  BY <2>2
  <2>4. \A i \in 1 .. m : u.queue[i] = s.queue[i]  BY <1>1, <1>3, <1>9
  <2>5. \A i \in m + 1 .. m + n : u.queue[i] = segs[i - m]  BY <1>1, <1>3, <1>9
  <2> QED  BY <2>1, <2>3, <2>4, <2>5
<1> HIDE DEF m
<1>11. ASSUME NEW i \in m + 1 .. m + n
       PROVE  u.queue[i].serial = s.next_serial + (i - m) - 1 /\ u.queue[i].slot = NoSlot
  <2>1. i - m \in 1 .. n  BY <1>1, <1>10
  <2> QED  BY <1>4, <1>10, <2>1
<1>12. \A i \in DOMAIN u.queue : i \in Int /\ (i \in 1 .. m \/ i \in m + 1 .. m + n)  BY <1>1, <1>10
<1>13. SerialOrder(u)
  <2>1. u.timeline <= u.submitted /\ u.submitted < u.next_serial
    BY <1>1, <1>2, <1>9 DEF sub, taken
  <2>2. ASSUME NEW i \in DOMAIN u.queue
        PROVE  u.timeline < u.queue[i].serial /\ u.queue[i].serial <= u.submitted
    <3>1. CASE i \in 1 .. m
      <4>1. s.timeline < s.queue[i].serial /\ s.queue[i].serial <= s.submitted /\ s.queue[i].serial \in Nat
        BY <1>10, <3>1, QueueType DEF StreamInv, SerialOrder
      <4>2. s.submitted <= sub  BY <1>1, <1>2 DEF sub
      <4>3. u.queue[i] = s.queue[i]  BY <1>10, <3>1
      <4>4. s.submitted \in Nat /\ sub \in Nat  BY <1>1, <1>5
      <4>5. s.queue[i].serial <= sub  BY <4>1, <4>2, <4>4
      <4> QED  BY <1>9, <4>1, <4>3, <4>5
    <3>2. CASE i \in m + 1 .. m + n
      <4>1. u.queue[i].serial = s.next_serial + (i - m) - 1  BY <1>11, <3>2
      <4>2. i - m \in 1 .. n  BY <1>1, <1>10, <3>2
      <4>3. sub = s.next_serial + n - 1  BY <1>1, <4>2 DEF sub
      <4>4. PICK k \in 1 .. n : k = i - m  BY <4>2
      <4>5. /\ s.timeline < s.next_serial + k - 1
            /\ s.next_serial + k - 1 <= s.next_serial + n - 1
        BY <1>1, <1>2
      <4>6. u.queue[i].serial = s.next_serial + k - 1  BY <4>1, <4>4
      <4> QED  BY <1>9, <4>3, <4>5, <4>6
    <3> QED  BY <1>12, <3>1, <3>2
  <2>3. ASSUME NEW i \in DOMAIN u.queue, NEW j \in DOMAIN u.queue, i < j
        PROVE  u.queue[i].serial < u.queue[j].serial
    <3>1. CASE i \in 1 .. m /\ j \in 1 .. m
      BY <1>10, <2>3, <3>1 DEF StreamInv, SerialOrder
    <3>2. CASE i \in 1 .. m /\ j \in m + 1 .. m + n
      <4>1. s.queue[i].serial <= s.submitted /\ s.queue[i].serial \in Nat
        BY <1>10, <3>2, QueueType DEF StreamInv, SerialOrder
      <4>2. u.queue[i] = s.queue[i]  BY <1>10, <3>2
      <4>3. u.queue[j].serial = s.next_serial + (j - m) - 1  BY <1>11, <3>2
      <4>4. j - m \in 1 .. n  BY <1>1, <1>10, <3>2
      <4> QED  BY <1>1, <1>2, <4>1, <4>2, <4>3, <4>4
    <3>3. CASE i \in m + 1 .. m + n /\ j \in m + 1 .. m + n
      <4>1. /\ u.queue[i].serial = s.next_serial + (i - m) - 1
            /\ u.queue[j].serial = s.next_serial + (j - m) - 1
        BY <1>11, <3>3
      <4>2. i \in Int /\ j \in Int /\ m \in Int  BY <1>10, <1>12
      <4> QED  BY <1>1, <2>3, <4>1, <4>2
    <3> QED  BY <1>1, <1>10, <1>12, <2>3, <3>1, <3>2, <3>3
  <2> QED  BY <2>1, <2>2, <2>3 DEF SerialOrder
<1>14. OpenBatch(u)  BY <1>9 DEF OpenBatch
<1>15. SlotTags(u)
  <2>1. ASSUME NEW i \in DOMAIN u.queue, u.queue[i].slot # NoSlot
        PROVE  u.queue[i].serial <= u.slot_serial[u.queue[i].slot]
    <3>1. i \in 1 .. m  BY <1>11, <1>12, <2>1
    <3> QED  BY <1>9, <1>10, <2>1, <3>1 DEF StreamInv, SlotTags
  <2> QED  BY <2>1 DEF SlotTags
<1>16. SlotExclusive(u)
  <2>1. ASSUME NEW i \in DOMAIN u.queue, NEW j \in DOMAIN u.queue,
               u.queue[i].slot # NoSlot, u.queue[i].slot = u.queue[j].slot
        PROVE  i = j
    <3>1. i \in 1 .. m /\ j \in 1 .. m  BY <1>11, <1>12, <2>1
    <3> QED  BY <1>10, <2>1, <3>1 DEF StreamInv, SlotExclusive
  <2> QED  BY <1>9, <2>1 DEF SlotExclusive
<1> QED  BY <1>8, <1>13, <1>14, <1>15, <1>16 DEF StreamInv, u

\* A launch keeps type and invariant, wherever the driver refuses it.
LEMMA LaunchInv ==
    ASSUME NEW Cmds, NEW s \in StreamType(Cmds), StreamInv(s), NEW ok \in BOOLEAN,
           NEW cbs \in Seq(CommandBuffers(Cmds)), NEW n \in 0 .. Len(cbs)
    PROVE  launch(s, cbs, ok, n) \in StreamType(Cmds) /\ StreamInv(launch(s, cbs, ok, n))
<1> DEFINE u == submit_locked(s, ok)
<1>1. u \in StreamType(Cmds) /\ StreamInv(u) /\ u.open_slot = NoSlot  BY SubmitLockedInv
<1> HIDE DEF u
<1>2. launch_segments(u, cbs, n) \in StreamType(Cmds) /\ StreamInv(launch_segments(u, cbs, n))
  BY <1>1, LaunchSegmentsInv
<1> QED  BY <1>1, <1>2 DEF launch, u

\* The serial launch returns is a serial.
LEMMA LaunchSerialType ==
    ASSUME NEW Cmds, NEW s \in StreamType(Cmds), StreamInv(s), NEW cbs \in Seq(CommandBuffers(Cmds))
    PROVE  launch_serial(s, cbs) \in Nat
<1> DEFINE u == submit_locked(s, TRUE)
<1>1. u \in StreamType(Cmds) /\ StreamInv(u)  BY SubmitLockedInv
<1> HIDE DEF u
<1>2. u.next_serial \in Nat /\ u.submitted \in Nat /\ u.submitted < u.next_serial
  BY <1>1 DEF StreamType, StreamInv, SerialOrder
<1>3. Len(cbs) \in Nat  OBVIOUS
<1>4. u.next_serial + Len(cbs) - 1 \in Nat  BY <1>2, <1>3
<1> QED  BY <1>4 DEF launch_serial, u

\* Stream::wait's locked part is a submission or nothing.
LEMMA WaitSubmitInv ==
    ASSUME NEW Cmds, NEW s \in StreamType(Cmds), StreamInv(s), NEW ok \in BOOLEAN, NEW serial
    PROVE  wait_submit(s, serial, ok) \in StreamType(Cmds) /\ StreamInv(wait_submit(s, serial, ok))
BY SubmitLockedInv DEF wait_submit

\* A new stream satisfies the invariant.
LEMMA InitStreamInv ==
    ASSUME NEW Cmds
    PROVE  InitStream \in StreamType(Cmds) /\ StreamInv(InitStream)
<1>1. InitStream \in StreamType(Cmds)
  BY DEF InitStream, StreamType, CommandBuffers, NoSlot
<1>2. StreamInv(InitStream)
  <2>1. /\ InitStream.queue = << >> /\ InitStream.open_slot = NoSlot
        /\ InitStream.timeline = 0 /\ InitStream.submitted = 0 /\ InitStream.next_serial = 1
    BY DEF InitStream
  <2>2. DOMAIN InitStream.queue = {}  BY <2>1
  <2> QED  BY <2>1, <2>2 DEF StreamInv, SerialOrder, OpenBatch, SlotTags, SlotExclusive
<1> QED  BY <1>1, <1>2
=============================================================================
