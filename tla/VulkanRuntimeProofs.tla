------------------------- MODULE VulkanRuntimeProofs -------------------------
(***************************************************************************)
(* Theorems about VulkanRuntime, the stream, the allocator, the transfers  *)
(* and the graph objects together, for any number of threads, blocks,      *)
(* ranges, slots and commands.                                             *)
(*                                                                         *)
(* Covered(s, A, n), that every command on the memory A has a serial of at *)
(* most n, is what the three objects agree on: the tag of a deferred block *)
(* covers the block, the serial a transfer or a trim waits for covers what *)
(* it will touch, and the signal of a serial takes it out of the queue.    *)
(*                                                                         *)
(* RuntimeInv (types, whose the calls, the capture and the graph are, who  *)
(* frees each allocation) and HostInv hold whatever the clients do.  The   *)
(* memory of recordings and of pending commands needs the clients to keep  *)
(* clear of the windows that Unguarded names, where the code has none of   *)
(* its locks: WindowInv says that they do.                                 *)
(***************************************************************************)
EXTENDS VulkanRuntime, VulkanStreamProofs, FiniteSetTheorems

-----------------------------------------------------------------------------
(***************************************************************************)
(* The commands recorded in a command buffer.                              *)
(***************************************************************************)

\* A command buffer holds commands of the set it was given.
LEMMA CommandsInType ==
    ASSUME NEW Cmds, NEW cb \in CommandBuffers(Cmds)
    PROVE  CommandsIn(cb) \subseteq Cmds
<1> SUFFICES ASSUME NEW i \in DOMAIN cb, IsCommand(cb[i]) PROVE cb[i].arg \in Cmds
  BY DEF CommandsIn
<1>1. cb[i] \in Entries(Cmds)  BY DEF CommandBuffers
<1>2. cb[i] \notin [op : {"barrier", "to_host"}]  BY DEF IsCommand
<1> QED  BY <1>1, <1>2 DEF Entries

\* An empty buffer, and one with a barrier only, hold no command.
LEMMA CommandsInEmpty ==
    CommandsIn(<< >>) = {} /\ CommandsIn(<<Barrier>>) = {} /\ CommandsIn(<<ToHost>>) = {}
<1>1. CommandsIn(<< >>) = {}  BY DEF CommandsIn
<1>2. CommandsIn(<<Barrier>>) = {}  BY DEF CommandsIn, IsCommand, Barrier
<1>3. CommandsIn(<<ToHost>>) = {}  BY DEF CommandsIn, IsCommand, ToHost
<1> QED  BY <1>1, <1>2, <1>3

\* What record_command appends is one command.
LEMMA CommandsInOne ==
    ASSUME NEW c
    PROVE  CommandsIn(<<Command(c)>>) = {c} /\ CommandsIn(<<Barrier, Command(c)>>) = {c}
<1>1. IsCommand(Command(c)) /\ Command(c).arg = c /\ ~IsCommand(Barrier)
  BY DEF IsCommand, Command, Barrier
<1>2. CommandsIn(<<Command(c)>>) = {c}
  <2>1. {j \in DOMAIN <<Command(c)>> : IsCommand(<<Command(c)>>[j])} = {1}  BY <1>1
  <2> QED  BY <1>1, <2>1 DEF CommandsIn
<1>3. CommandsIn(<<Barrier, Command(c)>>) = {c}
  <2> DEFINE two == <<Barrier, Command(c)>>
  <2>1. DOMAIN two = 1 .. 2 /\ two[1] = Barrier /\ two[2] = Command(c)  OBVIOUS
  <2>2. {j \in DOMAIN two : IsCommand(two[j])} = {2}  BY <1>1, <2>1
  <2> HIDE DEF two
  <2> QED  BY <1>1, <2>1, <2>2 DEF CommandsIn, two
<1> QED  BY <1>2, <1>3

\* Appending entries to a buffer adds their commands.
LEMMA CommandsInConcat ==
    ASSUME NEW S, NEW cb \in Seq(S), NEW e \in Seq(S)
    PROVE  CommandsIn(cb \o e) = CommandsIn(cb) \cup CommandsIn(e)
<1> DEFINE m == Len(cb)
           n == Len(e)
           w == cb \o e
<1>1. /\ m \in Nat /\ n \in Nat /\ DOMAIN cb = 1 .. m /\ DOMAIN e = 1 .. n /\ DOMAIN w = 1 .. m + n
      /\ \A i \in 1 .. m : w[i] = cb[i]
      /\ \A i \in 1 .. n : w[m + i] = e[i]
  <2>1. w \in Seq(S) /\ Len(w) = m + n  BY ConcatProperties
  <2>2. \A i \in 1 .. m : w[i] = cb[i]  OBVIOUS
  <2>3. \A i \in 1 .. n : w[m + i] = e[i]
    <3> TAKE i \in 1 .. n
    <3>1. m + i > m /\ m + i <= m + n /\ m + i - m = i /\ m + i \in 1 .. m + n  OBVIOUS
    <3> QED  BY <3>1, ConcatProperties
  <2> QED  BY <2>1, <2>2, <2>3
<1> HIDE DEF m, n, w
<1>2. ASSUME NEW i \in DOMAIN w PROVE i \in DOMAIN cb \/ \E j \in DOMAIN e : i = m + j
  <2>1. i \in 1 .. m \/ i - m \in 1 .. n  BY <1>1
  <2>2. i = m + (i - m)  BY <1>1
  <2> QED  BY <1>1, <2>1, <2>2
<1>3. CommandsIn(w) \subseteq CommandsIn(cb) \cup CommandsIn(e)
  BY <1>1, <1>2 DEF CommandsIn
<1>4. CommandsIn(cb) \subseteq CommandsIn(w)
  <2>1. \A i \in DOMAIN cb : i \in DOMAIN w  BY <1>1
  <2> QED  BY <1>1, <2>1 DEF CommandsIn
<1>5. CommandsIn(e) \subseteq CommandsIn(w)
  <2>1. \A i \in DOMAIN e : m + i \in DOMAIN w  BY <1>1
  <2> QED  BY <1>1, <2>1 DEF CommandsIn
<1> QED  BY <1>3, <1>4, <1>5 DEF w

-----------------------------------------------------------------------------
(***************************************************************************)
(* The stream's operations, with what VulkanRuntime needs beyond StreamInv:*)
(* which commands are pending, under which serials, and which are captured.*)
(***************************************************************************)

\* Commands are in the open batch, or in the recording, only while there is one; nothing is
\* submitted that was not announced as work.
StreamRest(s) ==
    /\ s.submitted <= s.work_serial
    /\ s.open_slot = NoSlot => s.cb = << >>
    /\ ~s.capturing => s.capture_cb = << >> /\ s.capture_done = << >>

\* A stream of this runtime.
StreamOK(s) == s \in StreamType(DeviceCommands) /\ StreamInv(s) /\ StreamRest(s)

\* Every command on an address of A that the GPU has yet to execute has a serial of at most n.
Covered(s, A, n) ==
    /\ \A k \in DOMAIN s.queue : \A c \in CommandsIn(s.queue[k].cb) :
           c.addr \in A => s.queue[k].serial <= n
    /\ \A c \in CommandsIn(s.cb) : c.addr \in A => s.open_serial <= n

\* The commands of the recording.
CaptureCommands(s) ==
    CommandsIn(s.capture_cb) \cup UNION {CommandsIn(s.capture_done[k]) : k \in DOMAIN s.capture_done}

\* What the GPU has and what the recording holds, left alone.
SameRecording(s, u) ==
    /\ u.capturing = s.capturing
    /\ u.capture_cb = s.capture_cb
    /\ u.capture_done = s.capture_done

\* Nothing recorded has a serial the GPU has signalled: serial 0 covers no command, and
\* neither does the timeline's value.
LEMMA CoveredDone ==
    ASSUME NEW s, StreamOK(s), NEW A, NEW n \in Nat, Covered(s, A, n), n <= s.timeline
    PROVE  Covered(s, A, 0)
<1>1. s.timeline \in Nat /\ s.submitted \in Nat /\ s.next_serial \in Nat
  BY DEF StreamOK, StreamType
<1>2. ASSUME NEW k \in DOMAIN s.queue PROVE ~(s.queue[k].serial <= n)
  BY <1>1, QueueType DEF StreamOK, StreamInv, SerialOrder
<1>3. ASSUME NEW c \in CommandsIn(s.cb) PROVE ~(s.open_serial <= n)
  <2>1. s.open_slot # NoSlot  BY CommandsInEmpty DEF StreamOK, StreamRest
  <2>2. s.open_serial = s.next_serial  BY <2>1 DEF StreamOK, StreamInv, OpenBatch
  <2> QED  BY <1>1, <2>2 DEF StreamOK, StreamInv, SerialOrder
<1> QED  BY <1>2, <1>3 DEF Covered

\* What serial 0 covers is not used by any command.
LEMMA CoveredUnused ==
    ASSUME NEW s, StreamOK(s), NEW A, Covered(s, A, 0)
    PROVE  /\ \A k \in DOMAIN s.queue : \A c \in CommandsIn(s.queue[k].cb) : c.addr \notin A
           /\ \A c \in CommandsIn(s.cb) : c.addr \notin A
<1>1. s.timeline \in Nat /\ s.submitted \in Nat /\ s.next_serial \in Nat
  BY DEF StreamOK, StreamType
<1>2. ASSUME NEW k \in DOMAIN s.queue PROVE ~(s.queue[k].serial <= 0)
  BY <1>1, QueueType DEF StreamOK, StreamInv, SerialOrder
<1>3. ASSUME NEW c \in CommandsIn(s.cb) PROVE ~(s.open_serial <= 0)
  <2>1. s.open_slot # NoSlot  BY CommandsInEmpty DEF StreamOK, StreamRest
  <2>2. s.open_serial = s.next_serial  BY <2>1 DEF StreamOK, StreamInv, OpenBatch
  <2> QED  BY <1>1, <2>2 DEF StreamOK, StreamInv, SerialOrder
<1> QED  BY <1>2, <1>3 DEF Covered

\* A later serial, and a smaller set, are covered as well.
LEMMA CoveredMore ==
    ASSUME NEW s, StreamOK(s), NEW A, NEW n \in Nat, Covered(s, A, n),
           NEW B, B \subseteq A, NEW m \in Nat, n <= m
    PROVE  Covered(s, B, m)
<1>1. \A k \in DOMAIN s.queue : s.queue[k].serial \in Nat  BY QueueType DEF StreamOK
<1>2. s.open_serial \in Nat  BY DEF StreamOK, StreamType
<1> QED  BY <1>1, <1>2 DEF Covered

\* Every command recorded so far is covered by the work serial (what Allocator::free tags
\* with), and once no batch is open by the submitted serial (what sync waits for).
LEMMA CoveredByWork ==
    ASSUME NEW s, StreamOK(s), NEW A
    PROVE  /\ Covered(s, A, s.work_serial)
           /\ s.open_slot = NoSlot => Covered(s, A, s.submitted)
<1>1. s.submitted \in Nat /\ s.work_serial \in Nat /\ s.open_serial \in Nat /\ s.next_serial \in Nat
  BY DEF StreamOK, StreamType
<1>2. ASSUME NEW k \in DOMAIN s.queue
      PROVE  s.queue[k].serial <= s.submitted /\ s.queue[k].serial <= s.work_serial
  BY <1>1, QueueType DEF StreamOK, StreamInv, SerialOrder, StreamRest
<1>3. ASSUME NEW c \in CommandsIn(s.cb) PROVE s.open_slot # NoSlot /\ s.open_serial <= s.work_serial
  <2>1. s.open_slot # NoSlot  BY CommandsInEmpty DEF StreamOK, StreamRest
  <2>2. s.open_serial = s.next_serial /\ s.work_serial = s.next_serial
    BY <2>1 DEF StreamOK, StreamInv, OpenBatch
  <2> QED  BY <1>1, <2>1, <2>2
<1> QED  BY <1>2, <1>3 DEF Covered

\* open_locked opens an empty batch.
LEMMA OpenEffect ==
    ASSUME NEW s, StreamOK(s), SlotReady(s)
    PROVE  LET u == open_locked(s)
           IN  /\ StreamOK(u)
               /\ u.capturing \/ u.open_slot # NoSlot
               /\ SameRecording(s, u)
               /\ u.timeline = s.timeline
               /\ \A A, n : Covered(s, A, n) => Covered(u, A, n)
<1> DEFINE u == open_locked(s)
<1>0. s \in StreamType(DeviceCommands) /\ StreamInv(s) /\ StreamRest(s)  BY DEF StreamOK
<1>1. u \in StreamType(DeviceCommands) /\ StreamInv(u) /\ (u.capturing \/ u.open_slot # NoSlot)
  BY <1>0, OpenLockedType, OpenLockedInv
<1>2. CASE s.capturing \/ s.open_slot # NoSlot
  <2>1. u = s  BY <1>2 DEF open_locked
  <2> QED  BY <1>1, <2>1 DEF SameRecording
<1>3. CASE ~(s.capturing \/ s.open_slot # NoSlot)
  <2>1. /\ u.queue = s.queue /\ u.cb = <<Barrier>> /\ u.submitted = s.submitted
        /\ u.work_serial = s.next_serial /\ u.timeline = s.timeline
        /\ u.open_slot = NextSlot(s)
        /\ SameRecording(s, u)
    BY <1>0, <1>3 DEF open_locked, StreamType, SameRecording
  <2>2. u.open_slot # NoSlot
    BY <1>0, <2>1, NextSlotType, SlotNotNoSlot DEF StreamType
  <2>3. s.submitted < s.next_serial /\ s.submitted \in Nat /\ s.next_serial \in Nat
    BY <1>0 DEF StreamInv, SerialOrder, StreamType
  <2> HIDE DEF u
  <2>4. StreamRest(u)  BY <1>0, <2>1, <2>2, <2>3 DEF StreamRest, SameRecording
  <2>5. \A A, n : Covered(s, A, n) => Covered(u, A, n)
    BY <2>1, CommandsInEmpty DEF Covered
  <2> QED  BY <1>1, <2>1, <2>4, <2>5 DEF StreamOK, u
<1> QED  BY <1>2, <1>3

\* record_command adds one command, to the recording or to the open batch.
LEMMA RecordEffect ==
    ASSUME NEW s, StreamOK(s), s.capturing \/ s.open_slot # NoSlot, NEW c \in DeviceCommands
    PROVE  LET u == record_command(s, c)
           IN  /\ StreamOK(u)
               /\ u.capturing = s.capturing
               /\ u.timeline = s.timeline
               /\ CaptureCommands(u) \subseteq CaptureCommands(s) \cup {c}
               /\ ~s.capturing => CaptureCommands(u) = CaptureCommands(s)
               /\ \A A, n : Covered(s, A, n) /\ c.addr \notin A => Covered(u, A, n)
<1> DEFINE e == IF s.need_barrier THEN <<Barrier, Command(c)>> ELSE <<Command(c)>>
           u == record_command(s, c)
<1>0. s \in StreamType(DeviceCommands) /\ StreamInv(s) /\ StreamRest(s)  BY DEF StreamOK
<1>1. u \in StreamType(DeviceCommands) /\ StreamInv(u)  BY <1>0, RecordCommandInv
<1>2. CommandsIn(e) = {c}  BY CommandsInOne
<1>3. e \in CommandBuffers(DeviceCommands)
  <2>1. Barrier \in Entries(DeviceCommands) /\ Command(c) \in Entries(DeviceCommands)
    BY DEF Barrier, Command, Entries
  <2> QED  BY <2>1 DEF CommandBuffers
<1> HIDE DEF e
<1>4. u = IF s.capturing
        THEN [[s EXCEPT !.need_barrier = TRUE, !.ops_in_batch = @ + 1] EXCEPT !.capture_cb = @ \o e]
        ELSE [[s EXCEPT !.need_barrier = TRUE, !.ops_in_batch = @ + 1] EXCEPT !.cb = @ \o e]
  BY DEF record_command, e
<1>5. /\ u.queue = s.queue /\ u.open_serial = s.open_serial /\ u.open_slot = s.open_slot
      /\ u.submitted = s.submitted /\ u.work_serial = s.work_serial /\ u.timeline = s.timeline
      /\ u.capturing = s.capturing /\ u.capture_done = s.capture_done
      /\ u.cb = IF s.capturing THEN s.cb ELSE s.cb \o e
      /\ u.capture_cb = IF s.capturing THEN s.capture_cb \o e ELSE s.capture_cb
  BY <1>0, <1>4 DEF StreamType
<1> HIDE DEF u
<1>6. /\ CommandsIn(u.cb) \subseteq CommandsIn(s.cb) \cup {c}
      /\ CommandsIn(u.capture_cb) \subseteq CommandsIn(s.capture_cb) \cup {c}
  <2>1. s.cb \in Seq(Entries(DeviceCommands)) /\ s.capture_cb \in Seq(Entries(DeviceCommands))
        /\ e \in Seq(Entries(DeviceCommands))
    BY <1>0, <1>3 DEF StreamType, CommandBuffers
  <2> QED  BY <1>2, <1>5, <2>1, CommandsInConcat
<1>7. StreamRest(u)
  <2>1. s.open_slot # NoSlot => ~s.capturing  BY <1>0 DEF StreamInv, OpenBatch
  <2> QED  BY <1>0, <1>5, <2>1 DEF StreamRest
<1>8. \A A, n : Covered(s, A, n) /\ c.addr \notin A => Covered(u, A, n)
  BY <1>5, <1>6 DEF Covered
<1>9. CaptureCommands(u) \subseteq CaptureCommands(s) \cup {c}  BY <1>5, <1>6 DEF CaptureCommands
<1>10. ~s.capturing => CaptureCommands(u) = CaptureCommands(s)  BY <1>5 DEF CaptureCommands
<1> QED  BY <1>1, <1>5, <1>7, <1>8, <1>9, <1>10 DEF StreamOK, u

\* submit_locked moves the open batch into the queue, under the serial it had.
LEMMA SubmitEffect ==
    ASSUME NEW s, StreamOK(s)
    PROVE  LET u == submit_locked(s, TRUE)
           IN  /\ StreamOK(u)
               /\ u.open_slot = NoSlot
               /\ SameRecording(s, u)
               /\ u.timeline = s.timeline
               /\ \A A, n : Covered(s, A, n) => Covered(u, A, n)
<1> DEFINE u == submit_locked(s, TRUE)
<1>0. s \in StreamType(DeviceCommands) /\ StreamInv(s) /\ StreamRest(s)  BY DEF StreamOK
<1>1. u \in StreamType(DeviceCommands) /\ StreamInv(u) /\ u.open_slot = NoSlot
  BY <1>0, SubmitLockedInv
<1>2. CASE s.open_slot = NoSlot
  <2>1. u = s  BY <1>2 DEF submit_locked
  <2> QED  BY <1>2, <2>1 DEF SameRecording
<1>3. CASE s.open_slot # NoSlot
  <2> DEFINE sub == [serial |-> s.open_serial, slot |-> s.open_slot, cb |-> s.cb \o <<ToHost>>]
             n == Len(s.queue)
  <2>1. u.queue = Append(s.queue, sub) /\ u.submitted = s.open_serial
        /\ u.timeline = s.timeline /\ u.work_serial = s.work_serial
    BY <1>0, <1>3, SubmitAccepted
  <2>2. u.cb = << >> /\ SameRecording(s, u)
    BY <1>0, <1>3 DEF submit_locked, submit_cb_locked, StreamType, SameRecording
  <2> HIDE DEF u
  <2>3. CommandsIn(sub.cb) = CommandsIn(s.cb) /\ sub.serial = s.open_serial
    <3>1. s.cb \in Seq(Entries(DeviceCommands)) /\ <<ToHost>> \in Seq(Entries(DeviceCommands))
      BY <1>0 DEF StreamType, CommandBuffers, ToHost, Entries
    <3>2. CommandsIn(s.cb \o <<ToHost>>) = CommandsIn(s.cb) \cup CommandsIn(<<ToHost>>)
      BY <3>1, CommandsInConcat
    <3> QED  BY <3>2, CommandsInEmpty
  <2> HIDE DEF sub
  <2>4. StreamRest(u)
    <3>1. s.open_serial = s.work_serial  BY <1>0, <1>3 DEF StreamInv, OpenBatch
    <3>2. s.work_serial \in Nat  BY <1>0 DEF StreamType
    <3> QED  BY <1>0, <2>1, <2>2, <3>1, <3>2 DEF StreamRest, SameRecording
  <2>5. /\ n \in Nat /\ DOMAIN s.queue = 1 .. n /\ DOMAIN u.queue = 1 .. n + 1
        /\ u.queue[n + 1] = sub /\ \A k \in 1 .. n : u.queue[k] = s.queue[k]
    BY <1>0, <2>1 DEF StreamType
  <2> HIDE DEF n
  <2>6. \A k \in DOMAIN u.queue : k \in DOMAIN s.queue \/ k = n + 1  BY <2>5
  <2>7. \A A, m : Covered(s, A, m) => Covered(u, A, m)
    BY <2>2, <2>3, <2>5, <2>6, CommandsInEmpty DEF Covered
  <2> QED  BY <1>1, <2>1, <2>2, <2>4, <2>7 DEF StreamOK, u
<1> QED  BY <1>2, <1>3

\* begin_capture_segment_locked forgets the segment that capture_cb_ held; the caller has put
\* it on the list, or there was none.
LEMMA SegmentEffect ==
    ASSUME NEW s, s \in StreamType(DeviceCommands), StreamInv(s), s.capturing,
           s.submitted <= s.work_serial, s.open_slot = NoSlot => s.cb = << >>
    PROVE  LET u == begin_capture_segment_locked(s)
           IN  /\ StreamOK(u)
               /\ u.capturing
               /\ u.timeline = s.timeline
               /\ CaptureCommands(u) =
                      UNION {CommandsIn(s.capture_done[k]) : k \in DOMAIN s.capture_done}
               /\ \A A, n : Covered(s, A, n) => Covered(u, A, n)
<1> DEFINE u == begin_capture_segment_locked(s)
<1>1. u \in StreamType(DeviceCommands) /\ StreamInv(u)  BY BeginSegmentInv
<1>2. /\ u.queue = s.queue /\ u.open_serial = s.open_serial /\ u.open_slot = s.open_slot
      /\ u.submitted = s.submitted /\ u.work_serial = s.work_serial /\ u.timeline = s.timeline
      /\ u.capturing = s.capturing /\ u.capture_done = s.capture_done
      /\ u.cb = s.cb /\ u.capture_cb = <<Barrier>>
  BY DEF StreamType, begin_capture_segment_locked
<1> HIDE DEF u
<1>3. StreamRest(u)  BY <1>2 DEF StreamRest
<1>4. \A A, n : Covered(s, A, n) => Covered(u, A, n)  BY <1>2 DEF Covered
<1>5. CaptureCommands(u) = UNION {CommandsIn(s.capture_done[k]) : k \in DOMAIN s.capture_done}
  BY <1>2, CommandsInEmpty DEF CaptureCommands
<1> QED  BY <1>1, <1>2, <1>3, <1>4, <1>5 DEF StreamOK, u

\* Closing a segment keeps its commands on the list of segments.
LEMMA AppendedSegment ==
    ASSUME NEW S, NEW segments \in Seq(S), NEW segment \in S
    PROVE  UNION {CommandsIn(Append(segments, segment)[k]) : k \in DOMAIN Append(segments, segment)}
             = CommandsIn(segment) \cup UNION {CommandsIn(segments[k]) : k \in DOMAIN segments}
<1> DEFINE more == Append(segments, segment)
           n == Len(segments)
<1>1. /\ n \in Nat /\ DOMAIN segments = 1 .. n /\ DOMAIN more = 1 .. n + 1
      /\ more[n + 1] = segment /\ \A k \in 1 .. n : more[k] = segments[k]
  OBVIOUS
<1> HIDE DEF more, n
<1>2. \A k \in DOMAIN more : k \in DOMAIN segments \/ k = n + 1  BY <1>1
<1>3. n + 1 \in DOMAIN more /\ \A k \in DOMAIN segments : k \in DOMAIN more  BY <1>1
<1>4. ASSUME NEW c
      PROVE  (\E k \in DOMAIN more : c \in CommandsIn(more[k]))
               <=> (c \in CommandsIn(segment) \/ \E k \in DOMAIN segments : c \in CommandsIn(segments[k]))
  BY <1>1, <1>2, <1>3
<1> QED  BY <1>4 DEF more

\* after_command_locked submits a full batch, closes a full segment, or does nothing.
LEMMA AfterEffect ==
    ASSUME NEW s, StreamOK(s)
    PROVE  LET u == after_command_locked(s, TRUE)
           IN  /\ StreamOK(u)
               /\ u.capturing = s.capturing
               /\ u.timeline = s.timeline
               /\ CaptureCommands(u) = CaptureCommands(s)
               /\ \A A, n : Covered(s, A, n) => Covered(u, A, n)
<1> DEFINE u == after_command_locked(s, TRUE)
           cut == [s EXCEPT !.capture_done = Append(@, s.capture_cb)]
<1>0. s \in StreamType(DeviceCommands) /\ StreamInv(s) /\ StreamRest(s)  BY DEF StreamOK
<1>1. CASE s.ops_in_batch < batch_limit
  BY <1>1 DEF after_command_locked
<1>2. CASE ~(s.ops_in_batch < batch_limit) /\ ~s.capturing
  <2>1. u = submit_locked(s, TRUE)  BY <1>2 DEF after_command_locked
  <2> QED  BY <2>1, SubmitEffect DEF SameRecording, CaptureCommands
<1>3. CASE ~(s.ops_in_batch < batch_limit) /\ s.capturing
  <2>1. u = begin_capture_segment_locked(cut)  BY <1>3 DEF after_command_locked
  <2>2. Append(s.capture_done, s.capture_cb) \in Seq(CommandBuffers(DeviceCommands))
    BY <1>0 DEF StreamType
  <2>3. cut \in StreamType(DeviceCommands)  BY <1>0, <2>2 DEF StreamType
  <2>4. /\ cut.queue = s.queue /\ cut.timeline = s.timeline /\ cut.slot_serial = s.slot_serial
        /\ cut.open_slot = s.open_slot /\ cut.open_serial = s.open_serial
        /\ cut.next_serial = s.next_serial /\ cut.submitted = s.submitted
        /\ cut.work_serial = s.work_serial /\ cut.capturing = s.capturing /\ cut.cb = s.cb
        /\ cut.capture_done = Append(s.capture_done, s.capture_cb)
    BY <1>0 DEF StreamType
  <2> HIDE DEF cut, u
  <2>5. StreamInv(cut)  BY <1>0, <2>4, StreamInvFrame
  <2>6. /\ StreamOK(u) /\ u.capturing /\ u.timeline = cut.timeline
        /\ CaptureCommands(u) = UNION {CommandsIn(cut.capture_done[k]) : k \in DOMAIN cut.capture_done}
        /\ \A A, n : Covered(cut, A, n) => Covered(u, A, n)
    BY <1>0, <1>3, <2>1, <2>3, <2>4, <2>5, SegmentEffect DEF StreamRest
  <2>7. CaptureCommands(u) = CaptureCommands(s)
    <3>1. s.capture_done \in Seq(CommandBuffers(DeviceCommands)) /\ s.capture_cb \in CommandBuffers(DeviceCommands)
      BY <1>0 DEF StreamType
    <3>2. CaptureCommands(u) = CommandsIn(s.capture_cb)
              \cup UNION {CommandsIn(s.capture_done[k]) : k \in DOMAIN s.capture_done}
      BY <2>4, <2>6, <3>1, AppendedSegment, SMTT(30)
    <3> QED  BY <3>2 DEF CaptureCommands
  <2>8. \A A, n : Covered(s, A, n) => Covered(cut, A, n)  BY <2>4 DEF Covered
  <2> QED  BY <1>3, <2>4, <2>6, <2>7, <2>8 DEF u
<1> QED  BY <1>1, <1>2, <1>3

\* dispatch, copy, fill and update: one more command, pending or captured.
LEMMA DispatchEffect ==
    ASSUME NEW s, StreamOK(s), SlotReady(s), NEW c \in DeviceCommands
    PROVE  LET u == dispatch(s, c, TRUE)
           IN  /\ StreamOK(u)
               /\ u.capturing = s.capturing
               /\ u.timeline = s.timeline
               /\ CaptureCommands(u) \subseteq CaptureCommands(s) \cup {c}
               /\ ~s.capturing => CaptureCommands(u) = CaptureCommands(s)
               /\ \A A, n : Covered(s, A, n) /\ c.addr \notin A => Covered(u, A, n)
<1> DEFINE o == open_locked(s)
           r == record_command(o, c)
           u == after_command_locked(r, TRUE)
<1>1. /\ StreamOK(o) /\ (o.capturing \/ o.open_slot # NoSlot) /\ o.timeline = s.timeline
      /\ o.capturing = s.capturing /\ CaptureCommands(o) = CaptureCommands(s)
      /\ \A A, n : Covered(s, A, n) => Covered(o, A, n)
  BY OpenEffect DEF SameRecording, CaptureCommands
<1> HIDE DEF o
<1>2. /\ StreamOK(r) /\ r.capturing = o.capturing /\ r.timeline = o.timeline
      /\ CaptureCommands(r) \subseteq CaptureCommands(o) \cup {c}
      /\ ~o.capturing => CaptureCommands(r) = CaptureCommands(o)
      /\ \A A, n : Covered(o, A, n) /\ c.addr \notin A => Covered(r, A, n)
  BY <1>1, RecordEffect
<1> HIDE DEF r
<1>3. /\ StreamOK(u) /\ u.capturing = r.capturing /\ u.timeline = r.timeline
      /\ CaptureCommands(u) = CaptureCommands(r)
      /\ \A A, n : Covered(r, A, n) => Covered(u, A, n)
  BY <1>2, AfterEffect
<1>4. u = dispatch(s, c, TRUE)  BY DEF dispatch, r, o
<1> HIDE DEF u
<1> QED  BY <1>1, <1>2, <1>3, <1>4

\* begin_capture submits the open batch and starts an empty recording.
LEMMA BeginCaptureEffect ==
    ASSUME NEW s, StreamOK(s), ~s.capturing
    PROVE  LET u == begin_capture(s, TRUE)
           IN  /\ StreamOK(u)
               /\ u.capturing
               /\ CaptureCommands(u) = {}
               /\ \A A, n : Covered(s, A, n) => Covered(u, A, n)
<1> DEFINE d == submit_locked(s, TRUE)
           v == [d EXCEPT !.capture_done = << >>, !.capturing = TRUE]
           u == begin_capture_segment_locked(v)
<1>1. /\ StreamOK(d) /\ d.open_slot = NoSlot
      /\ \A A, n : Covered(s, A, n) => Covered(d, A, n)
  BY SubmitEffect
<1>2. u = begin_capture(s, TRUE)  BY DEF begin_capture
<1> HIDE DEF d
<1>3. d \in StreamType(DeviceCommands) /\ StreamInv(d) /\ StreamRest(d)  BY <1>1 DEF StreamOK
<1>4. v \in StreamType(DeviceCommands)
  <2>1. << >> \in Seq(CommandBuffers(DeviceCommands)) /\ TRUE \in BOOLEAN  OBVIOUS
  <2> QED  BY <1>3, <2>1 DEF StreamType
<1>5. /\ v.queue = d.queue /\ v.timeline = d.timeline /\ v.slot_serial = d.slot_serial
      /\ v.open_slot = NoSlot /\ v.next_serial = d.next_serial /\ v.submitted = d.submitted
      /\ v.work_serial = d.work_serial /\ v.cb = d.cb /\ v.open_serial = d.open_serial
      /\ v.capturing /\ v.capture_done = << >>
  BY <1>1, <1>3 DEF StreamType
<1> HIDE DEF v
<1>6. StreamInv(v)
  BY <1>1, <1>3, <1>5 DEF StreamInv, SerialOrder, OpenBatch, SlotTags, SlotExclusive
<1>7. v.submitted <= v.work_serial /\ v.cb = << >>  BY <1>1, <1>3, <1>5 DEF StreamRest
<1>8. /\ StreamOK(u) /\ u.capturing
      /\ CaptureCommands(u) = UNION {CommandsIn(v.capture_done[k]) : k \in DOMAIN v.capture_done}
      /\ \A A, n : Covered(v, A, n) => Covered(u, A, n)
  BY <1>4, <1>5, <1>6, <1>7, SegmentEffect
<1> HIDE DEF u
<1>9. \A A, n : Covered(d, A, n) => Covered(v, A, n)  BY <1>5 DEF Covered
<1>10. CaptureCommands(u) = {}  BY <1>5, <1>8
<1> QED  BY <1>1, <1>2, <1>8, <1>9, <1>10

\* end_capture and abort_capture drop the recording and touch nothing else.
LEMMA LeaveCaptureEffect ==
    ASSUME NEW s, StreamOK(s)
    PROVE  LET u == LeaveCapture(s)
           IN  /\ StreamOK(u)
               /\ ~u.capturing
               /\ CaptureCommands(u) = {}
               /\ \A A, n : Covered(s, A, n) => Covered(u, A, n)
<1> DEFINE u == LeaveCapture(s)
<1>0. s \in StreamType(DeviceCommands) /\ StreamInv(s) /\ StreamRest(s)  BY DEF StreamOK
<1>1. u \in StreamType(DeviceCommands) /\ StreamInv(u)  BY <1>0, LeaveCaptureInv
<1>2. /\ u.queue = s.queue /\ u.timeline = s.timeline /\ u.open_slot = s.open_slot
      /\ u.open_serial = s.open_serial /\ u.submitted = s.submitted /\ u.cb = s.cb
      /\ u.work_serial = s.work_serial /\ ~u.capturing
      /\ u.capture_cb = << >> /\ u.capture_done = << >>
  BY <1>0 DEF StreamType, LeaveCapture
<1> HIDE DEF u
<1>3. StreamRest(u)  BY <1>0, <1>2 DEF StreamRest
<1>4. CaptureCommands(u) = {}  BY <1>2, CommandsInEmpty DEF CaptureCommands
<1>5. \A A, n : Covered(s, A, n) => Covered(u, A, n)  BY <1>2 DEF Covered
<1> QED  BY <1>1, <1>2, <1>3, <1>4, <1>5 DEF StreamOK, u

\* The device signals its oldest submission.
LEMMA SignalEffect ==
    ASSUME NEW s, StreamOK(s), s.queue # << >>
    PROVE  LET u == Signal(s)
           IN  /\ StreamOK(u)
               /\ SameRecording(s, u)
               /\ \A A, n : Covered(s, A, n) => Covered(u, A, n)
<1> DEFINE u == Signal(s)
           n == Len(s.queue)
<1>0. s \in StreamType(DeviceCommands) /\ StreamInv(s) /\ StreamRest(s)  BY DEF StreamOK
<1>1. u \in StreamType(DeviceCommands) /\ StreamInv(u)  BY <1>0, SignalInv
<1>2. /\ u.queue = Tail(s.queue) /\ u.cb = s.cb /\ u.open_slot = s.open_slot
      /\ u.open_serial = s.open_serial /\ u.submitted = s.submitted
      /\ u.work_serial = s.work_serial /\ SameRecording(s, u)
  BY <1>0 DEF StreamType, Signal, SameRecording
<1> HIDE DEF u
<1>3. /\ n \in Nat /\ n # 0 /\ DOMAIN s.queue = 1 .. n /\ DOMAIN u.queue = 1 .. n - 1
      /\ \A k \in 1 .. n - 1 : u.queue[k] = s.queue[k + 1]
  BY <1>0, <1>2 DEF StreamType
<1> HIDE DEF n
<1>4. \A k \in DOMAIN u.queue : u.queue[k] = s.queue[k + 1] /\ k + 1 \in DOMAIN s.queue
  BY <1>3
<1>5. \A A, m : Covered(s, A, m) => Covered(u, A, m)  BY <1>2, <1>4 DEF Covered
<1>6. StreamRest(u)  BY <1>0, <1>2 DEF StreamRest, SameRecording
<1> QED  BY <1>1, <1>2, <1>5, <1>6 DEF StreamOK, u

\* launch queues the open batch and then the graph's segments.
LEMMA LaunchEffect ==
    ASSUME NEW s, StreamOK(s), NEW cbs \in Seq(CommandBuffers(DeviceCommands))
    PROVE  LET u == launch(s, cbs, TRUE, Len(cbs))
           IN  /\ StreamOK(u)
               /\ SameRecording(s, u)
               /\ \A A, n : /\ Covered(s, A, n)
                            /\ \A k \in DOMAIN cbs : \A c \in CommandsIn(cbs[k]) : c.addr \notin A
                            => Covered(u, A, n)
<1> DEFINE d == submit_locked(s, TRUE)
           len == Len(cbs)
           segs == [i \in 1 .. len |-> [serial |-> d.next_serial + i - 1, slot |-> NoSlot, cb |-> cbs[i]]]
           taken == IF len < Len(cbs) THEN len + 1 ELSE len
           u == launch_segments(d, cbs, len)
           m == Len(d.queue)
<1>1. /\ StreamOK(d) /\ d.open_slot = NoSlot /\ SameRecording(s, d)
      /\ \A A, n : Covered(s, A, n) => Covered(d, A, n)
  BY SubmitEffect
<1>2. u = launch(s, cbs, TRUE, Len(cbs))  BY DEF launch
<1> HIDE DEF d
<1>3. d \in StreamType(DeviceCommands) /\ StreamInv(d) /\ StreamRest(d)  BY <1>1 DEF StreamOK
<1>4. len \in Nat /\ len \in 0 .. Len(cbs) /\ DOMAIN cbs = 1 .. len  OBVIOUS
<1>5. u \in StreamType(DeviceCommands) /\ StreamInv(u)  BY <1>1, <1>3, <1>4, LaunchSegmentsInv
<1>6. u = [d EXCEPT !.queue = d.queue \o segs,
                    !.submitted = IF len = 0 THEN d.submitted ELSE d.next_serial + len - 1,
                    !.work_serial = d.next_serial + taken - 1,
                    !.next_serial = d.next_serial + taken]
  BY DEF launch_segments
<1>7. \A i \in 1 .. len : segs[i].cb = cbs[i]  OBVIOUS
<1>8. segs \in Seq(Submissions(DeviceCommands)) /\ Len(segs) = len
  <2>1. ASSUME NEW i \in 1 .. len
        PROVE  [serial |-> d.next_serial + i - 1, slot |-> NoSlot, cb |-> cbs[i]] \in Submissions(DeviceCommands)
    <3>1. cbs[i] \in CommandBuffers(DeviceCommands)  BY <1>4
    <3>2. d.next_serial \in Nat  BY <1>3 DEF StreamType
    <3>3. d.next_serial + i - 1 \in Nat  BY <1>4, <3>2
    <3> QED  BY <3>1, <3>3 DEF Submissions
  <2> QED  BY <1>4, <2>1
<1> HIDE DEF segs, u, taken
<1>9. /\ u.queue = d.queue \o segs /\ u.cb = d.cb /\ u.open_slot = NoSlot
      /\ u.submitted = (IF len = 0 THEN d.submitted ELSE d.next_serial + len - 1)
      /\ u.work_serial = d.next_serial + len - 1
      /\ SameRecording(d, u)
  <2>0. \A i \in Nat : ~(i < i)  OBVIOUS
  <2>1. taken = len  BY <1>4, <2>0 DEF taken
  <2> QED  BY <1>1, <1>3, <1>6, <2>1 DEF StreamType, SameRecording
<1>10. StreamRest(u)
  <2>1. d.submitted < d.next_serial /\ d.submitted \in Nat /\ d.next_serial \in Nat
    BY <1>3 DEF StreamInv, SerialOrder, StreamType
  <2>2. u.submitted <= u.work_serial  BY <1>4, <1>9, <2>1
  <2> QED  BY <1>1, <1>3, <1>9, <2>2 DEF StreamRest, SameRecording
<1>11. d.queue \in Seq(Submissions(DeviceCommands)) /\ m \in Nat /\ DOMAIN d.queue = 1 .. m
  BY <1>3 DEF StreamType
<1>12. ASSUME NEW k \in DOMAIN u.queue
       PROVE  \/ k \in DOMAIN d.queue /\ u.queue[k] = d.queue[k]
              \/ \E i \in DOMAIN cbs : u.queue[k].cb = cbs[i]
  <2>1. Len(u.queue) = m + len /\ u.queue \in Seq(Submissions(DeviceCommands))
    <3>1. Len(d.queue \o segs) = Len(d.queue) + Len(segs) /\ d.queue \o segs \in Seq(Submissions(DeviceCommands))
      BY <1>8, <1>11, ConcatProperties
    <3> QED  BY <1>8, <1>9, <3>1
  <2>2. k \in 1 .. m + len  BY <2>1
  <2>3. CASE k \in 1 .. m  BY <1>8, <1>9, <1>11, <2>3, ConcatProperties
  <2>4. CASE k > m
    <3>1. k - m \in 1 .. len  BY <1>4, <1>11, <2>2, <2>4
    <3>2. u.queue[k] = segs[k - m]  BY <1>8, <1>9, <1>11, <2>2, <2>4, ConcatProperties
    <3> QED  BY <1>4, <1>7, <3>1, <3>2
  <2> QED  BY <1>11, <2>2, <2>3, <2>4
<1>13. ASSUME NEW A, NEW n, Covered(d, A, n),
              \A k \in DOMAIN cbs : \A c \in CommandsIn(cbs[k]) : c.addr \notin A
       PROVE  Covered(u, A, n)
  <2>1. ASSUME NEW k \in DOMAIN u.queue, NEW c \in CommandsIn(u.queue[k].cb), c.addr \in A
        PROVE  u.queue[k].serial <= n
    BY <1>12, <1>13, <2>1 DEF Covered
  <2>2. ASSUME NEW c \in CommandsIn(u.cb) PROVE FALSE
    BY <1>1, <1>3, <1>9, <2>2, CommandsInEmpty DEF StreamRest
  <2> QED  BY <2>1, <2>2 DEF Covered
<1> QED  BY <1>1, <1>2, <1>5, <1>9, <1>10, <1>13 DEF StreamOK, SameRecording

-----------------------------------------------------------------------------
(***************************************************************************)
(* Types.                                                                  *)
(***************************************************************************)

\* Where a thread may be in a call.
CallPoints ==
    {"idle", "sync", "sync_submit", "sync_wait", "trim", "reclaim", "retry", "free", "free_locked",
     "h2d", "h2d_busy", "host", "destroy"} \cup CapturePoints

\* A call in progress; a free or an upload is about an address.
Calls ==
    {r \in [pc : CallPoints, then : {"idle", "trim", "reclaim", "host"}, serial : Nat,
            addr : Addresses \cup {NoAddress}, todo : SUBSET Addresses, kind : Kinds] :
        r.pc \in {"free_locked", "h2d", "h2d_busy"} => r.addr \in Addresses}

\* A graph: its segments, what it holds, and its last launch.
GraphType ==
    [owner : Threads \cup {Nobody}, cbs : Seq(CommandBuffers(DeviceCommands)),
     held : SUBSET Addresses, last_launch : Nat]

\* The types, as the steps need them.
Types == TypeOK /\ op \in [Threads -> Calls] /\ StreamOK(st)

\* Between calls, and as every call begins.
LEMMA IdleType == Idle \in Calls
BY DEF Idle, Calls, CallPoints, Kinds

\* A step of t's call.
LEMMA GotoType ==
    ASSUME op \in [Threads -> Calls], NEW t \in Threads, NEW r \in Calls, Goto(t, r)
    PROVE  op' \in [Threads -> Calls] /\ op'[t] = r /\ \A u \in Threads \ {t} : op'[u] = op[u]
BY DEF Goto

\* What the allocator's operations do to the addresses handed out, and to its type.
LEMMA CollectType ==
    ASSUME NEW m \in AllocatorType, NEW n
    PROVE  /\ collect(m, n) \in AllocatorType
           /\ collect(m, n).live = m.live
           /\ collect(m, n).deferred = {d \in m.deferred : ~(d.serial <= n)}
           /\ \A b \in Blocks : collect(m, n).blocks[b] =
                  IF \E d \in m.deferred : d.serial <= n /\ d.block = b THEN "none" ELSE m.blocks[b]
<1> DEFINE done == {d \in m.deferred : d.serial <= n}
           w == [b \in Blocks |-> IF \E d \in done : d.block = b THEN "none" ELSE m.blocks[b]]
<1>1. w \in [Blocks -> Kinds \cup {"none", "deferred"}]  BY DEF AllocatorType
<1>2. m.deferred \ done \in SUBSET [serial : Nat, block : Blocks]  BY DEF AllocatorType
<1>3. collect(m, n) = [m EXCEPT !.deferred = m.deferred \ done, !.blocks = w]  BY DEF collect
<1> HIDE DEF w
<1>4. /\ collect(m, n) \in AllocatorType /\ collect(m, n).live = m.live
      /\ collect(m, n).deferred = m.deferred \ done /\ collect(m, n).blocks = w
  BY <1>1, <1>2, <1>3 DEF AllocatorType
<1> QED  BY <1>4 DEF w

\* trim changes no address that is handed out.
LEMMA TrimType ==
    ASSUME NEW m \in AllocatorType, NEW victims
    PROVE  /\ trim(m, victims) \in AllocatorType
           /\ trim(m, victims).live = m.live
           /\ trim(m, victims).deferred = m.deferred
           /\ \A b \in Blocks : trim(m, victims).blocks[b] =
                  IF b \in victims THEN "none" ELSE m.blocks[b]
<1> DEFINE w == [b \in Blocks |-> IF b \in victims THEN "none" ELSE m.blocks[b]]
<1>1. w \in [Blocks -> Kinds \cup {"none", "deferred"}]  BY DEF AllocatorType
<1>2. trim(m, victims) = [m EXCEPT !.blocks = w]  BY DEF trim
<1> HIDE DEF w
<1>3. /\ trim(m, victims) \in AllocatorType /\ trim(m, victims).live = m.live
      /\ trim(m, victims).deferred = m.deferred /\ trim(m, victims).blocks = w
  BY <1>1, <1>2 DEF AllocatorType
<1> QED  BY <1>3 DEF w

\* An address is found that nobody has, in a block of the right kind or one to be created.
LEMMA PlacesType ==
    ASSUME NEW m \in AllocatorType, NEW kind \in Kinds, NEW a \in Places(m, kind)
    PROVE  /\ a \in Addresses /\ a[1] \in Blocks
           /\ m.blocks[a[1]] = "none" \/ (kind = "pool" /\ m.blocks[a[1]] = "pool" /\ a \notin m.live)
           /\ kind = "dedicated" => a[2] = 1
<1> USE CellsAssumption
<1>1. CASE kind = "pool" /\ FreeRanges(m) # {}
  BY <1>1 DEF Places, FreeRanges, Addresses
<1>2. CASE kind = "pool" /\ FreeRanges(m) = {}
  BY <1>2 DEF Places, Creatable, Addresses
<1>3. CASE kind = "dedicated"
  BY <1>3 DEF Places, Creatable, Addresses
<1> QED  BY <1>1, <1>2, <1>3 DEF Kinds

\* Handing out an address.
LEMMA AllocType ==
    ASSUME NEW m \in AllocatorType, NEW kind \in Kinds, NEW a \in Addresses
    PROVE  /\ alloc_locked(m, kind, a) \in AllocatorType
           /\ alloc_locked(m, kind, a).live = m.live \cup {a}
           /\ alloc_locked(m, kind, a).deferred = m.deferred
           /\ \A b \in Blocks : alloc_locked(m, kind, a).blocks[b] =
                  IF b = a[1] THEN kind ELSE m.blocks[b]
<1>1. a[1] \in Blocks  BY DEF Addresses
<1>2. [m.blocks EXCEPT ![a[1]] = kind] \in [Blocks -> Kinds \cup {"none", "deferred"}]
  BY <1>1 DEF AllocatorType
<1>3. m.live \cup {a} \in SUBSET Addresses  BY DEF AllocatorType
<1> DEFINE w == [m.blocks EXCEPT ![a[1]] = kind]
<1>4. alloc_locked(m, kind, a) = [m EXCEPT !.blocks = w, !.live = m.live \cup {a}]
  BY DEF alloc_locked, AllocatorType
<1>5. \A b \in Blocks : w[b] = IF b = a[1] THEN kind ELSE m.blocks[b]
  BY DEF AllocatorType
<1> HIDE DEF w
<1> QED  BY <1>2, <1>3, <1>4, <1>5 DEF AllocatorType, w

\* Taking one back: a pool's block stays, a dedicated one goes or waits for the GPU.
LEMMA FreeType ==
    ASSUME NEW m \in AllocatorType, NEW a \in Addresses, NEW tag \in Nat, NEW n \in Nat
    PROVE  LET f == free_locked(m, a, tag, n)
           IN  /\ f \in AllocatorType
               /\ f.live = m.live \ {a}
               /\ \A b \in Blocks : b # a[1] => f.blocks[b] = m.blocks[b]
               /\ m.blocks[a[1]] = "pool" => f.blocks = m.blocks /\ f.deferred = m.deferred
               /\ m.blocks[a[1]] # "pool" /\ n >= tag =>
                      f.blocks[a[1]] = "none" /\ f.deferred = m.deferred
               /\ m.blocks[a[1]] # "pool" /\ ~(n >= tag) =>
                      /\ f.blocks[a[1]] = "deferred"
                      /\ f.deferred = m.deferred \cup {[serial |-> tag, block |-> a[1]]}
<1> DEFINE f == free_locked(m, a, tag, n)
           gone == [m.blocks EXCEPT ![a[1]] = "none"]
           kept == [m.blocks EXCEPT ![a[1]] = "deferred"]
           more == m.deferred \cup {[serial |-> tag, block |-> a[1]]}
<1>1. a[1] \in Blocks  BY DEF Addresses
<1>2. m.blocks \in [Blocks -> Kinds \cup {"none", "deferred"}] /\ m.live \ {a} \in SUBSET Addresses
  BY DEF AllocatorType
<1>3. gone \in [Blocks -> Kinds \cup {"none", "deferred"}]
      /\ kept \in [Blocks -> Kinds \cup {"none", "deferred"}]
      /\ more \in SUBSET [serial : Nat, block : Blocks]
  BY <1>1, <1>2 DEF AllocatorType
<1>4. gone[a[1]] = "none" /\ kept[a[1]] = "deferred"
      /\ \A b \in Blocks : b # a[1] => gone[b] = m.blocks[b] /\ kept[b] = m.blocks[b]
  BY <1>1, <1>2
<1>5. CASE m.blocks[a[1]] = "pool"
  <2>1. f = [m EXCEPT !.live = m.live \ {a}]  BY <1>5 DEF free_locked
  <2> QED  BY <1>2, <1>5, <2>1 DEF AllocatorType
<1>6. CASE m.blocks[a[1]] # "pool" /\ n >= tag
  <2>1. f = [[m EXCEPT !.live = m.live \ {a}] EXCEPT !.blocks = gone]
    BY <1>6 DEF free_locked, AllocatorType
  <2> HIDE DEF gone
  <2> QED  BY <1>2, <1>3, <1>4, <1>6, <2>1 DEF AllocatorType
<1>7. CASE m.blocks[a[1]] # "pool" /\ ~(n >= tag)
  <2>1. f = [[m EXCEPT !.live = m.live \ {a}] EXCEPT !.blocks = kept, !.deferred = more]
    BY <1>7 DEF free_locked, AllocatorType
  <2>2. m.deferred \cup {[serial |-> tag, block |-> a[1]]} = more  OBVIOUS
  <2> HIDE DEF kept, more
  <2> QED  BY <1>2, <1>3, <1>4, <1>7, <2>1, <2>2 DEF AllocatorType
<1> QED  BY <1>5, <1>6, <1>7

\* The initial state.
LEMMA InitTypes == Init => Types
<1> SUFFICES ASSUME Init PROVE Types  OBVIOUS
<1>1. st \in StreamType(DeviceCommands) /\ StreamInv(st)  BY InitStreamInv DEF Init
<1>2. StreamRest(st)  BY DEF Init, InitStream, StreamRest
<1>3. mem \in AllocatorType  BY DEF Init, InitAllocator, AllocatorType
<1>4. graph \in GraphType  BY DEF Init, NoGraph, GraphType
<1>5. op \in [Threads -> Calls] /\ \A t \in Threads : op[t].serial \in Nat /\ op[t].todo \subseteq Addresses
  BY IdleType DEF Init, Idle
<1>6. own \in [Threads -> SUBSET Addresses] /\ held \subseteq Addresses /\ commands \in 0 .. MaxCommands
  BY BoundsAssumption DEF Init
<1>7. hold \in Threads \cup {Nobody} /\ capturer \in Threads \cup {Nobody}  BY DEF Init
<1> QED  BY <1>1, <1>2, <1>3, <1>4, <1>5, <1>6, <1>7 DEF Types, TypeOK, StreamOK, GraphType

\* Types in parts.
LEMMA TypesParts ==
    ASSUME Types
    PROVE  /\ StreamOK(st) /\ st.timeline \in Nat /\ st.work_serial \in Nat /\ st.submitted \in Nat
           /\ mem \in AllocatorType
           /\ hold \in Threads \cup {Nobody} /\ held \subseteq Addresses
           /\ capturer \in Threads \cup {Nobody}
           /\ graph \in GraphType
           /\ own \in [Threads -> SUBSET Addresses]
           /\ op \in [Threads -> Calls]
           /\ commands \in 0 .. MaxCommands
BY DEF Types, TypeOK, GraphType, StreamType

\* A step whose new values have their types.
LEMMA TypesStep ==
    ASSUME StreamOK(st'), mem' \in AllocatorType,
           hold' \in Threads \cup {Nobody}, held' \subseteq Addresses,
           capturer' \in Threads \cup {Nobody}, graph' \in GraphType,
           own' \in [Threads -> SUBSET Addresses], op' \in [Threads -> Calls],
           commands' \in 0 .. MaxCommands
    PROVE  Types'
<1>1. \A t \in Threads : op'[t].serial \in Nat /\ op'[t].todo \subseteq Addresses  BY DEF Calls
<1>2. st' \in StreamType(DeviceCommands)  BY DEF StreamOK
<1> QED  BY <1>1, <1>2 DEF Types, TypeOK, GraphType

\* The record a call continues with, when only its point, continuation or serial change.
LEMMA MoveType ==
    ASSUME NEW r \in Calls, NEW pc \in CallPoints \ {"free_locked", "h2d", "h2d_busy"}
    PROVE  /\ [r EXCEPT !.pc = pc] \in Calls
           /\ \A then \in {"idle", "trim", "reclaim", "host"} : \A n \in Nat :
                 /\ [r EXCEPT !.pc = pc, !.then = then] \in Calls
                 /\ [r EXCEPT !.pc = pc, !.then = then, !.serial = n] \in Calls
                 /\ [r EXCEPT !.pc = pc, !.serial = n] \in Calls
BY DEF Calls

\* The call's list of addresses to free.
LEMMA FreeCallType ==
    ASSUME NEW addrs \in SUBSET Addresses
    PROVE  [Idle EXCEPT !.pc = "free", !.todo = addrs] \in Calls
BY DEF Idle, Calls, CallPoints, Kinds

\* Freeing a set of addresses begins with its first one, or is over.
LEMMA FreeAllType ==
    ASSUME op \in [Threads -> Calls], NEW t \in Threads, NEW addrs \in SUBSET Addresses, FreeAll(t, addrs)
    PROVE  /\ op' \in [Threads -> Calls] /\ \A u \in Threads \ {t} : op'[u] = op[u]
           /\ addrs = {} => op'[t] = Idle
           /\ addrs # {} => op'[t] = [Idle EXCEPT !.pc = "free", !.todo = addrs]
BY IdleType, FreeCallType, GotoType DEF FreeAll, Return

\* A command is recorded.
LEMMA RecordTypes ==
    ASSUME Types, NEW c \in DeviceCommands, Record(c)
    PROVE  StreamOK(st') /\ commands' \in 0 .. MaxCommands
<1>1. StreamOK(st')  BY DispatchEffect DEF Types, Record
<1>2. commands' \in 0 .. MaxCommands
  <2>1. commands \in 0 .. MaxCommands /\ commands < MaxCommands /\ commands' = commands + 1
    BY DEF Types, TypeOK, Record
  <2> QED  BY <2>1, BoundsAssumption
<1> QED  BY <1>1, <1>2

\* An address is handed out.
LEMMA TakeTypes ==
    ASSUME Types, NEW t \in Threads, NEW m \in AllocatorType, NEW kind \in Kinds,
           NEW a \in Places(m, kind), Take(t, m, kind, a)
    PROVE  Types' /\ op'[t] = Idle /\ \A u \in Threads \ {t} : op'[u] = op[u]
<1>1. a \in Addresses  BY PlacesType
<1>2. mem' \in AllocatorType  BY <1>1, AllocType DEF Take
<1>3. own' \in [Threads -> SUBSET Addresses]  BY <1>1, TypesParts DEF Take
<1>4. op' \in [Threads -> Calls] /\ op'[t] = Idle /\ \A u \in Threads \ {t} : op'[u] = op[u]
  BY IdleType, GotoType, TypesParts DEF Take, Return
<1>5. UNCHANGED <<st, hold, held, capturer, graph, commands>>  BY DEF Take
<1> QED  BY <1>2, <1>3, <1>4, <1>5, TypesParts, TypesStep

\* The allocator after the deferred blocks that are done were collected.
LEMMA ReclaimedType == ASSUME Types PROVE Reclaimed \in AllocatorType
BY TypesParts, CollectType DEF Reclaimed

\* Every step keeps the types.
LEMMA NextTypes == Types /\ [Next]_vars => Types'
<1> SUFFICES ASSUME Types, [Next]_vars PROVE Types'  OBVIOUS
<1>0. /\ StreamOK(st) /\ st.timeline \in Nat /\ st.work_serial \in Nat /\ st.submitted \in Nat
      /\ mem \in AllocatorType /\ hold \in Threads \cup {Nobody} /\ held \subseteq Addresses
      /\ capturer \in Threads \cup {Nobody} /\ graph \in GraphType
      /\ own \in [Threads -> SUBSET Addresses] /\ op \in [Threads -> Calls]
      /\ commands \in 0 .. MaxCommands
  BY TypesParts
\* Steps that only move a call along.
<1>1. ASSUME NEW t \in Threads, NEW r \in Calls, Goto(t, r),
             UNCHANGED <<st, mem, hold, held, capturer, graph, own, commands>>
      PROVE  Types'
  BY <1>0, <1>1, GotoType, TypesStep
<1>2. ASSUME NEW t \in Threads, NEW kind \in Kinds, AllocOutOfMemory(t, kind) PROVE Types'
  <2>1. [Idle EXCEPT !.pc = "sync", !.then = "reclaim", !.kind = kind] \in Calls
    BY IdleType DEF Idle, Calls, CallPoints
  <2> QED  BY <1>1, <1>2, <2>1 DEF AllocOutOfMemory
<1>3. ASSUME NEW t \in Threads, SyncThrows(t) \/ HostDone(t) PROVE Types'
  BY <1>1, <1>3, IdleType DEF SyncThrows, HostDone, Return
<1>4. ASSUME NEW t \in Threads, Sync(t) \/ MemTrim(t) \/ CaptureCheck(t) PROVE Types'
  BY <1>1, <1>4, IdleType, MoveType DEF Sync, MemTrim, CaptureCheck, CallPoints, CapturePoints
<1>5. ASSUME NEW t \in Threads, SyncCheck(t) \/ UploadAfterSync(t) PROVE Types'
  BY <1>0, <1>1, <1>5, MoveType DEF SyncCheck, UploadAfterSync, CallPoints
<1>6. ASSUME NEW t \in Threads, DestroyGraph(t) PROVE Types'
  BY <1>0, <1>1, <1>6, IdleType, MoveType DEF DestroyGraph, CallPoints, GraphType
<1>7. ASSUME NEW t \in Threads, FreeTag(t) PROVE Types'
  <2>1. PICK a \in op[t].todo :
            Goto(t, [op[t] EXCEPT !.pc = "free_locked", !.serial = st.work_serial,
                                  !.addr = a, !.todo = @ \ {a}])
    BY <1>7 DEF FreeTag
  <2>2. [op[t] EXCEPT !.pc = "free_locked", !.serial = st.work_serial, !.addr = a, !.todo = @ \ {a}] \in Calls
    <3>1. a \in Addresses /\ op[t].todo \ {a} \in SUBSET Addresses  BY <1>0 DEF Calls
    <3> QED  BY <1>0, <3>1, ZenonT(60) DEF Calls, CallPoints
  <2> QED  BY <1>1, <1>7, <2>1, <2>2 DEF FreeTag
<1>8. ASSUME NEW t \in Threads, NEW a \in own[t], H2D(t, a) \/ D2H(t, a) PROVE Types'
  <2>1. a \in Addresses  BY <1>0
  <2>2. \A pc \in {"h2d", "sync"} : [Idle EXCEPT !.pc = pc, !.addr = a, !.then = "host"] \in Calls
    BY <2>1 DEF Idle, Calls, CallPoints, Kinds
  <2> QED  BY <1>1, <1>8, <2>2 DEF H2D, D2H, Transfer
<1>9. ASSUME NEW t \in Threads, UploadIdle(t) PROVE Types'
  <2>1. [op[t] EXCEPT !.pc = "host", !.then = "idle"] \in Calls  BY <1>0, MoveType DEF CallPoints
  <2>2. [op[t] EXCEPT !.pc = "h2d_busy"] \in Calls
    <3>1. op[t].addr \in Addresses  BY <1>0, <1>9 DEF UploadIdle, Calls
    <3> QED  BY <1>0, <3>1 DEF Calls, CallPoints
  <2> QED  BY <1>1, <1>9, <2>1, <2>2 DEF UploadIdle
\* Steps that change the stream.
<1>10. ASSUME NEW t \in Threads, NEW a \in own[t], Compute(t, a) PROVE Types'
  <2>1. Op(a) \in DeviceCommands  BY <1>0 DEF Op, DeviceCommands
  <2> QED  BY <1>0, <1>10, <2>1, RecordTypes, TypesStep DEF Compute
<1>11. ASSUME NEW t \in Threads, UploadInline(t) PROVE Types'
  <2>1. Op(op[t].addr) \in DeviceCommands  BY <1>0, <1>11 DEF Op, DeviceCommands, UploadInline, Calls
  <2>2. op' \in [Threads -> Calls]  BY <1>0, <1>11, IdleType, GotoType DEF UploadInline, Return
  <2> QED  BY <1>0, <1>11, <2>1, <2>2, RecordTypes, TypesStep DEF UploadInline
<1>12. ASSUME NEW t \in Threads, SyncSubmit(t) PROVE Types'
  <2>1. StreamOK(st') /\ st'.submitted \in Nat
    BY <1>0, <1>12, SubmitEffect DEF SyncSubmit, StreamOK, StreamType
  <2>2. op' \in [Threads -> Calls]
    BY <1>0, <1>12, <2>1, MoveType, GotoType DEF SyncSubmit, CallPoints
  <2> QED  BY <1>0, <1>12, <2>1, <2>2, TypesStep DEF SyncSubmit
<1>13. ASSUME NEW t \in Threads, Launch(t) PROVE Types'
  <2>1. graph.cbs \in Seq(CommandBuffers(DeviceCommands))  BY <1>0 DEF GraphType
  <2>2. StreamOK(st')  BY <1>0, <1>13, <2>1, LaunchEffect DEF Launch
  <2>3. launch_serial(st, graph.cbs) \in Nat  BY <1>0, <2>1, LaunchSerialType DEF StreamOK
  <2>4. graph' \in GraphType  BY <1>0, <1>13, <2>3 DEF Launch, GraphType
  <2> QED  BY <1>0, <1>13, <2>2, <2>4, TypesStep DEF Launch
<1>14. ASSUME GpuSignal PROVE Types'
  <2>1. StreamOK(st')  BY <1>0, <1>14, SignalEffect DEF GpuSignal
  <2> QED  BY <1>0, <1>14, <2>1, TypesStep DEF GpuSignal
\* Steps that change the allocator.
<1>15. ASSUME NEW t \in Threads, NEW kind \in Kinds, Alloc(t, kind) PROVE Types'
  BY <1>15, ReclaimedType, TakeTypes DEF Alloc
<1>16. ASSUME NEW t \in Threads, AllocRetry(t) PROVE Types'
  <2>1. op[t].kind \in Kinds  BY <1>0 DEF Calls
  <2>2. CASE \E a \in Places(mem, op[t].kind) : Take(t, mem, op[t].kind, a)
    BY <1>0, <2>1, <2>2, TakeTypes
  <2>3. CASE Return(t) /\ UNCHANGED <<st, mem, hold, held, capturer, graph, own, commands>>
    BY <1>1, <2>3, IdleType DEF Return
  <2> QED  BY <1>16, <2>2, <2>3 DEF AllocRetry
<1>17. ASSUME NEW t \in Threads, NEW a \in own[t], Free(t, a) PROVE Types'
  <2>1. a \in Addresses  BY <1>0
  <2>2. op' \in [Threads -> Calls]  BY <1>0, <1>17, <2>1, FreeCallType, GotoType DEF Free
  <2>3. own' \in [Threads -> SUBSET Addresses]  BY <1>0, <1>17 DEF Free
  <2> QED  BY <1>0, <1>17, <2>2, <2>3, TypesStep DEF Free
<1>18. ASSUME NEW t \in Threads, FreeLocked(t) PROVE Types'
  <2>1. op[t].addr \in Addresses /\ op[t].serial \in Nat /\ op[t].todo \in SUBSET Addresses
    BY <1>0, <1>18 DEF FreeLocked, Calls
  <2>2. mem' \in AllocatorType /\ held' \subseteq Addresses
    BY <1>0, <1>18, <2>1, FreeType DEF FreeLocked
  <2>3. op' \in [Threads -> Calls]
    BY <1>0, <1>18, <2>1, IdleType, FreeCallType, GotoType DEF FreeLocked, Return
  <2> QED  BY <1>0, <1>18, <2>2, <2>3, TypesStep DEF FreeLocked
<1>19. ASSUME NEW t \in Threads, SyncReturn(t) PROVE Types'
  <2>1. mem' \in AllocatorType  BY <1>0, <1>19, CollectType DEF SyncReturn
  <2>2. op[t].then \in CallPoints \ {"free_locked", "h2d", "h2d_busy"}  BY <1>0 DEF Calls, CallPoints
  <2>3. op' \in [Threads -> Calls]
    BY <1>0, <1>19, <2>2, IdleType, MoveType, GotoType DEF SyncReturn, Return
  <2> QED  BY <1>0, <1>19, <2>1, <2>3, TypesStep DEF SyncReturn
<1>20. ASSUME NEW t \in Threads, Trim(t) PROVE Types'
  <2>1. mem' \in AllocatorType  BY <1>0, <1>20, CollectType, TrimType DEF Trim
  <2>2. op' \in [Threads -> Calls]  BY <1>0, <1>20, IdleType, GotoType DEF Trim, Return
  <2> QED  BY <1>0, <1>20, <2>1, <2>2, TypesStep DEF Trim
<1>21. ASSUME NEW t \in Threads, Reclaim(t) PROVE Types'
  <2>1. mem' \in AllocatorType  BY <1>0, <1>21, CollectType, TrimType DEF Reclaim
  <2>2. op' \in [Threads -> Calls]  BY <1>0, <1>21, MoveType, GotoType DEF Reclaim, CallPoints
  <2> QED  BY <1>0, <1>21, <2>1, <2>2, TypesStep DEF Reclaim
\* Capture.
<1>22. ASSUME NEW t \in Threads, CaptureBegin(t) PROVE Types'
  <2>1. op' \in [Threads -> Calls]
    BY <1>0, <1>22, IdleType, MoveType, GotoType DEF CaptureBegin, Return, CallPoints, CapturePoints
  <2>2. StreamOK(st') /\ capturer' \in Threads \cup {Nobody}
    BY <1>0, <1>22, BeginCaptureEffect DEF CaptureBegin
  <2> QED  BY <1>0, <1>22, <2>1, <2>2, TypesStep DEF CaptureBegin
<1>23. ASSUME NEW t \in Threads, CaptureHold(t) PROVE Types'
  <2>1. op' \in [Threads -> Calls]  BY <1>0, <1>23, IdleType, GotoType DEF CaptureHold, Return
  <2> QED  BY <1>0, <1>23, <2>1, TypesStep DEF CaptureHold
<1>24. ASSUME NEW t \in Threads, Finish(t) \/ Abort(t) PROVE Types'
  <2>1. PICK pc \in {"finish", "abort"} : EndHold(t, pc)  BY <1>24 DEF Finish, Abort
  <2>2. op' \in [Threads -> Calls]
    BY <1>0, <2>1, IdleType, MoveType, GotoType DEF EndHold, CallPoints, CapturePoints
  <2> QED  BY <1>0, <2>1, <2>2, TypesStep DEF EndHold
<1>25. ASSUME NEW t \in Threads, FinishCapture(t) PROVE Types'
  <2>1. op' \in [Threads -> Calls]  BY <1>0, <1>25, IdleType, GotoType DEF FinishCapture, Return
  <2>2. graph' \in GraphType  BY <1>0, <1>25, CapturedSegmentsType DEF FinishCapture, GraphType, StreamOK
  <2>3. StreamOK(st')  BY <1>0, <1>25, LeaveCaptureEffect DEF FinishCapture, end_capture
  <2> QED  BY <1>0, <1>25, <2>1, <2>2, <2>3, TypesStep DEF FinishCapture
<1>26. ASSUME NEW t \in Threads, AbortCapture(t) PROVE Types'
  <2>1. op' \in [Threads -> Calls]  BY <1>0, <1>26, FreeAllType DEF AbortCapture
  <2>2. StreamOK(st')  BY <1>0, <1>26, LeaveCaptureEffect DEF AbortCapture, abort_capture
  <2> QED  BY <1>0, <1>26, <2>1, <2>2, TypesStep DEF AbortCapture
<1>27. ASSUME NEW t \in Threads, DestroyWaited(t) PROVE Types'
  <2>1. op' \in [Threads -> Calls]  BY <1>0, <1>27, FreeAllType DEF DestroyWaited, GraphType
  <2>2. mem' \in AllocatorType  BY <1>0, <1>27, CollectType DEF DestroyWaited
  <2>3. graph' \in GraphType  BY <1>27 DEF DestroyWaited, NoGraph, GraphType
  <2> QED  BY <1>0, <1>27, <2>1, <2>2, <2>3, TypesStep DEF DestroyWaited
<1>28. CASE UNCHANGED vars  BY <1>0, <1>28, TypesStep DEF vars
<1>29. ASSUME NEW t \in Threads, Thread(t) PROVE Types'
  BY <1>2, <1>3, <1>4, <1>5, <1>6, <1>7, <1>8, <1>9, <1>10, <1>11, <1>12, <1>13, <1>15, <1>16, <1>17,
     <1>18, <1>19, <1>20, <1>21, <1>22, <1>23, <1>24, <1>25, <1>26, <1>27, <1>29
  DEF Thread
<1> QED  BY <1>14, <1>28, <1>29 DEF Next

\* Stream, allocator, graph and calls have their types in every reachable state, whether or
\* not the clients coordinate captures and trims.
THEOREM RuntimeTypes == Spec => []TypeOK
<1>1. Types => TypeOK  BY DEF Types
<1> QED  BY <1>1, InitTypes, NextTypes, PTL DEF Spec

-----------------------------------------------------------------------------
(***************************************************************************)
(* Control: what a call keeps in its fields, and whose the capture and the *)
(* graph are.                                                              *)
(***************************************************************************)

\* r transfers to or from the tensor at r.addr.
Transferring(r) ==
    \/ r.pc \in {"h2d", "h2d_busy", "host"}
    \/ r.pc \in {"sync", "sync_submit", "sync_wait"} /\ r.then = "host"

\* What a call has in its fields at each point.
CallOK(r) ==
    /\ r.pc \notin {"free", "free_locked"} => r.todo = {}
    /\ r.pc = "free_locked" => r.addr \notin r.todo
    /\ r.then # "idle" => r.pc \in {"sync", "sync_submit", "sync_wait", "h2d", "h2d_busy"}
    /\ r.pc \in {"h2d", "h2d_busy"} => r.then = "host"

\* ... and what it has to do with the tensors, the capture and the graph.
CallInv(t) ==
    /\ CallOK(op[t])
    /\ Transferring(op[t]) => op[t].addr \in own[t]
    /\ op[t].pc = "destroy" => graph.owner = t
    /\ op[t].pc \in {"cap_hold", "finish", "abort"} => capturer = t
    /\ op[t].pc = "finish" => graph = NoGraph

\* The calls, and whose the recording is.
ControlInv ==
    /\ st.capturing <=> capturer # Nobody
    /\ \A t \in Threads : CallInv(t)

\* Steps that leave the capture and the graph alone, and other threads' calls and tensors.
LEMMA ControlStep ==
    ASSUME ControlInv, NEW t \in Threads, CallInv(t)',
           \A u \in Threads \ {t} : op'[u] = op[u] /\ own'[u] = own[u],
           graph' = graph, capturer' = capturer, st'.capturing = st.capturing
    PROVE  ControlInv'
<1>1. ASSUME NEW u \in Threads, u # t PROVE CallInv(u)'
  BY <1>1 DEF ControlInv, CallInv
<1> QED  BY <1>1 DEF ControlInv

\* A call that is over, or at a point where it owes nothing.
LEMMA RestingCall ==
    ASSUME NEW t \in Threads, CallOK(op'[t]), ~Transferring(op'[t]),
           op'[t].pc \notin {"destroy", "cap_hold", "finish", "abort"}
    PROVE  CallInv(t)'
BY DEF CallInv

\* The idle call, ...
LEMMA IdleCall ==
    CallOK(Idle) /\ ~Transferring(Idle) /\ Idle.pc = "idle" /\ Idle.todo = {} /\ Idle.then = "idle"
BY DEF CallOK, Transferring, Idle

\* ... and one that frees.
LEMMA FreeCall ==
    ASSUME NEW addrs
    PROVE  /\ CallOK([Idle EXCEPT !.pc = "free", !.todo = addrs])
           /\ ~Transferring([Idle EXCEPT !.pc = "free", !.todo = addrs])
           /\ [Idle EXCEPT !.pc = "free", !.todo = addrs].pc = "free"
           /\ [Idle EXCEPT !.pc = "free", !.todo = addrs].todo = addrs
           /\ [Idle EXCEPT !.pc = "free", !.todo = addrs].then = "idle"
<1> DEFINE r == [Idle EXCEPT !.pc = "free", !.todo = addrs]
<1>1. r.pc = "free" /\ r.todo = addrs /\ r.then = "idle"  BY DEF Idle
<1> HIDE DEF r
<1>2. CallOK(r) /\ ~Transferring(r)  BY <1>1 DEF CallOK, Transferring
<1> QED  BY <1>1, <1>2 DEF r

\* The initial state.
LEMMA InitControl == Init => ControlInv
<1> SUFFICES ASSUME Init PROVE ControlInv  OBVIOUS
<1>1. ASSUME NEW t \in Threads PROVE CallInv(t)
  <2>1. op[t] = Idle  BY DEF Init
  <2> QED  BY <2>1, IdleCall DEF CallInv
<1>2. st.capturing <=> capturer # Nobody  BY DEF Init, InitStream
<1> QED  BY <1>1, <1>2 DEF ControlInv

\* Every step keeps the control invariant.
LEMMA NextControl == Types /\ ControlInv /\ [Next]_vars => ControlInv'
<1> SUFFICES ASSUME Types, ControlInv, [Next]_vars PROVE ControlInv'  OBVIOUS
<1>0. /\ StreamOK(st) /\ mem \in AllocatorType /\ graph \in GraphType
      /\ own \in [Threads -> SUBSET Addresses] /\ op \in [Threads -> Calls] /\ held \subseteq Addresses
  BY TypesParts
<1>00. \A t \in Threads : CallInv(t) /\ op[t] \in Calls  BY <1>0 DEF ControlInv
\* Calls that return, or go on to free.
<1>1. ASSUME NEW t \in Threads, Return(t), UNCHANGED <<graph, capturer>>, st'.capturing = st.capturing,
             \A u \in Threads \ {t} : own'[u] = own[u]
      PROVE  ControlInv'
  <2>1. op'[t] = Idle /\ \A u \in Threads \ {t} : op'[u] = op[u]
    BY <1>0, <1>1, IdleType, GotoType DEF Return
  <2> QED  BY <1>1, <2>1, IdleCall, RestingCall, ControlStep
<1>2. ASSUME NEW t \in Threads, NEW addrs \in SUBSET Addresses,
             Goto(t, [Idle EXCEPT !.pc = "free", !.todo = addrs]),
             UNCHANGED <<graph, capturer>>, st'.capturing = st.capturing,
             \A u \in Threads \ {t} : own'[u] = own[u]
      PROVE  ControlInv'
  <2>1. op'[t] = [Idle EXCEPT !.pc = "free", !.todo = addrs] /\ \A u \in Threads \ {t} : op'[u] = op[u]
    BY <1>0, <1>2, FreeCallType, GotoType
  <2>2. CallOK(op'[t]) /\ ~Transferring(op'[t]) /\ op'[t].pc = "free"
    <3> DEFINE r == [Idle EXCEPT !.pc = "free", !.todo = addrs]
    <3>1. CallOK(r) /\ ~Transferring(r) /\ r.pc = "free"  BY FreeCall
    <3> HIDE DEF r
    <3> QED  BY <2>1, <3>1 DEF r
  <2>3. CallInv(t)'  BY <2>2, RestingCall
  <2> QED  BY <1>2, <2>1, <2>3, ControlStep
<1>3. ASSUME NEW t \in Threads, NEW m, NEW kind, NEW a, Take(t, m, kind, a) PROVE ControlInv'
  <2>1. \A u \in Threads \ {t} : own'[u] = own[u]  BY <1>0, <1>3 DEF Take
  <2> QED  BY <1>1, <1>3, <2>1 DEF Take
<1>4. ASSUME NEW t \in Threads, SyncThrows(t) \/ HostDone(t) \/ Trim(t) PROVE ControlInv'
  BY <1>1, <1>4 DEF SyncThrows, HostDone, Trim
<1>5. ASSUME NEW t \in Threads, NEW kind \in Kinds, Alloc(t, kind) PROVE ControlInv'
  BY <1>3, <1>5 DEF Alloc
<1>6. ASSUME NEW t \in Threads, AllocRetry(t) PROVE ControlInv'
  BY <1>1, <1>3, <1>6 DEF AllocRetry
<1>7. ASSUME NEW t \in Threads, NEW a \in own[t], Free(t, a) PROVE ControlInv'
  <2>1. {a} \in SUBSET Addresses  BY <1>0
  <2>2. \A u \in Threads \ {t} : own'[u] = own[u]  BY <1>0, <1>7 DEF Free
  <2> QED  BY <1>2, <1>7, <2>1, <2>2 DEF Free
<1>8. ASSUME NEW t \in Threads, FreeLocked(t) PROVE ControlInv'
  <2>1. op[t].todo \in SUBSET Addresses  BY <1>00 DEF Calls
  <2> QED  BY <1>1, <1>2, <1>8, <2>1 DEF FreeLocked
\* Calls that go on.
<1>9. ASSUME NEW t \in Threads, NEW r \in Calls, Goto(t, r), CallOK(r), ~Transferring(r),
             r.pc \notin {"destroy", "cap_hold", "finish", "abort"},
             UNCHANGED <<graph, capturer, own>>, st'.capturing = st.capturing
      PROVE  ControlInv'
  <2>1. op'[t] = r /\ \A u \in Threads \ {t} : op'[u] = op[u]  BY <1>0, <1>9, GotoType
  <2> QED  BY <1>9, <2>1, RestingCall, ControlStep
<1>10. ASSUME NEW t \in Threads, NEW kind \in Kinds, AllocOutOfMemory(t, kind) PROVE ControlInv'
  <2> DEFINE r == [Idle EXCEPT !.pc = "sync", !.then = "reclaim", !.kind = kind]
  <2>1. r \in Calls /\ CallOK(r) /\ ~Transferring(r) /\ r.pc = "sync"
    BY DEF Idle, Calls, CallPoints, CallOK, Transferring
  <2> QED  BY <1>9, <1>10, <2>1 DEF AllocOutOfMemory
<1>11. ASSUME NEW t \in Threads, Sync(t) \/ MemTrim(t) \/ CaptureCheck(t) PROVE ControlInv'
  <2> DEFINE q(pc) == [Idle EXCEPT !.pc = pc]
             r == [Idle EXCEPT !.pc = "sync", !.then = "trim"]
  <2>1. ASSUME NEW pc \in {"sync", "cap_begin"}
        PROVE  q(pc) \in Calls /\ CallOK(q(pc)) /\ ~Transferring(q(pc)) /\ q(pc).pc = pc
    <3>1. q(pc) \in Calls  BY IdleType, MoveType DEF CallPoints, CapturePoints
    <3>2. q(pc).pc = pc /\ q(pc).then = "idle" /\ q(pc).todo = {}  BY DEF Idle
    <3> QED  BY <3>1, <3>2 DEF CallOK, Transferring
  <2>2. r \in Calls /\ CallOK(r) /\ ~Transferring(r) /\ r.pc = "sync"
    <3>1. r \in Calls  BY IdleType, MoveType DEF CallPoints
    <3>2. r.pc = "sync" /\ r.then = "trim" /\ r.todo = {}  BY DEF Idle
    <3> QED  BY <3>1, <3>2 DEF CallOK, Transferring
  <2>3. CASE Sync(t)  BY <1>9, <2>1, <2>3 DEF Sync
  <2>4. CASE MemTrim(t)  BY <1>9, <2>2, <2>4 DEF MemTrim
  <2>5. CASE CaptureCheck(t)  BY <1>9, <2>1, <2>5 DEF CaptureCheck
  <2> QED  BY <1>11, <2>3, <2>4, <2>5
<1>12. ASSUME NEW t \in Threads, FreeTag(t) PROVE ControlInv'
  <2>1. PICK a \in op[t].todo :
            Goto(t, [op[t] EXCEPT !.pc = "free_locked", !.serial = st.work_serial,
                                  !.addr = a, !.todo = @ \ {a}])
    BY <1>12 DEF FreeTag
  <2> DEFINE r == [op[t] EXCEPT !.pc = "free_locked", !.serial = st.work_serial, !.addr = a, !.todo = @ \ {a}]
  <2>2. r.pc = "free_locked" /\ r.then = op[t].then /\ r.addr = a /\ r.todo = op[t].todo \ {a}
    BY <1>00 DEF Calls
  <2>3. op[t].then = "idle"  BY <1>00, <1>12 DEF FreeTag, CallInv, CallOK
  <2>4. r \in Calls
    <3>1. a \in Addresses /\ op[t].todo \ {a} \in SUBSET Addresses  BY <1>00 DEF Calls
    <3>2. st.work_serial \in Nat  BY <1>0 DEF StreamOK, StreamType
    <3> QED  BY <1>00, <3>1, <3>2 DEF Calls, CallPoints
  <2> HIDE DEF r
  <2>5. CallOK(r) /\ ~Transferring(r)  BY <2>2, <2>3 DEF CallOK, Transferring
  <2> QED  BY <1>9, <1>12, <2>1, <2>2, <2>4, <2>5 DEF FreeTag, r
\* Steps of a sync or of a transfer.
<1>13. ASSUME NEW t \in Threads, NEW r \in Calls, Goto(t, r), CallOK(r),
              Transferring(r) => r.addr \in own[t],
              r.pc \notin {"destroy", "cap_hold", "finish", "abort"},
              UNCHANGED <<graph, capturer, own>>, st'.capturing = st.capturing
       PROVE  ControlInv'
  <2>1. op'[t] = r /\ \A u \in Threads \ {t} : op'[u] = op[u]  BY <1>0, <1>13, GotoType
  <2>2. CallInv(t)'  BY <1>13, <2>1 DEF CallInv
  <2> QED  BY <1>13, <2>1, <2>2, ControlStep
<1>14. ASSUME NEW t \in Threads, SyncCheck(t) \/ UploadAfterSync(t) PROVE ControlInv'
  <2> DEFINE pc == IF op[t].pc = "sync" THEN "sync_submit" ELSE "sync"
             r == [op[t] EXCEPT !.pc = pc]
  <2>1. Goto(t, r) /\ UNCHANGED <<st, graph, capturer, own>> /\ op[t].pc \in {"sync", "h2d_busy"}
    BY <1>14 DEF SyncCheck, UploadAfterSync
  <2>2. pc \in {"sync", "sync_submit"}  OBVIOUS
  <2>3. r \in Calls /\ r.pc = pc /\ r.then = op[t].then /\ r.addr = op[t].addr /\ r.todo = op[t].todo
    <3>1. r \in Calls  BY <1>00, <2>2, MoveType DEF CallPoints
    <3> QED  BY <1>00, <3>1 DEF Calls
  <2> HIDE DEF r, pc
  <2>4. CallOK(r) /\ (Transferring(r) => r.addr \in own[t])
    BY <1>00, <2>1, <2>2, <2>3 DEF CallInv, CallOK, Transferring
  <2> QED  BY <1>13, <2>1, <2>2, <2>3, <2>4
<1>15. ASSUME NEW t \in Threads, SyncSubmit(t) PROVE ControlInv'
  <2> DEFINE r == [op[t] EXCEPT !.pc = "sync_wait", !.serial = st'.submitted]
  <2>1. /\ Goto(t, r) /\ UNCHANGED <<graph, capturer, own>> /\ op[t].pc = "sync_submit"
        /\ st'.capturing = st.capturing /\ st'.submitted \in Nat
    BY <1>0, <1>15, SubmitEffect DEF SyncSubmit, StreamOK, StreamType, SameRecording
  <2>2. /\ r \in Calls /\ r.pc = "sync_wait" /\ r.then = op[t].then /\ r.addr = op[t].addr
        /\ r.todo = op[t].todo
    <3>1. r \in Calls  BY <1>00, <2>1, MoveType DEF CallPoints
    <3> QED  BY <1>00, <3>1 DEF Calls
  <2> HIDE DEF r
  <2>3. CallOK(r) /\ (Transferring(r) => r.addr \in own[t])
    BY <1>00, <2>1, <2>2 DEF CallInv, CallOK, Transferring
  <2> QED  BY <1>13, <2>1, <2>2, <2>3
<1>16. ASSUME NEW t \in Threads, SyncReturn(t) PROVE ControlInv'
  <2>1. CASE op[t].then = "idle"  BY <1>1, <1>16, <2>1 DEF SyncReturn
  <2>2. CASE op[t].then # "idle"
    <3> DEFINE r == [op[t] EXCEPT !.pc = op[t].then, !.then = "idle", !.serial = 0]
    <3>1. Goto(t, r) /\ UNCHANGED <<st, graph, capturer, own>> /\ op[t].pc = "sync_wait"
      BY <1>16, <2>2 DEF SyncReturn
    <3>2. op[t].then \in {"trim", "reclaim", "host"}  BY <1>00, <2>2 DEF Calls
    <3>3. /\ r \in Calls /\ r.pc = op[t].then /\ r.then = "idle" /\ r.addr = op[t].addr
          /\ r.todo = op[t].todo
      <4>1. r \in Calls  BY <1>00, <3>2, MoveType DEF CallPoints
      <4> QED  BY <1>00, <4>1 DEF Calls
    <3> HIDE DEF r
    <3>4. CallOK(r) /\ (Transferring(r) => r.addr \in own[t])
      BY <1>00, <3>1, <3>2, <3>3 DEF CallInv, CallOK, Transferring
    <3> QED  BY <1>13, <3>1, <3>2, <3>3, <3>4
  <2> QED  BY <2>1, <2>2
<1>17. ASSUME NEW t \in Threads, Reclaim(t) PROVE ControlInv'
  <2> DEFINE r == [op[t] EXCEPT !.pc = "retry"]
  <2>1. Goto(t, r) /\ UNCHANGED <<st, graph, capturer, own>> /\ op[t].pc = "reclaim"
    BY <1>17 DEF Reclaim
  <2>2. r \in Calls /\ r.pc = "retry" /\ r.then = op[t].then /\ r.todo = op[t].todo
    <3>1. r \in Calls  BY <1>00, MoveType DEF CallPoints
    <3> QED  BY <1>00, <3>1 DEF Calls
  <2> HIDE DEF r
  <2>3. CallOK(r) /\ ~Transferring(r)  BY <1>00, <2>1, <2>2 DEF CallInv, CallOK, Transferring
  <2> QED  BY <1>9, <2>1, <2>2, <2>3
<1>18. ASSUME NEW t \in Threads, NEW a \in own[t], H2D(t, a) \/ D2H(t, a) PROVE ControlInv'
  <2>1. PICK pc \in {"h2d", "sync"} : Transfer(t, a, pc)  BY <1>18 DEF H2D, D2H
  <2> DEFINE r == [Idle EXCEPT !.pc = pc, !.addr = a, !.then = "host"]
  <2>2. r \in Calls /\ CallOK(r) /\ r.addr = a /\ r.pc = pc
    BY <1>0 DEF Idle, Calls, CallPoints, Kinds, CallOK
  <2> HIDE DEF r
  <2>3. Goto(t, r) /\ UNCHANGED <<st, graph, capturer, own>>  BY <2>1 DEF Transfer, r
  <2> QED  BY <1>13, <2>2, <2>3
<1>19. ASSUME NEW t \in Threads, UploadIdle(t) PROVE ControlInv'
  <2>1. PICK r \in {[op[t] EXCEPT !.pc = "host", !.then = "idle"], [op[t] EXCEPT !.pc = "h2d_busy"]} : Goto(t, r)
    BY <1>19 DEF UploadIdle
  <2>2. UNCHANGED <<st, graph, capturer, own>> /\ op[t].pc = "h2d"  BY <1>19 DEF UploadIdle
  <2>3. op[t].then = "host" /\ op[t].todo = {} /\ op[t].addr \in own[t] /\ op[t].addr \in Addresses
    BY <1>00, <2>2 DEF CallInv, CallOK, Transferring, Calls
  <2>4. /\ r.addr = op[t].addr /\ r.todo = op[t].todo
        /\ \/ r.pc = "host" /\ r.then = "idle"
           \/ r.pc = "h2d_busy" /\ r.then = op[t].then
    BY <1>00 DEF Calls
  <2>5. r \in Calls  BY <1>00, <2>3 DEF Calls, CallPoints
  <2>6. CallOK(r)  BY <2>3, <2>4 DEF CallOK
  <2> QED  BY <1>13, <2>1, <2>2, <2>3, <2>4, <2>5, <2>6
\* Steps that record.
<1>20. ASSUME NEW t \in Threads, NEW a \in own[t], Compute(t, a) PROVE ControlInv'
  <2>1. Op(a) \in DeviceCommands  BY <1>0 DEF Op, DeviceCommands
  <2>2. st'.capturing = st.capturing  BY <1>0, <1>20, <2>1, DispatchEffect DEF Compute, Record
  <2> QED  BY <1>00, <1>20, <2>2, ControlStep DEF Compute, CallInv
<1>21. ASSUME NEW t \in Threads, UploadInline(t) PROVE ControlInv'
  <2>1. Op(op[t].addr) \in DeviceCommands
    BY <1>00, <1>21 DEF Op, DeviceCommands, UploadInline, Calls
  <2>2. st'.capturing = st.capturing  BY <1>0, <1>21, <2>1, DispatchEffect DEF UploadInline, Record
  <2> QED  BY <1>1, <1>21, <2>2 DEF UploadInline
<1>22. ASSUME GpuSignal PROVE ControlInv'
  <2>1. st'.capturing = st.capturing  BY <1>0, <1>22, SignalEffect DEF GpuSignal, SameRecording
  <2>2. UNCHANGED <<op, own, graph, capturer>>  BY <1>22 DEF GpuSignal
  <2> QED  BY <2>1, <2>2 DEF ControlInv, CallInv
\* Capture and graph.
<1>23. ASSUME NEW t \in Threads, CaptureBegin(t) PROVE ControlInv'
  <2>1. op[t].pc = "cap_begin" /\ UNCHANGED <<mem, hold, held, graph, own, commands>>
    BY <1>23 DEF CaptureBegin
  <2>2. CASE st.capturing  BY <1>1, <1>23, <2>1, <2>2 DEF CaptureBegin
  <2>3. CASE ~st.capturing
    <3> DEFINE r == [Idle EXCEPT !.pc = "cap_hold"]
    <3>1. st' = begin_capture(st, TRUE) /\ capturer' = t /\ Goto(t, r)  BY <1>23, <2>3 DEF CaptureBegin
    <3>2. st'.capturing  BY <1>0, <2>3, <3>1, BeginCaptureEffect
    <3>3. r \in Calls /\ CallOK(r) /\ ~Transferring(r) /\ r.pc = "cap_hold"
      BY IdleType DEF Idle, Calls, CallPoints, CapturePoints, CallOK, Transferring
    <3> HIDE DEF r
    <3>4. op'[t] = r /\ \A u \in Threads \ {t} : op'[u] = op[u]  BY <1>0, <3>1, <3>3, GotoType
    <3>5. capturer = Nobody  BY <2>3 DEF ControlInv
    <3>6. ASSUME NEW u \in Threads PROVE CallInv(u)'
      <4>1. CASE u = t  BY <3>1, <3>3, <3>4, <4>1 DEF CallInv
      <4>2. CASE u # t  BY <1>00, <2>1, <3>4, <3>5, <4>2, ThreadsAssumption DEF CallInv
      <4> QED  BY <4>1, <4>2
    <3>7. (st.capturing <=> capturer # Nobody)'  BY <3>1, <3>2, ThreadsAssumption
    <3> QED  BY <3>6, <3>7 DEF ControlInv
  <2> QED  BY <2>2, <2>3
<1>24. ASSUME NEW t \in Threads, CaptureHold(t) PROVE ControlInv'
  BY <1>1, <1>24 DEF CaptureHold
<1>25. ASSUME NEW t \in Threads, Finish(t) \/ Abort(t) PROVE ControlInv'
  <2>1. PICK pc \in {"finish", "abort"} : EndHold(t, pc) /\ (pc = "finish" => graph = NoGraph)
    BY <1>25 DEF Finish, Abort
  <2> DEFINE r == [Idle EXCEPT !.pc = pc]
  <2>2. r \in Calls /\ CallOK(r) /\ ~Transferring(r) /\ r.pc = pc
    BY IdleType DEF Idle, Calls, CallPoints, CapturePoints, CallOK, Transferring
  <2>3. capturer = t /\ Goto(t, r) /\ UNCHANGED <<st, graph, capturer, own>>  BY <2>1 DEF EndHold
  <2> HIDE DEF r
  <2>4. op'[t] = r /\ \A u \in Threads \ {t} : op'[u] = op[u]  BY <1>0, <2>2, <2>3, GotoType
  <2>5. CallInv(t)'  BY <2>1, <2>2, <2>3, <2>4 DEF CallInv
  <2> QED  BY <2>3, <2>4, <2>5, ControlStep
\* The capture ends: nobody else is at one of its points, and nobody destroys a graph that
\* does not exist yet.
<1>26. ASSUME NEW t \in Threads, op[t].pc \in {"finish", "abort"}, capturer' = Nobody, ~st'.capturing,
              UNCHANGED own, \A u \in Threads \ {t} : op'[u] = op[u],
              CallOK(op'[t]), ~Transferring(op'[t]), op'[t].pc \in {"idle", "free"},
              op[t].pc = "abort" => graph' = graph
       PROVE  ControlInv'
  <2>1. CallInv(t)'  BY <1>26 DEF CallInv
  <2>2. capturer = t /\ (op[t].pc = "finish" => graph.owner = Nobody)
    BY <1>00, <1>26 DEF CallInv, NoGraph
  <2>3. ASSUME NEW u \in Threads, u # t PROVE CallInv(u)'
    <3>1. CallInv(u) /\ op'[u] = op[u] /\ own'[u] = own[u]  BY <1>00, <1>26, <2>3
    <3>2. op[u].pc \notin {"cap_hold", "finish", "abort"}  BY <2>2, <2>3, <3>1 DEF CallInv
    <3>3. op[u].pc = "destroy" => graph'.owner = u
      <4>1. CASE op[t].pc = "abort"  BY <1>26, <3>1, <4>1 DEF CallInv
      <4>2. CASE op[t].pc = "finish"  BY <2>2, <3>1, <4>2, ThreadsAssumption DEF CallInv
      <4> QED  BY <1>26, <4>1, <4>2
    <3> QED  BY <3>1, <3>2, <3>3 DEF CallInv
  <2> QED  BY <1>26, <2>1, <2>3 DEF ControlInv
<1>27. ASSUME NEW t \in Threads, FinishCapture(t) PROVE ControlInv'
  <2>1. op'[t] = Idle /\ \A u \in Threads \ {t} : op'[u] = op[u]
    BY <1>0, <1>27, IdleType, GotoType DEF FinishCapture, Return
  <2>2. ~st'.capturing  BY <1>0, <1>27, LeaveCaptureEffect DEF FinishCapture, end_capture
  <2>3. op[t].pc = "finish" /\ capturer' = Nobody /\ UNCHANGED own  BY <1>27 DEF FinishCapture
  <2> QED  BY <1>26, <2>1, <2>2, <2>3, IdleCall
<1>28. ASSUME NEW t \in Threads, AbortCapture(t) PROVE ControlInv'
  <2>1. /\ \A u \in Threads \ {t} : op'[u] = op[u]
        /\ op'[t] = Idle \/ op'[t] = [Idle EXCEPT !.pc = "free", !.todo = held]
    BY <1>0, <1>28, FreeAllType DEF AbortCapture
  <2>2. ~st'.capturing  BY <1>0, <1>28, LeaveCaptureEffect DEF AbortCapture, abort_capture
  <2>3. op[t].pc = "abort" /\ capturer' = Nobody /\ UNCHANGED <<own, graph>>  BY <1>28 DEF AbortCapture
  <2>4. CallOK(op'[t]) /\ ~Transferring(op'[t]) /\ op'[t].pc \in {"idle", "free"}
    <3> DEFINE r == [Idle EXCEPT !.pc = "free", !.todo = held]
    <3>1. CallOK(r) /\ ~Transferring(r) /\ r.pc = "free"  BY FreeCall
    <3> HIDE DEF r
    <3> QED  BY <2>1, <3>1, IdleCall DEF r
  <2> QED  BY <1>26, <2>1, <2>2, <2>3, <2>4
<1>29. ASSUME NEW t \in Threads, Launch(t) PROVE ControlInv'
  <2>1. graph.cbs \in Seq(CommandBuffers(DeviceCommands))  BY <1>0 DEF GraphType
  <2>2. st'.capturing = st.capturing  BY <1>0, <1>29, <2>1, LaunchEffect DEF Launch, SameRecording
  <2>3. graph.owner = t /\ graph'.owner = t /\ UNCHANGED <<op, own, capturer>>
    BY <1>0, <1>29 DEF Launch, GraphType
  <2>4. ASSUME NEW u \in Threads PROVE CallInv(u)'
    <3>1. op[u].pc # "finish"  BY <1>00, <2>3, ThreadsAssumption DEF CallInv, NoGraph
    <3> QED  BY <1>00, <2>3, <3>1 DEF CallInv
  <2> QED  BY <2>2, <2>3, <2>4 DEF ControlInv
<1>30. ASSUME NEW t \in Threads, DestroyGraph(t) PROVE ControlInv'
  <2> DEFINE r == [Idle EXCEPT !.pc = "destroy", !.serial = graph.last_launch]
  <2>1. r \in Calls /\ CallOK(r) /\ ~Transferring(r) /\ r.pc = "destroy"
    BY <1>0 DEF Idle, Calls, CallPoints, Kinds, CallOK, Transferring, GraphType
  <2>2. graph.owner = t /\ Goto(t, r) /\ UNCHANGED <<st, graph, capturer, own>>
    BY <1>30 DEF DestroyGraph
  <2> HIDE DEF r
  <2>3. op'[t] = r /\ \A u \in Threads \ {t} : op'[u] = op[u]  BY <1>0, <2>1, <2>2, GotoType
  <2>4. CallInv(t)'  BY <2>1, <2>2, <2>3 DEF CallInv
  <2> QED  BY <2>2, <2>3, <2>4, ControlStep
<1>31. ASSUME NEW t \in Threads, DestroyWaited(t) PROVE ControlInv'
  <2>1. graph.held \in SUBSET Addresses  BY <1>0 DEF GraphType
  <2>2. /\ \A u \in Threads \ {t} : op'[u] = op[u]
        /\ op'[t] = Idle \/ op'[t] = [Idle EXCEPT !.pc = "free", !.todo = graph.held]
    BY <1>0, <1>31, <2>1, FreeAllType DEF DestroyWaited
  <2>3. op[t].pc = "destroy" /\ graph' = NoGraph /\ UNCHANGED <<st, capturer, own>>
    BY <1>31 DEF DestroyWaited
  <2>4. graph.owner = t  BY <1>00, <2>3 DEF CallInv
  <2>5. ASSUME NEW u \in Threads PROVE CallInv(u)'
    <3>1. CASE u = t
      <4>1. CallOK(op'[t]) /\ ~Transferring(op'[t]) /\ op'[t].pc \in {"idle", "free"}
        <5> DEFINE r == [Idle EXCEPT !.pc = "free", !.todo = graph.held]
        <5>1. CallOK(r) /\ ~Transferring(r) /\ r.pc = "free"  BY FreeCall
        <5> HIDE DEF r
        <5> QED  BY <2>2, <5>1, IdleCall DEF r
      <4> QED  BY <3>1, <4>1, RestingCall
    <3>2. CASE u # t
      <4>1. op[u].pc # "destroy"  BY <1>00, <2>4, <3>2 DEF CallInv
      <4> QED  BY <1>00, <2>2, <2>3, <3>2, <4>1 DEF CallInv
    <3> QED  BY <3>1, <3>2
  <2> QED  BY <2>3, <2>5 DEF ControlInv
<1>32. CASE UNCHANGED vars  BY <1>32 DEF vars, ControlInv, CallInv
<1>33. ASSUME NEW t \in Threads, Thread(t) PROVE ControlInv'
  BY <1>4, <1>5, <1>6, <1>7, <1>8, <1>10, <1>11, <1>12, <1>14, <1>15, <1>16, <1>17, <1>18, <1>19, <1>20,
     <1>21, <1>23, <1>24, <1>25, <1>27, <1>28, <1>29, <1>30, <1>31, <1>33
  DEF Thread
<1> QED  BY <1>22, <1>32, <1>33 DEF Next

-----------------------------------------------------------------------------
(***************************************************************************)
(* Memory: every allocation has one party that will free it, and its block *)
(* is one the allocator has.                                               *)
(***************************************************************************)

\* Four sets of addresses, no two of which meet.
Separate(A, B, C, D) ==
    A \cap B = {} /\ C \cap D = {} /\ (A \cup B) \cap (C \cup D) = {}

\* What is allocated belongs to the recording, to the graph, or to one thread, which uses or is freeing it.
AccountInv ==
    /\ IsFiniteSet(mem.live)
    /\ mem.live = held \cup graph.held \cup UNION {own[t] \cup Freeing(t) : t \in Threads}
    /\ held \cap graph.held = {}
    /\ \A t \in Threads : Separate(held, graph.held, own[t], Freeing(t))
    /\ \A t, u \in Threads : t # u => (own[t] \cup Freeing(t)) \cap (own[u] \cup Freeing(u)) = {}

\* An address handed out is in a block of its kind, alone in it when the block is dedicated;
\* a deferred block is nobody's, and is deferred once.
BlocksOK(m) ==
    /\ \A a \in m.live : m.blocks[a[1]] \in Kinds
    /\ \A a \in m.live : m.blocks[a[1]] = "dedicated" => a[2] = 1
    /\ \A d \in m.deferred : m.blocks[d.block] = "deferred"
    /\ \A d, e \in m.deferred : d.block = e.block => d = e

\* A step in which one thread passes addresses between itself, the recording and the graph,
\* takes new ones or gives some up.
LEMMA AccountStep ==
    ASSUME AccountInv, NEW t \in Threads, NEW old, NEW new,
           old = held \cup graph.held \cup own[t] \cup Freeing(t),
           new = held' \cup graph'.held \cup own'[t] \cup Freeing(t)',
           \A u \in Threads \ {t} : own'[u] = own[u] /\ op'[u] = op[u],
           mem'.live = (mem.live \ old) \cup new,
           (new \ old) \cap mem.live = {},
           Separate(held', graph'.held, own'[t], Freeing(t)'),
           IsFiniteSet(mem'.live)
    PROVE  AccountInv'
<1>1. \A u \in Threads \ {t} : Freeing(u)' = Freeing(u)  BY DEF Freeing
<1>2. ASSUME NEW u \in Threads, u # t PROVE (own[u] \cup Freeing(u)) \cap (old \cup new) = {}
  <2>1. own[u] \cup Freeing(u) \subseteq mem.live  BY DEF AccountInv
  <2>2. (own[u] \cup Freeing(u)) \cap old = {}  BY <1>2 DEF AccountInv, Separate
  <2> QED  BY <2>1, <2>2
<1>3. mem'.live = held' \cup graph'.held \cup UNION {own'[u] \cup Freeing(u)' : u \in Threads}
  <2>1. ASSUME NEW a \in mem'.live
        PROVE  a \in held' \cup graph'.held \cup UNION {own'[u] \cup Freeing(u)' : u \in Threads}
    <3>1. CASE a \in new  BY <3>1
    <3>2. CASE a \in mem.live \ old
      <4>1. PICK u \in Threads : a \in own[u] \cup Freeing(u)  BY <3>2 DEF AccountInv
      <4> QED  BY <1>1, <3>2, <4>1
    <3> QED  BY <3>1, <3>2
  <2>2. ASSUME NEW u \in Threads, NEW a \in own'[u] \cup Freeing(u)' PROVE a \in mem'.live
    <3>1. CASE u = t  BY <2>2, <3>1
    <3>2. CASE u # t
      <4>1. a \in own[u] \cup Freeing(u)  BY <1>1, <2>2, <3>2
      <4>2. a \in mem.live  BY <4>1 DEF AccountInv
      <4> QED  BY <1>2, <3>2, <4>1, <4>2
    <3> QED  BY <3>1, <3>2
  <2>3. held' \cup graph'.held \subseteq mem'.live  OBVIOUS
  <2> QED  BY <2>1, <2>2, <2>3
<1>4. held' \cap graph'.held = {}  BY DEF Separate
<1>5. ASSUME NEW u \in Threads PROVE Separate(held', graph'.held, own'[u], Freeing(u)')
  <2>1. CASE u # t
    <3>1. own[u] \cap Freeing(u) = {}  BY DEF AccountInv, Separate
    <3> QED  BY <1>1, <1>2, <1>4, <2>1, <3>1 DEF Separate
  <2> QED  BY <2>1
<1>6. ASSUME NEW u \in Threads, NEW v \in Threads, u # v
      PROVE  (own'[u] \cup Freeing(u)') \cap (own'[v] \cup Freeing(v)') = {}
  <2>1. CASE u # t /\ v # t  BY <1>1, <1>6, <2>1 DEF AccountInv
  <2>2. CASE u = t  BY <1>1, <1>2, <1>6, <2>2
  <2>3. CASE v = t  BY <1>1, <1>2, <1>6, <2>3
  <2> QED  BY <2>1, <2>2, <2>3
<1> QED  BY <1>3, <1>4, <1>5, <1>6 DEF AccountInv

\* A step that moves no address.
LEMMA AccountFrame ==
    ASSUME AccountInv, mem'.live = mem.live, held' = held, graph'.held = graph.held, own' = own,
           \A u \in Threads : Freeing(u)' = Freeing(u)
    PROVE  AccountInv'
BY DEF AccountInv

\* Collecting deferred blocks keeps the blocks of what is handed out.
LEMMA CollectBlocks ==
    ASSUME NEW m \in AllocatorType, BlocksOK(m), NEW n
    PROVE  BlocksOK(collect(m, n))
<1> DEFINE c == collect(m, n)
<1>1. /\ c.live = m.live /\ c.deferred = {d \in m.deferred : ~(d.serial <= n)}
      /\ \A b \in Blocks : c.blocks[b] =
             IF \E d \in m.deferred : d.serial <= n /\ d.block = b THEN "none" ELSE m.blocks[b]
  BY CollectType
<1> HIDE DEF c
<1>2. m.live \subseteq Blocks \X Cells /\ \A d \in m.deferred : d.block \in Blocks
  BY DEF AllocatorType, Addresses
<1>3. \A a \in c.live : c.blocks[a[1]] = m.blocks[a[1]]  BY <1>1, <1>2 DEF BlocksOK, Kinds
<1>4. ASSUME NEW d \in c.deferred PROVE c.blocks[d.block] = "deferred"
  BY <1>1, <1>2 DEF BlocksOK
<1> QED  BY <1>1, <1>3, <1>4 DEF BlocksOK, c

\* Trimming gives back only pools in which nothing is handed out.
LEMMA TrimBlocks ==
    ASSUME NEW m \in AllocatorType, BlocksOK(m), NEW victims \in SUBSET EmptyPools(m)
    PROVE  BlocksOK(trim(m, victims))
<1> DEFINE c == trim(m, victims)
<1>1. /\ c.live = m.live /\ c.deferred = m.deferred
      /\ \A b \in Blocks : c.blocks[b] = IF b \in victims THEN "none" ELSE m.blocks[b]
  BY TrimType
<1> HIDE DEF c
<1>2. m.live \subseteq Blocks \X Cells /\ \A d \in m.deferred : d.block \in Blocks
  BY DEF AllocatorType, Addresses
<1>3. ASSUME NEW a \in m.live PROVE a[1] \notin victims /\ a[1] \in Blocks
  BY <1>2 DEF EmptyPools, LiveIn
<1>4. ASSUME NEW d \in m.deferred PROVE d.block \notin victims  BY DEF EmptyPools, BlocksOK
<1> QED  BY <1>1, <1>2, <1>3, <1>4 DEF BlocksOK, c

\* What is handed out was nobody's, and its block is or becomes one of its kind.
LEMMA AllocBlocks ==
    ASSUME NEW m \in AllocatorType, BlocksOK(m), NEW kind \in Kinds, NEW a \in Places(m, kind)
    PROVE  a \notin m.live /\ BlocksOK(alloc_locked(m, kind, a))
<1> DEFINE c == alloc_locked(m, kind, a)
<1>1. /\ a \in Addresses /\ a[1] \in Blocks
      /\ m.blocks[a[1]] = "none" \/ (kind = "pool" /\ m.blocks[a[1]] = "pool" /\ a \notin m.live)
      /\ kind = "dedicated" => a[2] = 1
  BY PlacesType
<1>2. /\ c.live = m.live \cup {a} /\ c.deferred = m.deferred
      /\ \A b \in Blocks : c.blocks[b] = IF b = a[1] THEN kind ELSE m.blocks[b]
  BY <1>1, AllocType
<1> HIDE DEF c
<1>3. m.live \subseteq Blocks \X Cells /\ \A d \in m.deferred : d.block \in Blocks
  BY DEF AllocatorType, Addresses
<1>4. a \notin m.live  BY <1>1 DEF BlocksOK, Kinds
<1>5. ASSUME NEW x \in c.live
      PROVE  c.blocks[x[1]] \in Kinds /\ (c.blocks[x[1]] = "dedicated" => x[2] = 1)
  <2>1. CASE x = a  BY <1>1, <1>2, <2>1
  <2>2. CASE x \in m.live /\ x[1] # a[1]  BY <1>2, <1>3, <2>2 DEF BlocksOK
  <2>3. CASE x \in m.live /\ x[1] = a[1]
    <3>1. kind = "pool"  BY <1>1, <2>3 DEF BlocksOK, Kinds
    <3> QED  BY <1>1, <1>2, <2>3, <3>1
  <2> QED  BY <1>2, <2>1, <2>2, <2>3
<1>6. ASSUME NEW d \in m.deferred PROVE d.block # a[1] /\ d.block \in Blocks
  BY <1>1, <1>3 DEF BlocksOK
<1> QED  BY <1>2, <1>4, <1>5, <1>6 DEF BlocksOK, c

\* What is taken back takes its dedicated block with it, and no other address.
LEMMA FreeBlocks ==
    ASSUME NEW m \in AllocatorType, BlocksOK(m), NEW a \in m.live, NEW tag \in Nat, NEW n \in Nat
    PROVE  BlocksOK(free_locked(m, a, tag, n))
<1> DEFINE f == free_locked(m, a, tag, n)
           new == [serial |-> tag, block |-> a[1]]
<1>1. m.live \subseteq Blocks \X Cells /\ a \in Addresses /\ a[1] \in Blocks
      /\ \A d \in m.deferred : d.block \in Blocks /\ m.blocks[d.block] = "deferred"
  BY DEF AllocatorType, Addresses, BlocksOK
<1>2. /\ f.live = m.live \ {a}
      /\ \A b \in Blocks : b # a[1] => f.blocks[b] = m.blocks[b]
      /\ m.blocks[a[1]] = "pool" => f.blocks = m.blocks /\ f.deferred = m.deferred
      /\ m.blocks[a[1]] # "pool" /\ n >= tag => f.blocks[a[1]] = "none" /\ f.deferred = m.deferred
      /\ m.blocks[a[1]] # "pool" /\ ~(n >= tag) =>
             f.blocks[a[1]] = "deferred" /\ f.deferred = m.deferred \cup {new}
  <2>1. a \in Addresses  BY <1>1
  <2>2. f.live = m.live \ {a}  BY <2>1, FreeType
  <2>3. \A b \in Blocks : b # a[1] => f.blocks[b] = m.blocks[b]  BY <2>1, FreeType
  <2>4. m.blocks[a[1]] = "pool" => f.blocks = m.blocks /\ f.deferred = m.deferred  BY <2>1, FreeType
  <2>5. m.blocks[a[1]] # "pool" /\ n >= tag => f.blocks[a[1]] = "none" /\ f.deferred = m.deferred
    BY <2>1, FreeType
  <2>6. m.blocks[a[1]] # "pool" /\ ~(n >= tag) =>
            f.blocks[a[1]] = "deferred" /\ f.deferred = m.deferred \cup {new}
    BY <2>1, FreeType
  <2> HIDE DEF f, new
  <2> QED  BY <2>2, <2>3, <2>4, <2>5, <2>6
<1>3. new.block = a[1]  OBVIOUS
<1> HIDE DEF f, new
<1>4. CASE m.blocks[a[1]] = "pool"  BY <1>2, <1>4 DEF BlocksOK, f
<1>5. CASE m.blocks[a[1]] # "pool"
  <2>1. m.blocks[a[1]] = "dedicated"  BY <1>5 DEF BlocksOK, Kinds
  <2>2. ASSUME NEW x \in f.live PROVE x[1] # a[1] /\ x[1] \in Blocks
    <3>1. x \in m.live /\ x # a  BY <1>2
    <3>2. x[1] = a[1] => x[2] = 1 /\ a[2] = 1  BY <2>1, <3>1 DEF BlocksOK
    <3> QED  BY <1>1, <3>1, <3>2
  <2>3. \A d \in m.deferred : d.block # a[1]  BY <1>1, <2>1
  <2>4. \A x \in f.live : f.blocks[x[1]] = m.blocks[x[1]] /\ x \in m.live  BY <1>2, <2>2
  <2>5. \A d \in f.deferred : f.blocks[d.block] = "deferred"  BY <1>1, <1>2, <1>3, <1>5, <2>3
  <2>6. \A d, e \in f.deferred : d.block = e.block => d = e  BY <1>2, <1>3, <1>5, <2>3 DEF BlocksOK
  <2> QED  BY <2>4, <2>5, <2>6 DEF BlocksOK, f
<1> QED  BY <1>4, <1>5

\* The allocator after collecting, when there is something to collect.
LEMMA ReclaimedBlocks ==
    ASSUME Types, BlocksOK(mem)
    PROVE  BlocksOK(Reclaimed) /\ Reclaimed.live = mem.live
BY TypesParts, CollectType, CollectBlocks DEF Reclaimed

MemoryInv == AccountInv /\ BlocksOK(mem)

\* Only a call that frees has addresses to free.
LEMMA FreesNothing ==
    ASSUME ControlInv, NEW t \in Threads, op[t].pc \notin {"free", "free_locked"}
    PROVE  Freeing(t) = {}
BY DEF ControlInv, CallInv, CallOK, Freeing

\* A call that neither frees nor begins to.
LEMMA MovesNothing ==
    ASSUME ControlInv, ControlInv', NEW t \in Threads,
           \A u \in Threads \ {t} : op'[u] = op[u],
           op[t].pc \notin {"free", "free_locked"}, op'[t].pc \notin {"free", "free_locked"}
    PROVE  \A u \in Threads : Freeing(u)' = Freeing(u)
<1>1. Freeing(t) = {} /\ Freeing(t)' = {}  BY FreesNothing DEF ControlInv, CallInv, CallOK, Freeing
<1>2. ASSUME NEW u \in Threads, u # t PROVE Freeing(u)' = Freeing(u)  BY <1>2 DEF Freeing
<1> QED  BY <1>1, <1>2

\* Where the calls that hand over no address go: the fields of the call that change.
LEMMA PointsNotFree ==
    ASSUME op \in [Threads -> Calls], NEW t \in Threads, NEW r, Goto(t, r),
           r.pc \notin {"free", "free_locked"}
    PROVE  op'[t].pc \notin {"free", "free_locked"} /\ \A u \in Threads \ {t} : op'[u] = op[u]
BY DEF Goto

\* The calls that hand over no address.
MovesOn(t) ==
    \/ \E a \in own[t] : Compute(t, a) \/ H2D(t, a) \/ D2H(t, a)
    \/ \E kind \in Kinds : AllocOutOfMemory(t, kind)
    \/ Sync(t) \/ SyncThrows(t) \/ SyncCheck(t) \/ SyncSubmit(t) \/ SyncReturn(t)
    \/ MemTrim(t) \/ Trim(t) \/ Reclaim(t)
    \/ UploadIdle(t) \/ UploadInline(t) \/ UploadAfterSync(t) \/ HostDone(t)
    \/ CaptureCheck(t) \/ CaptureBegin(t) \/ CaptureHold(t) \/ Finish(t) \/ Abort(t)
    \/ Launch(t) \/ DestroyGraph(t)

\* They leave tensors, held addresses and the other threads alone.
LEMMA MovesOnFrame ==
    ASSUME Types, ControlInv, NEW t \in Threads, MovesOn(t)
    PROVE  /\ held' = held /\ own' = own /\ graph'.held = graph.held
           /\ op[t].pc \notin {"free", "free_locked"} \/ op'[t] = op[t]
           /\ op'[t].pc \notin {"free", "free_locked"} \/ op'[t] = op[t]
           /\ \A u \in Threads \ {t} : op'[u] = op[u]
<1>0. op \in [Threads -> Calls] /\ graph \in GraphType  BY TypesParts
<1>1. op[t] \in Calls  BY <1>0
<1>2. Idle.pc = "idle"  BY DEF Idle
<1>3. ASSUME NEW pc PROVE [op[t] EXCEPT !.pc = pc].pc = pc /\ [Idle EXCEPT !.pc = pc].pc = pc
  BY <1>1 DEF Calls, Idle
<1>4. ASSUME NEW r, Goto(t, r), r.pc \notin {"free", "free_locked"},
             op[t].pc \notin {"free", "free_locked"}, UNCHANGED <<held, own, graph>>
      PROVE  /\ held' = held /\ own' = own /\ graph'.held = graph.held
             /\ op[t].pc \notin {"free", "free_locked"}
             /\ op'[t].pc \notin {"free", "free_locked"}
             /\ \A u \in Threads \ {t} : op'[u] = op[u]
  BY <1>0, <1>4, PointsNotFree
<1>5. CASE \E a \in own[t] : Compute(t, a)  BY <1>5 DEF Compute
<1>6. CASE Launch(t)  BY <1>0, <1>6 DEF Launch, GraphType
<1>7. CASE \E a \in own[t] : H2D(t, a) \/ D2H(t, a)
  <2>1. PICK a \in own[t], pc \in {"h2d", "sync"} : Transfer(t, a, pc)  BY <1>7 DEF H2D, D2H
  <2>2. [Idle EXCEPT !.pc = pc, !.addr = a, !.then = "host"].pc = pc  BY DEF Idle
  <2> QED  BY <1>4, <2>1, <2>2 DEF Transfer, Start
<1>8. CASE \E kind \in Kinds : AllocOutOfMemory(t, kind)
  <2>1. PICK kind \in Kinds : AllocOutOfMemory(t, kind)  BY <1>8
  <2>2. [Idle EXCEPT !.pc = "sync", !.then = "reclaim", !.kind = kind].pc = "sync"  BY DEF Idle
  <2> QED  BY <1>4, <2>1, <2>2 DEF AllocOutOfMemory, Start, StartAlone
<1>9. CASE Sync(t) \/ CaptureCheck(t)
  BY <1>3, <1>4, <1>9 DEF Sync, CaptureCheck, Start, StartAlone
<1>10. CASE MemTrim(t)
  <2>1. [Idle EXCEPT !.pc = "sync", !.then = "trim"].pc = "sync"  BY DEF Idle
  <2> QED  BY <1>4, <1>10, <2>1 DEF MemTrim, Start, StartAlone
<1>11. CASE SyncThrows(t) \/ HostDone(t) \/ UploadInline(t) \/ Trim(t) \/ CaptureHold(t)
  BY <1>2, <1>4, <1>11 DEF SyncThrows, HostDone, UploadInline, Trim, CaptureHold, Return
<1>12. CASE SyncCheck(t) \/ UploadAfterSync(t) \/ Reclaim(t)
  BY <1>3, <1>4, <1>12 DEF SyncCheck, UploadAfterSync, Reclaim
<1>13. CASE SyncSubmit(t)
  <2>1. [op[t] EXCEPT !.pc = "sync_wait", !.serial = st'.submitted].pc = "sync_wait"  BY <1>1 DEF Calls
  <2> QED  BY <1>4, <1>13, <2>1 DEF SyncSubmit
<1>14. CASE SyncReturn(t)
  <2>1. op[t].then \notin {"free", "free_locked"}  BY <1>1 DEF Calls
  <2>2. [op[t] EXCEPT !.pc = op[t].then, !.then = "idle", !.serial = 0].pc = op[t].then  BY <1>1 DEF Calls
  <2> QED  BY <1>2, <1>4, <1>14, <2>1, <2>2 DEF SyncReturn, Return
<1>15. CASE UploadIdle(t)
  <2>1. [op[t] EXCEPT !.pc = "host", !.then = "idle"].pc = "host"  BY <1>1 DEF Calls
  <2> QED  BY <1>3, <1>4, <1>15, <2>1, ZenonT(60) DEF UploadIdle
<1>16. CASE CaptureBegin(t)
  BY <1>2, <1>3, <1>4, <1>16 DEF CaptureBegin, Return
<1>17. CASE Finish(t) \/ Abort(t)
  BY <1>3, <1>4, <1>17 DEF Finish, Abort, EndHold, Start, StartAlone
<1>18. CASE DestroyGraph(t)
  <2>1. [Idle EXCEPT !.pc = "destroy", !.serial = graph.last_launch].pc = "destroy"  BY DEF Idle
  <2> QED  BY <1>4, <1>18, <2>1 DEF DestroyGraph, Start
<1> QED  BY <1>5, <1>6, <1>7, <1>8, <1>9, <1>10, <1>11, <1>12, <1>13, <1>14, <1>15, <1>16, <1>17, <1>18
         DEF MovesOn

\* They give and take no address either; a sync collects, a trim trims.
LEMMA MovesOnMemory ==
    ASSUME Types, BlocksOK(mem), NEW t \in Threads, MovesOn(t)
    PROVE  mem'.live = mem.live /\ BlocksOK(mem')
<1>0. mem \in AllocatorType  BY TypesParts
<1> DEFINE m == collect(mem, st.timeline)
<1>1. m \in AllocatorType /\ m.live = mem.live /\ BlocksOK(m)  BY <1>0, CollectType, CollectBlocks
<1> HIDE DEF m
<1>2. ASSUME NEW victims \in SUBSET EmptyPools(m), mem' = trim(m, victims)
      PROVE  mem'.live = mem.live /\ BlocksOK(mem')
  BY <1>1, <1>2, TrimType, TrimBlocks
<1>3. CASE SyncReturn(t)  BY <1>1, <1>3 DEF SyncReturn, m
<1>4. CASE Trim(t)
  <2>0. PICK keep \in 0 .. Cardinality(Blocks) : \E victims \in TrimChoices(m, keep) : mem' = trim(m, victims)
    BY <1>4 DEF Trim, m
  <2>1. PICK victims \in TrimChoices(m, keep) : mem' = trim(m, victims)  BY <2>0
  <2>2. victims \in SUBSET EmptyPools(m)  BY DEF TrimChoices
  <2> QED  BY <1>2, <2>1, <2>2
<1>5. CASE Reclaim(t)  BY <1>2, <1>5 DEF Reclaim, m
<1>6. CASE mem' = mem  BY <1>6
<1> QED
  BY <1>3, <1>4, <1>5, <1>6
  DEF MovesOn, Compute, H2D, D2H, Transfer, AllocOutOfMemory, Sync, SyncThrows, SyncCheck, SyncSubmit,
      MemTrim, UploadIdle, UploadInline, UploadAfterSync, HostDone, CaptureCheck, CaptureBegin, CaptureHold,
      Finish, Abort, EndHold, Launch, DestroyGraph

\* The initial state.
LEMMA InitMemory == Init => MemoryInv
<1> SUFFICES ASSUME Init PROVE MemoryInv  OBVIOUS
<1>1. mem.live = {} /\ mem.deferred = {} /\ held = {} /\ graph.held = {}
  BY DEF Init, InitAllocator, NoGraph
<1>2. \A t \in Threads : own[t] = {} /\ Freeing(t) = {}  BY DEF Init, Idle, Freeing
<1>3. AccountInv  BY <1>1, <1>2, FS_EmptySet DEF AccountInv, Separate
<1>4. BlocksOK(mem)  BY <1>1 DEF BlocksOK
<1> QED  BY <1>3, <1>4 DEF MemoryInv

\* An address is handed out to t.
LEMMA TakeMemory ==
    ASSUME Types, ControlInv, ControlInv', MemoryInv, NEW t \in Threads, NEW m \in AllocatorType,
           BlocksOK(m), m.live = mem.live, NEW kind \in Kinds, NEW a \in Places(m, kind),
           Take(t, m, kind, a), op[t].pc \notin {"free", "free_locked"}
    PROVE  MemoryInv'
<1>0. own \in [Threads -> SUBSET Addresses] /\ op \in [Threads -> Calls]  BY TypesParts
<1>1. a \notin mem.live /\ BlocksOK(mem')  BY AllocBlocks DEF Take
<1>2. a \in Addresses  BY PlacesType
<1>3. mem'.live = mem.live \cup {a}  BY <1>2, AllocType DEF Take
<1>4. own'[t] = own[t] \cup {a} /\ \A u \in Threads \ {t} : own'[u] = own[u]  BY <1>0 DEF Take
<1>5. op'[t] = Idle /\ \A u \in Threads \ {t} : op'[u] = op[u]
  BY <1>0, IdleType, GotoType DEF Take, Return
<1>6. Freeing(t) = {} /\ Freeing(t)' = {}
  <2>1. Freeing(t) = {}  BY FreesNothing
  <2>2. Freeing(t)' = {}  BY <1>5 DEF Freeing, Idle
  <2> QED  BY <2>1, <2>2
<1>7. held' = held /\ graph' = graph  BY DEF Take
<1>8. IsFiniteSet(mem'.live)  BY <1>3, FS_AddElement DEF MemoryInv, AccountInv
<1>9. held \cup graph.held \cup own[t] \cup Freeing(t) \subseteq mem.live
  BY DEF MemoryInv, AccountInv
<1>10. Separate(held', graph'.held, own'[t], Freeing(t)')
  BY <1>1, <1>4, <1>6, <1>7, <1>9 DEF MemoryInv, AccountInv, Separate
<1>11. AccountInv'
  <2> DEFINE old == held \cup graph.held \cup own[t] \cup Freeing(t)
             new == held' \cup graph'.held \cup own'[t] \cup Freeing(t)'
  <2>1. new = old \cup {a} /\ a \notin old /\ old \subseteq mem.live  BY <1>1, <1>4, <1>6, <1>7, <1>9
  <2>2. mem'.live = (mem.live \ old) \cup new /\ (new \ old) \cap mem.live = {}
    BY <1>1, <1>3, <2>1
  <2> QED  BY <1>4, <1>5, <1>8, <1>10, <2>2, AccountStep DEF MemoryInv
<1> QED  BY <1>1, <1>11 DEF MemoryInv

\* Addresses change hands between t's tensors, t's call, the recording and the graph.
LEMMA HandOver ==
    ASSUME AccountInv, NEW t \in Threads,
           \A u \in Threads \ {t} : own'[u] = own[u] /\ op'[u] = op[u],
           mem'.live = mem.live,
           held' \cup graph'.held \cup own'[t] \cup Freeing(t)'
             = held \cup graph.held \cup own[t] \cup Freeing(t),
           Separate(held', graph'.held, own'[t], Freeing(t)')
    PROVE  AccountInv'
<1> DEFINE old == held \cup graph.held \cup own[t] \cup Freeing(t)
<1>1. old \subseteq mem.live /\ IsFiniteSet(mem.live)  BY DEF AccountInv
<1>2. mem'.live = (mem.live \ old) \cup old /\ (old \ old) \cap mem.live = {}  BY <1>1
<1> QED  BY <1>1, <1>2, AccountStep

\* Every step keeps the accounts and the blocks.
LEMMA NextMemory ==
    Types /\ ControlInv /\ ControlInv' /\ MemoryInv /\ [Next]_vars => MemoryInv'
<1> SUFFICES ASSUME Types, ControlInv, ControlInv', MemoryInv, [Next]_vars PROVE MemoryInv'  OBVIOUS
<1>0. /\ mem \in AllocatorType /\ own \in [Threads -> SUBSET Addresses] /\ op \in [Threads -> Calls]
      /\ graph \in GraphType /\ held \subseteq Addresses /\ st.timeline \in Nat
  BY TypesParts
<1>00. AccountInv /\ BlocksOK(mem)  BY DEF MemoryInv
<1>1. ASSUME NEW t \in Threads, MovesOn(t) PROVE MemoryInv'
  <2>1. /\ held' = held /\ own' = own /\ graph'.held = graph.held
        /\ op[t].pc \notin {"free", "free_locked"} \/ op'[t] = op[t]
        /\ op'[t].pc \notin {"free", "free_locked"} \/ op'[t] = op[t]
        /\ \A u \in Threads \ {t} : op'[u] = op[u]
    BY <1>1, MovesOnFrame
  <2>2. \A u \in Threads : Freeing(u)' = Freeing(u)
    <3>1. CASE op'[t] = op[t]  BY <2>1, <3>1 DEF Freeing
    <3>2. CASE op'[t] # op[t]  BY <2>1, <3>2, MovesNothing
    <3> QED  BY <3>1, <3>2
  <2>3. mem'.live = mem.live /\ BlocksOK(mem')  BY <1>00, <1>1, MovesOnMemory
  <2> QED  BY <1>00, <2>1, <2>2, <2>3, AccountFrame DEF MemoryInv
<1>2. ASSUME NEW t \in Threads, NEW kind \in Kinds, Alloc(t, kind) PROVE MemoryInv'
  <2>1. PICK a \in Places(Reclaimed, kind) : Take(t, Reclaimed, kind, a)  BY <1>2 DEF Alloc
  <2>2. op[t].pc \notin {"free", "free_locked"}  BY <1>2 DEF Alloc, Start
  <2> HIDE DEF Reclaimed
  <2> QED  BY <1>00, <2>1, <2>2, ReclaimedType, ReclaimedBlocks, TakeMemory
<1>3. ASSUME NEW t \in Threads, AllocRetry(t) PROVE MemoryInv'
  <2>1. op[t].kind \in Kinds /\ op[t].pc = "retry"  BY <1>0, <1>3 DEF Calls, AllocRetry
  <2>2. CASE \E a \in Places(mem, op[t].kind) : Take(t, mem, op[t].kind, a)
    BY <1>0, <1>00, <2>1, <2>2, TakeMemory
  <2>3. CASE Return(t) /\ UNCHANGED <<st, mem, hold, held, capturer, graph, own, commands>>
    <3>1. op'[t] = Idle /\ \A u \in Threads \ {t} : op'[u] = op[u]
      BY <1>0, <2>3, IdleType, GotoType DEF Return
    <3>2. \A u \in Threads : Freeing(u)' = Freeing(u)  BY <2>1, <3>1, IdleCall, MovesNothing
    <3> QED  BY <1>00, <2>3, <3>2, AccountFrame DEF MemoryInv
  <2> QED  BY <1>3, <2>2, <2>3 DEF AllocRetry
<1>4. ASSUME NEW t \in Threads, NEW a \in own[t], Free(t, a) PROVE MemoryInv'
  <2>1. {a} \in SUBSET Addresses  BY <1>0
  <2>2. op'[t] = [Idle EXCEPT !.pc = "free", !.todo = {a}] /\ \A u \in Threads \ {t} : op'[u] = op[u]
    BY <1>0, <1>4, <2>1, FreeCallType, GotoType DEF Free
  <2>3. Freeing(t)' = {a}  BY <2>2 DEF Freeing, Idle
  <2>4. Freeing(t) = {}  BY <1>4, FreesNothing DEF Free, Start
  <2>5. own'[t] = own[t] \ {a} /\ \A u \in Threads \ {t} : own'[u] = own[u]  BY <1>0, <1>4 DEF Free
  <2>6. UNCHANGED <<mem, held, graph>>  BY <1>4 DEF Free
  <2>7. Separate(held', graph'.held, own'[t], Freeing(t)')
    BY <1>00, <2>3, <2>5, <2>6 DEF AccountInv, Separate
  <2>8. held' \cup graph'.held \cup own'[t] \cup Freeing(t)'
          = held \cup graph.held \cup own[t] \cup Freeing(t)
    BY <2>3, <2>4, <2>5, <2>6
  <2>9. mem' = mem /\ \A u \in Threads \ {t} : own'[u] = own[u] /\ op'[u] = op[u]  BY <2>2, <2>5, <2>6
  <2>10. AccountInv'  BY <1>00, <2>7, <2>8, <2>9, HandOver
  <2> QED  BY <1>00, <2>6, <2>10 DEF MemoryInv
<1>5. ASSUME NEW t \in Threads, FreeTag(t) PROVE MemoryInv'
  <2>1. PICK a \in op[t].todo :
            Goto(t, [op[t] EXCEPT !.pc = "free_locked", !.serial = st.work_serial,
                                  !.addr = a, !.todo = @ \ {a}])
    BY <1>5 DEF FreeTag
  <2>2. op'[t].pc = "free_locked" /\ op'[t].addr = a /\ op'[t].todo = op[t].todo \ {a}
        /\ \A u \in Threads \ {t} : op'[u] = op[u]
    BY <1>0, <2>1 DEF Goto, Calls
  <2>3. op[t].pc = "free"  BY <1>5 DEF FreeTag
  <2>4. Freeing(t) = op[t].todo /\ Freeing(t)' = op[t].todo  BY <2>2, <2>3 DEF Freeing
  <2>5. UNCHANGED <<mem, held, graph, own>>  BY <1>5 DEF FreeTag
  <2>6. \A u \in Threads : Freeing(u)' = Freeing(u)  BY <2>2, <2>4 DEF Freeing
  <2> QED  BY <1>00, <2>5, <2>6, AccountFrame DEF MemoryInv
<1>6. ASSUME NEW t \in Threads, FreeLocked(t) PROVE MemoryInv'
  <2> DEFINE a == op[t].addr
  <2>1. op[t].pc = "free_locked" /\ a \in Addresses /\ op[t].todo \in SUBSET Addresses /\ op[t].serial \in Nat
    BY <1>0, <1>6 DEF FreeLocked, Calls
  <2>2. a \notin op[t].todo  BY <2>1 DEF ControlInv, CallInv, CallOK
  <2>3. Freeing(t) = op[t].todo \cup {a}  BY <2>1 DEF Freeing
  <2>4. Freeing(t)' = op[t].todo /\ \A u \in Threads \ {t} : op'[u] = op[u]
    <3>1. CASE op[t].todo = {}
      <4>1. op'[t] = Idle /\ \A u \in Threads \ {t} : op'[u] = op[u]
        BY <1>0, <1>6, <3>1, IdleType, GotoType DEF FreeLocked, Return
      <4> QED  BY <3>1, <4>1 DEF Freeing, Idle
    <3>2. CASE op[t].todo # {}
      <4>1. op'[t] = [Idle EXCEPT !.pc = "free", !.todo = op[t].todo] /\ \A u \in Threads \ {t} : op'[u] = op[u]
        BY <1>0, <1>6, <2>1, <3>2, FreeCallType, GotoType DEF FreeLocked
      <4> QED  BY <4>1 DEF Freeing, Idle
    <3> QED  BY <3>1, <3>2
  <2>5. a \in mem.live  BY <1>00, <2>3 DEF AccountInv
  <2>6. graph' = graph /\ own' = own  BY <1>6 DEF FreeLocked
  <2> HIDE DEF a
  <2>7. CASE hold # Nobody
    <3>1. held' = held \cup {a} /\ mem' = mem  BY <1>6, <2>7 DEF FreeLocked, a
    <3>2. Separate(held', graph'.held, own'[t], Freeing(t)')
      BY <1>00, <2>2, <2>3, <2>4, <2>6, <3>1 DEF AccountInv, Separate
    <3>3. AccountInv'  BY <1>00, <2>3, <2>4, <2>6, <3>1, <3>2, HandOver
    <3> QED  BY <1>00, <3>1, <3>3 DEF MemoryInv
  <2>8. CASE hold = Nobody
    <3>1. mem' = free_locked(mem, a, op[t].serial, st.timeline) /\ held' = held
      BY <1>6, <2>8 DEF FreeLocked, a
    <3>2. BlocksOK(mem')  BY <1>0, <1>00, <2>1, <2>5, <3>1, FreeBlocks
    <3>3. mem'.live = mem.live \ {a}  BY <1>0, <2>1, <3>1, FreeType, SMTT(30) DEF a
    <3>4. IsFiniteSet(mem'.live)
      <4>1. IsFiniteSet(mem.live)  BY <1>00 DEF AccountInv
      <4>2. IsFiniteSet(mem.live \ {a})  BY <4>1, FS_RemoveElement
      <4> QED  BY <3>3, <4>2
    <3>5. Separate(held', graph'.held, own'[t], Freeing(t)')
      BY <1>00, <2>3, <2>4, <2>6, <3>1 DEF AccountInv, Separate
    <3> DEFINE old == held \cup graph.held \cup own[t] \cup Freeing(t)
               new == held' \cup graph'.held \cup own'[t] \cup Freeing(t)'
    <3>6. new = old \ {a}
      <4>1. a \notin held /\ a \notin graph.held /\ a \notin own[t]
        BY <1>00, <2>3 DEF AccountInv, Separate
      <4> QED  BY <2>2, <2>3, <2>4, <2>6, <3>1, <4>1
    <3>7. old \subseteq mem.live  BY <1>00 DEF AccountInv
    <3>8. a \in old  BY <2>3
    <3>9. mem'.live = (mem.live \ old) \cup new /\ (new \ old) \cap mem.live = {}
      BY <3>3, <3>6, <3>7, <3>8
    <3>10. AccountInv'  BY <1>00, <2>4, <2>6, <3>4, <3>5, <3>9, AccountStep
    <3> QED  BY <3>2, <3>10 DEF MemoryInv
  <2> QED  BY <2>7, <2>8
<1>7. ASSUME NEW t \in Threads, FinishCapture(t) PROVE MemoryInv'
  <2>1. op'[t] = Idle /\ \A u \in Threads \ {t} : op'[u] = op[u]
    BY <1>0, <1>7, IdleType, GotoType DEF FinishCapture, Return
  <2>2. op[t].pc = "finish" /\ UNCHANGED <<mem, own>> /\ held' = {} /\ graph'.held = held
    BY <1>7 DEF FinishCapture
  <2>3. graph.held = {}  BY <2>2 DEF ControlInv, CallInv, NoGraph
  <2>4. Freeing(t) = {} /\ Freeing(t)' = {}
    <3>1. Freeing(t) = {}  BY <2>2, FreesNothing
    <3>2. Freeing(t)' = {}  BY <2>1 DEF Freeing, Idle
    <3> QED  BY <3>1, <3>2
  <2>5. Separate(held', graph'.held, own'[t], Freeing(t)')
    BY <1>00, <2>2, <2>4 DEF AccountInv, Separate
  <2>6. AccountInv'  BY <1>00, <2>1, <2>2, <2>3, <2>4, <2>5, HandOver
  <2> QED  BY <1>00, <2>2, <2>6 DEF MemoryInv
\* A set of addresses is to be freed by t.
<1>8. ASSUME NEW t \in Threads, NEW addrs \in SUBSET Addresses, FreeAll(t, addrs),
             op[t].pc \notin {"free", "free_locked"}
      PROVE  /\ Freeing(t) = {} /\ Freeing(t)' = addrs
             /\ \A u \in Threads \ {t} : op'[u] = op[u]
  <2>1. /\ \A u \in Threads \ {t} : op'[u] = op[u]
        /\ addrs = {} => op'[t] = Idle
        /\ addrs # {} => op'[t] = [Idle EXCEPT !.pc = "free", !.todo = addrs]
    BY <1>0, <1>8, FreeAllType
  <2>2. Freeing(t) = {}  BY <1>8, FreesNothing
  <2>3. CASE addrs = {}  BY <2>1, <2>2, <2>3 DEF Freeing, Idle
  <2>4. CASE addrs # {}
    <3>1. op'[t].pc = "free" /\ op'[t].todo = addrs  BY <2>1, <2>4 DEF Idle
    <3> QED  BY <2>1, <2>2, <3>1 DEF Freeing
  <2> QED  BY <2>3, <2>4
<1>9. ASSUME NEW t \in Threads, AbortCapture(t) PROVE MemoryInv'
  <2>1. op[t].pc = "abort" /\ UNCHANGED <<mem, own, graph>> /\ held' = {} /\ FreeAll(t, held)
    BY <1>9 DEF AbortCapture
  <2>2. /\ Freeing(t) = {} /\ Freeing(t)' = held
        /\ \A u \in Threads \ {t} : op'[u] = op[u]
    BY <1>0, <1>8, <2>1
  <2>3. Separate(held', graph'.held, own'[t], Freeing(t)')
    BY <1>00, <2>1, <2>2 DEF AccountInv, Separate
  <2>4. AccountInv'  BY <1>00, <2>1, <2>2, <2>3, HandOver
  <2> QED  BY <1>00, <2>1, <2>4 DEF MemoryInv
<1>10. ASSUME NEW t \in Threads, DestroyWaited(t) PROVE MemoryInv'
  <2>1. op[t].pc = "destroy" /\ UNCHANGED <<own, held>> /\ graph' = NoGraph /\ FreeAll(t, graph.held)
    BY <1>10 DEF DestroyWaited
  <2>2. graph.held \in SUBSET Addresses /\ graph'.held = {}  BY <1>0, <2>1 DEF GraphType, NoGraph
  <2>3. /\ Freeing(t) = {} /\ Freeing(t)' = graph.held
        /\ \A u \in Threads \ {t} : op'[u] = op[u]
    BY <1>8, <2>1, <2>2
  <2>4. mem'.live = mem.live /\ BlocksOK(mem')
    BY <1>0, <1>00, <1>10, CollectType, CollectBlocks DEF DestroyWaited
  <2>5. Separate(held', graph'.held, own'[t], Freeing(t)')
    BY <1>00, <2>1, <2>2, <2>3 DEF AccountInv, Separate
  <2>6. AccountInv'  BY <1>00, <2>1, <2>2, <2>3, <2>4, <2>5, HandOver
  <2> QED  BY <2>4, <2>6 DEF MemoryInv
<1>11. CASE GpuSignal \/ UNCHANGED vars
  <2>1. UNCHANGED <<mem, held, graph, own, op>>  BY <1>11 DEF GpuSignal, vars
  <2>2. \A u \in Threads : Freeing(u)' = Freeing(u)  BY <2>1 DEF Freeing
  <2> QED  BY <1>00, <2>1, <2>2, AccountFrame DEF MemoryInv
<1>12. ASSUME NEW t \in Threads, Thread(t) PROVE MemoryInv'
  BY <1>1, <1>2, <1>3, <1>4, <1>5, <1>6, <1>7, <1>9, <1>10, <1>12 DEF Thread, MovesOn
<1> QED  BY <1>11, <1>12 DEF Next

\* Sets of addresses that do not meet, counted together and by owner.
LEMMA CountByOwner ==
    ASSUME NEW f \in [Threads -> SUBSET Addresses],
           \A t, u \in Threads : t # u => f[t] \cap f[u] = {},
           NEW all, all = UNION {f[t] : t \in Threads}, IsFiniteSet(all)
    PROVE  Cardinality({p \in Threads \X Addresses : p[2] \in f[p[1]]}) = Cardinality(all)
<1> DEFINE pairs == {p \in Threads \X Addresses : p[2] \in f[p[1]]}
           second == [p \in pairs |-> p[2]]
<1>1. second \in [pairs -> all]  OBVIOUS
<1>2. ASSUME NEW p \in pairs, NEW q \in pairs, second[p] = second[q] PROVE p = q
  <2>1. p[2] = q[2] /\ p[2] \in f[p[1]] /\ p[2] \in f[q[1]] /\ p[1] \in Threads /\ q[1] \in Threads
    BY <1>2
  <2>2. p[1] = q[1]  BY <2>1
  <2> QED  BY <2>1, <2>2
<1>3. ASSUME NEW a \in all PROVE \E p \in pairs : second[p] = a
  <2>1. PICK t \in Threads : a \in f[t]  OBVIOUS
  <2>2. <<t, a>> \in pairs  BY <2>1
  <2> QED  BY <2>2
<1> HIDE DEF pairs, second
<1>4. second \in Injection(pairs, all) /\ second \in Surjection(pairs, all)
  BY <1>1, <1>2, <1>3 DEF Injection, Surjection, IsInjective
<1>5. Cardinality(pairs) = Cardinality(all)  BY <1>4, FS_Injection
<1> QED  BY <1>5 DEF pairs

\* Two finite sets that do not meet.
LEMMA CountSum ==
    ASSUME NEW A, NEW B, IsFiniteSet(A), IsFiniteSet(B), A \cap B = {}
    PROVE  IsFiniteSet(A \cup B) /\ Cardinality(A \cup B) = Cardinality(A) + Cardinality(B)
<1>1. Cardinality(A) \in Nat /\ Cardinality(B) \in Nat  BY FS_CardinalityType
<1>2. /\ IsFiniteSet(A \cup B)
      /\ Cardinality(A \cup B) = Cardinality(A) + Cardinality(B) - Cardinality(A \cap B)
  BY FS_Union
<1>3. Cardinality(A \cap B) = 0  BY FS_EmptySet
<1> QED  BY <1>1, <1>2, <1>3

\* The accounts add up.
LEMMA AccountsAddUp == ASSUME Types, AccountInv PROVE LiveAccounted
<1> DEFINE owned == UNION {own[t] : t \in Threads}
           freed == UNION {Freeing(t) : t \in Threads}
           f == [t \in Threads |-> Freeing(t)]
<1>0. own \in [Threads -> SUBSET Addresses] /\ op \in [Threads -> Calls]  BY TypesParts
<1>1. f \in [Threads -> SUBSET Addresses]  BY <1>0 DEF Freeing, Calls
<1>2. mem.live = (held \cup graph.held) \cup (owned \cup freed)  BY DEF AccountInv
<1>3. IsFiniteSet(held) /\ IsFiniteSet(graph.held) /\ IsFiniteSet(owned) /\ IsFiniteSet(freed)
  <2>1. IsFiniteSet(mem.live)  BY DEF AccountInv
  <2>2. \A T \in SUBSET mem.live : IsFiniteSet(T)  BY <2>1, FS_Subset
  <2>3. held \in SUBSET mem.live /\ graph.held \in SUBSET mem.live
        /\ owned \in SUBSET mem.live /\ freed \in SUBSET mem.live
    BY <1>2
  <2> HIDE DEF owned, freed
  <2> QED  BY <2>2, <2>3
<1>4. Cardinality({p \in Threads \X Addresses : p[2] \in own[p[1]]}) = Cardinality(owned)
  <2>1. \A t, u \in Threads : t # u => own[t] \cap own[u] = {}  BY DEF AccountInv
  <2> QED  BY <1>0, <1>3, <2>1, CountByOwner
<1>5. Cardinality({p \in Threads \X Addresses : p[2] \in Freeing(p[1])}) = Cardinality(freed)
  <2>1. \A t, u \in Threads : t # u => f[t] \cap f[u] = {}  BY DEF AccountInv
  <2>2. freed = UNION {f[t] : t \in Threads}  OBVIOUS
  <2>3. {p \in Threads \X Addresses : p[2] \in Freeing(p[1])} = {p \in Threads \X Addresses : p[2] \in f[p[1]]}
    OBVIOUS
  <2> HIDE DEF f, freed
  <2>4. Cardinality({p \in Threads \X Addresses : p[2] \in f[p[1]]}) = Cardinality(freed)
    BY <1>1, <1>3, <2>1, <2>2, CountByOwner
  <2> QED  BY <2>3, <2>4
<1>6. /\ held \cap graph.held = {} /\ owned \cap freed = {}
      /\ (held \cup graph.held) \cap (owned \cup freed) = {}
  <2>1. ASSUME NEW a \in owned, a \in freed PROVE FALSE
    <3>1. PICK t \in Threads : a \in own[t]  OBVIOUS
    <3>2. PICK u \in Threads : a \in Freeing(u)  BY <2>1
    <3> QED  BY <3>1, <3>2 DEF AccountInv, Separate
  <2>2. ASSUME NEW a \in held \cup graph.held, a \in owned \cup freed PROVE FALSE
    <3>1. PICK t \in Threads : a \in own[t] \cup Freeing(t)  BY <2>2
    <3> QED  BY <3>1 DEF AccountInv, Separate
  <2> QED  BY <2>1, <2>2 DEF AccountInv
<1> HIDE DEF owned, freed
<1>7. /\ Cardinality(held) \in Nat /\ Cardinality(graph.held) \in Nat
      /\ Cardinality(owned) \in Nat /\ Cardinality(freed) \in Nat
  BY <1>3, FS_CardinalityType
<1>8. /\ IsFiniteSet(held \cup graph.held) /\ IsFiniteSet(owned \cup freed)
      /\ Cardinality(held \cup graph.held) = Cardinality(held) + Cardinality(graph.held)
      /\ Cardinality(owned \cup freed) = Cardinality(owned) + Cardinality(freed)
  BY <1>3, <1>6, CountSum
<1>9. Cardinality(mem.live) = Cardinality(held \cup graph.held) + Cardinality(owned \cup freed)
  BY <1>2, <1>6, <1>8, CountSum
<1>10. Cardinality(mem.live) = Cardinality(held) + Cardinality(graph.held)
         + Cardinality({p \in Threads \X Addresses : p[2] \in own[p[1]]})
         + Cardinality({p \in Threads \X Addresses : p[2] \in Freeing(p[1])})
  BY <1>4, <1>5, <1>7, <1>8, <1>9
<1>11. mem.live = held \cup graph.held \cup UNION {own[t] \cup Freeing(t) : t \in Threads}
  BY DEF AccountInv
<1> QED  BY <1>10, <1>11 DEF LiveAccounted

\* The invariant that needs no coordination of the clients.
RuntimeInv == Types /\ ControlInv /\ MemoryInv

\* What holds whether or not the clients coordinate captures and trims.
LEMMA RuntimeInvariant == Spec => []RuntimeInv
<1>1. Init => RuntimeInv  BY InitTypes, InitControl, InitMemory DEF RuntimeInv
<1>2. RuntimeInv /\ [Next]_vars => RuntimeInv'
  BY NextTypes, NextControl, NextMemory DEF RuntimeInv
<1> QED  BY <1>1, <1>2, PTL DEF Spec

\* Every allocation has exactly one party that will free it, through captures that hold
\* frees, graphs that inherit them and calls that free one address after the other: nothing
\* leaks and nothing is freed twice, for any number of threads, blocks and ranges.
THEOREM NothingLeaks == Spec => []LiveAccounted
<1>1. RuntimeInv => LiveAccounted  BY AccountsAddUp DEF RuntimeInv, MemoryInv
<1> QED  BY <1>1, RuntimeInvariant, PTL

-----------------------------------------------------------------------------
(***************************************************************************)
(* What a step may do to a call and to the stream.                         *)
(***************************************************************************)

\* Only SyncSubmit begins to wait; only the return of a sync, and an upload that finds the
\* stream idle, go on to touch memory; only FreeTag goes on to free under the lock.
LEMMA CallSteps ==
    ASSUME Types, NEW t \in Threads, Thread(t)
    PROVE  /\ \A u \in Threads \ {t} : op'[u] = op[u]
           /\ \/ op'[t] = op[t]
              \/ SyncSubmit(t) \/ SyncReturn(t) \/ UploadIdle(t) \/ FreeTag(t)
              \/ op'[t].pc \notin {"sync_wait", "host", "trim", "reclaim", "free_locked"}
           /\ \/ op'[t] = op[t] \/ UploadIdle(t) \/ \E a \in own[t] : H2D(t, a)
              \/ op'[t].pc \notin {"h2d", "h2d_busy"}
<1>0. op \in [Threads -> Calls] /\ graph \in GraphType /\ held \subseteq Addresses  BY TypesParts
<1>1. op[t] \in Calls  BY <1>0
<1>2. Idle.pc = "idle"  BY DEF Idle
<1>3. ASSUME NEW pc PROVE [op[t] EXCEPT !.pc = pc].pc = pc /\ [Idle EXCEPT !.pc = pc].pc = pc
  BY <1>1 DEF Calls, Idle
<1> DEFINE Quiet == /\ \A u \in Threads \ {t} : op'[u] = op[u]
                    /\ op'[t].pc \notin {"sync_wait", "host", "trim", "reclaim", "free_locked"}
                    /\ op'[t].pc \notin {"h2d", "h2d_busy"}
<1>4. ASSUME NEW r, Goto(t, r), r.pc \notin {"sync_wait", "host", "trim", "reclaim", "free_locked"},
             r.pc \notin {"h2d", "h2d_busy"}
      PROVE  Quiet
  BY <1>0, <1>4 DEF Goto
<1>5. ASSUME NEW r, Goto(t, r) PROVE \A u \in Threads \ {t} : op'[u] = op[u]
  BY <1>0, <1>5 DEF Goto
<1>6. ASSUME Return(t) PROVE Quiet  BY <1>2, <1>4, <1>6 DEF Return
<1>7. ASSUME NEW addrs, Goto(t, [Idle EXCEPT !.pc = "free", !.todo = addrs]) PROVE Quiet
  <2>1. [Idle EXCEPT !.pc = "free", !.todo = addrs].pc = "free"  BY DEF Idle
  <2> QED  BY <1>4, <1>7, <2>1
<1> HIDE DEF Quiet
<1>8. CASE op' = op  BY <1>8
<1>9. CASE SyncSubmit(t) \/ SyncReturn(t) \/ UploadIdle(t) \/ FreeTag(t)
  <2>1. \A u \in Threads \ {t} : op'[u] = op[u]
    BY <1>5, <1>9 DEF SyncSubmit, SyncReturn, UploadIdle, FreeTag, Return
  <2>2. UploadIdle(t) \/ op'[t].pc \notin {"h2d", "h2d_busy"}
    <3>1. CASE SyncSubmit(t)  BY <1>0, <1>1, <3>1 DEF SyncSubmit, Goto, Calls
    <3>2. CASE SyncReturn(t)
      <4>1. op'[t] = Idle \/ op'[t].pc = op[t].then
        BY <1>0, <1>1, <3>2 DEF SyncReturn, Return, Goto, Calls
      <4>2. op[t].then \notin {"h2d", "h2d_busy"}  BY <1>1 DEF Calls
      <4> QED  BY <1>2, <4>1, <4>2
    <3>3. CASE FreeTag(t)  BY <1>0, <1>1, <3>3 DEF FreeTag, Goto, Calls
    <3> QED  BY <1>9, <3>1, <3>2, <3>3
  <2> QED  BY <1>9, <2>1, <2>2
<1>10. CASE \E a \in own[t] : H2D(t, a) \/ D2H(t, a)
  <2>1. PICK a \in own[t] : H2D(t, a) \/ D2H(t, a)  BY <1>10
  <2>2. \A pc : [Idle EXCEPT !.pc = pc, !.addr = a, !.then = "host"].pc = pc  BY DEF Idle
  <2>3. CASE H2D(t, a)
    <3>1. \A u \in Threads \ {t} : op'[u] = op[u]  BY <1>5, <2>3 DEF H2D, Transfer
    <3>2. op'[t].pc = "h2d"  BY <1>0, <2>2, <2>3 DEF H2D, Transfer, Goto
    <3> QED  BY <2>3, <3>1, <3>2
  <2>4. CASE D2H(t, a)
    <3>1. Quiet  BY <1>4, <2>2, <2>4 DEF D2H, Transfer
    <3> QED  BY <3>1 DEF Quiet
  <2> QED  BY <2>1, <2>3, <2>4
<1>11. CASE \E a \in own[t] : Free(t, a)
  <2>1. Quiet  BY <1>7, <1>11 DEF Free
  <2> QED  BY <2>1 DEF Quiet
<1>12. CASE \E kind \in Kinds : AllocOutOfMemory(t, kind)
  <2>1. PICK kind \in Kinds : AllocOutOfMemory(t, kind)  BY <1>12
  <2>2. [Idle EXCEPT !.pc = "sync", !.then = "reclaim", !.kind = kind].pc = "sync"  BY DEF Idle
  <2>3. Quiet  BY <1>4, <2>1, <2>2 DEF AllocOutOfMemory
  <2> QED  BY <2>3 DEF Quiet
<1>13. CASE (\E kind \in Kinds : Alloc(t, kind)) \/ AllocRetry(t)
  <2>1. Quiet  BY <1>6, <1>13 DEF Alloc, AllocRetry, Take
  <2> QED  BY <2>1 DEF Quiet
<1>14. CASE FreeLocked(t)
  <2>1. Quiet  BY <1>6, <1>7, <1>14 DEF FreeLocked
  <2> QED  BY <2>1 DEF Quiet
<1>15. CASE MemTrim(t)
  <2>1. [Idle EXCEPT !.pc = "sync", !.then = "trim"].pc = "sync"  BY DEF Idle
  <2>2. Quiet  BY <1>4, <1>15, <2>1 DEF MemTrim
  <2> QED  BY <2>2 DEF Quiet
<1>16. CASE SyncThrows(t) \/ HostDone(t) \/ UploadInline(t) \/ Trim(t) \/ CaptureHold(t) \/ FinishCapture(t)
  <2>1. Quiet  BY <1>6, <1>16 DEF SyncThrows, HostDone, UploadInline, Trim, CaptureHold, FinishCapture
  <2> QED  BY <2>1 DEF Quiet
<1>17. CASE Sync(t) \/ SyncCheck(t) \/ UploadAfterSync(t) \/ Reclaim(t) \/ CaptureCheck(t)
  <2>1. Quiet  BY <1>3, <1>4, <1>17 DEF Sync, SyncCheck, UploadAfterSync, Reclaim, CaptureCheck
  <2> QED  BY <2>1 DEF Quiet
<1>18. CASE CaptureBegin(t)
  <2>1. Quiet  BY <1>3, <1>4, <1>6, <1>18 DEF CaptureBegin
  <2> QED  BY <2>1 DEF Quiet
<1>19. CASE Finish(t) \/ Abort(t)
  <2>1. Quiet  BY <1>3, <1>4, <1>19 DEF Finish, Abort, EndHold
  <2> QED  BY <2>1 DEF Quiet
<1>20. CASE AbortCapture(t) \/ DestroyWaited(t)
  <2>1. Quiet  BY <1>6, <1>7, <1>20 DEF AbortCapture, DestroyWaited, FreeAll
  <2> QED  BY <2>1 DEF Quiet
<1>21. CASE DestroyGraph(t)
  <2>1. [Idle EXCEPT !.pc = "destroy", !.serial = graph.last_launch].pc = "destroy"  BY DEF Idle
  <2>2. Quiet  BY <1>4, <1>21, <2>1 DEF DestroyGraph
  <2> QED  BY <2>2 DEF Quiet
<1>22. CASE (\E a \in own[t] : Compute(t, a)) \/ Launch(t)  BY <1>8, <1>22 DEF Compute, Launch
<1> QED  BY <1>9, <1>10, <1>11, <1>12, <1>13, <1>14, <1>15, <1>16, <1>17, <1>18, <1>19, <1>20, <1>21, <1>22
         DEF Thread

\* Only an op, an inline update and a launch give the GPU, or the recording, commands; every
\* other step leaves the serials that cover the recorded ones.
LEMMA StreamSteps ==
    ASSUME Types, NEW t \in Threads, Thread(t)
    PROVE  \/ (\E a \in own[t] : Compute(t, a)) \/ UploadInline(t) \/ Launch(t)
           \/ /\ \A A, n : Covered(st, A, n) => Covered(st', A, n)
              /\ CaptureCommands(st') \subseteq CaptureCommands(st)
<1>0. StreamOK(st)  BY TypesParts
<1>1. CASE st' = st  BY <1>1
<1>2. CASE SyncSubmit(t)  BY <1>0, <1>2, SubmitEffect DEF SyncSubmit, SameRecording, CaptureCommands
<1>3. CASE CaptureBegin(t)
  <2>1. CASE st.capturing  BY <1>1, <1>3, <2>1 DEF CaptureBegin
  <2>2. CASE ~st.capturing  BY <1>0, <1>3, <2>2, BeginCaptureEffect DEF CaptureBegin
  <2> QED  BY <2>1, <2>2
<1>4. CASE FinishCapture(t)  BY <1>0, <1>4, LeaveCaptureEffect DEF FinishCapture, end_capture
<1>5. CASE AbortCapture(t)  BY <1>0, <1>5, LeaveCaptureEffect DEF AbortCapture, abort_capture
<1> QED
  BY <1>1, <1>2, <1>3, <1>4, <1>5
  DEF Thread, H2D, D2H, Transfer, Free, Alloc, AllocRetry, Take, AllocOutOfMemory, FreeTag, FreeLocked,
      Sync, SyncThrows, SyncCheck, SyncReturn, MemTrim, Trim, Reclaim, UploadIdle, UploadAfterSync,
      HostDone, CaptureCheck, CaptureHold, Finish, Abort, EndHold, DestroyGraph, DestroyWaited

\* An op or an inline update is about a tensor of its thread; what covers other addresses
\* still covers them.
LEMMA RecordingSteps ==
    ASSUME Types, ControlInv, NEW t \in Threads, (\E a \in own[t] : Compute(t, a)) \/ UploadInline(t)
    PROVE  \E c \in DeviceCommands :
               /\ c.addr \in own[t]
               /\ CaptureCommands(st') \subseteq CaptureCommands(st) \cup {c}
               /\ st'.capturing = st.capturing
               /\ ~st.capturing => CaptureCommands(st') = CaptureCommands(st)
               /\ \A A, n : Covered(st, A, n) /\ c.addr \notin A => Covered(st', A, n)
<1>0. StreamOK(st) /\ own \in [Threads -> SUBSET Addresses]  BY TypesParts
<1>1. PICK c \in DeviceCommands : c.addr \in own[t] /\ Record(c)
  <2>1. ASSUME NEW a \in own[t], Compute(t, a)
        PROVE  Op(a) \in DeviceCommands /\ Op(a).addr \in own[t] /\ Record(Op(a))
    BY <1>0, <2>1 DEF Op, DeviceCommands, Compute
  <2>2. ASSUME UploadInline(t)
        PROVE  /\ Op(op[t].addr) \in DeviceCommands /\ Op(op[t].addr).addr \in own[t]
               /\ Record(Op(op[t].addr))
    <3>1. op[t].addr \in own[t]  BY <2>2 DEF UploadInline, ControlInv, CallInv, Transferring
    <3> QED  BY <1>0, <2>2, <3>1 DEF Op, DeviceCommands, UploadInline
  <2> QED  BY <2>1, <2>2
<1> QED  BY <1>0, <1>1, DispatchEffect DEF Record

\* A launch gives the GPU the graph's commands only.
LEMMA LaunchSteps ==
    ASSUME Types, NEW t \in Threads, Launch(t)
    PROVE  /\ \A A, n : Covered(st, A, n) /\ A \cap GraphUses = {} => Covered(st', A, n)
           /\ CaptureCommands(st') = CaptureCommands(st)
           /\ st'.capturing = st.capturing
<1>0. StreamOK(st) /\ graph.cbs \in Seq(CommandBuffers(DeviceCommands))  BY TypesParts DEF GraphType
<1>1. st' = launch(st, graph.cbs, TRUE, Len(graph.cbs))  BY DEF Launch
<1>2. /\ SameRecording(st, st')
      /\ \A A, n : /\ Covered(st, A, n)
                   /\ \A k \in DOMAIN graph.cbs : \A c \in CommandsIn(graph.cbs[k]) : c.addr \notin A
                   => Covered(st', A, n)
  BY <1>0, <1>1, LaunchEffect
<1>3. ASSUME NEW A, A \cap GraphUses = {},
             NEW k \in DOMAIN graph.cbs, NEW c \in CommandsIn(graph.cbs[k])
      PROVE  c.addr \notin A
  BY <1>3 DEF GraphUses, Uses
<1> QED  BY <1>2, <1>3 DEF SameRecording, CaptureCommands

-----------------------------------------------------------------------------
(***************************************************************************)
(* Host access.                                                            *)
(***************************************************************************)

\* A transfer that waits, waits for every recorded command on its tensor; one that touches
\* the mapping has none left.
HostOK(s, r) ==
    /\ r.pc = "sync_wait" /\ r.then = "host" => Covered(s, {r.addr}, r.serial)
    /\ r.pc = "host" => Covered(s, {r.addr}, 0)

\* Every transfer is covered.
HostInv == \A t \in Threads : HostOK(st, op[t])

\* Steps of t that record nothing.
LEMMA HostStep ==
    ASSUME HostInv, NEW t \in Threads, \A u \in Threads \ {t} : op'[u] = op[u],
           \A A, n : Covered(st, A, n) => Covered(st', A, n),
           HostOK(st', op'[t])
    PROVE  HostInv'
<1>1. ASSUME NEW u \in Threads, u # t PROVE HostOK(st', op'[u])
  BY <1>1 DEF HostInv, HostOK
<1> QED  BY <1>1 DEF HostInv

\* A thread's transfer is about its own tensor, so no other thread can record a command on it.
LEMMA OwnTensor ==
    ASSUME ControlInv, MemoryInv, NEW t \in Threads, NEW u \in Threads, t # u, NEW a \in own[t],
           op[u].pc = "host" \/ (op[u].pc = "sync_wait" /\ op[u].then = "host")
    PROVE  a # op[u].addr
<1>1. op[u].addr \in own[u]  BY DEF ControlInv, CallInv, Transferring
<1> QED  BY <1>1 DEF MemoryInv, AccountInv

\* Every step keeps the host's accesses safe.
LEMMA NextHost ==
    RuntimeInv /\ HostInv /\ [Next]_vars => HostInv'
<1> SUFFICES ASSUME RuntimeInv, HostInv, [Next]_vars PROVE HostInv'  OBVIOUS
<1>0. StreamOK(st) /\ op \in [Threads -> Calls] /\ Types /\ ControlInv /\ MemoryInv
  BY TypesParts DEF RuntimeInv
<1>1. ASSUME NEW t \in Threads, (\E a \in own[t] : Compute(t, a)) \/ UploadInline(t) PROVE HostInv'
  <2>1. PICK c \in DeviceCommands :
            /\ c.addr \in own[t]
            /\ \A A, n : Covered(st, A, n) /\ c.addr \notin A => Covered(st', A, n)
    BY <1>0, <1>1, RecordingSteps
  <2>2. /\ \A u \in Threads \ {t} : op'[u] = op[u]
        /\ op'[t].pc \notin {"sync_wait", "host"}
    <3>1. CASE \E a \in own[t] : Compute(t, a)  BY <3>1 DEF Compute, Start
    <3>2. CASE UploadInline(t)  BY <1>0, <3>2 DEF UploadInline, Return, Goto, Idle
    <3> QED  BY <1>1, <3>1, <3>2
  <2>3. ASSUME NEW u \in Threads, u # t PROVE HostOK(st', op'[u])
    <3>1. op'[u] = op[u] /\ HostOK(st, op[u])  BY <2>2, <2>3 DEF HostInv
    <3>2. ASSUME op[u].pc = "host" \/ (op[u].pc = "sync_wait" /\ op[u].then = "host")
          PROVE  c.addr \notin {op[u].addr}
      BY <1>0, <2>1, <2>3, <3>2, OwnTensor
    <3> QED  BY <2>1, <3>1, <3>2 DEF HostOK
  <2> QED  BY <2>2, <2>3 DEF HostInv, HostOK
<1>2. ASSUME NEW t \in Threads, Launch(t) PROVE HostInv'
  <2>1. \A A, n : Covered(st, A, n) /\ A \cap GraphUses = {} => Covered(st', A, n)
    BY <1>0, <1>2, LaunchSteps
  <2>2. op' = op /\ \A u \in Threads : op[u].addr \notin GraphUses  BY <1>2 DEF Launch
  <2>3. ASSUME NEW u \in Threads PROVE HostOK(st', op[u])
    <3>1. HostOK(st, op[u]) /\ {op[u].addr} \cap GraphUses = {}  BY <2>2 DEF HostInv
    <3> QED  BY <2>1, <3>1 DEF HostOK
  <2> QED  BY <2>2, <2>3 DEF HostInv
<1>3. ASSUME NEW t \in Threads, Thread(t), ~Launch(t), ~UploadInline(t), ~ \E a \in own[t] : Compute(t, a)
      PROVE  HostInv'
  <2>1. \A A, n : Covered(st, A, n) => Covered(st', A, n)  BY <1>0, <1>3, StreamSteps
  <2>2. /\ \A u \in Threads \ {t} : op'[u] = op[u]
        /\ \/ op'[t] = op[t]
           \/ SyncSubmit(t) \/ SyncReturn(t) \/ UploadIdle(t) \/ FreeTag(t)
           \/ op'[t].pc \notin {"sync_wait", "host", "trim", "reclaim", "free_locked"}
    BY <1>0, <1>3, CallSteps
  <2>3. SUFFICES HostOK(st', op'[t])  BY <2>1, <2>2, HostStep
  <2>4. op[t] \in Calls  BY <1>0
  <2>5. CASE op'[t] = op[t]  BY <2>1, <2>5 DEF HostInv, HostOK
  <2>6. CASE SyncSubmit(t)
    <3>1. op'[t].pc = "sync_wait" /\ op'[t].serial = st'.submitted
      BY <1>0, <2>4, <2>6 DEF SyncSubmit, Goto, Calls
    <3>2. StreamOK(st') /\ st'.open_slot = NoSlot  BY <1>0, <2>6, SubmitEffect DEF SyncSubmit
    <3>3. Covered(st', {op'[t].addr}, st'.submitted)  BY <3>2, CoveredByWork
    <3> QED  BY <3>1, <3>3 DEF HostOK
  <2>7. CASE SyncReturn(t)
    <3>1. CASE op[t].then = "idle"  BY <1>0, <2>7, <3>1 DEF SyncReturn, Return, Goto, Idle, HostOK
    <3>2. CASE op[t].then # "idle"
      <4>1. op'[t].pc = op[t].then /\ op'[t].addr = op[t].addr /\ op'[t].then = "idle" /\ st' = st
            /\ op[t].pc = "sync_wait" /\ op[t].serial <= st.timeline
        <5>1. Goto(t, [op[t] EXCEPT !.pc = op[t].then, !.then = "idle", !.serial = 0]) /\ st' = st
              /\ op[t].pc = "sync_wait" /\ st.timeline >= op[t].serial
          BY <2>7, <3>2 DEF SyncReturn
        <5>2. op'[t].pc = op[t].then /\ op'[t].addr = op[t].addr /\ op'[t].then = "idle"
          BY <1>0, <2>4, <5>1 DEF Goto, Calls
        <5>3. st.timeline \in Nat /\ op[t].serial \in Nat  BY <1>0, <2>4, TypesParts DEF Calls
        <5> QED  BY <5>1, <5>2, <5>3
      <4>2. ASSUME op[t].then = "host" PROVE Covered(st, {op[t].addr}, 0)
        <5>1. Covered(st, {op[t].addr}, op[t].serial) /\ op[t].serial \in Nat
          BY <2>4, <4>1, <4>2 DEF HostInv, HostOK, Calls
        <5> QED  BY <1>0, <4>1, <5>1, CoveredDone
      <4>3. op[t].then # "sync_wait"  BY <2>4 DEF Calls
      <4> QED  BY <4>1, <4>2, <4>3 DEF HostOK
    <3> QED  BY <3>1, <3>2
  <2>8. CASE UploadIdle(t)
    <3>1. CASE idle(st)
      <4>1. op'[t].pc = "host" /\ op'[t].addr = op[t].addr /\ st' = st
        BY <1>0, <2>4, <2>8, <3>1 DEF UploadIdle, Goto, Calls
      <4>2. st.open_slot = NoSlot /\ st.submitted <= st.timeline /\ st.submitted \in Nat
        BY <1>0, <3>1 DEF idle, StreamOK, StreamType
      <4>3. Covered(st, {op[t].addr}, st.submitted)  BY <1>0, <4>2, CoveredByWork
      <4>4. Covered(st, {op[t].addr}, 0)  BY <1>0, <4>2, <4>3, CoveredDone
      <4> QED  BY <4>1, <4>4 DEF HostOK
    <3>2. CASE ~idle(st)
      <4>1. op'[t].pc = "h2d_busy"  BY <1>0, <2>4, <2>8, <3>2 DEF UploadIdle, Goto, Calls
      <4> QED  BY <4>1 DEF HostOK
    <3> QED  BY <3>1, <3>2
  <2>9. CASE FreeTag(t)
    <3>1. op'[t].pc = "free_locked"  BY <1>0, <2>4, <2>9 DEF FreeTag, Goto, Calls
    <3> QED  BY <3>1 DEF HostOK
  <2>10. CASE op'[t].pc \notin {"sync_wait", "host", "trim", "reclaim", "free_locked"}
    BY <2>10 DEF HostOK
  <2> QED  BY <2>2, <2>5, <2>6, <2>7, <2>8, <2>9, <2>10
<1>4. CASE GpuSignal
  <2>1. op' = op /\ \A A, n : Covered(st, A, n) => Covered(st', A, n)
    BY <1>0, <1>4, SignalEffect DEF GpuSignal
  <2> QED  BY <2>1 DEF HostInv, HostOK
<1>5. CASE UNCHANGED vars  BY <1>5 DEF vars, HostInv
<1> QED  BY <1>1, <1>2, <1>3, <1>4, <1>5 DEF Next

\* The host reads or writes a tensor through its mapping only when no recorded command can
\* still touch that memory, those of its previous owner included; this needs no coordination
\* of captures or trims.
THEOREM HostAccess == Spec => []HostAccessSafe
<1>1. Init => HostInv
  <2> SUFFICES ASSUME Init, NEW t \in Threads PROVE HostOK(st, op[t])  BY DEF HostInv
  <2> QED  BY DEF Init, Idle, HostOK
<1>2. RuntimeInv /\ HostInv => HostAccessSafe
  <2> SUFFICES ASSUME RuntimeInv, HostInv, NEW t \in Threads, op[t].pc = "host", NEW c \in PendingCommands
               PROVE  c.addr # op[t].addr
    BY DEF HostAccessSafe
  <2>1. StreamOK(st)  BY TypesParts DEF RuntimeInv
  <2>2. Covered(st, {op[t].addr}, 0)  BY DEF HostInv, HostOK
  <2> QED  BY <2>1, <2>2, CoveredUnused DEF PendingCommands
<1> QED  BY <1>1, <1>2, NextHost, RuntimeInvariant, PTL DEF Spec

-----------------------------------------------------------------------------
(***************************************************************************)
(* The windows the clients coordinate: while a thread is in one, no other  *)
(* is inside of a call, but for the syncs and transfers that overlap the   *)
(* beginning or the end of a capture.                                      *)
(***************************************************************************)

\* A thread that may be left alone by t, or overlaps its capture.
KeepsClear(t, u) == op[u].pc = "idle" \/ (op[t].pc \in CapturePoints /\ InTransfer(u))

\* The other threads are outside of every call, or in one that may overlap.
WindowInv == \A t \in Threads : InWindow(t) => \A u \in Threads \ {t} : KeepsClear(t, u)

\* A call that is over, or that begins, continues no trim.
LEMMA IdleThen ==
    /\ Idle.pc = "idle" /\ Idle.then = "idle"
    /\ \A pc : [Idle EXCEPT !.pc = pc].pc = pc /\ [Idle EXCEPT !.pc = pc].then = "idle"
    /\ \A addrs : /\ [Idle EXCEPT !.pc = "free", !.todo = addrs].pc = "free"
                  /\ [Idle EXCEPT !.pc = "free", !.todo = addrs].then = "idle"
    /\ \A pc, a : /\ [Idle EXCEPT !.pc = pc, !.addr = a, !.then = "host"].pc = pc
                  /\ [Idle EXCEPT !.pc = pc, !.addr = a, !.then = "host"].then = "host"
    /\ \A n : /\ [Idle EXCEPT !.pc = "destroy", !.serial = n].pc = "destroy"
              /\ [Idle EXCEPT !.pc = "destroy", !.serial = n].then = "idle"
BY DEF Idle

\* Every action starts a call or continues one.
LEMMA InsideCall ==
    ASSUME NEW t \in Threads, Thread(t)
    PROVE  Start(t) \/ op[t].pc # "idle"
<1>1. CASE \E a \in own[t] : Compute(t, a) \/ Free(t, a) \/ H2D(t, a) \/ D2H(t, a)
  BY <1>1 DEF Compute, Free, H2D, D2H, Transfer
<1>2. CASE \E kind \in Kinds : Alloc(t, kind) \/ AllocOutOfMemory(t, kind)
  BY <1>2 DEF Alloc, AllocOutOfMemory, StartAlone
<1>3. CASE Sync(t) \/ MemTrim(t) \/ CaptureCheck(t) \/ Finish(t) \/ Abort(t) \/ Launch(t) \/ DestroyGraph(t)
  BY <1>3 DEF Sync, MemTrim, CaptureCheck, Finish, Abort, EndHold, Launch, DestroyGraph, StartAlone
<1>4. CASE AllocRetry(t) \/ FreeTag(t) \/ FreeLocked(t) \/ SyncThrows(t) \/ SyncCheck(t) \/ SyncSubmit(t)
           \/ SyncReturn(t) \/ Trim(t) \/ Reclaim(t) \/ UploadIdle(t) \/ UploadInline(t) \/ UploadAfterSync(t)
           \/ HostDone(t) \/ CaptureBegin(t) \/ CaptureHold(t) \/ FinishCapture(t) \/ AbortCapture(t)
           \/ DestroyWaited(t)
  BY <1>4 DEF AllocRetry, FreeTag, FreeLocked, SyncThrows, SyncCheck, SyncSubmit, SyncReturn, Trim, Reclaim,
              UploadIdle, UploadInline, UploadAfterSync, HostDone, CaptureBegin, CaptureHold, FinishCapture,
              AbortCapture, DestroyWaited
<1> QED  BY <1>1, <1>2, <1>3, <1>4 DEF Thread

\* While a thread is in a window, no other takes a step but that of a sync or a transfer, and
\* that only beside a capture.
LEMMA WindowAlone ==
    ASSUME WindowInv, NEW t \in Threads, Thread(t), NEW u \in Threads \ {t}, InWindow(u)
    PROVE  op[u].pc \in CapturePoints /\ InTransfer(t)
<1>1. ASSUME op[t].pc = "idle" PROVE FALSE
  <2>1. Start(t)  BY <1>1, InsideCall
  <2> QED  BY <2>1 DEF Start
<1> QED  BY <1>1 DEF WindowInv, KeepsClear

\* A sync or a transfer goes on, or is over.
LEMMA TransferSteps ==
    ASSUME Types, NEW t \in Threads, Thread(t), InTransfer(t)
    PROVE  op'[t].pc = "idle" \/ InTransfer(t)'
<1>0. op \in [Threads -> Calls] /\ op[t] \in Calls  BY TypesParts
<1>1. op[t].pc \in {"sync", "sync_submit", "sync_wait", "h2d", "h2d_busy", "host"}
      /\ op[t].then \notin {"trim", "reclaim"}
  BY DEF InTransfer, Trimming
<1>2. ~Start(t)  BY <1>1 DEF Start
<1>3. \/ SyncThrows(t) \/ SyncCheck(t) \/ SyncSubmit(t) \/ SyncReturn(t)
      \/ UploadIdle(t) \/ UploadInline(t) \/ UploadAfterSync(t) \/ HostDone(t)
  <2>1. ASSUME \/ \E a \in own[t] : Compute(t, a) \/ Free(t, a) \/ H2D(t, a) \/ D2H(t, a)
               \/ \E kind \in Kinds : Alloc(t, kind) \/ AllocOutOfMemory(t, kind)
        PROVE  FALSE
    BY <1>2, <2>1 DEF Compute, Free, H2D, D2H, Transfer, Alloc, AllocOutOfMemory, StartAlone
  <2>2. ASSUME Sync(t) \/ MemTrim(t) \/ CaptureCheck(t) \/ Finish(t) \/ Abort(t) \/ Launch(t) \/ DestroyGraph(t)
        PROVE  FALSE
    BY <1>2, <2>2 DEF Sync, MemTrim, CaptureCheck, Finish, Abort, EndHold, Launch, DestroyGraph, StartAlone
  <2>3. ASSUME \/ AllocRetry(t) \/ FreeTag(t) \/ FreeLocked(t) \/ Trim(t) \/ Reclaim(t)
               \/ CaptureBegin(t) \/ CaptureHold(t) \/ FinishCapture(t) \/ AbortCapture(t) \/ DestroyWaited(t)
        PROVE  FALSE
    BY <1>1, <2>3 DEF AllocRetry, FreeTag, FreeLocked, Trim, Reclaim, CaptureBegin, CaptureHold, FinishCapture,
                      AbortCapture, DestroyWaited
  <2> QED  BY <2>1, <2>2, <2>3 DEF Thread
<1>4. ASSUME NEW r, Goto(t, r),
             r.pc \in {"sync", "sync_submit", "sync_wait", "h2d", "h2d_busy", "host"},
             r.then \notin {"trim", "reclaim"}
      PROVE  InTransfer(t)'
  <2>1. op'[t] = r  BY <1>0, <1>4 DEF Goto
  <2> QED  BY <1>4, <2>1 DEF InTransfer, Trimming
<1>5. ASSUME Return(t) PROVE op'[t].pc = "idle"
  BY <1>0, <1>5, IdleThen DEF Return, Goto
<1>6. CASE SyncThrows(t) \/ UploadInline(t) \/ HostDone(t)
  BY <1>5, <1>6 DEF SyncThrows, UploadInline, HostDone
<1>7. CASE SyncCheck(t) \/ UploadAfterSync(t)
  <2>1. \A pc : [op[t] EXCEPT !.pc = pc].pc = pc /\ [op[t] EXCEPT !.pc = pc].then = op[t].then
    BY <1>0 DEF Calls
  <2> QED  BY <1>1, <1>4, <1>7, <2>1 DEF SyncCheck, UploadAfterSync
<1>8. CASE SyncSubmit(t)
  <2> DEFINE r == [op[t] EXCEPT !.pc = "sync_wait", !.serial = st'.submitted]
  <2>1. r.pc = "sync_wait" /\ r.then = op[t].then  BY <1>0 DEF Calls
  <2>2. Goto(t, r)  BY <1>8 DEF SyncSubmit
  <2> HIDE DEF r
  <2> QED  BY <1>1, <1>4, <2>1, <2>2
<1>9. CASE UploadIdle(t)
  <2>1. [op[t] EXCEPT !.pc = "host", !.then = "idle"].pc = "host"
        /\ [op[t] EXCEPT !.pc = "host", !.then = "idle"].then = "idle"
        /\ [op[t] EXCEPT !.pc = "h2d_busy"].pc = "h2d_busy"
        /\ [op[t] EXCEPT !.pc = "h2d_busy"].then = op[t].then
    BY <1>0 DEF Calls
  <2> QED  BY <1>1, <1>4, <1>9, <2>1 DEF UploadIdle
<1>10. CASE SyncReturn(t)
  <2>1. CASE op[t].then = "idle"  BY <1>5, <1>10, <2>1 DEF SyncReturn
  <2>2. CASE op[t].then = "host"
    <3> DEFINE r == [op[t] EXCEPT !.pc = op[t].then, !.then = "idle", !.serial = 0]
    <3>1. r.pc = "host" /\ r.then = "idle"  BY <1>0, <2>2 DEF Calls
    <3>2. Goto(t, r)  BY <1>10, <2>2 DEF SyncReturn
    <3> HIDE DEF r
    <3> QED  BY <1>4, <3>1, <3>2
  <2> QED  BY <1>0, <1>1, <2>1, <2>2 DEF Calls
<1> QED  BY <1>3, <1>6, <1>7, <1>8, <1>9, <1>10

\* A window is entered by a call that other threads keep clear of.
LEMMA WindowEntry ==
    ASSUME Types, ControlInv, NEW t \in Threads, Thread(t), InWindow(t)'
    PROVE  (InWindow(t) /\ (op[t].pc \in CapturePoints => op'[t].pc \in CapturePoints))
           \/ \A u \in Threads \ {t} : op[u].pc = "idle" \/ (op'[t].pc \in CapturePoints /\ InTransfer(u))
<1>0. op \in [Threads -> Calls] /\ op[t] \in Calls  BY TypesParts
<1> DEFINE Points == CapturePoints \cup {"trim", "reclaim"}
\* Calls at points outside of every window.
<1>1. ASSUME NEW r, Goto(t, r), r.pc \notin Points, r.then \notin {"trim", "reclaim"} PROVE FALSE
  <2>1. op'[t] = r  BY <1>0, <1>1 DEF Goto
  <2> QED  BY <1>1, <2>1 DEF InWindow, Trimming
<1>2. ASSUME NEW r, Goto(t, r), r.pc \notin CapturePoints, op[t].then \in {"trim", "reclaim"} \/ op[t].pc \in {"trim", "reclaim"}
      PROVE  InWindow(t) /\ op[t].pc \notin CapturePoints
  <2>1. op'[t] = r  BY <1>0, <1>2 DEF Goto
  <2>2. op[t].pc \notin CapturePoints  BY <1>2 DEF ControlInv, CallInv, CallOK, CapturePoints
  <2> QED  BY <1>2, <2>1, <2>2 DEF InWindow, Trimming
<1>3. ASSUME Return(t) PROVE FALSE  BY <1>1, <1>3, IdleThen DEF Return, CapturePoints
<1>4. ASSUME NEW addrs, Goto(t, [Idle EXCEPT !.pc = "free", !.todo = addrs]) PROVE FALSE
  BY <1>1, <1>4, IdleThen DEF CapturePoints
<1>5. CASE op' = op  BY <1>5 DEF InWindow, Trimming
<1>6. CASE \E a \in own[t] : H2D(t, a) \/ D2H(t, a)
  <2>1. PICK a \in own[t] : H2D(t, a) \/ D2H(t, a)  BY <1>6
  <2>2. PICK pc \in {"h2d", "sync"} : Transfer(t, a, pc)  BY <2>1 DEF H2D, D2H
  <2> DEFINE r == [Idle EXCEPT !.pc = pc, !.addr = a, !.then = "host"]
  <2>3. r.pc = pc /\ r.then = "host"  BY IdleThen
  <2>4. Goto(t, r)  BY <2>2 DEF Transfer
  <2> HIDE DEF r
  <2> QED  BY <1>1, <2>3, <2>4 DEF CapturePoints
<1>7. CASE (\E a \in own[t] : Free(t, a)) \/ FreeLocked(t) \/ AbortCapture(t) \/ DestroyWaited(t)
  BY <1>3, <1>4, <1>7 DEF Free, FreeLocked, AbortCapture, DestroyWaited, FreeAll
<1>8. CASE (\E kind \in Kinds : Alloc(t, kind)) \/ AllocRetry(t)  BY <1>3, <1>8 DEF Alloc, AllocRetry, Take
<1>9. CASE SyncThrows(t) \/ HostDone(t) \/ UploadInline(t) \/ Trim(t) \/ CaptureHold(t) \/ FinishCapture(t)
  BY <1>3, <1>9 DEF SyncThrows, HostDone, UploadInline, Trim, CaptureHold, FinishCapture
<1>10. CASE Sync(t) \/ DestroyGraph(t)
  <2>1. CASE Sync(t)
    <3> DEFINE r == [Idle EXCEPT !.pc = "sync"]
    <3>1. r.pc = "sync" /\ r.then = "idle"  BY IdleThen
    <3>2. Goto(t, r)  BY <2>1 DEF Sync
    <3> HIDE DEF r
    <3> QED  BY <1>1, <3>1, <3>2 DEF CapturePoints
  <2>2. CASE DestroyGraph(t)
    <3> DEFINE r == [Idle EXCEPT !.pc = "destroy", !.serial = graph.last_launch]
    <3>1. r.pc = "destroy" /\ r.then = "idle"  BY IdleThen
    <3>2. Goto(t, r)  BY <2>2 DEF DestroyGraph
    <3> HIDE DEF r
    <3> QED  BY <1>1, <3>1, <3>2 DEF CapturePoints
  <2> QED  BY <1>10, <2>1, <2>2
\* Trims.
<1>11. CASE MemTrim(t) \/ \E kind \in Kinds : AllocOutOfMemory(t, kind)
  <2>1. op'[t].pc = "sync" /\ StartAlone(t, "trim")
    BY <1>0, <1>11 DEF MemTrim, AllocOutOfMemory, Goto, Idle
  <2>2. "trim" \notin Unguarded  BY <2>1 DEF InWindow, CapturePoints
  <2> QED  BY <2>1, <2>2 DEF StartAlone
\* Steps within a call that keep what it returns to.
<1>12. ASSUME NEW r, Goto(t, r), r.pc \notin Points, r.then = op[t].then \/ r.then = "idle"
       PROVE  InWindow(t) /\ op[t].pc \notin CapturePoints
  BY <1>1, <1>2, <1>12
<1>13. CASE SyncCheck(t) \/ UploadAfterSync(t)
  <2>1. \A pc : [op[t] EXCEPT !.pc = pc].pc = pc /\ [op[t] EXCEPT !.pc = pc].then = op[t].then
    BY <1>0 DEF Calls
  <2> QED  BY <1>12, <1>13, <2>1 DEF SyncCheck, UploadAfterSync, CapturePoints
<1>14. CASE SyncSubmit(t)
  <2> DEFINE r == [op[t] EXCEPT !.pc = "sync_wait", !.serial = st'.submitted]
  <2>1. r.pc = "sync_wait" /\ r.then = op[t].then  BY <1>0 DEF Calls
  <2>2. Goto(t, r)  BY <1>14 DEF SyncSubmit
  <2> HIDE DEF r
  <2> QED  BY <1>12, <2>1, <2>2 DEF CapturePoints
<1>15. CASE FreeTag(t)
  <2>1. PICK a \in op[t].todo :
            Goto(t, [op[t] EXCEPT !.pc = "free_locked", !.serial = st.work_serial,
                                  !.addr = a, !.todo = @ \ {a}])
    BY <1>15 DEF FreeTag
  <2> DEFINE r == [op[t] EXCEPT !.pc = "free_locked", !.serial = st.work_serial, !.addr = a, !.todo = @ \ {a}]
  <2>2. r.pc = "free_locked" /\ r.then = op[t].then  BY <1>0 DEF Calls
  <2>3. Goto(t, r)  BY <2>1
  <2> HIDE DEF r
  <2> QED  BY <1>12, <2>2, <2>3 DEF CapturePoints
<1>16. CASE UploadIdle(t)
  <2>1. [op[t] EXCEPT !.pc = "host", !.then = "idle"].pc = "host"
        /\ [op[t] EXCEPT !.pc = "host", !.then = "idle"].then = "idle"
        /\ [op[t] EXCEPT !.pc = "h2d_busy"].pc = "h2d_busy"
        /\ [op[t] EXCEPT !.pc = "h2d_busy"].then = op[t].then
    BY <1>0 DEF Calls
  <2> QED  BY <1>12, <1>16, <2>1 DEF UploadIdle, CapturePoints
<1>17. CASE SyncReturn(t)
  <2>1. CASE op[t].then = "idle"  BY <1>3, <1>17, <2>1 DEF SyncReturn
  <2>2. CASE op[t].then = "host"
    <3> DEFINE r == [op[t] EXCEPT !.pc = op[t].then, !.then = "idle", !.serial = 0]
    <3>1. r.pc = "host" /\ r.then = "idle"  BY <1>0, <2>2 DEF Calls
    <3>2. Goto(t, r)  BY <1>17, <2>2 DEF SyncReturn
    <3> HIDE DEF r
    <3> QED  BY <1>12, <3>1, <3>2 DEF CapturePoints
  <2>3. CASE op[t].then \in {"trim", "reclaim"}
    <3> DEFINE r == [op[t] EXCEPT !.pc = op[t].then, !.then = "idle", !.serial = 0]
    <3>1. r.pc = op[t].then  BY <1>0 DEF Calls
    <3>2. Goto(t, r)  BY <1>17, <2>3 DEF SyncReturn
    <3> HIDE DEF r
    <3> QED  BY <1>2, <2>3, <3>1, <3>2 DEF CapturePoints
  <2> QED  BY <1>0, <2>1, <2>2, <2>3 DEF Calls
<1>18. CASE Reclaim(t)
  <2>1. [op[t] EXCEPT !.pc = "retry"].pc = "retry"  BY <1>0 DEF Calls
  <2> QED  BY <1>2, <1>18, <2>1 DEF Reclaim, CapturePoints
\* Captures.
<1>19. ASSUME NEW pc, Goto(t, [Idle EXCEPT !.pc = pc]), pc \notin {"trim", "reclaim"}
       PROVE  "capture" \notin Unguarded /\ pc \in CapturePoints /\ op'[t].pc = pc
  <2>1. op'[t].pc = pc /\ op'[t].then = "idle"  BY <1>0, <1>19, IdleThen DEF Goto
  <2> QED  BY <1>19, <2>1 DEF InWindow, Trimming
<1>20. CASE CaptureCheck(t)  BY <1>19, <1>20 DEF CaptureCheck, StartAlone
<1>21. CASE Finish(t) \/ Abort(t)  BY <1>19, <1>21 DEF Finish, Abort, EndHold, StartAlone
<1>22. CASE CaptureBegin(t)
  <2>1. op[t].pc \in CapturePoints  BY <1>22 DEF CaptureBegin, CapturePoints
  <2>2. "capture" \notin Unguarded /\ op'[t].pc \in CapturePoints
    <3>1. Goto(t, [Idle EXCEPT !.pc = "cap_hold"])  BY <1>3, <1>22 DEF CaptureBegin
    <3> QED  BY <1>19, <3>1
  <2> QED  BY <2>1, <2>2 DEF InWindow
<1>23. CASE (\E a \in own[t] : Compute(t, a)) \/ Launch(t)  BY <1>5, <1>23 DEF Compute, Launch
<1> QED  BY <1>6, <1>7, <1>8, <1>9, <1>10, <1>11, <1>13, <1>14, <1>15, <1>16, <1>17, <1>18, <1>20, <1>21,
            <1>22, <1>23 DEF Thread

\* Every step keeps the windows.
LEMMA NextWindow == Types /\ ControlInv /\ WindowInv /\ [Next]_vars => WindowInv'
<1> SUFFICES ASSUME Types, ControlInv, WindowInv, [Next]_vars PROVE WindowInv'  OBVIOUS
<1>1. ASSUME NEW t \in Threads, Thread(t) PROVE WindowInv'
  <2>1. \A u \in Threads \ {t} : op'[u] = op[u]  BY <1>1, CallSteps
  <2>2. \A u \in Threads \ {t} : (InWindow(u)' <=> InWindow(u)) /\ (InTransfer(u)' <=> InTransfer(u))
    BY <2>1 DEF InWindow, InTransfer, Trimming
  <2>3. ASSUME NEW u \in Threads \ {t}, InWindow(u)', NEW v \in Threads \ {u} PROVE KeepsClear(u, v)'
    <3>1. InWindow(u)  BY <2>2, <2>3
    <3>2. op[u].pc \in CapturePoints /\ InTransfer(t)  BY <1>1, <3>1, WindowAlone
    <3>3. CASE v = t  BY <1>1, <2>1, <3>2, <3>3, TransferSteps DEF KeepsClear
    <3>4. CASE v # t  BY <2>1, <2>2, <2>3, <3>1, <3>4 DEF WindowInv, KeepsClear
    <3> QED  BY <3>3, <3>4
  <2>4. ASSUME InWindow(t)', NEW u \in Threads \ {t} PROVE KeepsClear(t, u)'
    <3>1. \/ InWindow(t) /\ (op[t].pc \in CapturePoints => op'[t].pc \in CapturePoints)
          \/ op[u].pc = "idle" \/ (op'[t].pc \in CapturePoints /\ InTransfer(u))
      BY <1>1, <2>4, WindowEntry
    <3> QED  BY <2>1, <2>2, <3>1 DEF WindowInv, KeepsClear
  <2> QED  BY <2>3, <2>4 DEF WindowInv
<1>2. CASE GpuSignal \/ UNCHANGED vars
  BY <1>2 DEF GpuSignal, vars, WindowInv, KeepsClear, InWindow, InTransfer, Trimming
<1> QED  BY <1>1, <1>2 DEF Next

-----------------------------------------------------------------------------
(***************************************************************************)
(* Captures and graphs.                                                    *)
(***************************************************************************)

\* Frees are held for as long as the capture records, but for the calls that begin and end it.
FreesHeld == st.capturing /\ hold = Nobody => op[capturer].pc \in {"cap_hold", "finish", "abort"}

\* The recording, and the graph, hold commands on memory that stays allocated, those of an
\* upload that the capture has overtaken included.
RecordingHeld == \A c \in CaptureCommands(st) : c.addr \in mem.live

\* What a launch would submit.
GraphCommands == UNION {CommandsIn(graph.cbs[k]) : k \in DOMAIN graph.cbs}

\* ... is on memory the graph or a thread has.
GraphHeld ==
    \A c \in GraphCommands : c.addr \in graph.held \/ \E t \in Threads : c.addr \in own[t]

\* The memory of recordings and graphs.
CaptureInv == FreesHeld /\ RecordingHeld /\ GraphHeld

\* Only three actions begin or end the recording.
LEMMA CapturingSteps ==
    ASSUME Types, NEW t \in Threads, Thread(t)
    PROVE  \/ st'.capturing = st.capturing
           \/ CaptureBegin(t) \/ FinishCapture(t) \/ AbortCapture(t)
<1>0. StreamOK(st) /\ own \in [Threads -> SUBSET Addresses] /\ op \in [Threads -> Calls]  BY TypesParts
<1>1. CASE st' = st  BY <1>1
<1>2. CASE SyncSubmit(t)  BY <1>0, <1>2, SubmitEffect DEF SyncSubmit, SameRecording
<1>3. CASE \E a \in own[t] : Compute(t, a)
  <2>1. PICK a \in own[t] : Compute(t, a)  BY <1>3
  <2>2. Op(a) \in DeviceCommands  BY <1>0 DEF Op, DeviceCommands
  <2> QED  BY <1>0, <2>1, <2>2, DispatchEffect DEF Compute, Record
<1>4. CASE UploadInline(t)
  <2>1. Op(op[t].addr) \in DeviceCommands  BY <1>0, <1>4 DEF Op, DeviceCommands, UploadInline, Calls
  <2> QED  BY <1>0, <1>4, <2>1, DispatchEffect DEF UploadInline, Record
<1>5. CASE Launch(t)  BY <1>5, LaunchSteps
<1> QED
  BY <1>1, <1>2, <1>3, <1>4, <1>5
  DEF Thread, H2D, D2H, Transfer, Free, Alloc, AllocRetry, Take, AllocOutOfMemory, FreeTag, FreeLocked,
      Sync, SyncThrows, SyncCheck, SyncReturn, MemTrim, Trim, Reclaim, UploadIdle, UploadAfterSync,
      HostDone, CaptureCheck, CaptureHold, Finish, Abort, EndHold, DestroyGraph, DestroyWaited

\* From the points at which a capture begins or ends there is one way on.
LEMMA CaptureExits ==
    ASSUME NEW t \in Threads, Thread(t), op[t].pc \in {"cap_hold", "finish", "abort"}
    PROVE  CaptureHold(t) \/ FinishCapture(t) \/ AbortCapture(t)
<1>1. ~Start(t)  BY DEF Start
<1>2. ASSUME \/ \E a \in own[t] : Compute(t, a) \/ Free(t, a) \/ H2D(t, a) \/ D2H(t, a)
             \/ \E kind \in Kinds : Alloc(t, kind) \/ AllocOutOfMemory(t, kind)
      PROVE  FALSE
  BY <1>1, <1>2 DEF Compute, Free, H2D, D2H, Transfer, Alloc, AllocOutOfMemory, StartAlone
<1>3. ASSUME Sync(t) \/ MemTrim(t) \/ CaptureCheck(t) \/ Finish(t) \/ Abort(t) \/ Launch(t) \/ DestroyGraph(t)
      PROVE  FALSE
  BY <1>1, <1>3 DEF Sync, MemTrim, CaptureCheck, Finish, Abort, EndHold, Launch, DestroyGraph, StartAlone
<1>4. ASSUME \/ AllocRetry(t) \/ FreeTag(t) \/ FreeLocked(t) \/ SyncThrows(t) \/ SyncCheck(t) \/ SyncSubmit(t)
             \/ SyncReturn(t) \/ Trim(t) \/ Reclaim(t) \/ UploadIdle(t) \/ UploadInline(t)
             \/ UploadAfterSync(t) \/ HostDone(t) \/ CaptureBegin(t) \/ DestroyWaited(t)
      PROVE  FALSE
  BY <1>4 DEF AllocRetry, FreeTag, FreeLocked, SyncThrows, SyncCheck, SyncSubmit, SyncReturn, Trim, Reclaim,
              UploadIdle, UploadInline, UploadAfterSync, HostDone, CaptureBegin, DestroyWaited
<1> QED  BY <1>2, <1>3, <1>4 DEF Thread

\* The commands of the segments a capture returns are those it recorded.
LEMMA CapturedCommands ==
    ASSUME NEW s, StreamOK(s)
    PROVE  UNION {CommandsIn(captured_segments(s)[k]) : k \in DOMAIN captured_segments(s)} = CaptureCommands(s)
<1>1. s.capture_done \in Seq(CommandBuffers(DeviceCommands)) /\ s.capture_cb \in Seq(Entries(DeviceCommands))
      /\ <<ToHost>> \in Seq(Entries(DeviceCommands))
  BY DEF StreamOK, StreamType, CommandBuffers, ToHost, Entries
<1> DEFINE last == s.capture_cb \o <<ToHost>>
<1>2. last \in CommandBuffers(DeviceCommands)
  BY <1>1, ConcatProperties DEF CommandBuffers
<1>3. CommandsIn(last) = CommandsIn(s.capture_cb)
  <2>1. CommandsIn(last) = CommandsIn(s.capture_cb) \cup CommandsIn(<<ToHost>>)  BY <1>1, CommandsInConcat, ZenonT(60)
  <2> QED  BY <2>1, CommandsInEmpty
<1> HIDE DEF last
<1>4. UNION {CommandsIn(Append(s.capture_done, last)[k]) : k \in DOMAIN Append(s.capture_done, last)}
        = CommandsIn(last) \cup UNION {CommandsIn(s.capture_done[k]) : k \in DOMAIN s.capture_done}
  BY <1>1, <1>2, AppendedSegment
<1> QED  BY <1>3, <1>4 DEF captured_segments, last, CaptureCommands

\* Only the calls of a capture change who holds frees and who captures.
LEMMA HoldSteps ==
    ASSUME NEW t \in Threads, Thread(t)
    PROVE  \/ hold' = hold /\ capturer' = capturer
           \/ CaptureBegin(t) \/ CaptureHold(t) \/ Finish(t) \/ Abort(t) \/ FinishCapture(t) \/ AbortCapture(t)
BY DEF Thread, Compute, H2D, D2H, Transfer, Free, Alloc, AllocRetry, Take, AllocOutOfMemory, FreeTag, FreeLocked,
       Sync, SyncThrows, SyncCheck, SyncSubmit, SyncReturn, MemTrim, Trim, Reclaim, UploadIdle, UploadInline,
       UploadAfterSync, HostDone, CaptureCheck, Launch, DestroyGraph, DestroyWaited

\* While frees are not held although a capture records, its thread is alone with syncs and
\* transfers.
LEMMA UnheldAlone ==
    ASSUME "capture" \notin Unguarded, Types, ControlInv, WindowInv, FreesHeld, st.capturing, hold = Nobody,
           NEW t \in Threads, Thread(t)
    PROVE  (capturer = t /\ op[t].pc \in {"cap_hold", "finish", "abort"}) \/ InTransfer(t)
<1>1. capturer \in Threads  BY TypesParts DEF ControlInv
<1>2. op[capturer].pc \in {"cap_hold", "finish", "abort"}  BY DEF FreesHeld
<1>3. InWindow(capturer)  BY <1>2 DEF InWindow, CapturePoints
<1> QED  BY <1>1, <1>2, <1>3, WindowAlone

\* Every step keeps frees held for a recording.
LEMMA NextFreesHeld ==
    ASSUME "capture" \notin Unguarded, Types, ControlInv, WindowInv, FreesHeld, NEW t \in Threads, Thread(t)
    PROVE  FreesHeld'
<1>0. op \in [Threads -> Calls] /\ StreamOK(st)  BY TypesParts
<1>1. SUFFICES ASSUME st'.capturing, hold' = Nobody
               PROVE  op'[capturer'].pc \in {"cap_hold", "finish", "abort"}
  BY DEF FreesHeld
<1>2. ~FinishCapture(t)  BY <1>0, <1>1, LeaveCaptureEffect DEF FinishCapture, end_capture
<1>3. ~AbortCapture(t)  BY <1>0, <1>1, LeaveCaptureEffect DEF AbortCapture, abort_capture
<1>4. ~CaptureHold(t)  BY <1>1, ThreadsAssumption DEF CaptureHold
<1>5. CASE CaptureBegin(t)
  <2>1. ~st.capturing
    <3>1. op[t].pc = "cap_begin" /\ hold = Nobody  BY <1>1, <1>5 DEF CaptureBegin
    <3> QED  BY <3>1, UnheldAlone DEF InTransfer
  <2>2. capturer' = t /\ op'[t].pc = "cap_hold"  BY <1>0, <1>5, <2>1, IdleThen, ZenonT(60) DEF CaptureBegin, Goto
  <2> QED  BY <2>2
<1>6. CASE Finish(t) \/ Abort(t)
  <2>1. PICK pc \in {"finish", "abort"} : EndHold(t, pc)  BY <1>6 DEF Finish, Abort
  <2>2. capturer' = t /\ op'[t].pc = pc  BY <1>0, <2>1, IdleThen DEF EndHold, Goto
  <2> QED  BY <2>2
<1>7. CASE ~CaptureBegin(t) /\ ~Finish(t) /\ ~Abort(t)
  <2>1. hold' = hold /\ capturer' = capturer  BY <1>2, <1>3, <1>4, <1>7, HoldSteps
  <2>2. st.capturing  BY <1>1, <1>2, <1>3, <1>7, CapturingSteps
  <2>3. ~(op[t].pc \in {"cap_hold", "finish", "abort"})  BY <1>2, <1>3, <1>4, CaptureExits
  <2>4. op[capturer].pc \in {"cap_hold", "finish", "abort"}  BY <1>1, <2>1, <2>2 DEF FreesHeld
  <2>5. capturer # t  BY <2>3, <2>4
  <2>6. capturer \in Threads  BY <2>2, TypesParts DEF ControlInv
  <2>7. op'[capturer] = op[capturer]  BY <2>5, <2>6, CallSteps
  <2> QED  BY <2>1, <2>4, <2>7
<1> QED  BY <1>5, <1>6, <1>7

\* Only a free under the lock, while frees are not held, gives up an address.
LEMMA LiveSteps ==
    ASSUME Types, MemoryInv, NEW t \in Threads, Thread(t)
    PROVE  mem.live \subseteq mem'.live \/ (FreeLocked(t) /\ hold = Nobody)
<1>0. mem \in AllocatorType /\ op \in [Threads -> Calls]  BY TypesParts
<1>1. ASSUME NEW m \in AllocatorType, m.live = mem.live, NEW kind \in Kinds, NEW a \in Places(m, kind),
             Take(t, m, kind, a)
      PROVE  mem.live \subseteq mem'.live
  BY <1>1, PlacesType, AllocType DEF Take
<1>2. CASE MovesOn(t)  BY <1>2, MovesOnMemory DEF MemoryInv
<1>3. CASE \E kind \in Kinds : Alloc(t, kind)
  <2>1. Reclaimed \in AllocatorType /\ Reclaimed.live = mem.live
    BY ReclaimedType, ReclaimedBlocks DEF MemoryInv
  <2> HIDE DEF Reclaimed
  <2> QED  BY <1>1, <1>3, <2>1 DEF Alloc
<1>4. CASE AllocRetry(t)
  <2>1. op[t].kind \in Kinds  BY <1>0 DEF Calls
  <2> QED  BY <1>0, <1>1, <1>4, <2>1 DEF AllocRetry
<1>5. CASE FreeLocked(t)  BY <1>5 DEF FreeLocked
<1>6. CASE DestroyWaited(t)  BY <1>0, <1>6, CollectType DEF DestroyWaited
<1>7. CASE (\E a \in own[t] : Free(t, a)) \/ FreeTag(t) \/ FinishCapture(t) \/ AbortCapture(t)
  BY <1>7 DEF Free, FreeTag, FinishCapture, AbortCapture
<1> QED  BY <1>2, <1>3, <1>4, <1>5, <1>6, <1>7 DEF Thread, MovesOn

\* Every step keeps the memory of the recording.
LEMMA NextRecordingHeld ==
    ASSUME "capture" \notin Unguarded, RuntimeInv, WindowInv, CaptureInv, NEW t \in Threads, Thread(t)
    PROVE  RecordingHeld'
<1>0. Types /\ ControlInv /\ MemoryInv /\ StreamOK(st) /\ FreesHeld /\ RecordingHeld
  BY TypesParts DEF RuntimeInv, CaptureInv
<1>1. CASE (\E a \in own[t] : Compute(t, a)) \/ UploadInline(t)
  <2>1. PICK c \in DeviceCommands :
            /\ c.addr \in own[t]
            /\ CaptureCommands(st') \subseteq CaptureCommands(st) \cup {c}
    BY <1>0, <1>1, RecordingSteps
  <2>2. mem' = mem  BY <1>1 DEF Compute, UploadInline
  <2>3. c.addr \in mem.live  BY <1>0, <2>1 DEF MemoryInv, AccountInv
  <2> QED  BY <1>0, <2>1, <2>2, <2>3 DEF RecordingHeld
<1>2. CASE Launch(t)
  <2>1. CaptureCommands(st') = CaptureCommands(st)  BY <1>0, <1>2, LaunchSteps
  <2>2. mem' = mem  BY <1>2 DEF Launch
  <2> QED  BY <1>0, <2>1, <2>2 DEF RecordingHeld
<1>3. CASE ~((\E a \in own[t] : Compute(t, a)) \/ UploadInline(t)) /\ ~Launch(t)
  <2>1. CaptureCommands(st') \subseteq CaptureCommands(st)  BY <1>0, <1>3, StreamSteps
  <2>2. CASE mem.live \subseteq mem'.live  BY <1>0, <2>1, <2>2 DEF RecordingHeld
  <2>3. CASE FreeLocked(t) /\ hold = Nobody
    <3>1. ~st.capturing
      <4>1. op[t].pc = "free_locked"  BY <2>3 DEF FreeLocked
      <4> QED  BY <1>0, <2>3, <4>1, UnheldAlone DEF InTransfer
    <3>2. CaptureCommands(st) = {}
      BY <1>0, <3>1, CommandsInEmpty DEF StreamOK, StreamRest, CaptureCommands
    <3> QED  BY <2>1, <3>2 DEF RecordingHeld
  <2> QED  BY <1>0, <2>2, <2>3, LiveSteps
<1> QED  BY <1>1, <1>2, <1>3

\* Every step keeps the memory of the graph.
LEMMA NextGraphHeld ==
    ASSUME "capture" \notin Unguarded, RuntimeInv, WindowInv, CaptureInv, NEW t \in Threads, Thread(t)
    PROVE  GraphHeld'
<1>0. Types /\ ControlInv /\ MemoryInv /\ StreamOK(st) /\ RecordingHeld /\ GraphHeld
      /\ own \in [Threads -> SUBSET Addresses] /\ graph \in GraphType
  BY TypesParts DEF RuntimeInv, CaptureInv
<1>1. CASE FinishCapture(t)
  <2>1. op[t].pc = "finish" /\ own' = own /\ graph'.held = held /\ graph'.cbs = captured_segments(st)
    BY <1>1 DEF FinishCapture
  <2>2. GraphCommands' = CaptureCommands(st)  BY <1>0, <2>1, CapturedCommands DEF GraphCommands
  <2>3. graph.held = {}  BY <1>0, <2>1 DEF ControlInv, CallInv, NoGraph
  <2>4. InWindow(t)  BY <2>1 DEF InWindow, CapturePoints
  <2>5. \A u \in Threads : Freeing(u) = {}
    <3>1. \A u \in Threads : op[u].pc \notin {"free", "free_locked"}  BY <2>1, <2>4 DEF WindowInv, KeepsClear, InTransfer
    <3> QED  BY <1>0, <3>1, FreesNothing
  <2>6. ASSUME NEW a \in mem.live PROVE a \in held \/ \E u \in Threads : a \in own[u]
    BY <1>0, <2>3, <2>5 DEF MemoryInv, AccountInv
  <2> QED  BY <1>0, <2>1, <2>2, <2>6 DEF GraphHeld, RecordingHeld
<1>2. CASE DestroyWaited(t)
  <2>1. graph'.cbs = << >>  BY <1>2 DEF DestroyWaited, NoGraph
  <2>2. GraphCommands' = {}  BY <2>1 DEF GraphCommands
  <2> QED  BY <2>2 DEF GraphHeld
<1>3. CASE graph'.cbs = graph.cbs /\ graph'.held = graph.held /\ \A u \in Threads : own[u] \subseteq own'[u]
  <2>1. GraphCommands' = GraphCommands  BY <1>3 DEF GraphCommands
  <2> QED  BY <1>0, <1>3, <2>1 DEF GraphHeld
<1>4. CASE Launch(t)  BY <1>0, <1>3, <1>4 DEF Launch, GraphType
<1>5. CASE (\E kind \in Kinds : Alloc(t, kind)) \/ AllocRetry(t)
  <2>1. graph' = graph  BY <1>5 DEF Alloc, AllocRetry, Take
  <2>2. \A u \in Threads : own[u] \subseteq own'[u]  BY <1>0, <1>5 DEF Alloc, AllocRetry, Take
  <2> QED  BY <1>3, <2>1, <2>2
<1>6. CASE \E a \in own[t] : Free(t, a)
  <2>1. PICK a \in own[t] : Free(t, a)  BY <1>6
  <2>2. graph' = graph /\ a \notin GraphUses /\ \A u \in Threads : own[u] \ {a} \subseteq own'[u]
    BY <1>0, <2>1 DEF Free
  <2>3. GraphCommands' = GraphCommands  BY <2>2 DEF GraphCommands
  <2>4. ASSUME NEW c \in GraphCommands PROVE c.addr # a
    BY <2>2 DEF GraphCommands, GraphUses, Uses
  <2> QED  BY <1>0, <2>2, <2>3, <2>4 DEF GraphHeld
<1>7. CASE graph' = graph /\ own' = own  BY <1>3, <1>7
<1> QED
  BY <1>1, <1>2, <1>4, <1>5, <1>6, <1>7
  DEF Thread, Compute, H2D, D2H, Transfer, AllocOutOfMemory, FreeTag, FreeLocked, Sync, SyncThrows, SyncCheck,
      SyncSubmit, SyncReturn, MemTrim, Trim, Reclaim, UploadIdle, UploadInline, UploadAfterSync, HostDone,
      CaptureCheck, CaptureBegin, CaptureHold, Finish, Abort, EndHold, AbortCapture, DestroyGraph

\* Together, when the clients coordinate captures.
LEMMA CaptureInvariant ==
    ASSUME "capture" \notin Unguarded
    PROVE  Spec => [](WindowInv /\ CaptureInv)
<1>1. Init => WindowInv /\ CaptureInv
  <2> SUFFICES ASSUME Init PROVE WindowInv /\ CaptureInv  OBVIOUS
  <2>1. \A t \in Threads : op[t].pc = "idle" /\ op[t].then = "idle"  BY IdleThen DEF Init
  <2>2. ~st.capturing /\ st.capture_cb = << >> /\ st.capture_done = << >> /\ graph.cbs = << >>
    BY DEF Init, InitStream, NoGraph
  <2>3. WindowInv  BY <2>1 DEF WindowInv, KeepsClear
  <2>4. CaptureCommands(st) = {} /\ GraphCommands = {}
    BY <2>2, CommandsInEmpty DEF CaptureCommands, GraphCommands
  <2> QED  BY <2>2, <2>3, <2>4 DEF CaptureInv, FreesHeld, RecordingHeld, GraphHeld
<1>2. RuntimeInv /\ WindowInv /\ CaptureInv /\ [Next]_vars => WindowInv' /\ CaptureInv'
  <2> SUFFICES ASSUME RuntimeInv, WindowInv, CaptureInv, [Next]_vars PROVE WindowInv' /\ CaptureInv'  OBVIOUS
  <2>0. Types /\ ControlInv /\ MemoryInv /\ StreamOK(st)  BY TypesParts DEF RuntimeInv
  <2>1. WindowInv'  BY <2>0, NextWindow
  <2>2. ASSUME NEW t \in Threads, Thread(t) PROVE CaptureInv'
    BY <2>0, <2>2, NextFreesHeld, NextRecordingHeld, NextGraphHeld DEF CaptureInv
  <2>3. CASE GpuSignal
    <3>1. SameRecording(st, st') /\ UNCHANGED <<mem, hold, held, capturer, graph, own, op>>
      BY <2>0, <2>3, SignalEffect DEF GpuSignal
    <3>2. CaptureCommands(st') = CaptureCommands(st) /\ GraphCommands' = GraphCommands
      BY <3>1 DEF SameRecording, CaptureCommands, GraphCommands
    <3>3. st'.capturing = st.capturing  BY <3>1 DEF SameRecording
    <3>4. FreesHeld'  BY <3>1, <3>3 DEF CaptureInv, FreesHeld
    <3>5. RecordingHeld' /\ GraphHeld'  BY <3>1, <3>2 DEF CaptureInv, RecordingHeld, GraphHeld
    <3> QED  BY <2>1, <3>4, <3>5 DEF CaptureInv
  <2>4. CASE UNCHANGED vars
    <3>1. UNCHANGED <<st, mem, hold, capturer, graph, own, op>>  BY <2>4 DEF vars
    <3>2. FreesHeld'  BY <3>1 DEF CaptureInv, FreesHeld
    <3>3. RecordingHeld' /\ GraphHeld'  BY <3>1 DEF CaptureInv, RecordingHeld, GraphHeld, GraphCommands
    <3> QED  BY <2>1, <3>2, <3>3 DEF CaptureInv
  <2> QED  BY <2>1, <2>2, <2>3, <2>4 DEF Next
<1> QED  BY <1>1, <1>2, RuntimeInvariant, PTL DEF Spec

\* "Replays therefore never touch memory that has been given to somebody else": what a
\* recording or a graph uses stays allocated as long as either exists, when the clients keep
\* clear of the constructor, finish() and destructor of a capture.  Syncs and transfers may
\* overlap them: the memory of an upload that is caught between require_not_capturing and its
\* update, and so lands in the recording, is held as well.
THEOREM ReplayMemoryHeld ==
    ASSUME "capture" \notin Unguarded
    PROVE  Spec => []GraphMemoryHeld
<1>1. RuntimeInv /\ CaptureInv => GraphMemoryHeld
  <2> SUFFICES ASSUME RuntimeInv, CaptureInv, NEW a \in CaptureUses \cup GraphUses PROVE a \in mem.live
    BY DEF GraphMemoryHeld
  <2>1. CASE a \in CaptureUses
    <3>1. PICK c \in CaptureCommands(st) : a = c.addr  BY <2>1 DEF CaptureUses, Uses, CaptureCommands
    <3> QED  BY <3>1 DEF CaptureInv, RecordingHeld
  <2>2. CASE a \in GraphUses
    <3>1. PICK c \in GraphCommands : a = c.addr  BY <2>2 DEF GraphUses, Uses, GraphCommands
    <3>2. a \in graph.held \/ \E t \in Threads : a \in own[t]  BY <3>1 DEF CaptureInv, GraphHeld
    <3> QED  BY <3>2 DEF RuntimeInv, MemoryInv, AccountInv
  <2> QED  BY <2>1, <2>2
<1> QED  BY <1>1, RuntimeInvariant, CaptureInvariant, PTL

-----------------------------------------------------------------------------
(***************************************************************************)
(* Blocks and pending commands.                                            *)
(***************************************************************************)

\* The addresses of a block.
Block(b) == {b} \X Cells

\* A block the driver has is used by no command; a deferred one by none later than its tag.
BlocksCovered(s, m) ==
    /\ \A b \in Blocks : m.blocks[b] = "none" => Covered(s, Block(b), 0)
    /\ \A d \in m.deferred : Covered(s, Block(d.block), d.serial)

\* A free's tag covers the dedicated block it gives up; a trim waits for, and then has
\* waited for, everything recorded.
CallCovered(s, m, r) ==
    /\ r.pc = "free_locked" /\ m.blocks[r.addr[1]] = "dedicated" => Covered(s, Block(r.addr[1]), r.serial)
    /\ r.pc = "sync_wait" /\ r.then \in {"trim", "reclaim"} => Covered(s, Addresses, r.serial)
    /\ r.pc \in {"trim", "reclaim"} => Covered(s, Addresses, 0)

\* The memory of pending commands.
PendingInv == BlocksCovered(st, mem) /\ \A t \in Threads : CallCovered(st, mem, op[t])

\* Collecting destroys the blocks whose tags have been signalled.
LEMMA CollectCovered ==
    ASSUME NEW s, StreamOK(s), NEW m \in AllocatorType, BlocksOK(m), BlocksCovered(s, m)
    PROVE  /\ BlocksCovered(s, collect(m, s.timeline))
           /\ \A b \in Blocks : collect(m, s.timeline).blocks[b] = "dedicated" => m.blocks[b] = "dedicated"
<1> DEFINE c == collect(m, s.timeline)
<1>1. /\ c.deferred = {d \in m.deferred : ~(d.serial <= s.timeline)}
      /\ \A b \in Blocks : c.blocks[b] =
             IF \E d \in m.deferred : d.serial <= s.timeline /\ d.block = b THEN "none" ELSE m.blocks[b]
  BY CollectType
<1> HIDE DEF c
<1>2. ASSUME NEW b \in Blocks, c.blocks[b] = "none" PROVE Covered(s, Block(b), 0)
  <2>1. CASE m.blocks[b] = "none"  BY <2>1 DEF BlocksCovered
  <2>2. CASE \E d \in m.deferred : d.serial <= s.timeline /\ d.block = b
    <3>1. PICK d \in m.deferred : d.serial <= s.timeline /\ d.block = b  BY <2>2
    <3>2. d.serial \in Nat /\ Covered(s, Block(b), d.serial)  BY <3>1 DEF AllocatorType, BlocksCovered
    <3> QED  BY <3>1, <3>2, CoveredDone
  <2> QED  BY <1>1, <1>2, <2>1, <2>2
<1>3. \A d \in c.deferred : Covered(s, Block(d.block), d.serial)  BY <1>1 DEF BlocksCovered
<1>4. \A b \in Blocks : c.blocks[b] = "dedicated" => m.blocks[b] = "dedicated"  BY <1>1
<1> QED  BY <1>2, <1>3, <1>4 DEF BlocksCovered, c

\* Trimming gives blocks back when nothing is recorded.
LEMMA TrimCovered ==
    ASSUME NEW s, StreamOK(s), NEW m \in AllocatorType, BlocksCovered(s, m), Covered(s, Addresses, 0), NEW victims
    PROVE  /\ BlocksCovered(s, trim(m, victims))
           /\ \A b \in Blocks : trim(m, victims).blocks[b] = "dedicated" => m.blocks[b] = "dedicated"
<1> DEFINE c == trim(m, victims)
<1>1. c.deferred = m.deferred /\ \A b \in Blocks : c.blocks[b] = IF b \in victims THEN "none" ELSE m.blocks[b]
  BY TrimType
<1> HIDE DEF c
<1>2. ASSUME NEW b \in Blocks PROVE Covered(s, Block(b), 0)
  <2>1. Block(b) \subseteq Addresses  BY DEF Block, Addresses
  <2> QED  BY <2>1, CoveredMore
<1> QED  BY <1>1, <1>2 DEF BlocksCovered, c

\* Taking back an address whose tag covers its dedicated block.
LEMMA FreeCovered ==
    ASSUME NEW s, StreamOK(s), NEW m \in AllocatorType, BlocksOK(m), BlocksCovered(s, m), NEW a \in m.live,
           NEW tag \in Nat, m.blocks[a[1]] = "dedicated" => Covered(s, Block(a[1]), tag)
    PROVE  LET f == free_locked(m, a, tag, s.timeline)
           IN  /\ BlocksCovered(s, f)
               /\ \A b \in Blocks : f.blocks[b] = "dedicated" => m.blocks[b] = "dedicated"
<1> DEFINE f == free_locked(m, a, tag, s.timeline)
           new == [serial |-> tag, block |-> a[1]]
<1>1. a \in Addresses /\ a[1] \in Blocks /\ s.timeline \in Nat
  BY DEF AllocatorType, Addresses, StreamOK, StreamType
<1>2. /\ \A b \in Blocks : b # a[1] => f.blocks[b] = m.blocks[b]
      /\ m.blocks[a[1]] = "pool" => f.blocks = m.blocks /\ f.deferred = m.deferred
      /\ m.blocks[a[1]] # "pool" /\ s.timeline >= tag => f.blocks[a[1]] = "none" /\ f.deferred = m.deferred
      /\ m.blocks[a[1]] # "pool" /\ ~(s.timeline >= tag) =>
             f.blocks[a[1]] = "deferred" /\ f.deferred = m.deferred \cup {new}
  <2> DEFINE n == s.timeline
  <2>1. a \in Addresses /\ n \in Nat  BY <1>1
  <2> HIDE DEF n
  <2>2. LET g == free_locked(m, a, tag, n)
        IN  /\ \A b \in Blocks : b # a[1] => g.blocks[b] = m.blocks[b]
            /\ m.blocks[a[1]] = "pool" => g.blocks = m.blocks /\ g.deferred = m.deferred
            /\ m.blocks[a[1]] # "pool" /\ n >= tag => g.blocks[a[1]] = "none" /\ g.deferred = m.deferred
            /\ m.blocks[a[1]] # "pool" /\ ~(n >= tag) =>
                   g.blocks[a[1]] = "deferred" /\ g.deferred = m.deferred \cup {new}
    BY <2>1, FreeType
  <2> QED  BY <2>2 DEF n
<1>3. new.block = a[1] /\ new.serial = tag  OBVIOUS
<1> HIDE DEF f, new
<1>4. CASE m.blocks[a[1]] = "pool"  BY <1>2, <1>4 DEF BlocksCovered, f
<1>5. CASE m.blocks[a[1]] # "pool"
  <2>1. Covered(s, Block(a[1]), tag)  BY <1>5 DEF BlocksOK, Kinds
  <2>2. s.timeline >= tag => Covered(s, Block(a[1]), 0)
    <3> SUFFICES ASSUME s.timeline >= tag PROVE Covered(s, Block(a[1]), 0)  OBVIOUS
    <3>1. tag <= s.timeline  BY <1>1
    <3> QED  BY <2>1, <3>1, CoveredDone
  <2>3. ASSUME NEW b \in Blocks, f.blocks[b] = "none" PROVE Covered(s, Block(b), 0)
    BY <1>2, <1>5, <2>2, <2>3 DEF BlocksCovered
  <2>4. ASSUME NEW d \in f.deferred PROVE Covered(s, Block(d.block), d.serial)
    BY <1>2, <1>3, <1>5, <2>1 DEF BlocksCovered
  <2>5. ASSUME NEW b \in Blocks, f.blocks[b] = "dedicated" PROVE m.blocks[b] = "dedicated"
    BY <1>2, <1>5, <2>5
  <2> QED  BY <2>3, <2>4, <2>5 DEF BlocksCovered, f
<1> QED  BY <1>4, <1>5

\* Handing out an address.
LEMMA AllocCovered ==
    ASSUME NEW s, NEW m \in AllocatorType, BlocksOK(m), BlocksCovered(s, m), NEW kind \in Kinds,
           NEW a \in Places(m, kind)
    PROVE  /\ BlocksCovered(s, alloc_locked(m, kind, a))
           /\ \A x \in m.live : alloc_locked(m, kind, a).blocks[x[1]] = "dedicated"
                                  => m.blocks[x[1]] = "dedicated"
<1> DEFINE c == alloc_locked(m, kind, a)
<1>1. /\ a \in Addresses /\ a[1] \in Blocks
      /\ m.blocks[a[1]] = "none" \/ (kind = "pool" /\ m.blocks[a[1]] = "pool" /\ a \notin m.live)
  BY PlacesType
<1>2. c.deferred = m.deferred /\ \A b \in Blocks : c.blocks[b] = IF b = a[1] THEN kind ELSE m.blocks[b]
  BY <1>1, AllocType
<1> HIDE DEF c
<1>3. \A b \in Blocks : c.blocks[b] = "none" => m.blocks[b] = "none"  BY <1>2 DEF Kinds
<1>4. ASSUME NEW x \in m.live, c.blocks[x[1]] = "dedicated" PROVE m.blocks[x[1]] = "dedicated"
  <2>1. x[1] \in Blocks /\ m.blocks[x[1]] \in Kinds  BY DEF AllocatorType, Addresses, BlocksOK
  <2> QED  BY <1>1, <1>2, <1>4, <2>1 DEF Kinds
<1> QED  BY <1>2, <1>3, <1>4 DEF BlocksCovered, c

\* What a step that records nothing does to the blocks.
LEMMA BlockSteps ==
    ASSUME RuntimeInv, PendingInv, NEW t \in Threads, Thread(t),
           \A A, n : Covered(st, A, n) => Covered(st', A, n)
    PROVE  /\ BlocksCovered(st', mem')
           /\ \A x \in mem.live : mem'.blocks[x[1]] = "dedicated" => mem.blocks[x[1]] = "dedicated"
<1>0. /\ Types /\ MemoryInv /\ StreamOK(st) /\ mem \in AllocatorType /\ op \in [Threads -> Calls]
      /\ BlocksCovered(st, mem) /\ BlocksOK(mem)
  BY TypesParts DEF RuntimeInv, MemoryInv, PendingInv
<1>1. \A x \in mem.live : x[1] \in Blocks  BY <1>0 DEF AllocatorType, Addresses
<1> DEFINE m == collect(mem, st.timeline)
<1>2. /\ m \in AllocatorType /\ BlocksOK(m) /\ m.live = mem.live /\ BlocksCovered(st, m)
      /\ \A b \in Blocks : m.blocks[b] = "dedicated" => mem.blocks[b] = "dedicated"
  BY <1>0, CollectType, CollectBlocks, CollectCovered
<1> HIDE DEF m
<1>3. CASE mem' = mem
  BY <1>0, <1>3 DEF BlocksCovered
<1>4. CASE mem' = m /\ st' = st  BY <1>1, <1>2, <1>4
<1>5. ASSUME op[t].pc \in {"trim", "reclaim"}, NEW victims, mem' = trim(m, victims), st' = st
      PROVE  /\ BlocksCovered(st', mem')
             /\ \A x \in mem.live : mem'.blocks[x[1]] = "dedicated" => mem.blocks[x[1]] = "dedicated"
  <2>1. Covered(st, Addresses, 0)  BY <1>5 DEF PendingInv, CallCovered
  <2>2. /\ BlocksCovered(st, trim(m, victims))
        /\ \A b \in Blocks : trim(m, victims).blocks[b] = "dedicated" => m.blocks[b] = "dedicated"
    BY <1>0, <1>2, <2>1, TrimCovered
  <2> QED  BY <1>1, <1>2, <1>5, <2>2
<1>6. ASSUME NEW n \in AllocatorType, BlocksOK(n), n.live = mem.live, BlocksCovered(st, n),
             \A b \in Blocks : n.blocks[b] = "dedicated" => mem.blocks[b] = "dedicated",
             NEW kind \in Kinds, NEW a \in Places(n, kind), Take(t, n, kind, a)
      PROVE  /\ BlocksCovered(st', mem')
             /\ \A x \in mem.live : mem'.blocks[x[1]] = "dedicated" => mem.blocks[x[1]] = "dedicated"
  <2>1. st' = st /\ mem' = alloc_locked(n, kind, a)  BY <1>6 DEF Take
  <2>2. /\ BlocksCovered(st, mem')
        /\ \A x \in n.live : mem'.blocks[x[1]] = "dedicated" => n.blocks[x[1]] = "dedicated"
    BY <1>6, <2>1, AllocCovered
  <2> QED  BY <1>1, <1>6, <2>1, <2>2
<1>7. CASE SyncReturn(t)  BY <1>4, <1>7 DEF SyncReturn, m
<1>8. CASE Trim(t)
  <2>1. PICK keep \in 0 .. Cardinality(Blocks) : \E victims \in TrimChoices(m, keep) : mem' = trim(m, victims)
    BY <1>8 DEF Trim, m
  <2> QED  BY <1>5, <1>8, <2>1 DEF Trim
<1>9. CASE Reclaim(t)  BY <1>5, <1>9 DEF Reclaim, m
<1>10. CASE DestroyWaited(t)
  <2>1. st' = st /\ (mem' = mem \/ mem' = m)  BY <1>10 DEF DestroyWaited, m
  <2> QED  BY <1>3, <1>4, <2>1
<1>11. CASE \E kind \in Kinds : Alloc(t, kind)
  <2>1. PICK kind \in Kinds : Alloc(t, kind)  BY <1>11
  <2>2. PICK a \in Places(Reclaimed, kind) : Take(t, Reclaimed, kind, a)  BY <2>1 DEF Alloc
  <2>3. /\ Reclaimed \in AllocatorType /\ BlocksOK(Reclaimed) /\ Reclaimed.live = mem.live
        /\ BlocksCovered(st, Reclaimed)
        /\ \A b \in Blocks : Reclaimed.blocks[b] = "dedicated" => mem.blocks[b] = "dedicated"
    BY <1>0, <1>2 DEF Reclaimed, m
  <2> HIDE DEF Reclaimed
  <2> QED  BY <1>6, <2>2, <2>3
<1>12. CASE AllocRetry(t)
  <2>1. op[t].kind \in Kinds  BY <1>0 DEF Calls
  <2>2. CASE \E a \in Places(mem, op[t].kind) : Take(t, mem, op[t].kind, a)  BY <1>0, <1>6, <2>1, <2>2
  <2> QED  BY <1>3, <1>12, <2>2 DEF AllocRetry
<1>13. CASE FreeLocked(t)
  <2>1. CASE hold # Nobody  BY <1>3, <1>13, <2>1 DEF FreeLocked
  <2>2. CASE hold = Nobody
    <3> DEFINE a == op[t].addr
               tag == op[t].serial
    <3>1. st' = st /\ mem' = free_locked(mem, a, tag, st.timeline) /\ op[t].pc = "free_locked"
      BY <1>13, <2>2 DEF FreeLocked
    <3>2. tag \in Nat  BY <1>0 DEF Calls
    <3>3. a \in Freeing(t)  BY <3>1 DEF Freeing
    <3>4. a \in mem.live  BY <1>0, <3>3 DEF MemoryInv, AccountInv
    <3>5. mem.blocks[a[1]] = "dedicated" => Covered(st, Block(a[1]), tag)
      BY <3>1 DEF PendingInv, CallCovered
    <3> HIDE DEF a, tag
    <3>6. /\ BlocksCovered(st, mem')
          /\ \A b \in Blocks : mem'.blocks[b] = "dedicated" => mem.blocks[b] = "dedicated"
      BY <1>0, <3>1, <3>2, <3>4, <3>5, FreeCovered
    <3> QED  BY <1>1, <3>1, <3>6
  <2> QED  BY <2>1, <2>2
<1> QED
  BY <1>3, <1>7, <1>8, <1>9, <1>10, <1>11, <1>12, <1>13
  DEF Thread, Compute, H2D, D2H, Transfer, Free, AllocOutOfMemory, FreeTag, Sync, SyncThrows, SyncCheck,
      SyncSubmit, MemTrim, UploadIdle, UploadInline, UploadAfterSync, HostDone, CaptureCheck, CaptureBegin,
      CaptureHold, Finish, Abort, EndHold, FinishCapture, AbortCapture, Launch, DestroyGraph

\* A step of t that records nothing keeps the tags.
LEMMA QuietPending ==
    ASSUME RuntimeInv, PendingInv, NEW t \in Threads, Thread(t),
           \A A, n : Covered(st, A, n) => Covered(st', A, n)
    PROVE  PendingInv'
<1>0. /\ Types /\ MemoryInv /\ StreamOK(st) /\ op \in [Threads -> Calls] /\ op[t] \in Calls
      /\ st.timeline \in Nat
  BY TypesParts DEF RuntimeInv
<1>1. /\ BlocksCovered(st', mem')
      /\ \A x \in mem.live : mem'.blocks[x[1]] = "dedicated" => mem.blocks[x[1]] = "dedicated"
  BY BlockSteps
<1>2. /\ \A u \in Threads \ {t} : op'[u] = op[u]
      /\ \/ op'[t] = op[t]
         \/ SyncSubmit(t) \/ SyncReturn(t) \/ UploadIdle(t) \/ FreeTag(t)
         \/ op'[t].pc \notin {"sync_wait", "host", "trim", "reclaim", "free_locked"}
  BY <1>0, CallSteps
<1>3. ASSUME NEW u \in Threads, op'[u] = op[u] PROVE CallCovered(st', mem', op'[u])
  <2>1. CallCovered(st, mem, op[u])  BY DEF PendingInv
  <2>2. op[u].pc = "free_locked" => op[u].addr \in mem.live
    BY <1>0 DEF MemoryInv, AccountInv, Freeing
  <2> QED  BY <1>1, <1>3, <2>1, <2>2 DEF CallCovered
<1>4. CallCovered(st', mem', op'[t])
  <2>1. CASE op'[t] = op[t]  BY <1>3, <2>1
  <2>2. CASE SyncSubmit(t)
    <3>1. op'[t].pc = "sync_wait" /\ op'[t].serial = st'.submitted
      BY <1>0, <2>2 DEF SyncSubmit, Goto, Calls
    <3>2. StreamOK(st') /\ st'.open_slot = NoSlot  BY <1>0, <2>2, SubmitEffect DEF SyncSubmit
    <3>3. Covered(st', Addresses, st'.submitted)  BY <3>2, CoveredByWork
    <3> QED  BY <3>1, <3>3 DEF CallCovered
  <2>3. CASE SyncReturn(t)
    <3>1. CASE op[t].then = "idle"
      <4>1. op'[t].pc = "idle"  BY <1>0, <2>3, <3>1, IdleThen DEF SyncReturn, Return, Goto
      <4> QED  BY <4>1 DEF CallCovered
    <3>2. CASE op[t].then # "idle"
      <4>1. Goto(t, [op[t] EXCEPT !.pc = op[t].then, !.then = "idle", !.serial = 0]) /\ st' = st
            /\ op[t].pc = "sync_wait" /\ st.timeline >= op[t].serial
        BY <2>3, <3>2 DEF SyncReturn
      <4>2. op'[t].pc = op[t].then  BY <1>0, <4>1 DEF Goto, Calls
      <4>3. op[t].serial \in Nat /\ op[t].then \in {"trim", "reclaim", "host"}  BY <1>0, <3>2 DEF Calls
      <4>4. op[t].serial <= st.timeline  BY <1>0, <4>1, <4>3
      <4>5. CASE op[t].then = "host"  BY <4>2, <4>5 DEF CallCovered
      <4>6. CASE op[t].then \in {"trim", "reclaim"}
        <5>1. Covered(st, Addresses, op[t].serial)  BY <4>1, <4>6 DEF PendingInv, CallCovered
        <5>2. Covered(st, Addresses, 0)  BY <1>0, <4>3, <4>4, <5>1, CoveredDone
        <5> QED  BY <4>1, <4>2, <4>6, <5>2 DEF CallCovered
      <4> QED  BY <4>3, <4>5, <4>6
    <3> QED  BY <3>1, <3>2
  <2>4. CASE UploadIdle(t)
    <3>1. op'[t].pc \in {"host", "h2d_busy"}  BY <1>0, <2>4 DEF UploadIdle, Goto, Calls
    <3> QED  BY <3>1 DEF CallCovered
  <2>5. CASE FreeTag(t)
    <3>1. op'[t].pc = "free_locked" /\ op'[t].serial = st.work_serial /\ st' = st
      BY <1>0, <2>5 DEF FreeTag, Goto, Calls
    <3>2. Covered(st, Block(op'[t].addr[1]), st.work_serial)  BY <1>0, CoveredByWork
    <3> QED  BY <3>1, <3>2 DEF CallCovered
  <2>6. CASE op'[t].pc \notin {"sync_wait", "host", "trim", "reclaim", "free_locked"}
    BY <2>6 DEF CallCovered
  <2> QED  BY <1>2, <2>1, <2>2, <2>3, <2>4, <2>5, <2>6
<1> QED  BY <1>1, <1>2, <1>3, <1>4 DEF PendingInv

\* A step of t that gives the GPU commands on tensors and on what the graph holds.
LEMMA RecordedPending ==
    ASSUME "trim" \notin Unguarded, RuntimeInv, WindowInv, PendingInv, NEW t \in Threads, Thread(t),
           mem' = mem, \A u \in Threads \ {t} : op'[u] = op[u],
           op[t].pc \in {"idle", "h2d_busy"}, op'[t] = op[t] \/ op'[t] = Idle,
           NEW N, \A x \in N : x \in graph.held \/ \E u \in Threads : x \in own[u],
           \A A, n : Covered(st, A, n) /\ A \cap N = {} => Covered(st', A, n)
    PROVE  PendingInv'
<1>0. Types /\ ControlInv /\ AccountInv /\ BlocksOK(mem) /\ mem \in AllocatorType
  BY TypesParts DEF RuntimeInv, MemoryInv
<1>1. ASSUME NEW x \in N PROVE x \in mem.live /\ \A u \in Threads : x \notin Freeing(u)
  <2>1. CASE x \in graph.held  BY <1>0, <2>1 DEF AccountInv, Separate
  <2>2. CASE \E u \in Threads : x \in own[u]  BY <1>0, <2>2 DEF AccountInv, Separate
  <2> QED  BY <2>1, <2>2
<1>2. ASSUME NEW b, mem.blocks[b] \notin Kinds PROVE Block(b) \cap N = {}
  BY <1>0, <1>1, <1>2 DEF BlocksOK, Block
<1>3. BlocksCovered(st', mem')
  <2>1. BlocksCovered(st, mem)  BY DEF PendingInv
  <2>2. ASSUME NEW b \in Blocks, mem.blocks[b] = "none" PROVE Covered(st', Block(b), 0)
    <3>1. Block(b) \cap N = {}  BY <1>2, <2>2 DEF Kinds
    <3> QED  BY <2>1, <2>2, <3>1 DEF BlocksCovered
  <2>3. ASSUME NEW d \in mem.deferred PROVE Covered(st', Block(d.block), d.serial)
    <3>1. mem.blocks[d.block] \notin Kinds  BY <1>0 DEF BlocksOK, Kinds
    <3>2. Block(d.block) \cap N = {}  BY <1>2, <3>1
    <3> QED  BY <2>1, <3>2 DEF BlocksCovered
  <2> QED  BY <2>2, <2>3 DEF BlocksCovered
<1>4. ASSUME NEW u \in Threads, u # t PROVE CallCovered(st', mem, op[u])
  <2>1. CallCovered(st, mem, op[u])  BY DEF PendingInv
  <2>2. ASSUME op[u].pc = "free_locked", mem.blocks[op[u].addr[1]] = "dedicated"
        PROVE  Block(op[u].addr[1]) \cap N = {}
    <3> DEFINE a == op[u].addr
    <3>1. a \in Freeing(u)  BY <2>2 DEF Freeing
    <3>2. a \in mem.live  BY <1>0, <3>1 DEF AccountInv
    <3>3. ASSUME NEW x \in N, x[1] = a[1] PROVE FALSE
      <4>1. x \in mem.live /\ x # a  BY <1>1, <3>1
      <4>2. x[2] = 1 /\ a[2] = 1  BY <1>0, <2>2, <3>2, <3>3, <4>1 DEF BlocksOK
      <4>3. x \in Blocks \X Cells /\ a \in Blocks \X Cells
        BY <1>0, <3>2, <4>1 DEF AllocatorType, Addresses
      <4> QED  BY <3>3, <4>1, <4>2, <4>3
    <3> QED  BY <3>3 DEF Block
  <2>3. ~Trimming(u)
    <3> SUFFICES ASSUME Trimming(u) PROVE FALSE  OBVIOUS
    <3>1. op[u].pc \in CapturePoints  BY <1>4, WindowAlone DEF InWindow
    <3> QED  BY <1>0, <3>1 DEF Trimming, ControlInv, CallInv, CallOK, CapturePoints
  <2>4. op[u].pc \notin {"trim", "reclaim"} /\ op[u].then \notin {"trim", "reclaim"}  BY <2>3 DEF Trimming
  <2> QED  BY <2>1, <2>2, <2>4 DEF CallCovered
<1>5. CallCovered(st', mem', op'[t])  BY IdleThen DEF CallCovered
<1> QED  BY <1>3, <1>4, <1>5 DEF PendingInv

\* Every step keeps the tags ahead of the commands.
LEMMA NextPending ==
    ASSUME "capture" \notin Unguarded, "trim" \notin Unguarded
    PROVE  RuntimeInv /\ WindowInv /\ CaptureInv /\ PendingInv /\ [Next]_vars => PendingInv'
<1> SUFFICES ASSUME RuntimeInv, WindowInv, CaptureInv, PendingInv, [Next]_vars PROVE PendingInv'  OBVIOUS
<1>0. Types /\ ControlInv /\ StreamOK(st) /\ op \in [Threads -> Calls]  BY TypesParts DEF RuntimeInv
<1>1. ASSUME NEW t \in Threads, Thread(t), (\E a \in own[t] : Compute(t, a)) \/ UploadInline(t)
      PROVE  PendingInv'
  <2>1. PICK c \in DeviceCommands :
            /\ c.addr \in own[t]
            /\ \A A, n : Covered(st, A, n) /\ c.addr \notin A => Covered(st', A, n)
    BY <1>0, <1>1, RecordingSteps
  <2>2. /\ mem' = mem /\ op[t].pc \in {"idle", "h2d_busy"} /\ (op'[t] = op[t] \/ op'[t] = Idle)
        /\ \A u \in Threads \ {t} : op'[u] = op[u]
    <3>1. CASE \E a \in own[t] : Compute(t, a)  BY <3>1 DEF Compute, Start
    <3>2. CASE UploadInline(t)  BY <1>0, <3>2 DEF UploadInline, Return, Goto
    <3> QED  BY <1>1, <3>1, <3>2
  <2> DEFINE N == {c.addr}
  <2>3. \A x \in N : x \in graph.held \/ \E u \in Threads : x \in own[u]  BY <2>1
  <2>4. \A A, n : Covered(st, A, n) /\ A \cap N = {} => Covered(st', A, n)  BY <2>1
  <2> HIDE DEF N
  <2> QED  BY <1>1, <2>2, <2>3, <2>4, RecordedPending
<1>2. ASSUME NEW t \in Threads, Thread(t), Launch(t) PROVE PendingInv'
  <2>1. \A A, n : Covered(st, A, n) /\ A \cap GraphUses = {} => Covered(st', A, n)
    BY <1>0, <1>2, LaunchSteps
  <2>2. mem' = mem /\ op' = op /\ op[t].pc = "idle"  BY <1>2 DEF Launch, Start
  <2>3. ASSUME NEW x \in GraphUses PROVE x \in graph.held \/ \E u \in Threads : x \in own[u]
    <3>1. PICK c \in GraphCommands : x = c.addr  BY DEF GraphUses, Uses, GraphCommands
    <3> QED  BY <3>1 DEF CaptureInv, GraphHeld
  <2> HIDE DEF GraphUses
  <2> QED  BY <1>2, <2>1, <2>2, <2>3, RecordedPending
<1>3. ASSUME NEW t \in Threads, Thread(t), ~Launch(t), ~UploadInline(t), ~ \E a \in own[t] : Compute(t, a)
      PROVE  PendingInv'
  <2>1. \A A, n : Covered(st, A, n) => Covered(st', A, n)  BY <1>0, <1>3, StreamSteps
  <2> QED  BY <1>3, <2>1, QuietPending
<1>4. CASE GpuSignal
  <2>1. UNCHANGED <<op, mem>> /\ \A A, n : Covered(st, A, n) => Covered(st', A, n)
    BY <1>0, <1>4, SignalEffect DEF GpuSignal
  <2> QED  BY <2>1 DEF PendingInv, BlocksCovered, CallCovered
<1>5. CASE UNCHANGED vars  BY <1>5 DEF vars, PendingInv
<1> QED  BY <1>1, <1>2, <1>3, <1>4, <1>5 DEF Next

\* No block is returned to the driver while a recorded command uses it, when the clients keep
\* clear of captures' ends and of trims: the tag that free() reads before it locks covers
\* everything recorded on the block, for any number of threads, blocks, slots and commands.
THEOREM PendingMemory ==
    ASSUME "capture" \notin Unguarded, "trim" \notin Unguarded
    PROVE  Spec => []PendingMemoryAlive
<1>1. Init => PendingInv
  <2> SUFFICES ASSUME Init PROVE PendingInv  OBVIOUS
  <2>1. \A t \in Threads : op[t].pc = "idle"  BY IdleThen DEF Init
  <2>2. st.queue = << >> /\ st.cb = << >> /\ mem.deferred = {}  BY DEF Init, InitStream, InitAllocator
  <2>3. \A A, n : Covered(st, A, n)  BY <2>2, CommandsInEmpty DEF Covered
  <2> QED  BY <2>1, <2>2, <2>3 DEF PendingInv, BlocksCovered, CallCovered
<1>2. RuntimeInv /\ PendingInv => PendingMemoryAlive
  <2> SUFFICES ASSUME RuntimeInv, PendingInv, NEW c \in PendingCommands, mem.blocks[c.addr[1]] = "none"
               PROVE  FALSE
    BY DEF PendingMemoryAlive, Alive
  <2>1. StreamOK(st)  BY TypesParts DEF RuntimeInv
  <2>2. c \in DeviceCommands
    <3>1. CommandsIn(st.cb) \subseteq DeviceCommands
      BY <2>1, CommandsInType DEF StreamOK, StreamType
    <3>2. ASSUME NEW k \in DOMAIN st.queue PROVE CommandsIn(st.queue[k].cb) \subseteq DeviceCommands
      <4>1. st.queue[k] \in Submissions(DeviceCommands)  BY <2>1, QueueType DEF StreamOK
      <4>2. st.queue[k].cb \in CommandBuffers(DeviceCommands)  BY <4>1 DEF Submissions
      <4> QED  BY <4>2, CommandsInType
    <3> QED  BY <3>1, <3>2 DEF PendingCommands
  <2>3. c.addr \in Blocks \X Cells  BY <2>2 DEF DeviceCommands, Addresses
  <2>4. c.addr \in Block(c.addr[1]) /\ c.addr[1] \in Blocks  BY <2>3 DEF Block
  <2>5. Covered(st, Block(c.addr[1]), 0)  BY <2>4 DEF PendingInv, BlocksCovered
  <2> QED  BY <2>1, <2>4, <2>5, CoveredUnused DEF PendingCommands
<1> QED  BY <1>1, <1>2, NextPending, RuntimeInvariant, CaptureInvariant, PTL DEF Spec
=============================================================================
