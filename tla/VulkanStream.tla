----------------------------- MODULE VulkanStream -----------------------------
(***************************************************************************)
(* The Vulkan backend's command stream (src/vulkan/stream.cpp), as pure    *)
(* operators on a stream state.  A device has ONE Stream; every operation  *)
(* takes its mutex mu_, so the body of an operation is one function from   *)
(* a stream state to the next.  VulkanQueue runs these operators from      *)
(* several threads against a GPU that may reorder what no barrier orders;  *)
(* VulkanRuntime composes them with the allocator and the graph capture.   *)
(*                                                                         *)
(* A command buffer is the sequence of the entries recorded into it.  What *)
(* a command computes is abstracted to its argument.                       *)
(*                                                                         *)
(* The BT_VK_CHECK that can realistically fail while the process goes on   *)
(* is vkQueueSubmit's (out of memory); the operators that submit take its  *)
(* outcome as a parameter.                                                 *)
(***************************************************************************)
EXTENDS Integers, Sequences

CONSTANTS
    kSlots,        \* command buffers the open batch rotates over (4 in the code)
    batch_limit    \* commands per batch or capture segment (128 in the code)

ASSUME kSlotsAssumption == kSlots \in Nat \ {0}
ASSUME batch_limitAssumption == batch_limit \in Nat \ {0}

Slots == 0 .. kSlots - 1

NoSlot == -1

(***************************************************************************)
(* Entries of a command buffer.  A barrier orders everything before it     *)
(* before everything after it; the to_host barrier also makes results      *)
(* visible to the host.                                                    *)
(***************************************************************************)
Barrier == [op |-> "barrier"]
ToHost == [op |-> "to_host"]
Command(c) == [op |-> "command", arg |-> c]

IsCommand(e) == e.op = "command"

(***************************************************************************)
(* The stream's state.  cb is what the open slot's command buffer holds,   *)
(* capture_cb the capture segment being recorded; `capturing' stands for   *)
(* both capture_cb_ # null and the atomic capturing_, which every          *)
(* operation changes together under mu_.  queue and timeline are the       *)
(* device's: the submissions it has not signalled yet, and the timeline    *)
(* semaphore's value (completed()).                                        *)
(***************************************************************************)
InitStream ==
    [ slot_serial  |-> [i \in Slots |-> 0],
      open_slot    |-> NoSlot,
      open_serial  |-> 0,
      next_serial  |-> 1,
      submitted    |-> 0,
      work_serial  |-> 0,
      ops_in_batch |-> 0,
      need_barrier |-> FALSE,
      cb           |-> << >>,
      capturing    |-> FALSE,
      capture_cb   |-> << >>,
      capture_done |-> << >>,
      queue        |-> << >>,
      timeline     |-> 0 ]

NextSlot(s) == s.next_serial % kSlots

\* Mutant: the wait is forgotten.
SlotReadyUnwaited(s) == TRUE

(***************************************************************************)
(* open_locked blocks, holding mu_, until the last submission recorded in  *)
(* the slot it is about to reuse has been signalled.  Nothing else can     *)
(* change the stream while it waits, so the whole operation is taken as    *)
(* one step that is enabled when the wait is over.                         *)
(***************************************************************************)
SlotReady(s) ==
    \/ s.capturing
    \/ s.open_slot # NoSlot
    \/ s.slot_serial[NextSlot(s)] <= s.timeline

\* Mutant: the new batch is not announced as work.
open_unannounced(s) ==
    IF s.capturing \/ s.open_slot # NoSlot THEN s
    ELSE [s EXCEPT !.open_slot = NextSlot(s), !.open_serial = s.next_serial,
                   !.ops_in_batch = 0, !.need_barrier = FALSE, !.cb = <<Barrier>>]

open_locked(s) ==
    IF s.capturing \/ s.open_slot # NoSlot THEN s
    ELSE [s EXCEPT !.open_slot = NextSlot(s),
                   !.open_serial = s.next_serial,
                   !.work_serial = s.next_serial,
                   !.ops_in_batch = 0,
                   !.need_barrier = FALSE,
                   !.cb = <<Barrier>>]

\* Mutant: no barrier between two commands.
record_unordered(s, c) ==
    LET rest == [s EXCEPT !.need_barrier = TRUE, !.ops_in_batch = @ + 1]
    IN  IF s.capturing THEN [rest EXCEPT !.capture_cb = Append(@, Command(c))]
                       ELSE [rest EXCEPT !.cb = Append(@, Command(c))]

\* before_command_locked and the vkCmd* call itself, into the buffer open_locked chose.
record_command(s, c) ==
    LET entries == IF s.need_barrier THEN <<Barrier, Command(c)>> ELSE <<Command(c)>>
        rest == [s EXCEPT !.need_barrier = TRUE, !.ops_in_batch = @ + 1]
    IN  IF s.capturing THEN [rest EXCEPT !.capture_cb = @ \o entries]
                       ELSE [rest EXCEPT !.cb = @ \o entries]

\* vkQueueSubmit accepted buf, the command buffer of slot (NoSlot: of a graph):
\* it will signal the timeline with serial.
submit_cb_locked(s, buf, slot, serial) ==
    [s EXCEPT !.queue = Append(@, [serial |-> serial, slot |-> slot, cb |-> buf]),
              !.submitted = serial]

\* Mutants: the slot is not tagged; it is tagged with the next serial; the to_host barrier is
\* left out.
SubmitWith(s, ok, tags, tail) ==
    IF s.open_slot = NoSlot THEN s
    ELSE LET closed == [s EXCEPT !.slot_serial = tags, !.open_slot = NoSlot, !.cb = << >>]
         IN  IF ok
             THEN [submit_cb_locked(closed, s.cb \o tail, s.open_slot, s.open_serial)
                       EXCEPT !.next_serial = @ + 1]
             ELSE closed

submit_untagged(s, ok) == SubmitWith(s, ok, s.slot_serial, <<ToHost>>)

submit_tagging_next(s, ok) ==
    SubmitWith(s, ok, [s.slot_serial EXCEPT ![s.open_slot] = s.open_serial + 1], <<ToHost>>)

submit_without_to_host(s, ok) ==
    SubmitWith(s, ok, [s.slot_serial EXCEPT ![s.open_slot] = s.open_serial], << >>)

(***************************************************************************)
(* submit_locked.  The slot is tagged and closed BEFORE vkQueueSubmit is   *)
(* called; when that throws, the recorded commands are gone, nothing will  *)
(* signal the serial and next_serial_ is not advanced.                     *)
(***************************************************************************)
submit_locked(s, ok) ==
    IF s.open_slot = NoSlot THEN s
    ELSE LET closed == [s EXCEPT !.slot_serial[s.open_slot] = s.open_serial,
                                 !.open_slot = NoSlot,
                                 !.cb = << >>]
         IN  IF ok
             THEN [submit_cb_locked(closed, s.cb \o <<ToHost>>, s.open_slot, s.open_serial)
                       EXCEPT !.next_serial = @ + 1]
             ELSE closed

\* Mutant: what the last batch left over is counted again.
begin_capture_segment_carrying(s) ==
    [s EXCEPT !.capture_cb = <<Barrier>>, !.ops_in_batch = @ - batch_limit, !.need_barrier = FALSE]

begin_capture_segment_locked(s) ==
    [s EXCEPT !.capture_cb = <<Barrier>>,
              !.ops_in_batch = 0,
              !.need_barrier = FALSE]

\* A full batch is submitted; a full capture segment is closed and another begun.
after_command_locked(s, ok) ==
    IF s.ops_in_batch < batch_limit THEN s
    ELSE IF ~s.capturing THEN submit_locked(s, ok)
    ELSE begin_capture_segment_locked([s EXCEPT !.capture_done = Append(@, s.capture_cb)])

\* dispatch, copy, fill and update differ only in the vkCmd* they record.
dispatch(s, c, ok) == after_command_locked(record_command(open_locked(s), c), ok)

\* Whether an operation on s gets as far as vkQueueSubmit.
SubmitsOnCommand(s) ==
    ~s.capturing /\ open_locked(s).ops_in_batch + 1 >= batch_limit

SubmitsOpen(s) == s.open_slot # NoSlot

-----------------------------------------------------------------------------
(***************************************************************************)
(* Capture and replay.                                                     *)
(***************************************************************************)

begin_capture(s, ok) ==
    IF SubmitsOpen(s) /\ ~ok THEN submit_locked(s, ok)
    ELSE begin_capture_segment_locked([submit_locked(s, ok) EXCEPT
                                           !.capture_done = << >>,
                                           !.capturing = TRUE])

LeaveCapture(s) ==
    [s EXCEPT !.capturing = FALSE,
              !.capture_cb = << >>,
              !.capture_done = << >>,
              !.ops_in_batch = 0,
              !.need_barrier = FALSE]

end_capture(s) == LeaveCapture(s)

\* The segments end_capture returns: only the last one carries the to_host barrier.
captured_segments(s) == Append(s.capture_done, s.capture_cb \o <<ToHost>>)

abort_capture(s) == IF s.capturing THEN LeaveCapture(s) ELSE s

(***************************************************************************)
(* launch of the segments cbs.  ok is the outcome of submitting the batch  *)
(* that was open, n the number of segments vkQueueSubmit accepts.  Each    *)
(* segment takes a serial and announces it as work before it is submitted. *)
(***************************************************************************)
launch_segments(s, cbs, n) ==
    LET taken == IF n < Len(cbs) THEN n + 1 ELSE n
    IN  [s EXCEPT !.queue = @ \o [i \in 1 .. n |-> [serial |-> s.next_serial + i - 1,
                                                   slot |-> NoSlot,
                                                   cb |-> cbs[i]]],
                  !.submitted = IF n = 0 THEN @ ELSE s.next_serial + n - 1,
                  !.work_serial = s.next_serial + taken - 1,
                  !.next_serial = @ + taken]

launch(s, cbs, ok, n) ==
    IF SubmitsOpen(s) /\ ~ok THEN submit_locked(s, ok)
    ELSE launch_segments(submit_locked(s, ok), cbs, n)

\* Mutant: the serial of the first segment.
launch_serial_first(s, cbs) == submit_locked(s, TRUE).next_serial

\* The serial launch returns when every segment was accepted.
launch_serial(s, cbs) == submit_locked(s, TRUE).next_serial + Len(cbs) - 1

-----------------------------------------------------------------------------
(***************************************************************************)
(* Waiting.  completed() is s.timeline.                                    *)
(***************************************************************************)

\* What Stream::wait(serial) does under mu_: submit the open batch if it is the one asked for.
wait_submit(s, serial, ok) ==
    IF serial > s.submitted /\ SubmitsOpen(s) /\ serial = s.open_serial
    THEN submit_locked(s, ok)
    ELSE s

\* ... and whether it then returns at once, nothing being recorded under serial.
wait_returns_early(s, serial) ==
    serial > s.submitted /\ ~(SubmitsOpen(s) /\ serial = s.open_serial)

\* Mutant: the open batch is overlooked.
idle_submitted(s) == s.timeline >= s.submitted

idle(s) == s.open_slot = NoSlot /\ s.timeline >= s.submitted

\* The device signals the submission at the head of its queue.
Signal(s) ==
    [s EXCEPT !.timeline = Head(s.queue).serial,
              !.queue = Tail(@)]

-----------------------------------------------------------------------------
(***************************************************************************)
(* What the operations keep true of a stream state.                        *)
(***************************************************************************)
Entries(Cmds) == [op : {"barrier", "to_host"}] \cup [op : {"command"}, arg : Cmds]

CommandBuffers(Cmds) == Seq(Entries(Cmds))

Submissions(Cmds) == [serial : Nat, slot : Slots \cup {NoSlot}, cb : CommandBuffers(Cmds)]

StreamType(Cmds) ==
    [ slot_serial  : [Slots -> Nat],
      open_slot    : Slots \cup {NoSlot},
      open_serial  : Nat,
      next_serial  : Nat,
      submitted    : Nat,
      work_serial  : Nat,
      ops_in_batch : Nat,
      need_barrier : BOOLEAN,
      cb           : CommandBuffers(Cmds),
      capturing    : BOOLEAN,
      capture_cb   : CommandBuffers(Cmds),
      capture_done : Seq(CommandBuffers(Cmds)),
      queue        : Seq(Submissions(Cmds)),
      timeline     : Nat ]

\* Serials are signalled in the order they were taken, none before it was submitted.
SerialOrder(s) ==
    /\ s.timeline <= s.submitted
    /\ s.submitted < s.next_serial
    /\ \A i \in DOMAIN s.queue : s.timeline < s.queue[i].serial /\ s.queue[i].serial <= s.submitted
    /\ \A i, j \in DOMAIN s.queue : i < j => s.queue[i].serial < s.queue[j].serial

\* An open batch is the next serial's, in the slot that serial selects, and outside a capture.
OpenBatch(s) ==
    s.open_slot # NoSlot =>
        /\ ~s.capturing
        /\ s.open_serial = s.next_serial
        /\ s.work_serial = s.next_serial
        /\ s.slot_serial[s.open_slot] <= s.timeline

\* A slot's tag covers the submissions made from it.
SlotTags(s) ==
    \A i \in DOMAIN s.queue :
        s.queue[i].slot # NoSlot => s.queue[i].serial <= s.slot_serial[s.queue[i].slot]

\* No command buffer is recorded into, or submitted again, while the GPU still has it.
SlotExclusive(s) ==
    /\ s.open_slot # NoSlot => \A i \in DOMAIN s.queue : s.queue[i].slot # s.open_slot
    /\ \A i, j \in DOMAIN s.queue :
           s.queue[i].slot # NoSlot /\ s.queue[i].slot = s.queue[j].slot => i = j

StreamInv(s) == SerialOrder(s) /\ OpenBatch(s) /\ SlotTags(s) /\ SlotExclusive(s)
=============================================================================
