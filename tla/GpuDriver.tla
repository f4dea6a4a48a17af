------------------------------ MODULE GpuDriver ------------------------------
(***************************************************************************)
(* The driver: a device controller, a buffer manager and a submission      *)
(* queue behind one interface (driver.rs with the queue of queue.rs,       *)
(* generic_driver.rs with any queue that keeps the contract of             *)
(* SubmissionQueue).  The two files make the same calls in the same order; *)
(* the generic one also lets the caller peek.                              *)
(*                                                                         *)
(* Every call that allocates, writes or submits first asks the controller  *)
(* whether the device is ready.  next_submission does not ask.  The driver *)
(* passes on neither the reset of its controller nor the clearing, release *)
(* and offset writes of its device.                                        *)
(*                                                                         *)
(* A generic driver is made over a queue the caller hands to new, and the  *)
(* caller may have filled that queue before: with submissions validated    *)
(* against another device, say, which this driver then hands out.  The     *)
(* driver of driver.rs makes its queue itself, and is the case             *)
(* GivenQueues = {<< >>}.                                                  *)
(***************************************************************************)
EXTENDS Integers, Sequences, Answers

CONSTANTS
  QueueCapacity,   \* the capacity of the queue
  Images,          \* the firmware images callers load
  MaxId, UsizeMax, Byte, Zero,  \* as in GpuDevice
  Capacities,      \* the capacities callers ask for
  Lengths,         \* the lengths of the data callers write
  MaxCommand,      \* the largest command id
  RawCommands,     \* the commands callers submit: [id, offset, length, priority]
  GivenQueues      \* what may be pending in the queue a driver is made over

VARIABLES
  state,           \* controller: the lifecycle state
  next_id,         \* device: the id the next allocation issues
  buffers,         \* device: the allocated buffers by id
  queue,           \* the pending submissions, the oldest first
  answer,          \* what the last call returned
  given            \* history: how many of the pending submissions, the first
                   \* ones, were in the queue when the driver was made over it

device == <<next_id, buffers>>
vars == <<state, next_id, buffers, queue, answer, given>>

Validation == INSTANCE Submissions
Controller == INSTANCE DeviceController
Device == INSTANCE GpuDevice WITH Offsets <- {}
Queue == INSTANCE SubmissionQueue
           WITH Capacity <- QueueCapacity, Submission <- Validation!ValidatedSubmission

\* Neither backend can be made with the capacity zero.
ASSUME WidthAssumption ==
  /\ QueueCapacity \in Nat \ {0}
  /\ MaxId \in Nat /\ UsizeMax \in Nat /\ MaxCommand \in Nat
ASSUME ByteAssumption == Zero \in Byte
ASSUME InputAssumption ==
  /\ Images \subseteq [len : Nat, magic : BOOLEAN, major : 0 .. 255, minor : 0 .. 255]
  /\ Capacities \subseteq 0 .. UsizeMax
  /\ Lengths \subseteq 0 .. UsizeMax
  /\ RawCommands \subseteq Validation!RawCommand
\* Whoever filled a queue did so through its enqueue, with what a validation
\* returned: more is not known of it.
ASSUME GivenAssumption ==
  \A q \in GivenQueues :
    /\ q \in Seq(Validation!ValidatedSubmission)
    /\ Len(q) <= QueueCapacity
    /\ \A i, j \in DOMAIN q : q[i].id = q[j].id => i = j

-----------------------------------------------------------------------------
\* A new controller and a new device, and the queue as it is given.
Init ==
  /\ Controller!Init
  /\ Device!Init
  /\ queue \in GivenQueues
  /\ given = Len(queue)

LoadFirmware(image) ==
  /\ Controller!LoadFirmware(image)
  /\ UNCHANGED <<next_id, buffers, queue, given>>

Start ==
  /\ Controller!Start
  /\ UNCHANGED <<next_id, buffers, queue, given>>

\* The ? on ensure_ready ends a call before it reaches the device.
NotReady ==
  /\ ~Controller!IsReady
  /\ Controller!EnsureReady
  /\ UNCHANGED <<next_id, buffers, queue, given>>

AllocateBuffer(capacity) ==
  \/ NotReady
  \/ /\ Controller!IsReady
     /\ Device!AllocateBuffer(capacity)
     /\ UNCHANGED <<state, queue, given>>

WriteBuffer(id, length, b) ==
  \/ NotReady
  \/ /\ Controller!IsReady
     /\ Device!WriteBuffer(id, length, b)
     /\ UNCHANGED <<state, queue, given>>

\* submit: ready, then valid, then accepted by the queue.
Submit(buffer_id, raw) ==
  LET verdict == Validation!SubmissionVerdict(buffers, buffer_id, raw)
  IN  \/ NotReady
      \/ /\ Controller!IsReady
         /\ verdict # "Valid"
         /\ answer' = Err(verdict)
         /\ UNCHANGED <<state, next_id, buffers, queue, given>>
      \/ /\ Controller!IsReady
         /\ verdict = "Valid"
         /\ Queue!Enqueue(Validation!Submission(buffer_id, raw))
         /\ UNCHANGED <<state, next_id, buffers, given>>

\* The given submissions, which were there first, leave first.
GivenAfterTake == IF given > 0 THEN given - 1 ELSE 0

NextSubmission ==
  /\ Queue!Dequeue
  /\ given' = GivenAfterTake
  /\ UNCHANGED <<state, next_id, buffers>>

PeekSubmission ==
  /\ Queue!Peek
  /\ UNCHANGED <<state, next_id, buffers, given>>

\* queued_len, is_queue_empty and is_queue_full.
ObserveQueue ==
  /\ Queue!Observe
  /\ UNCHANGED <<state, next_id, buffers, given>>

Next ==
  \/ \E image \in Images : LoadFirmware(image)
  \/ Start
  \/ \E c \in Capacities : AllocateBuffer(c)
  \/ \E id \in Device!BufferId :
       \/ \E n \in Lengths, b \in Byte : WriteBuffer(id, n, b)
       \/ \E raw \in RawCommands : Submit(id, raw)
  \/ NextSubmission
  \/ PeekSubmission
  \/ ObserveQueue

Spec == Init /\ [][Next]_vars

-----------------------------------------------------------------------------
(* Properties.                                                             *)

\* Type invariant of the composition.
TypeOK ==
  /\ Controller!TypeOK
  /\ Device!TypeOK
  /\ Queue!TypeOK
  /\ given \in 0 .. Len(queue)

\* Until the device is ready the driver owns no buffer and has admitted no
\* submission: what next_submission, which does not check, can hand out of a
\* device that is not ready is what was in the queue given to new, and for a
\* driver that made its queue itself nothing.
OnlyGivenBeforeReady ==
  state.kind # "Ready" => DOMAIN buffers = {} /\ Len(queue) = given

\* The places of the submissions this driver admitted.
Own == given + 1 .. Len(queue)

\* The bytes a submission names, computed without wrapping around.
RangeEnd(s) == s.offset + s.length

\* Every pending submission the driver admitted names an existing buffer and
\* bytes inside its storage, however long it has waited, whatever was written
\* since and whatever is pending before it.  Nothing of the kind is true of
\* the submissions it was given.
QueuedRangeInBuffer ==
  \A i \in Own :
    /\ queue[i].buffer_id \in DOMAIN buffers
    /\ RangeEnd(queue[i]) <= buffers[queue[i].buffer_id].capacity

IsInitialized(s) ==
  s.buffer_id \in DOMAIN buffers /\ RangeEnd(s) <= buffers[s.buffer_id].used

Queued == {queue[i] : i \in DOMAIN queue}

\* A submission enters the queue only while every byte it names is
\* initialized, in exact arithmetic.
AdmittedRangeInitialized ==
  [][\A s \in Queued' \ Queued : IsInitialized(s)]_vars

\* The bytes of a pending submission stop being initialized in one way only:
\* a write_buffer that gives that same buffer fewer bytes.  No allocation,
\* submission, dequeue or write elsewhere takes the data away from it.
OnlyAShorterWriteMakesStale ==
  [][\A s \in Queued \cap Queued' :
       IsInitialized(s) /\ ~IsInitialized(s)' =>
         /\ answer' = Ok
         /\ s.buffer_id \in DOMAIN buffers'
         /\ buffers'[s.buffer_id].used < buffers[s.buffer_id].used
         /\ UNCHANGED <<next_id, queue>>]_vars

\* A refused call changes nothing in any of the three parts, wherever in the
\* chain ensure_ready, validation, queue it was refused.
RefusalChangesNothing ==
  [][IsErr(answer') => UNCHANGED <<state, next_id, buffers, queue>>]_vars

\* The bytes of every pending submission the driver admitted are initialized.
QueuedRangeInitialized ==
  \A i \in Own : IsInitialized(queue[i])

=============================================================================
