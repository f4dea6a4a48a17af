--------------------------- MODULE DriverBackends ---------------------------
(***************************************************************************)
(* The generic driver (generic_driver.rs) over the two queue backends of   *)
(* the crate (queue_backend.rs), beside each other: one driver owns a      *)
(* CommandQueue, the other a StaticCommandQueue, and a caller makes every  *)
(* call to both.  GpuDriver has the contract of the trait in their place.  *)
(*                                                                         *)
(* No call of a driver passes anything of the queue to the controller or   *)
(* to the device, and both are deterministic: the two drivers always have  *)
(* the same controller and device, and the module keeps one of each.       *)
(*                                                                         *)
(* new takes the queue the caller hands it, whatever happened to it        *)
(* before.  The two queues are handed over with the same submissions       *)
(* pending, and each in any state in which its own calls can leave it with *)
(* those.                                                                  *)
(***************************************************************************)
EXTENDS Integers, Sequences, Answers

CONSTANTS
  QueueCapacity, Images, MaxId, UsizeMax, Byte, Zero, Capacities, Lengths,
  MaxCommand, RawCommands, GivenQueues,  \* as in GpuDriver
  Empty                                  \* the slot value None of the ring

VARIABLES
  state,               \* the controller of both drivers
  next_id, buffers,    \* the device of both drivers
  pending, active_ids, \* the queue of the driver with the CommandQueue
  answer,              \* what the last call to that driver returned
  slots, head, len,    \* the queue of the driver with the StaticCommandQueue
  ring_answer,         \* what the last call to that driver returned
  given                \* history, as in GpuDriver: how many of the pending
                       \* submissions were in the queues given to new

deque == <<pending, active_ids>>
ring == <<slots, head, len>>
vars == <<state, next_id, buffers, deque, answer, ring, ring_answer, given>>

Validation == INSTANCE Submissions
Controller == INSTANCE DeviceController
Device == INSTANCE GpuDevice WITH Offsets <- {}
Deque == INSTANCE CommandQueue
           WITH Capacity <- QueueCapacity, Submission <- Validation!ValidatedSubmission
Ring == INSTANCE StaticCommandQueue
          WITH N <- QueueCapacity, Submission <- Validation!ValidatedSubmission,
               answer <- ring_answer

\* Neither queue can be made with the capacity zero.
ASSUME WidthAssumption ==
  /\ QueueCapacity \in Nat \ {0}
  /\ MaxId \in Nat /\ UsizeMax \in Nat /\ MaxCommand \in Nat
ASSUME ByteAssumption == Zero \in Byte
ASSUME InputAssumption ==
  /\ Images \subseteq [len : Nat, magic : BOOLEAN, major : 0 .. 255, minor : 0 .. 255]
  /\ Capacities \subseteq 0 .. UsizeMax
  /\ Lengths \subseteq 0 .. UsizeMax
  /\ RawCommands \subseteq Validation!RawCommand
ASSUME GivenAssumption ==
  \A q \in GivenQueues :
    /\ q \in Seq(Validation!ValidatedSubmission)
    /\ Len(q) <= QueueCapacity
    /\ \A i, j \in DOMAIN q : q[i].id = q[j].id => i = j
ASSUME EmptyAssumption == Empty \notin Validation!ValidatedSubmission

-----------------------------------------------------------------------------
\* A deque with the given submissions has their ids in its set.
GivenDeque ==
  /\ pending \in GivenQueues
  /\ Deque!ActiveIdsMatchPending

\* A ring with the same submissions, from whatever slot the calls before have
\* left its head at.
GivenRing ==
  /\ len = Len(pending)
  /\ head \in Ring!Slot
  /\ slots \in [Ring!Slot -> {pending[i] : i \in DOMAIN pending} \cup {Empty}]
  /\ Ring!WindowIsOccupied
  /\ Ring!Pending = pending

\* Both queues have the same capacity.
Init ==
  /\ Controller!Init
  /\ Device!Init
  /\ ring_answer = Ok
  /\ GivenDeque
  /\ GivenRing
  /\ given = Len(pending)

\* A call that never reaches the queue, or is over before it does.
QueueUntouched ==
  /\ ring_answer' = answer'
  /\ UNCHANGED <<deque, ring, given>>

LoadFirmware(image) ==
  /\ Controller!LoadFirmware(image)
  /\ UNCHANGED <<next_id, buffers>>
  /\ QueueUntouched

Start ==
  /\ Controller!Start
  /\ UNCHANGED <<next_id, buffers>>
  /\ QueueUntouched

NotReady ==
  /\ ~Controller!IsReady
  /\ Controller!EnsureReady
  /\ UNCHANGED <<next_id, buffers>>
  /\ QueueUntouched

AllocateBuffer(capacity) ==
  \/ NotReady
  \/ /\ Controller!IsReady
     /\ Device!AllocateBuffer(capacity)
     /\ UNCHANGED state
     /\ QueueUntouched

WriteBuffer(id, length, b) ==
  \/ NotReady
  \/ /\ Controller!IsReady
     /\ Device!WriteBuffer(id, length, b)
     /\ UNCHANGED state
     /\ QueueUntouched

\* The calls of the trait, on both backends.
Enqueue(s) == Deque!Enqueue(s) /\ Ring!Enqueue(s)
Dequeue == Deque!Dequeue /\ Ring!Dequeue
Peek == Deque!Peek /\ Ring!Peek
Observe == Deque!Observe /\ Ring!Observe

Submit(buffer_id, raw) ==
  LET verdict == Validation!SubmissionVerdict(buffers, buffer_id, raw)
  IN  \/ NotReady
      \/ /\ Controller!IsReady
         /\ verdict # "Valid"
         /\ answer' = Err(verdict)
         /\ UNCHANGED <<state, next_id, buffers>>
         /\ QueueUntouched
      \/ /\ Controller!IsReady
         /\ verdict = "Valid"
         /\ Enqueue(Validation!Submission(buffer_id, raw))
         /\ UNCHANGED <<state, next_id, buffers, given>>

\* The given submissions, which were there first, leave first.
GivenAfterTake == IF given > 0 THEN given - 1 ELSE 0

\* next_submission, peek_submission, and the three questions about the queue.
NextSubmission ==
  /\ Dequeue
  /\ given' = GivenAfterTake
  /\ UNCHANGED <<state, next_id, buffers>>

PeekSubmission == Peek /\ UNCHANGED <<state, next_id, buffers, given>>
ObserveQueue == Observe /\ UNCHANGED <<state, next_id, buffers, given>>

Next ==
  \/ \E image \in Images : LoadFirmware(image)
  \/ Start
  \/ \E c \in Capacities : AllocateBuffer(c)
  \/ \E id \in Device!BufferId :
       \/ \E n \in Lengths, b \in Byte : WriteBuffer(id, n, b)
       \/ \E raw \in RawCommands : Submit(id, raw)
  \/ NextSubmission
  \/ PeekSubmission
  \/ ObserveQueue

Spec == Init /\ [][Next]_vars

-----------------------------------------------------------------------------
(* Properties.                                                             *)

\* A caller cannot tell which backend a driver was built with, when the two
\* queues had the same submissions pending: both answer every call alike, and
\* hold the same submissions in the same order.
BackendsAgree ==
  /\ answer = ring_answer
  /\ pending = Ring!Pending

\* Each of the two is the driver GpuDriver describes: the contract that stands
\* there for the queue promises the driver nothing that a backend does not
\* keep.  The set of ids the deque looks a duplicate up in never differs from
\* the ids that are pending, and the ring holds the pending submissions
\* wherever head is, in the states a driver can be given or bring about.
DequeDriver == INSTANCE GpuDriver WITH queue <- pending
RingDriver == INSTANCE GpuDriver WITH queue <- Ring!Pending, answer <- ring_answer
BothImplementDriver == DequeDriver!Spec /\ RingDriver!Spec

=============================================================================
