-------------------------- MODULE SubmissionQueue --------------------------
(***************************************************************************)
(* The queue contract of the driver (trait SubmissionQueue of              *)
(* queue_backend.rs): a bounded FIFO of validated submissions in which no  *)
(* two pending submissions carry the same command id.  Both backends of    *)
(* the crate, CommandQueue and StaticCommandQueue, are shown to implement  *)
(* this module, and the drivers are built on it.                           *)
(*                                                                         *)
(* The trait itself fixes only the operations; what they promise is the    *)
(* behaviour the two implementations of src/ have in common, down to the   *)
(* order in which a duplicate and a full queue are reported.               *)
(***************************************************************************)
EXTENDS Naturals, Sequences, Answers

CONSTANTS
  Capacity,    \* how many submissions may be pending
  Submission   \* the validated submissions, records with a field id

VARIABLES
  queue,       \* the pending submissions, the oldest first
  answer       \* what the last call returned

vars == <<queue, answer>>

-----------------------------------------------------------------------------
QueuedIds == {queue[i].id : i \in DOMAIN queue}

Init ==
  /\ queue = << >>
  /\ answer = Ok

\* A duplicate is reported before a full queue, and neither changes the queue.
EnqueueDuplicate(s) ==
  /\ s.id \in QueuedIds
  /\ answer' = ErrFor("DuplicateCommandId", s.id)
  /\ UNCHANGED queue

\* Mutant: a full queue makes room by dropping its oldest submission.
FullDropsOldest(s) ==
  /\ s.id \notin QueuedIds
  /\ Len(queue) = Capacity
  /\ answer' = ErrFor("QueueFull", s.id)
  /\ queue' = Append(Tail(queue), s)

EnqueueFull(s) ==
  /\ s.id \notin QueuedIds
  /\ Len(queue) = Capacity
  /\ answer' = ErrFor("QueueFull", s.id)
  /\ UNCHANGED queue

EnqueueAccept(s) ==
  /\ s.id \notin QueuedIds
  /\ Len(queue) # Capacity
  /\ queue' = Append(queue, s)
  /\ answer' = Ok

Enqueue(s) == EnqueueDuplicate(s) \/ EnqueueFull(s) \/ EnqueueAccept(s)

Dequeue ==
  \/ /\ queue = << >>
     /\ answer' = None
     /\ UNCHANGED queue
  \/ /\ queue # << >>
     /\ answer' = Some(Head(queue))
     /\ queue' = Tail(queue)

\* peek, len, is_empty and is_full observe the queue and leave it alone.
Peek ==
  /\ answer' = IF queue = << >> THEN None ELSE Some(Head(queue))
  /\ UNCHANGED queue

Occupancy(n) == [len |-> n, is_empty |-> n = 0, is_full |-> n = Capacity]

Observe ==
  /\ answer' = [occupancy |-> Occupancy(Len(queue))]
  /\ UNCHANGED queue

Next ==
  \/ \E s \in Submission : Enqueue(s)
  \/ Dequeue
  \/ Peek
  \/ Observe

Spec == Init /\ [][Next]_vars

-----------------------------------------------------------------------------
(* What the contract promises.                                             *)

\* The queue holds at most Capacity submissions.
TypeOK ==
  /\ queue \in Seq(Submission)
  /\ Len(queue) <= Capacity

\* No two pending submissions have the same command id: a completion that
\* names an id names one submission.
UniqueIds ==
  \A i, j \in DOMAIN queue : queue[i].id = queue[j].id => i = j

=============================================================================
