------------------------- MODULE StaticCommandQueue -------------------------
(***************************************************************************)
(* The fixed-capacity queue backend (static_queue.rs): a ring of N slots,  *)
(* the index of the oldest submission and the number of pending ones.      *)
(***************************************************************************)
EXTENDS Integers, Sequences, Answers

CONSTANTS
  N,           \* the capacity, a const generic parameter of the type
  Submission,  \* the validated submissions, records with a field id
  Empty        \* the slot value None

\* StaticCommandQueue::new refuses the capacity zero.
ASSUME NAssumption == N \in Nat \ {0}
ASSUME EmptyAssumption == Empty \notin Submission

VARIABLES
  slots,       \* [Option<ValidatedSubmission>; N]
  head,        \* the slot of the oldest submission
  len,         \* how many submissions are pending
  answer       \* what the last call returned

vars == <<slots, head, len, answer>>

Slot == 0 .. N-1

-----------------------------------------------------------------------------
Init ==
  /\ slots = [i \in Slot |-> Empty]
  /\ head = 0
  /\ len = 0
  /\ answer = Ok

\* Mutant: the index stops at the last slot instead of going around.
TailIndexUnwrapped == IF head + len < N THEN head + len ELSE N - 1

\* The slot after the newest submission, computed without adding head to len.
TailIndex ==
  LET distance_to_end == N - head
  IN  IF len >= distance_to_end THEN len - distance_to_end ELSE head + len

\* Mutant: the comparison lets one submission too many in.
IsFullLate == len > N

IsFull == len = N

\* Mutant: only the oldest submission is looked at.
IsDuplicateOfHead(s) == slots[head] # Empty /\ slots[head].id = s.id

\* The duplicate check scans every slot of the array, not only the live ones.
IsDuplicate(s) == \E i \in Slot : slots[i] # Empty /\ slots[i].id = s.id

Enqueue(s) ==
  \/ /\ IsDuplicate(s)
     /\ answer' = ErrFor("DuplicateCommandId", s.id)
     /\ UNCHANGED <<slots, head, len>>
  \/ /\ ~IsDuplicate(s)
     /\ IsFull
     /\ answer' = ErrFor("QueueFull", s.id)
     /\ UNCHANGED <<slots, head, len>>
  \/ /\ ~IsDuplicate(s)
     /\ ~IsFull
     /\ slots' = [slots EXCEPT ![TailIndex] = s]
     /\ len' = len + 1
     /\ answer' = Ok
     /\ UNCHANGED head

\* Mutant: head does not follow the submission that left.
HeadKept == head

NextHead == (head + 1) % N

\* The ? on an empty head slot returns None early, before head and len move.
Dequeue ==
  IF len = 0 \/ slots[head] = Empty
  THEN /\ answer' = None
       /\ UNCHANGED <<slots, head, len>>
  ELSE /\ answer' = Some(slots[head])
       /\ slots' = [slots EXCEPT ![head] = Empty]
       /\ head' = NextHead
       /\ len' = len - 1

Peek ==
  /\ answer' = IF len = 0 \/ slots[head] = Empty THEN None ELSE Some(slots[head])
  /\ UNCHANGED <<slots, head, len>>

\* len, is_empty and is_full.
Observe ==
  /\ answer' = [occupancy |-> [len |-> len, is_empty |-> len = 0, is_full |-> IsFull]]
  /\ UNCHANGED <<slots, head, len>>

Next ==
  \/ \E s \in Submission : Enqueue(s)
  \/ Dequeue
  \/ Peek
  \/ Observe

Spec == Init /\ [][Next]_vars

\* The caller is outside the queue: that it keeps calling dequeue is assumed,
\* that a call ends with a submission when one is pending is not.
FairSpec == Spec /\ WF_vars(Dequeue)

-----------------------------------------------------------------------------
(* Properties.                                                             *)

\* Type invariant: head always names a slot and len never exceeds N.
TypeOK ==
  /\ slots \in [Slot -> Submission \cup {Empty}]
  /\ head \in Slot
  /\ len \in 0 .. N

\* The slot k places after head, going around the end of the array.
SlotAt(k) == IF head + k < N THEN head + k ELSE head + k - N

Live == {SlotAt(k) : k \in 0 .. len-1}

\* The occupied slots are exactly the len slots from head on: no submission
\* is left outside the window (it would count as a duplicate for ever), and
\* no slot of the window is empty (dequeue would return None for ever).
WindowIsOccupied ==
  \A i \in Slot : slots[i] # Empty <=> i \in Live

\* No two occupied slots have the same command id.
UniqueIds ==
  \A i, j \in Slot :
    slots[i] # Empty /\ slots[j] # Empty /\ slots[i].id = slots[j].id => i = j

\* The pending submissions, the oldest first, as the ring represents them.
Pending == [k \in 1 .. len |-> slots[SlotAt(k-1)]]

\* The ring implements the contract of the SubmissionQueue trait, answers
\* included: first in, first out through every wrap of head and tail.
Contract == INSTANCE SubmissionQueue WITH queue <- Pending, Capacity <- N
ImplementsContract == Contract!Spec

\* A caller that keeps taking submissions gets every one: none is stuck in a
\* slot the head never reaches, or behind an empty slot at which dequeue gives
\* up, and none is passed over for ever by later ones.
PendingIsServed ==
  \A s \in Submission :
    (\E k \in 1 .. len : Pending[k] = s) ~> ~(\E k \in 1 .. len : Pending[k] = s)

=============================================================================
