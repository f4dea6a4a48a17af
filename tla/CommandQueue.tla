---------------------------- MODULE CommandQueue ----------------------------
(***************************************************************************)
(* The growable queue backend (queue.rs): a deque of pending submissions   *)
(* and, beside it, the set of the ids in the deque.  The set answers the   *)
(* duplicate check in constant time; the two are written by separate       *)
(* statements and have to agree after every call.                          *)
(***************************************************************************)
EXTENDS Naturals, Sequences, Answers

CONSTANTS
  Capacity,    \* the capacity given to CommandQueue::new
  Submission   \* the validated submissions, records with a field id

\* CommandQueue::new refuses the capacity zero.
ASSUME CapacityAssumption == Capacity \in Nat \ {0}

VARIABLES
  pending,     \* VecDeque<ValidatedSubmission>
  active_ids,  \* HashSet<CommandId>
  answer       \* what the last call returned

vars == <<pending, active_ids, answer>>

-----------------------------------------------------------------------------
Init ==
  /\ pending = << >>
  /\ active_ids = {}
  /\ answer = Ok

\* Mutant: the comparison lets one submission too many in.
IsFullLate == Len(pending) > Capacity

IsFull == Len(pending) = Capacity

\* Mutant: a full queue is reported before a duplicate.
ContainsUnlessFull(id) == id \in active_ids /\ Len(pending) # Capacity

ContainsCommand(id) == id \in active_ids

\* Mutant: dequeue forgets to give the id back.
IdsKept == active_ids

IdsAfterDequeue == active_ids \ {Head(pending).id}

Enqueue(s) ==
  \/ /\ ContainsCommand(s.id)
     /\ answer' = ErrFor("DuplicateCommandId", s.id)
     /\ UNCHANGED <<pending, active_ids>>
  \/ /\ ~ContainsCommand(s.id)
     /\ IsFull
     /\ answer' = ErrFor("QueueFull", s.id)
     /\ UNCHANGED <<pending, active_ids>>
  \/ /\ ~ContainsCommand(s.id)
     /\ ~IsFull
     /\ active_ids' = active_ids \cup {s.id}
     /\ pending' = Append(pending, s)
     /\ answer' = Ok

Dequeue ==
  \/ /\ pending = << >>
     /\ answer' = None
     /\ UNCHANGED <<pending, active_ids>>
  \/ /\ pending # << >>
     /\ answer' = Some(Head(pending))
     /\ pending' = Tail(pending)
     /\ active_ids' = IdsAfterDequeue

Peek ==
  /\ answer' = IF pending = << >> THEN None ELSE Some(Head(pending))
  /\ UNCHANGED <<pending, active_ids>>

\* len, is_empty and is_full.
Observe ==
  /\ answer' = [occupancy |-> [len |-> Len(pending),
                              is_empty |-> Len(pending) = 0,
                              is_full |-> IsFull]]
  /\ UNCHANGED <<pending, active_ids>>

Next ==
  \/ \E s \in Submission : Enqueue(s)
  \/ Dequeue
  \/ Peek
  \/ Observe

Spec == Init /\ [][Next]_vars

-----------------------------------------------------------------------------
(* Properties.                                                             *)

\* Type invariant of the two fields, with the capacity the constructor fixed.
TypeOK ==
  /\ pending \in Seq(Submission)
  /\ Len(pending) <= Capacity
  /\ active_ids \subseteq {s.id : s \in Submission}

\* active_ids holds the ids of the pending submissions and no other: an id
\* left behind by dequeue could never be submitted again, and an id missing
\* from the set would let a duplicate in.
ActiveIdsMatchPending ==
  active_ids = {pending[i].id : i \in DOMAIN pending}

\* No two pending submissions have the same command id.
UniqueIds ==
  \A i, j \in DOMAIN pending : pending[i].id = pending[j].id => i = j

\* The queue implements the contract of the SubmissionQueue trait, answers
\* included: the set of ids decides exactly as a search of the deque would.
Contract == INSTANCE SubmissionQueue WITH queue <- pending
ImplementsContract == Contract!Spec

=============================================================================
