------------------------ MODULE CommandQueue_proofs ------------------------
(***************************************************************************)
(* Proofs about CommandQueue, for every capacity and every set of          *)
(* submissions: the inductive invariant that ties active_ids to the deque, *)
(* and the refinement of the SubmissionQueue contract that rests on it.    *)
(***************************************************************************)
EXTENDS CommandQueue, SequenceTheorems, TLAPS

\* The inductive invariant: neither the id set nor the uniqueness of the ids
\* survives a dequeue without the other.  Removing the id of the head from
\* active_ids is right only because no other pending submission carries it.
IInv == TypeOK /\ ActiveIdsMatchPending /\ UniqueIds

-----------------------------------------------------------------------------
\* Appending a submission adds its id to the ids of a sequence.
LEMMA AppendIds ==
  ASSUME NEW S, NEW q \in Seq(S), NEW s \in S
  PROVE  {Append(q, s)[i].id : i \in DOMAIN Append(q, s)}
           = {q[i].id : i \in DOMAIN q} \cup {s.id}
<1> DEFINE r == Append(q, s)
<1>1. /\ r \in Seq(S)
      /\ Len(r) = Len(q) + 1
      /\ \A i \in 1 .. Len(q) : r[i] = q[i]
      /\ r[Len(q) + 1] = s
  BY AppendProperties
<1>2. DOMAIN r = 1 .. Len(q) + 1 /\ DOMAIN q = 1 .. Len(q) /\ Len(q) \in Nat
  BY <1>1, LenProperties
<1> HIDE DEF r
<1>3. \A i \in DOMAIN r : i \in DOMAIN q \/ i = Len(q) + 1
  BY <1>2
<1>4. DOMAIN q \subseteq DOMAIN r /\ Len(q) + 1 \in DOMAIN r
  BY <1>2
<1>5. {r[i].id : i \in DOMAIN r} = {q[i].id : i \in DOMAIN q} \cup {s.id}
  BY <1>1, <1>2, <1>3, <1>4
<1> QED
  BY <1>5 DEF r

\* Taking the head of a sequence with distinct ids removes its id, and no
\* other, from the ids of the sequence.
LEMMA TailIds ==
  ASSUME NEW S, NEW q \in Seq(S), q # << >>,
         \A i, j \in DOMAIN q : q[i].id = q[j].id => i = j
  PROVE  {Tail(q)[i].id : i \in DOMAIN Tail(q)}
           = {q[i].id : i \in DOMAIN q} \ {Head(q).id}
<1> DEFINE r == Tail(q)
<1>1. /\ r \in Seq(S)
      /\ Len(r) = Len(q) - 1
      /\ \A i \in 1 .. Len(r) : r[i] = q[i+1]
  BY HeadTailProperties
<1>2. /\ DOMAIN r = 1 .. Len(q) - 1
      /\ DOMAIN q = 1 .. Len(q)
      /\ Len(q) \in Nat \ {0}
  BY <1>1, LenProperties, EmptySeq
<1>3. Head(q) = q[1]
  OBVIOUS
<1> HIDE DEF r
<1>4. ASSUME NEW i \in DOMAIN r
      PROVE  i+1 \in DOMAIN q /\ i+1 # 1 /\ r[i].id = q[i+1].id
  BY <1>1, <1>2
<1>5. ASSUME NEW j \in DOMAIN q, q[j].id # q[1].id
      PROVE  j-1 \in DOMAIN r /\ r[j-1].id = q[j].id
  <2>1. j # 1
    BY <1>5
  <2>2. j-1 \in 1 .. Len(q)-1 /\ (j-1)+1 = j
    BY <2>1, <1>2
  <2> QED
    BY <2>2, <1>1, <1>2
<1>6. 1 \in DOMAIN q
  BY <1>2
<1>7. {r[i].id : i \in DOMAIN r} \subseteq {q[i].id : i \in DOMAIN q} \ {q[1].id}
  BY <1>4, <1>6
<1>8. {q[i].id : i \in DOMAIN q} \ {q[1].id} \subseteq {r[i].id : i \in DOMAIN r}
  <2> SUFFICES ASSUME NEW j \in DOMAIN q, q[j].id # q[1].id
               PROVE  \E i \in DOMAIN r : r[i].id = q[j].id
    OBVIOUS
  <2> QED
    BY <1>5
<1> QED
  BY <1>3, <1>7, <1>8 DEF r

-----------------------------------------------------------------------------
\* The initial queue satisfies the invariant.
LEMMA InitIInv == Init => IInv
<1> SUFFICES ASSUME Init PROVE IInv
  OBVIOUS
<1>1. pending = << >> /\ active_ids = {} /\ DOMAIN pending = {}
  BY DEF Init
<1>2. TypeOK
  BY <1>1, EmptySeq, CapacityAssumption DEF TypeOK
<1> QED
  BY <1>1, <1>2 DEF IInv, ActiveIdsMatchPending, UniqueIds

\* An accepted enqueue keeps the invariant.
LEMMA EnqueueIInv ==
  ASSUME IInv, NEW s \in Submission, Enqueue(s)
  PROVE  IInv'
<1>1. CASE UNCHANGED <<pending, active_ids>>
  BY <1>1 DEF IInv, TypeOK, ActiveIdsMatchPending, UniqueIds
<1>2. CASE /\ ~ContainsCommand(s.id)
           /\ ~IsFull
           /\ active_ids' = active_ids \cup {s.id}
           /\ pending' = Append(pending, s)
  <2>1. pending \in Seq(Submission) /\ Len(pending) \in Nat
    BY LenProperties DEF IInv, TypeOK
  <2>2. /\ pending' \in Seq(Submission)
        /\ Len(pending') = Len(pending) + 1
        /\ \A i \in 1 .. Len(pending) : pending'[i] = pending[i]
        /\ pending'[Len(pending) + 1] = s
    BY <1>2, <2>1, AppendProperties
  <2>3. DOMAIN pending = 1 .. Len(pending) /\ DOMAIN pending' = 1 .. Len(pending) + 1
    BY <2>1, <2>2, LenProperties
  <2>4. TypeOK'
    <3>1. Len(pending') <= Capacity
      BY <1>2, <2>1, <2>2, CapacityAssumption DEF IInv, TypeOK, IsFull
    <3>2. active_ids' \subseteq {x.id : x \in Submission}
      BY <1>2 DEF IInv, TypeOK
    <3> QED
      BY <2>2, <3>1, <3>2 DEF TypeOK
  <2>5. ActiveIdsMatchPending'
    BY <1>2, <2>1, AppendIds DEF IInv, ActiveIdsMatchPending
  <2>6. UniqueIds'
    <3>1. \A i \in DOMAIN pending : pending[i].id # s.id
      BY <1>2 DEF IInv, ActiveIdsMatchPending, ContainsCommand
    <3> SUFFICES ASSUME NEW i \in DOMAIN pending', NEW j \in DOMAIN pending',
                        pending'[i].id = pending'[j].id
                 PROVE  i = j
      BY DEF UniqueIds
    <3>2. /\ i \in DOMAIN pending \/ i = Len(pending) + 1
          /\ j \in DOMAIN pending \/ j = Len(pending) + 1
      BY <2>1, <2>3
    <3> QED
      BY <2>2, <2>3, <3>1, <3>2 DEF IInv, UniqueIds
  <2> QED
    BY <2>4, <2>5, <2>6 DEF IInv
<1> QED
  BY <1>1, <1>2 DEF Enqueue

\* Dequeue keeps the invariant.
LEMMA DequeueIInv ==
  ASSUME IInv, Dequeue
  PROVE  IInv'
<1>1. CASE UNCHANGED <<pending, active_ids>>
  BY <1>1 DEF IInv, TypeOK, ActiveIdsMatchPending, UniqueIds
<1>2. CASE /\ pending # << >>
           /\ pending' = Tail(pending)
           /\ active_ids' = active_ids \ {Head(pending).id}
  <2>1. pending \in Seq(Submission) /\ Len(pending) \in Nat \ {0}
    BY <1>2, EmptySeq DEF IInv, TypeOK
  <2>2. /\ pending' \in Seq(Submission)
        /\ Len(pending') = Len(pending) - 1
        /\ \A i \in 1 .. Len(pending') : pending'[i] = pending[i+1]
    BY <1>2, <2>1, HeadTailProperties
  <2>3. DOMAIN pending = 1 .. Len(pending) /\ DOMAIN pending' = 1 .. Len(pending) - 1
    BY <2>1, <2>2, LenProperties
  <2>4. TypeOK'
    BY <1>2, <2>1, <2>2, CapacityAssumption DEF IInv, TypeOK
  <2>5. ActiveIdsMatchPending'
    BY <1>2, <2>1, TailIds DEF IInv, ActiveIdsMatchPending, UniqueIds
  <2>6. UniqueIds'
    <3> SUFFICES ASSUME NEW i \in DOMAIN pending', NEW j \in DOMAIN pending',
                        pending'[i].id = pending'[j].id
                 PROVE  i = j
      BY DEF UniqueIds
    <3>1. /\ i+1 \in DOMAIN pending /\ pending'[i] = pending[i+1]
          /\ j+1 \in DOMAIN pending /\ pending'[j] = pending[j+1]
      BY <2>1, <2>2, <2>3
    <3>2. i+1 = j+1
      BY <3>1 DEF IInv, UniqueIds
    <3> QED
      BY <3>2, <2>1, <2>3
  <2> QED
    BY <2>4, <2>5, <2>6 DEF IInv
<1> QED
  BY <1>1, <1>2 DEF Dequeue, IdsAfterDequeue

\* The invariant is inductive.
LEMMA NextIInv == IInv /\ [Next]_vars => IInv'
<1> SUFFICES ASSUME IInv, [Next]_vars PROVE IInv'
  OBVIOUS
<1>1. CASE \E s \in Submission : Enqueue(s)
  BY <1>1, EnqueueIInv
<1>2. CASE Dequeue
  BY <1>2, DequeueIInv
<1>3. CASE Peek \/ Observe \/ UNCHANGED vars
  BY <1>3 DEF Peek, Observe, vars, IInv, TypeOK, ActiveIdsMatchPending, UniqueIds
<1> QED
  BY <1>1, <1>2, <1>3 DEF Next

\* The type invariant, the agreement of active_ids with the deque and the
\* uniqueness of the pending ids hold in every state of every queue.
THEOREM Invariance == Spec => [](TypeOK /\ ActiveIdsMatchPending /\ UniqueIds)
<1>1. Spec => []IInv
  BY InitIInv, NextIInv, PTL DEF Spec
<1> QED
  BY <1>1, PTL DEF IInv

\* The deque never holds more than the capacity it was made with.
THEOREM TypeCorrect == Spec => []TypeOK
BY Invariance, PTL

-----------------------------------------------------------------------------
(* In a state that satisfies the invariant every call is a call of the     *)
(* contract.                                                               *)

\* The id set answers the duplicate check as a search would.
LEMMA EnqueueSimulation ==
  ASSUME IInv, NEW s \in Submission, Enqueue(s)
  PROVE  Contract!Enqueue(s)
<1>1. ContainsCommand(s.id) <=> s.id \in Contract!QueuedIds
  BY DEF IInv, ActiveIdsMatchPending, ContainsCommand, Contract!QueuedIds
<1> QED
  BY <1>1 DEF Enqueue, IsFull, Contract!Enqueue, Contract!EnqueueDuplicate,
              Contract!EnqueueFull, Contract!EnqueueAccept,
              Ok, ErrFor, Contract!Ok, Contract!ErrFor

\* A call that takes, shows or counts submissions.
LEMMA OtherSimulation ==
  /\ Dequeue => Contract!Dequeue
  /\ Peek => Contract!Peek
  /\ Observe => Contract!Observe
<1>1. Dequeue => Contract!Dequeue
  BY DEF Dequeue, Contract!Dequeue, Some, None, Contract!Some, Contract!None
<1>2. Peek => Contract!Peek
  BY DEF Peek, Contract!Peek, Some, None, Contract!Some, Contract!None
<1>3. Observe => Contract!Observe
  BY DEF Observe, IsFull, Contract!Observe, Contract!Occupancy
<1> QED
  BY <1>1, <1>2, <1>3

\* Every step is a step of the contract.
LEMMA StepSimulation == IInv /\ [Next]_vars => [Contract!Next]_(Contract!vars)
<1> SUFFICES ASSUME IInv, [Next]_vars PROVE [Contract!Next]_(Contract!vars)
  OBVIOUS
<1>1. CASE \E s \in Submission : Enqueue(s)
  BY <1>1, EnqueueSimulation DEF Contract!Next
<1>2. CASE Dequeue \/ Peek \/ Observe
  BY <1>2, OtherSimulation DEF Contract!Next
<1>3. CASE UNCHANGED vars
  BY <1>3 DEF vars, Contract!vars
<1> QED
  BY <1>1, <1>2, <1>3 DEF Next

\* CommandQueue implements the contract of the SubmissionQueue trait.
THEOREM Refinement == Spec => ImplementsContract
<1>1. Init => Contract!Init
  BY DEF Init, Contract!Init, Ok, Contract!Ok
<1>2. Spec => []IInv
  BY InitIInv, NextIInv, PTL DEF Spec
<1> QED
  BY <1>1, <1>2, StepSimulation, PTL DEF Spec, ImplementsContract, Contract!Spec

=============================================================================
