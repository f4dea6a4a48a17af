--------------------- MODULE StaticCommandQueue_proofs ---------------------
(***************************************************************************)
(* Proofs about StaticCommandQueue, for every N and every set of           *)
(* submissions: the occupied slots are the window of len slots from head   *)
(* on, and the ring implements the SubmissionQueue contract.               *)
(***************************************************************************)
EXTENDS StaticCommandQueue, SequenceTheorems, TLAPS

\* The inductive invariant.  The window alone is not inductive for the ids:
\* the duplicate check scans every slot, so it decides about the pending
\* submissions only because the slots outside the window are empty.
IInv == TypeOK /\ WindowIsOccupied /\ UniqueIds

-----------------------------------------------------------------------------
(* Arithmetic of the ring.                                                 *)

\* Moving head by one slot, as the remainder computes it.
LEMMA HeadStep ==
  ASSUME head \in Slot
  PROVE  (head + 1) % N = IF head + 1 = N THEN 0 ELSE head + 1
<1>1. CASE head + 1 = N
  BY <1>1, NAssumption DEF Slot
<1>2. CASE head + 1 # N
  BY <1>2, NAssumption DEF Slot
<1> QED
  BY <1>1, <1>2

\* Distinct places of the window are distinct slots.
LEMMA SlotAtInjective ==
  ASSUME head \in Slot, NEW j \in 0 .. N-1, NEW k \in 0 .. N-1
  PROVE  SlotAt(j) \in Slot /\ (SlotAt(j) = SlotAt(k) => j = k)
BY NAssumption DEF Slot, SlotAt

\* The slot enqueue fills is the one after the window, when there is one.
LEMMA TailIsSlotAtLen ==
  ASSUME TypeOK, len # N
  PROVE  /\ TailIndex = SlotAt(len)
         /\ TailIndex \in Slot
         /\ TailIndex \notin Live
<1>1. TailIndex = SlotAt(len)
  BY NAssumption DEF TypeOK, Slot, TailIndex, SlotAt
<1>2. len \in 0 .. N-1 /\ head \in Slot
  BY NAssumption DEF TypeOK
<1>3. ASSUME NEW k \in 0 .. len-1
      PROVE  SlotAt(k) # SlotAt(len)
  <2>1. k \in 0 .. N-1 /\ k # len
    BY <1>2, NAssumption
  <2> QED
    BY <2>1, <1>2, SlotAtInjective
<1> QED
  BY <1>1, <1>2, <1>3, SlotAtInjective DEF Live

-----------------------------------------------------------------------------
\* The empty ring satisfies the invariant.
LEMMA InitIInv == Init => IInv
<1> SUFFICES ASSUME Init PROVE IInv
  OBVIOUS
<1>1. TypeOK
  BY NAssumption DEF Init, TypeOK, Slot
<1>2. Live = {}
  BY DEF Init, Live
<1> QED
  BY <1>1, <1>2 DEF Init, IInv, WindowIsOccupied, UniqueIds

\* An accepted enqueue fills the slot after the window and keeps the invariant.
LEMMA AcceptIInv ==
  ASSUME IInv, NEW s \in Submission, ~IsDuplicate(s), ~IsFull,
         slots' = [slots EXCEPT ![TailIndex] = s],
         len' = len + 1, head' = head
  PROVE  IInv'
<1>1. TypeOK /\ len # N /\ len \in 0 .. N-1 /\ head \in Slot
  BY NAssumption DEF IInv, TypeOK, IsFull
<1>2. /\ TailIndex = SlotAt(len)
      /\ TailIndex \in Slot
      /\ TailIndex \notin Live
  BY <1>1, TailIsSlotAtLen
<1>3. \A i \in Slot : slots'[i] = IF i = TailIndex THEN s ELSE slots[i]
  BY <1>1, <1>2 DEF TypeOK
<1>4. TypeOK'
  BY <1>1, <1>2, NAssumption DEF TypeOK, Slot
<1>5. Live' = Live \cup {TailIndex}
  <2>1. \A k : SlotAt(k)' = SlotAt(k)
    BY DEF SlotAt
  <2>2. 0 .. len'-1 = (0 .. len-1) \cup {len}
    BY <1>1, NAssumption
  <2> QED
    BY <1>2, <2>1, <2>2 DEF Live
<1>6. s # Empty
  BY EmptyAssumption
<1>7. WindowIsOccupied'
  BY <1>2, <1>3, <1>5, <1>6 DEF IInv, WindowIsOccupied, Slot
<1>8. UniqueIds'
  BY <1>2, <1>3 DEF IInv, UniqueIds, IsDuplicate, Slot
<1> QED
  BY <1>4, <1>7, <1>8 DEF IInv

\* A dequeue empties the slot of head, moves head, and keeps the invariant.
LEMMA RemoveIInv ==
  ASSUME IInv, len # 0,
         slots' = [slots EXCEPT ![head] = Empty],
         head' = (head + 1) % N,
         len' = len - 1
  PROVE  /\ IInv'
         /\ \A k \in 0 .. len-2 : SlotAt(k)' = SlotAt(k+1)
         /\ head = SlotAt(0)
<1>1. TypeOK /\ len \in 1 .. N /\ head \in Slot
  BY NAssumption DEF IInv, TypeOK
<1>2. head' = IF head + 1 = N THEN 0 ELSE head + 1
  BY <1>1, HeadStep
<1>3. \A k \in 0 .. len-2 : SlotAt(k)' = SlotAt(k+1)
  BY <1>1, <1>2, NAssumption DEF SlotAt, Slot
<1>4. head = SlotAt(0)
  BY <1>1, NAssumption DEF SlotAt, Slot
<1>5. \A i \in Slot : slots'[i] = IF i = head THEN Empty ELSE slots[i]
  BY <1>1 DEF TypeOK
<1>6. TypeOK'
  BY <1>1, <1>2, NAssumption DEF TypeOK, Slot
<1>7. Live' = Live \ {head}
  <2>1. ASSUME NEW k \in 1 .. len-1 PROVE SlotAt(k) # head
    <3>1. k \in 0 .. N-1 /\ 0 \in 0 .. N-1 /\ k # 0
      BY <1>1, NAssumption
    <3> QED
      BY <3>1, <1>1, <1>4, SlotAtInjective
  <2>2. Live' = {SlotAt(k+1) : k \in 0 .. len-2}
    <3>1. len'-1 = len-2
      BY <1>1, NAssumption
    <3> QED
      BY <3>1, <1>3 DEF Live
  <2>3. {SlotAt(k+1) : k \in 0 .. len-2} = {SlotAt(k) : k \in 1 .. len-1}
    <3>1. ASSUME NEW k \in 0 .. len-2 PROVE k+1 \in 1 .. len-1
      BY <1>1, NAssumption
    <3>2. ASSUME NEW k \in 1 .. len-1 PROVE k-1 \in 0 .. len-2 /\ SlotAt(k) = SlotAt((k-1)+1)
      <4>1. (k-1)+1 = k /\ k-1 \in 0 .. len-2
        BY <1>1, NAssumption
      <4> QED
        BY <4>1
    <3> QED
      BY <3>1, <3>2
  <2>4. Live \ {head} = {SlotAt(k) : k \in 1 .. len-1}
    <3>1. ASSUME NEW k \in 0 .. len-1 PROVE k = 0 \/ k \in 1 .. len-1
      BY <1>1, NAssumption
    <3>2. \A k \in 1 .. len-1 : k \in 0 .. len-1
      BY <1>1, NAssumption
    <3> QED
      BY <3>1, <3>2, <2>1, <1>4 DEF Live
  <2> QED
    BY <2>2, <2>3, <2>4
<1>8. WindowIsOccupied'
  BY <1>5, <1>7 DEF IInv, WindowIsOccupied, Slot
<1>9. UniqueIds'
  BY <1>5 DEF IInv, UniqueIds, Slot
<1> QED
  BY <1>3, <1>4, <1>6, <1>8, <1>9 DEF IInv

\* The slot of head is occupied whenever something is pending: the early
\* return of dequeue on an empty head slot is never taken.
LEMMA HeadOccupied ==
  ASSUME IInv, len # 0
  PROVE  slots[head] # Empty
<1>1. len \in 1 .. N /\ head \in Slot /\ 0 \in 0 .. len-1
  BY NAssumption DEF IInv, TypeOK
<1>2. head = SlotAt(0)
  BY <1>1, NAssumption DEF SlotAt, Slot
<1> QED
  BY <1>1, <1>2 DEF IInv, WindowIsOccupied, Live

\* Every call keeps the invariant.
LEMMA NextIInv == IInv /\ [Next]_vars => IInv'
<1> SUFFICES ASSUME IInv, [Next]_vars PROVE IInv'
  OBVIOUS
<1>1. CASE UNCHANGED <<slots, head, len>>
  BY <1>1 DEF IInv, TypeOK, WindowIsOccupied, UniqueIds, Live, SlotAt
<1>2. ASSUME NEW s \in Submission, Enqueue(s)
      PROVE  IInv'
  BY <1>1, <1>2, AcceptIInv DEF Enqueue
<1>3. CASE Dequeue
  BY <1>1, <1>3, RemoveIInv DEF Dequeue, NextHead
<1>4. CASE Peek \/ Observe \/ UNCHANGED vars
  BY <1>1, <1>4 DEF Peek, Observe, vars
<1> QED
  BY <1>2, <1>3, <1>4 DEF Next

\* The occupied slots are the window of len slots from head on, no two of
\* them share an id, and head and len stay in their ranges, for every N.
THEOREM Invariance == Spec => [](TypeOK /\ WindowIsOccupied /\ UniqueIds)
<1>1. Spec => []IInv
  BY InitIInv, NextIInv, PTL DEF Spec
<1> QED
  BY <1>1, PTL DEF IInv

\* head always names a slot of the array, and len never exceeds N.
THEOREM TypeCorrect == Spec => []TypeOK
BY Invariance, PTL

-----------------------------------------------------------------------------
\* The ring, read from head, is a sequence of len submissions.
ReadsAsSequence ==
  /\ Pending \in Seq(Submission)
  /\ Len(Pending) = len
  /\ DOMAIN Pending = 1 .. len
  /\ \A k \in 1 .. len : Pending[k] = slots[SlotAt(k-1)]

\* The pending submissions are a sequence whatever head is.
LEMMA PendingIsSeq == IInv => ReadsAsSequence
<1> SUFFICES ASSUME IInv PROVE ReadsAsSequence
  OBVIOUS
<1>1. len \in Nat /\ len \in 0 .. N /\ head \in Slot
  BY NAssumption DEF IInv, TypeOK
<1>2. ASSUME NEW k \in 1 .. len
      PROVE  slots[SlotAt(k-1)] \in Submission
  <2>1. k-1 \in 0 .. len-1 /\ k-1 \in 0 .. N-1
    BY <1>1, NAssumption
  <2>2. SlotAt(k-1) \in Slot /\ SlotAt(k-1) \in Live
    BY <2>1, <1>1, SlotAtInjective DEF Live
  <2> QED
    BY <2>2 DEF IInv, TypeOK, WindowIsOccupied
<1>3. Pending \in [1 .. len -> Submission]
  BY <1>2 DEF Pending
<1>4. Pending \in Seq(Submission) /\ Len(Pending) = len
  BY <1>1, <1>3
<1> QED
  BY <1>3, <1>4 DEF Pending, ReadsAsSequence

\* The scan of all slots finds a duplicate exactly when a pending submission
\* has the id.
LEMMA DuplicateIsQueued ==
  ASSUME IInv, NEW s
  PROVE  IsDuplicate(s) <=> s.id \in Contract!QueuedIds
<1>1. Contract!QueuedIds = {Pending[k].id : k \in 1 .. len}
  BY PendingIsSeq DEF ReadsAsSequence, Contract!QueuedIds
<1>2. len \in 0 .. N /\ N \in Nat
  BY NAssumption DEF IInv, TypeOK
<1>3. ASSUME NEW i \in Slot, slots[i] # Empty
      PROVE  \E k \in 1 .. len : Pending[k] = slots[i]
  <2>1. PICK k \in 0 .. len-1 : i = SlotAt(k)
    BY <1>3 DEF IInv, WindowIsOccupied, Live
  <2>2. k+1 \in 1 .. len /\ (k+1)-1 = k
    BY <1>2
  <2> QED
    BY <2>1, <2>2, PendingIsSeq DEF ReadsAsSequence
<1>4. ASSUME NEW k \in 1 .. len
      PROVE  \E i \in Slot : slots[i] # Empty /\ Pending[k] = slots[i]
  <2>1. k-1 \in 0 .. len-1 /\ k-1 \in 0 .. N-1
    BY <1>2
  <2>2. SlotAt(k-1) \in Slot /\ SlotAt(k-1) \in Live
    BY <2>1, SlotAtInjective DEF Live, IInv, TypeOK
  <2> QED
    BY <2>2, PendingIsSeq DEF IInv, WindowIsOccupied, ReadsAsSequence
<1> QED
  BY <1>1, <1>3, <1>4 DEF IsDuplicate

\* An accepted enqueue appends to the pending submissions.
LEMMA AcceptAppends ==
  ASSUME IInv, NEW s \in Submission, ~IsDuplicate(s), ~IsFull,
         slots' = [slots EXCEPT ![TailIndex] = s],
         len' = len + 1, head' = head
  PROVE  Pending' = Append(Pending, s)
<1>1. IInv'
  BY AcceptIInv
<1>2. len \in Nat /\ len # N /\ len \in 0 .. N-1 /\ head \in Slot
  BY NAssumption DEF IInv, TypeOK, IsFull
<1>3. ReadsAsSequence /\ ReadsAsSequence'
  BY <1>1, PendingIsSeq, PTL
<1>4. \A k : SlotAt(k)' = SlotAt(k)
  BY DEF SlotAt
<1>5. TailIndex = SlotAt(len) /\ TailIndex \in Slot
  BY <1>2, TailIsSlotAtLen DEF IInv
<1>6. \A i \in Slot : slots'[i] = IF i = TailIndex THEN s ELSE slots[i]
  BY <1>5 DEF IInv, TypeOK
<1>7. ASSUME NEW k \in 1 .. len
      PROVE  Pending'[k] = Pending[k]
  <2>1. k-1 \in 0 .. N-1 /\ k-1 # len /\ len \in 0 .. N-1 /\ k \in 1 .. len+1
    BY <1>2, NAssumption
  <2>2. SlotAt(k-1) \in Slot /\ SlotAt(k-1) # TailIndex
    BY <2>1, <1>2, <1>5, SlotAtInjective
  <2> QED
    BY <2>1, <2>2, <1>3, <1>4, <1>6 DEF ReadsAsSequence
<1>8. Pending'[len+1] = s
  <2>1. len+1 \in 1 .. len+1 /\ (len+1)-1 = len
    BY <1>2
  <2> QED
    BY <2>1, <1>3, <1>4, <1>5, <1>6 DEF ReadsAsSequence
<1>9. /\ Append(Pending, s) \in Seq(Submission)
      /\ Len(Append(Pending, s)) = len + 1
      /\ \A k \in 1 .. len : Append(Pending, s)[k] = Pending[k]
      /\ Append(Pending, s)[len+1] = s
  BY <1>3, AppendProperties DEF ReadsAsSequence
<1>10. \A k \in 1 .. len+1 : Pending'[k] = Append(Pending, s)[k]
  <2>1. \A k \in 1 .. len+1 : k \in 1 .. len \/ k = len+1
    BY <1>2
  <2> QED
    BY <2>1, <1>7, <1>8, <1>9
<1> QED
  BY <1>3, <1>9, <1>10, SeqEqual DEF ReadsAsSequence

\* A dequeue returns the head of the pending submissions and leaves the tail.
LEMMA RemoveTakesHead ==
  ASSUME IInv, len # 0,
         slots' = [slots EXCEPT ![head] = Empty],
         head' = (head + 1) % N,
         len' = len - 1
  PROVE  /\ Pending # << >>
         /\ slots[head] = Head(Pending)
         /\ Pending' = Tail(Pending)
<1>1. /\ IInv'
      /\ \A k \in 0 .. len-2 : SlotAt(k)' = SlotAt(k+1)
      /\ head = SlotAt(0)
  BY RemoveIInv
<1>2. len \in 1 .. N /\ len \in Nat /\ head \in Slot
  BY NAssumption DEF IInv, TypeOK
<1>3. ReadsAsSequence /\ ReadsAsSequence'
  BY <1>1, PendingIsSeq, PTL
<1>4. Pending # << >> /\ Pending[1] = slots[head] /\ Head(Pending) = Pending[1]
  <2>1. 1 \in 1 .. len /\ 1-1 = 0
    BY <1>2
  <2>2. Pending[1] = slots[head]
    BY <2>1, <1>1, <1>3 DEF ReadsAsSequence
  <2>3. Pending # << >>
    BY <1>2, <1>3, EmptySeq DEF ReadsAsSequence
  <2> QED
    BY <2>2, <2>3, <1>3 DEF ReadsAsSequence
<1>5. \A i \in Slot : i # head => slots'[i] = slots[i]
  BY DEF IInv, TypeOK
<1>6. ASSUME NEW k \in 1 .. len-1
      PROVE  Pending'[k] = Pending[k+1]
  <2>1. /\ k \in 1 .. len' /\ k+1 \in 1 .. len
        /\ k-1 \in 0 .. len-2 /\ (k-1)+1 = k /\ (k+1)-1 = k
        /\ k \in 0 .. N-1 /\ 0 \in 0 .. N-1 /\ k # 0
    BY <1>2, NAssumption
  <2>2. SlotAt(k) \in Slot /\ SlotAt(k) # head
    BY <2>1, <1>1, <1>2, SlotAtInjective
  <2>3. Pending'[k] = slots'[SlotAt(k)]
    BY <2>1, <1>1, <1>3 DEF ReadsAsSequence
  <2>4. Pending[k+1] = slots[SlotAt(k)]
    BY <2>1, <1>3 DEF ReadsAsSequence
  <2> QED
    BY <2>2, <2>3, <2>4, <1>5
<1>7. /\ Tail(Pending) \in Seq(Submission)
      /\ Len(Tail(Pending)) = len-1
      /\ \A k \in 1 .. len-1 : Tail(Pending)[k] = Pending[k+1]
  BY <1>3, <1>4, HeadTailProperties DEF ReadsAsSequence
<1> QED
  BY <1>3, <1>4, <1>6, <1>7, SeqEqual DEF ReadsAsSequence

-----------------------------------------------------------------------------
(* In a state that satisfies the invariant every call of the ring is a     *)
(* call of the contract.                                                   *)

\* The ring reads alike as long as no field of it changes.
LEMMA SameFieldsSamePending ==
  ASSUME IInv, UNCHANGED <<slots, head, len>>
  PROVE  IInv' /\ UNCHANGED Pending
BY DEF IInv, TypeOK, WindowIsOccupied, UniqueIds, Live, SlotAt, Pending

\* What the first slot of the window says of the pending submissions.
LEMMA HeadIsOldest ==
  ASSUME IInv
  PROVE  /\ len = 0 <=> Pending = << >>
         /\ len # 0 => slots[head] # Empty /\ slots[head] = Head(Pending)
<1>1. ReadsAsSequence
  BY PendingIsSeq
<1>2. len = 0 <=> Pending = << >>
  BY <1>1, EmptySeq DEF ReadsAsSequence
<1>3. ASSUME len # 0
      PROVE  slots[head] # Empty /\ slots[head] = Head(Pending)
  <2>1. 1 \in 1 .. len /\ 1-1 = 0 /\ head = SlotAt(0)
    BY <1>3, NAssumption DEF IInv, TypeOK, Slot, SlotAt
  <2>2. Pending[1] = slots[head]
    BY <2>1, <1>1 DEF ReadsAsSequence
  <2>3. Head(Pending) = Pending[1]
    BY <1>1, <1>2, <1>3 DEF ReadsAsSequence
  <2> QED
    BY <1>3, <2>2, <2>3, HeadOccupied
<1> QED
  BY <1>2, <1>3

\* The scan of the slots answers the duplicate check as a search of the
\* pending submissions would.
LEMMA EnqueueSimulation ==
  ASSUME IInv, NEW s \in Submission, Enqueue(s)
  PROVE  Contract!Enqueue(s)
<1> USE DEF Ok, ErrFor, Contract!Ok, Contract!ErrFor,
            Contract!Enqueue, Contract!EnqueueDuplicate, Contract!EnqueueFull,
            Contract!EnqueueAccept
<1>1. UNCHANGED <<slots, head, len>> => UNCHANGED Pending
  BY SameFieldsSamePending
<1>2. ReadsAsSequence
  BY PendingIsSeq
<1>3. CASE IsDuplicate(s)
  BY <1>1, <1>3, DuplicateIsQueued DEF Enqueue
<1>4. CASE ~IsDuplicate(s) /\ IsFull
  BY <1>1, <1>2, <1>4, DuplicateIsQueued DEF Enqueue, IsFull, ReadsAsSequence
<1>5. CASE ~IsDuplicate(s) /\ ~IsFull
  BY <1>2, <1>5, DuplicateIsQueued, AcceptAppends DEF Enqueue, IsFull, ReadsAsSequence
<1> QED
  BY <1>3, <1>4, <1>5

\* A call that takes, shows or counts submissions.
LEMMA OtherSimulation ==
  ASSUME IInv
  PROVE  /\ Dequeue => Contract!Dequeue
         /\ Peek => Contract!Peek
         /\ Observe => Contract!Observe
<1> USE DEF Some, None, Contract!Some, Contract!None
<1>1. UNCHANGED <<slots, head, len>> => UNCHANGED Pending
  BY SameFieldsSamePending
<1>2. ASSUME Dequeue PROVE Contract!Dequeue
  <2>1. CASE len = 0
    BY <2>1, <1>1, <1>2, HeadIsOldest DEF Dequeue, Contract!Dequeue
  <2>2. CASE len # 0
    BY <2>2, <1>2, HeadIsOldest, RemoveTakesHead DEF Dequeue, NextHead, Contract!Dequeue
  <2> QED
    BY <2>1, <2>2
<1>3. Peek => Contract!Peek
  BY <1>1, HeadIsOldest DEF Peek, Contract!Peek
<1>4. Observe => Contract!Observe
  BY <1>1, PendingIsSeq
     DEF Observe, IsFull, ReadsAsSequence, Contract!Observe, Contract!Occupancy
<1> QED
  BY <1>2, <1>3, <1>4

\* Every step is a step of the contract.
LEMMA StepSimulation == IInv /\ [Next]_vars => [Contract!Next]_(Contract!vars)
<1> SUFFICES ASSUME IInv, [Next]_vars PROVE [Contract!Next]_(Contract!vars)
  OBVIOUS
<1>1. CASE \E s \in Submission : Enqueue(s)
  BY <1>1, EnqueueSimulation DEF Contract!Next
<1>2. CASE Dequeue \/ Peek \/ Observe
  BY <1>2, OtherSimulation DEF Contract!Next
<1>3. CASE UNCHANGED vars
  BY <1>3, SameFieldsSamePending DEF vars, Contract!vars
<1> QED
  BY <1>1, <1>2, <1>3 DEF Next

\* StaticCommandQueue implements the contract of the SubmissionQueue trait,
\* first in first out through every wrap of the ring, for every N.
THEOREM Refinement == Spec => ImplementsContract
<1>1. Init => Contract!Init
  BY DEF Init, Pending, Contract!Init, Ok, Contract!Ok
<1>2. Spec => []IInv
  BY InitIInv, NextIInv, PTL DEF Spec
<1> QED
  BY <1>1, <1>2, StepSimulation, PTL DEF Spec, ImplementsContract, Contract!Spec

=============================================================================
