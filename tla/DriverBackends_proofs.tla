------------------------ MODULE DriverBackends_proofs ------------------------
(***************************************************************************)
(* Proofs about the two drivers, for every capacity, width, set of images  *)
(* and set of commands, and for every queue a driver is made over: each is *)
(* the driver of GpuDriver, and when they are given the same submissions   *)
(* they answer every call alike.                                           *)
(*                                                                         *)
(* What holds of the two backends is not proved again: CommandQueue_proofs *)
(* and StaticCommandQueue_proofs are instantiated for the queues inside    *)
(* the drivers, and their invariants and step simulations cited.  What is  *)
(* left is that the contract both refine is deterministic, so that queues  *)
(* that agree before a call agree after it.                                *)
(***************************************************************************)
EXTENDS DriverBackends, SequenceTheorems, TLAPS

\* The proofs of the two backends, for the queues inside the drivers.
DequeProofs == INSTANCE CommandQueue_proofs
                 WITH Capacity <- QueueCapacity,
                      Submission <- Validation!ValidatedSubmission
RingProofs == INSTANCE StaticCommandQueue_proofs
                WITH N <- QueueCapacity, Submission <- Validation!ValidatedSubmission,
                     answer <- ring_answer

\* The inductive invariant.  That the answers agree is inductive only with
\* what makes each backend keep its contract: the ids of the deque, and the
\* window of the ring.
IInv == DequeProofs!IInv /\ RingProofs!IInv /\ BackendsAgree

-----------------------------------------------------------------------------
(* The names of one operator in its instances.                             *)

\* The ring reads as the same sequence wherever it is named.
LEMMA SamePending ==
  /\ RingProofs!Pending = Ring!Pending
  /\ RingProofs!Pending' = Ring!Pending'
BY DEF RingProofs!Pending, Ring!Pending, RingProofs!SlotAt, Ring!SlotAt

\* A call of a backend, as the drivers make it and as its proofs name it.
LEMMA SameCalls ==
  /\ \A s : Enqueue(s) => DequeProofs!Enqueue(s) /\ RingProofs!Enqueue(s)
  /\ Dequeue => DequeProofs!Dequeue /\ RingProofs!Dequeue
  /\ Peek => DequeProofs!Peek /\ RingProofs!Peek
  /\ Observe => DequeProofs!Observe /\ RingProofs!Observe
<1>1. ASSUME NEW s, Enqueue(s)
      PROVE  DequeProofs!Enqueue(s)
  BY <1>1 DEF Enqueue, Deque!Enqueue, DequeProofs!Enqueue, Deque!IsFull, DequeProofs!IsFull,
     Deque!ContainsCommand, DequeProofs!ContainsCommand, Deque!Ok,
     DequeProofs!Ok, Deque!ErrFor, DequeProofs!ErrFor
<1>2. ASSUME NEW s, Enqueue(s)
      PROVE  RingProofs!Enqueue(s)
  BY <1>2 DEF Enqueue, Ring!Enqueue, RingProofs!Enqueue, Ring!IsFull, RingProofs!IsFull,
     Ring!IsDuplicate, RingProofs!IsDuplicate, Ring!TailIndex,
     RingProofs!TailIndex, Ring!Slot, RingProofs!Slot, Ring!Ok,
     RingProofs!Ok, Ring!ErrFor, RingProofs!ErrFor
<1>3. Dequeue => DequeProofs!Dequeue /\ RingProofs!Dequeue
  BY DEF Dequeue, Deque!Dequeue, DequeProofs!Dequeue, Deque!IdsAfterDequeue,
     DequeProofs!IdsAfterDequeue, Deque!Some, DequeProofs!Some, Deque!None,
     DequeProofs!None, Ring!Dequeue, RingProofs!Dequeue, Ring!NextHead,
     RingProofs!NextHead, Ring!Some, RingProofs!Some, Ring!None,
     RingProofs!None
<1>4. Peek => DequeProofs!Peek /\ RingProofs!Peek
  BY DEF Peek, Deque!Peek, DequeProofs!Peek, Ring!Peek, RingProofs!Peek, Deque!Some,
     DequeProofs!Some, Ring!Some, RingProofs!Some, Deque!None,
     DequeProofs!None, Ring!None, RingProofs!None
<1>5. Observe => DequeProofs!Observe /\ RingProofs!Observe
  BY DEF Observe, Deque!Observe, DequeProofs!Observe, Ring!Observe, RingProofs!Observe,
     Deque!IsFull, DequeProofs!IsFull, Ring!IsFull, RingProofs!IsFull
<1> QED
  BY <1>1, <1>2, <1>3, <1>4, <1>5

\* A call of the contract, as the proofs of the backends name it and as the
\* drivers do.
LEMMA SameContract ==
  /\ \A s : DequeProofs!Contract!Enqueue(s) => DequeDriver!Queue!Enqueue(s)
  /\ DequeProofs!Contract!Dequeue => DequeDriver!Queue!Dequeue
  /\ DequeProofs!Contract!Peek => DequeDriver!Queue!Peek
  /\ DequeProofs!Contract!Observe => DequeDriver!Queue!Observe
  /\ \A s : RingProofs!Contract!Enqueue(s) => RingDriver!Queue!Enqueue(s)
  /\ RingProofs!Contract!Dequeue => RingDriver!Queue!Dequeue
  /\ RingProofs!Contract!Peek => RingDriver!Queue!Peek
  /\ RingProofs!Contract!Observe => RingDriver!Queue!Observe
<1> USE SamePending
<1>1. \A s : DequeProofs!Contract!Enqueue(s) => DequeDriver!Queue!Enqueue(s)
  BY DEF DequeProofs!Contract!Enqueue, DequeDriver!Queue!Enqueue,
     DequeProofs!Contract!EnqueueDuplicate,
     DequeDriver!Queue!EnqueueDuplicate, DequeProofs!Contract!EnqueueFull,
     DequeDriver!Queue!EnqueueFull, DequeProofs!Contract!EnqueueAccept,
     DequeDriver!Queue!EnqueueAccept, DequeProofs!Contract!QueuedIds,
     DequeDriver!Queue!QueuedIds, DequeProofs!Contract!Ok,
     DequeDriver!Queue!Ok, DequeProofs!Contract!ErrFor,
     DequeDriver!Queue!ErrFor
<1>2. \A s : RingProofs!Contract!Enqueue(s) => RingDriver!Queue!Enqueue(s)
  BY DEF RingProofs!Contract!Enqueue, RingDriver!Queue!Enqueue,
     RingProofs!Contract!EnqueueDuplicate, RingDriver!Queue!EnqueueDuplicate,
     RingProofs!Contract!EnqueueFull, RingDriver!Queue!EnqueueFull,
     RingProofs!Contract!EnqueueAccept, RingDriver!Queue!EnqueueAccept,
     RingProofs!Contract!QueuedIds, RingDriver!Queue!QueuedIds,
     RingProofs!Contract!Ok, RingDriver!Queue!Ok, RingProofs!Contract!ErrFor,
     RingDriver!Queue!ErrFor
<1>3. /\ DequeProofs!Contract!Dequeue => DequeDriver!Queue!Dequeue
      /\ DequeProofs!Contract!Peek => DequeDriver!Queue!Peek
      /\ DequeProofs!Contract!Observe => DequeDriver!Queue!Observe
  BY DEF DequeProofs!Contract!Dequeue, DequeDriver!Queue!Dequeue,
     DequeProofs!Contract!Peek, DequeDriver!Queue!Peek,
     DequeProofs!Contract!Observe, DequeDriver!Queue!Observe,
     DequeProofs!Contract!Occupancy, DequeDriver!Queue!Occupancy,
     DequeProofs!Contract!Some, DequeDriver!Queue!Some,
     DequeProofs!Contract!None, DequeDriver!Queue!None
<1>4. /\ RingProofs!Contract!Dequeue => RingDriver!Queue!Dequeue
      /\ RingProofs!Contract!Peek => RingDriver!Queue!Peek
      /\ RingProofs!Contract!Observe => RingDriver!Queue!Observe
  BY DEF RingProofs!Contract!Dequeue, RingDriver!Queue!Dequeue,
     RingProofs!Contract!Peek, RingDriver!Queue!Peek,
     RingProofs!Contract!Observe, RingDriver!Queue!Observe,
     RingProofs!Contract!Occupancy, RingDriver!Queue!Occupancy,
     RingProofs!Contract!Some, RingDriver!Queue!Some,
     RingProofs!Contract!None, RingDriver!Queue!None
<1> QED
  BY <1>1, <1>2, <1>3, <1>4

\* The calls of the controller, for the driver with the deque and, when the
\* answers agree, for the driver with the ring.
LEMMA SameController ==
  ASSUME ring_answer' = answer'
  PROVE  /\ \A image : Controller!LoadFirmware(image) =>
              /\ DequeDriver!Controller!LoadFirmware(image)
              /\ RingDriver!Controller!LoadFirmware(image)
         /\ Controller!Start =>
              DequeDriver!Controller!Start /\ RingDriver!Controller!Start
         /\ Controller!EnsureReady =>
              DequeDriver!Controller!EnsureReady /\ RingDriver!Controller!EnsureReady
         /\ Controller!IsReady <=> DequeDriver!Controller!IsReady
         /\ Controller!IsReady <=> RingDriver!Controller!IsReady
<1>1. ASSUME NEW image, Controller!LoadFirmware(image)
      PROVE  /\ DequeDriver!Controller!LoadFirmware(image)
             /\ RingDriver!Controller!LoadFirmware(image)
  BY <1>1 DEF Controller!LoadFirmware, DequeDriver!Controller!LoadFirmware,
     RingDriver!Controller!LoadFirmware, Controller!IsOffline,
     DequeDriver!Controller!IsOffline, RingDriver!Controller!IsOffline,
     Controller!CheckImage, DequeDriver!Controller!CheckImage,
     RingDriver!Controller!CheckImage, Controller!FirmwareLoaded,
     DequeDriver!Controller!FirmwareLoaded,
     RingDriver!Controller!FirmwareLoaded, Controller!Refuse,
     DequeDriver!Controller!Refuse, RingDriver!Controller!Refuse,
     Controller!Err, DequeDriver!Controller!Err, RingDriver!Controller!Err,
     Controller!Ok, DequeDriver!Controller!Ok, RingDriver!Controller!Ok
<1>2. Controller!Start => DequeDriver!Controller!Start /\ RingDriver!Controller!Start
  BY DEF Controller!Start, DequeDriver!Controller!Start,
     RingDriver!Controller!Start, Controller!Started,
     DequeDriver!Controller!Started, RingDriver!Controller!Started,
     Controller!Ready, DequeDriver!Controller!Ready,
     RingDriver!Controller!Ready, Controller!Err, DequeDriver!Controller!Err,
     RingDriver!Controller!Err, Controller!Ok, DequeDriver!Controller!Ok,
     RingDriver!Controller!Ok
<1>3. /\ Controller!EnsureReady =>
           DequeDriver!Controller!EnsureReady /\ RingDriver!Controller!EnsureReady
      /\ Controller!IsReady <=> DequeDriver!Controller!IsReady
      /\ Controller!IsReady <=> RingDriver!Controller!IsReady
  BY DEF Controller!IsReady, DequeDriver!Controller!IsReady,
     RingDriver!Controller!IsReady, Controller!EnsureReady,
     DequeDriver!Controller!EnsureReady, RingDriver!Controller!EnsureReady,
     Controller!Refuse, DequeDriver!Controller!Refuse,
     RingDriver!Controller!Refuse, Controller!Err,
     DequeDriver!Controller!Err, RingDriver!Controller!Err
<1> QED
  BY <1>1, <1>2, <1>3

\* The calls of the device, likewise.
LEMMA SameDevice ==
  ASSUME ring_answer' = answer'
  PROVE  /\ \A c : Device!AllocateBuffer(c) =>
              DequeDriver!Device!AllocateBuffer(c) /\ RingDriver!Device!AllocateBuffer(c)
         /\ \A id, n, b : Device!WriteBuffer(id, n, b) =>
              /\ DequeDriver!Device!WriteBuffer(id, n, b)
              /\ RingDriver!Device!WriteBuffer(id, n, b)
<1>1. ASSUME NEW c, Device!AllocateBuffer(c)
      PROVE  DequeDriver!Device!AllocateBuffer(c) /\ RingDriver!Device!AllocateBuffer(c)
  BY <1>1 DEF Device!AllocateBuffer, DequeDriver!Device!AllocateBuffer,
     RingDriver!Device!AllocateBuffer, Device!CheckedNext,
     DequeDriver!Device!CheckedNext, RingDriver!Device!CheckedNext,
     Device!Insert, DequeDriver!Device!Insert, RingDriver!Device!Insert,
     Device!Refuse, DequeDriver!Device!Refuse, RingDriver!Device!Refuse,
     Device!Err, DequeDriver!Device!Err, RingDriver!Device!Err
<1>2. ASSUME NEW id, NEW n, NEW b, Device!WriteBuffer(id, n, b)
      PROVE  /\ DequeDriver!Device!WriteBuffer(id, n, b)
             /\ RingDriver!Device!WriteBuffer(id, n, b)
  BY <1>2 DEF Device!WriteBuffer, DequeDriver!Device!WriteBuffer,
     RingDriver!Device!WriteBuffer, Device!Known, DequeDriver!Device!Known,
     RingDriver!Device!Known, Device!Exceeds, DequeDriver!Device!Exceeds,
     RingDriver!Device!Exceeds, Device!Update, DequeDriver!Device!Update,
     RingDriver!Device!Update, Device!Overwrite,
     DequeDriver!Device!Overwrite, RingDriver!Device!Overwrite,
     Device!Refuse, DequeDriver!Device!Refuse, RingDriver!Device!Refuse,
     Device!Err, DequeDriver!Device!Err, RingDriver!Device!Err, Device!Ok,
     DequeDriver!Device!Ok, RingDriver!Device!Ok
<1> QED
  BY <1>1, <1>2

\* The validation of both drivers is one.
LEMMA SameVerdict ==
  ASSUME NEW id, NEW raw
  PROVE  /\ DequeDriver!Validation!SubmissionVerdict(buffers, id, raw)
              = Validation!SubmissionVerdict(buffers, id, raw)
         /\ RingDriver!Validation!SubmissionVerdict(buffers, id, raw)
              = Validation!SubmissionVerdict(buffers, id, raw)
         /\ DequeDriver!Validation!Submission(id, raw) = Validation!Submission(id, raw)
         /\ RingDriver!Validation!Submission(id, raw) = Validation!Submission(id, raw)
BY DEF Validation!SubmissionVerdict, DequeDriver!Validation!SubmissionVerdict,
       RingDriver!Validation!SubmissionVerdict, Validation!CommandVerdict,
       DequeDriver!Validation!CommandVerdict,
       RingDriver!Validation!CommandVerdict, Validation!RangeVerdict,
       DequeDriver!Validation!RangeVerdict, RingDriver!Validation!RangeVerdict,
       Validation!RangeOverflows, DequeDriver!Validation!RangeOverflows,
       RingDriver!Validation!RangeOverflows, Validation!CommandId,
       DequeDriver!Validation!CommandId, RingDriver!Validation!CommandId,
       Validation!Priority, DequeDriver!Validation!Priority,
       RingDriver!Validation!Priority, Validation!ALIGNMENT,
       DequeDriver!Validation!ALIGNMENT, RingDriver!Validation!ALIGNMENT,
       Validation!End, DequeDriver!Validation!End, RingDriver!Validation!End,
       Validation!InitializedLen, DequeDriver!Validation!InitializedLen,
       RingDriver!Validation!InitializedLen, Validation!Submission,
       DequeDriver!Validation!Submission, RingDriver!Validation!Submission

\* A validated submission is well typed.
LEMMA ValidTyped ==
  ASSUME NEW id \in 0 .. MaxId, NEW raw \in RawCommands,
         Validation!SubmissionVerdict(buffers, id, raw) = "Valid"
  PROVE  Validation!Submission(id, raw) \in Validation!ValidatedSubmission
<1>1. raw \in [id : 0 .. MaxCommand, offset : 0 .. UsizeMax,
               length : 0 .. UsizeMax, priority : 0 .. 255]
  BY InputAssumption DEF Validation!RawCommand
<1>2. Validation!CommandVerdict(raw) = "Valid"
  BY DEF Validation!SubmissionVerdict
<1>3. /\ raw.id \in Validation!CommandId
      /\ raw.length # 0
      /\ raw.priority \in Validation!Priority
  BY <1>2 DEF Validation!CommandVerdict, Validation!RangeVerdict
<1>4. raw.length \in 1 .. UsizeMax
  BY <1>1, <1>3, WidthAssumption
<1> QED
  BY <1>1, <1>3, <1>4 DEF Validation!Submission, Validation!ValidatedSubmission

-----------------------------------------------------------------------------
(* The two queues beside each other.                                       *)

\* The contract of the trait is deterministic: queues that agree before a
\* call of it agree after.
LEMMA ContractDetermines ==
  ASSUME BackendsAgree,
         \/ \E s : DequeDriver!Queue!Enqueue(s) /\ RingDriver!Queue!Enqueue(s)
         \/ DequeDriver!Queue!Dequeue /\ RingDriver!Queue!Dequeue
         \/ DequeDriver!Queue!Peek /\ RingDriver!Queue!Peek
         \/ DequeDriver!Queue!Observe /\ RingDriver!Queue!Observe
  PROVE  BackendsAgree'
<1>1. ASSUME NEW s, DequeDriver!Queue!Enqueue(s), RingDriver!Queue!Enqueue(s)
      PROVE  BackendsAgree'
  BY <1>1 DEF BackendsAgree, DequeDriver!Queue!Enqueue, RingDriver!Queue!Enqueue,
     DequeDriver!Queue!EnqueueDuplicate, RingDriver!Queue!EnqueueDuplicate,
     DequeDriver!Queue!EnqueueFull, RingDriver!Queue!EnqueueFull,
     DequeDriver!Queue!EnqueueAccept, RingDriver!Queue!EnqueueAccept,
     DequeDriver!Queue!QueuedIds, RingDriver!Queue!QueuedIds,
     DequeDriver!Queue!Ok, RingDriver!Queue!Ok, DequeDriver!Queue!ErrFor,
     RingDriver!Queue!ErrFor
<1>2. CASE DequeDriver!Queue!Dequeue /\ RingDriver!Queue!Dequeue
  BY <1>2 DEF BackendsAgree, DequeDriver!Queue!Dequeue, RingDriver!Queue!Dequeue,
     DequeDriver!Queue!Some, RingDriver!Queue!Some, DequeDriver!Queue!None,
     RingDriver!Queue!None
<1>3. CASE DequeDriver!Queue!Peek /\ RingDriver!Queue!Peek
  BY <1>3 DEF BackendsAgree, DequeDriver!Queue!Peek, RingDriver!Queue!Peek, DequeDriver!Queue!Some,
     RingDriver!Queue!Some, DequeDriver!Queue!None, RingDriver!Queue!None
<1>4. CASE DequeDriver!Queue!Observe /\ RingDriver!Queue!Observe
  BY <1>4 DEF BackendsAgree, DequeDriver!Queue!Observe, RingDriver!Queue!Observe,
     DequeDriver!Queue!Occupancy, RingDriver!Queue!Occupancy
<1> QED
  BY <1>1, <1>2, <1>3, <1>4

\* Both queues refuse, or take, the same submission for the same reason.
LEMMA EnqueueStep ==
  ASSUME IInv, NEW s \in Validation!ValidatedSubmission, Enqueue(s)
  PROVE  IInv' /\ DequeDriver!Queue!Enqueue(s) /\ RingDriver!Queue!Enqueue(s)
<1>1. DequeProofs!IInv /\ RingProofs!IInv /\ BackendsAgree
  BY DEF IInv
<1>2. DequeProofs!Enqueue(s) /\ RingProofs!Enqueue(s)
  BY SameCalls
<1>3. DequeProofs!IInv' /\ DequeProofs!Contract!Enqueue(s)
  BY <1>1, <1>2, DequeProofs!EnqueueIInv, DequeProofs!EnqueueSimulation,
     WidthAssumption
<1>4. RingProofs!IInv' /\ RingProofs!Contract!Enqueue(s)
  BY <1>1, <1>2, RingProofs!NextIInv, RingProofs!EnqueueSimulation,
     WidthAssumption, EmptyAssumption DEF RingProofs!Next
<1>5. DequeDriver!Queue!Enqueue(s) /\ RingDriver!Queue!Enqueue(s)
  BY <1>3, <1>4, SameContract
<1>6. BackendsAgree'
  BY <1>1, <1>5, ContractDetermines
<1> QED
  BY <1>3, <1>4, <1>5, <1>6 DEF IInv

\* Both queues give, show or count the same submissions.
LEMMA OtherStep ==
  ASSUME IInv, Dequeue \/ Peek \/ Observe
  PROVE  /\ IInv'
         /\ Dequeue => DequeDriver!Queue!Dequeue /\ RingDriver!Queue!Dequeue
         /\ Peek => DequeDriver!Queue!Peek /\ RingDriver!Queue!Peek
         /\ Observe => DequeDriver!Queue!Observe /\ RingDriver!Queue!Observe
<1>1. DequeProofs!IInv /\ RingProofs!IInv /\ BackendsAgree
  BY DEF IInv
<1>2. DequeProofs!IInv'
  BY <1>1, SameCalls, DequeProofs!NextIInv, WidthAssumption DEF DequeProofs!Next
<1>3. RingProofs!IInv'
  BY <1>1, SameCalls, RingProofs!NextIInv, WidthAssumption, EmptyAssumption
     DEF RingProofs!Next
<1>4. /\ Dequeue => DequeProofs!Contract!Dequeue
      /\ Peek => DequeProofs!Contract!Peek
      /\ Observe => DequeProofs!Contract!Observe
  BY SameCalls, DequeProofs!OtherSimulation, WidthAssumption
<1>5. /\ Dequeue => RingProofs!Contract!Dequeue
      /\ Peek => RingProofs!Contract!Peek
      /\ Observe => RingProofs!Contract!Observe
  BY <1>1, SameCalls, RingProofs!OtherSimulation, WidthAssumption, EmptyAssumption
<1>6. /\ Dequeue => DequeDriver!Queue!Dequeue /\ RingDriver!Queue!Dequeue
      /\ Peek => DequeDriver!Queue!Peek /\ RingDriver!Queue!Peek
      /\ Observe => DequeDriver!Queue!Observe /\ RingDriver!Queue!Observe
  BY <1>4, <1>5, SameContract
<1>7. BackendsAgree'
  BY <1>1, <1>6, ContractDetermines
<1> QED
  BY <1>2, <1>3, <1>6, <1>7 DEF IInv

\* A call that reaches neither queue keeps the invariant.
LEMMA UntouchedStep ==
  ASSUME IInv, UNCHANGED <<deque, ring>>, ring_answer' = answer'
  PROVE  IInv' /\ UNCHANGED <<pending, Ring!Pending>>
<1>1. UNCHANGED <<pending, active_ids, slots, head, len>>
  BY DEF deque, ring
<1>2. DequeProofs!IInv'
  BY <1>1 DEF IInv, DequeProofs!IInv, DequeProofs!TypeOK, DequeProofs!ActiveIdsMatchPending,
     DequeProofs!UniqueIds
<1>3. RingProofs!IInv' /\ UNCHANGED RingProofs!Pending
  BY <1>1, RingProofs!SameFieldsSamePending, WidthAssumption, EmptyAssumption DEF IInv
<1>4. UNCHANGED Ring!Pending
  BY <1>3, SamePending
<1>5. BackendsAgree'
  BY <1>1, <1>4 DEF IInv, BackendsAgree
<1> QED
  BY <1>1, <1>2, <1>3, <1>4, <1>5 DEF IInv

-----------------------------------------------------------------------------
(* The drivers around them.                                                *)

\* A step that keeps the invariant and is a step of either driver.
Simulated == IInv' /\ DequeDriver!Next /\ RingDriver!Next

\* A call the controller refuses.
LEMMA NotReadyStep ==
  ASSUME IInv, NotReady
  PROVE  IInv' /\ DequeDriver!NotReady /\ RingDriver!NotReady
<1>1. IInv' /\ UNCHANGED <<pending, Ring!Pending, given>> /\ ring_answer' = answer'
  BY UntouchedStep DEF NotReady, QueueUntouched
<1> QED
  BY <1>1, SameController DEF NotReady, DequeDriver!NotReady, RingDriver!NotReady

\* A firmware load, which is a call of the controller alone.
LEMMA LoadFirmwareStep ==
  ASSUME IInv, NEW image \in Images, LoadFirmware(image)
  PROVE  Simulated
<1>1. IInv' /\ UNCHANGED <<pending, Ring!Pending, given>> /\ ring_answer' = answer'
  BY UntouchedStep DEF LoadFirmware, QueueUntouched
<1>2. DequeDriver!LoadFirmware(image) /\ RingDriver!LoadFirmware(image)
  BY <1>1, SameController
     DEF LoadFirmware, DequeDriver!LoadFirmware, RingDriver!LoadFirmware
<1> QED
  BY <1>1, <1>2 DEF Simulated, DequeDriver!Next, RingDriver!Next

\* A start, likewise.
LEMMA StartStep ==
  ASSUME IInv, Start
  PROVE  Simulated
<1>1. IInv' /\ UNCHANGED <<pending, Ring!Pending, given>> /\ ring_answer' = answer'
  BY UntouchedStep DEF Start, QueueUntouched
<1>2. DequeDriver!Start /\ RingDriver!Start
  BY <1>1, SameController DEF Start, DequeDriver!Start, RingDriver!Start
<1> QED
  BY <1>1, <1>2 DEF Simulated, DequeDriver!Next, RingDriver!Next

\* An allocation, refused by the controller or made by the device.
LEMMA AllocateBufferStep ==
  ASSUME IInv, NEW c \in Capacities, AllocateBuffer(c)
  PROVE  Simulated
<1>1. IInv' /\ UNCHANGED <<pending, Ring!Pending, given>> /\ ring_answer' = answer'
  BY UntouchedStep DEF AllocateBuffer, NotReady, QueueUntouched
<1>2. DequeDriver!AllocateBuffer(c) /\ RingDriver!AllocateBuffer(c)
  BY <1>1, NotReadyStep, SameController, SameDevice
     DEF AllocateBuffer, DequeDriver!AllocateBuffer, RingDriver!AllocateBuffer
<1> QED
  BY <1>1, <1>2 DEF Simulated, DequeDriver!Next, RingDriver!Next

\* A write, refused by the controller or made by the device.
LEMMA WriteBufferStep ==
  ASSUME IInv, NEW id \in Device!BufferId, NEW n \in Lengths, NEW b \in Byte,
         WriteBuffer(id, n, b)
  PROVE  Simulated
<1>1. IInv' /\ UNCHANGED <<pending, Ring!Pending, given>> /\ ring_answer' = answer'
  BY UntouchedStep DEF WriteBuffer, NotReady, QueueUntouched
<1>2. DequeDriver!WriteBuffer(id, n, b) /\ RingDriver!WriteBuffer(id, n, b)
  BY <1>1, NotReadyStep, SameController, SameDevice
     DEF WriteBuffer, DequeDriver!WriteBuffer, RingDriver!WriteBuffer
<1>3. id \in DequeDriver!Device!BufferId /\ id \in RingDriver!Device!BufferId
  BY DEF Device!BufferId, DequeDriver!Device!BufferId, RingDriver!Device!BufferId
<1> QED
  BY <1>1, <1>2, <1>3 DEF Simulated, DequeDriver!Next, RingDriver!Next

\* A submission: refused by the controller, by the validation, or decided by
\* the queues.
LEMMA SubmitStep ==
  ASSUME IInv, NEW id \in Device!BufferId, NEW raw \in RawCommands, Submit(id, raw)
  PROVE  Simulated
<1> DEFINE verdict == Validation!SubmissionVerdict(buffers, id, raw)
           s == Validation!Submission(id, raw)
           Both == /\ DequeDriver!Submit(id, raw)
                   /\ RingDriver!Submit(id, raw)
<1>1. IInv' /\ Both
  <2> USE SameController, SameVerdict DEF DequeDriver!Submit, RingDriver!Submit
  <2>1. CASE NotReady
    BY <2>1, NotReadyStep
  <2>2. CASE /\ Controller!IsReady /\ verdict # "Valid" /\ answer' = Err(verdict)
             /\ UNCHANGED <<state, next_id, buffers>> /\ QueueUntouched
    <3>1. IInv' /\ UNCHANGED <<pending, Ring!Pending, given>> /\ ring_answer' = answer'
      BY <2>2, UntouchedStep DEF QueueUntouched
    <3> QED
      BY <2>2, <3>1 DEF Err, DequeDriver!Err, RingDriver!Err
  <2>3. CASE /\ Controller!IsReady /\ verdict = "Valid" /\ Enqueue(s)
             /\ UNCHANGED <<state, next_id, buffers, given>>
    <3>1. s \in Validation!ValidatedSubmission
      BY <2>3, ValidTyped DEF Device!BufferId
    <3>2. IInv' /\ DequeDriver!Queue!Enqueue(s) /\ RingDriver!Queue!Enqueue(s)
      BY <2>3, <3>1, EnqueueStep
    <3>3. ring_answer' = answer'
      BY <3>2 DEF IInv, BackendsAgree
    <3> QED
      BY <2>3, <3>2, <3>3
  <2> QED
    BY <2>1, <2>2, <2>3 DEF Submit
<1>2. id \in DequeDriver!Device!BufferId /\ id \in RingDriver!Device!BufferId
  BY DEF Device!BufferId, DequeDriver!Device!BufferId, RingDriver!Device!BufferId
<1> QED
  BY <1>1, <1>2 DEF Simulated, DequeDriver!Next, RingDriver!Next

\* A call of the queue alone.
LEMMA QueueStep ==
  ASSUME IInv, NextSubmission \/ PeekSubmission \/ ObserveQueue
  PROVE  Simulated
BY OtherStep
   DEF NextSubmission, DequeDriver!NextSubmission, RingDriver!NextSubmission,
       PeekSubmission, DequeDriver!PeekSubmission, RingDriver!PeekSubmission,
       ObserveQueue, DequeDriver!ObserveQueue, RingDriver!ObserveQueue,
       GivenAfterTake, DequeDriver!GivenAfterTake, RingDriver!GivenAfterTake,
       Simulated, DequeDriver!Next, RingDriver!Next

\* Every step keeps the invariant and is a step of either driver.
LEMMA NextIInv ==
  IInv /\ [Next]_vars =>
    /\ IInv'
    /\ [DequeDriver!Next]_(DequeDriver!vars)
    /\ [RingDriver!Next]_(RingDriver!vars)
<1> SUFFICES ASSUME IInv, [Next]_vars
             PROVE  /\ IInv'
                    /\ [DequeDriver!Next]_(DequeDriver!vars)
                    /\ [RingDriver!Next]_(RingDriver!vars)
  OBVIOUS
<1>1. ASSUME NEW id \in Device!BufferId,
             \/ \E n \in Lengths, b \in Byte : WriteBuffer(id, n, b)
             \/ \E raw \in RawCommands : Submit(id, raw)
      PROVE  Simulated
  BY <1>1, WriteBufferStep, SubmitStep
<1>2. CASE Next
  BY <1>1, <1>2, LoadFirmwareStep, StartStep, AllocateBufferStep, QueueStep
     DEF Next, Simulated
<1>3. CASE UNCHANGED vars
  <2>1. UNCHANGED <<state, next_id, buffers, deque, answer, ring, ring_answer, given>>
    BY <1>3 DEF vars
  <2>2. IInv' /\ UNCHANGED <<pending, Ring!Pending>>
    BY <2>1, UntouchedStep DEF IInv, BackendsAgree
  <2> QED
    BY <2>1, <2>2 DEF DequeDriver!vars, RingDriver!vars
<1> QED
  BY <1>2, <1>3

\* A deque that was given holds distinct ids, and they are those of its set.
LEMMA GivenDequeIInv == GivenDeque => DequeProofs!IInv
<1> SUFFICES ASSUME GivenDeque PROVE DequeProofs!IInv
  OBVIOUS
<1>1. /\ pending \in Seq(Validation!ValidatedSubmission)
      /\ Len(pending) <= QueueCapacity
      /\ \A i, j \in DOMAIN pending : pending[i].id = pending[j].id => i = j
  BY GivenAssumption DEF GivenDeque
<1>2. active_ids = {pending[i].id : i \in DOMAIN pending}
  BY DEF GivenDeque, Deque!ActiveIdsMatchPending
<1>3. \A i \in DOMAIN pending : pending[i] \in Validation!ValidatedSubmission
  BY <1>1, ElementOfSeq, LenProperties
<1>4. active_ids \subseteq {s.id : s \in Validation!ValidatedSubmission}
  BY <1>2, <1>3
<1> QED
  BY <1>1, <1>2, <1>4 DEF DequeProofs!IInv, DequeProofs!TypeOK,
     DequeProofs!ActiveIdsMatchPending, DequeProofs!UniqueIds

\* A ring that was given the same submissions holds each of them once, in the
\* window from its head on.
LEMMA GivenRingIInv == GivenDeque /\ GivenRing => RingProofs!IInv
<1> SUFFICES ASSUME GivenDeque, GivenRing PROVE RingProofs!IInv
  OBVIOUS
<1>1. /\ pending \in Seq(Validation!ValidatedSubmission)
      /\ Len(pending) <= QueueCapacity /\ Len(pending) \in Nat
      /\ \A i, j \in DOMAIN pending : pending[i].id = pending[j].id => i = j
      /\ DOMAIN pending = 1 .. Len(pending)
  BY GivenAssumption, LenProperties DEF GivenDeque
<1>2. \A i \in DOMAIN pending : pending[i] \in Validation!ValidatedSubmission
  BY <1>1, ElementOfSeq
<1>3. /\ len = Len(pending) /\ head \in 0 .. QueueCapacity-1
      /\ slots \in [0 .. QueueCapacity-1 -> {pending[i] : i \in DOMAIN pending} \cup {Empty}]
      /\ Ring!WindowIsOccupied
      /\ pending = [k \in 1 .. len |-> slots[Ring!SlotAt(k-1)]]
  BY DEF GivenRing, Ring!Slot, Ring!Pending
<1>4. RingProofs!TypeOK
  <2>1. slots \in [0 .. QueueCapacity-1 -> Validation!ValidatedSubmission \cup {Empty}]
    BY <1>2, <1>3
  <2> QED
    BY <1>1, <1>3, <2>1, WidthAssumption DEF RingProofs!TypeOK, RingProofs!Slot
<1>5. RingProofs!WindowIsOccupied
  BY <1>3 DEF Ring!WindowIsOccupied, RingProofs!WindowIsOccupied, Ring!Slot, RingProofs!Slot,
     Ring!Live, RingProofs!Live, Ring!SlotAt, RingProofs!SlotAt
<1>6. ASSUME NEW i \in 0 .. QueueCapacity-1, slots[i] # Empty
      PROVE  \E k \in DOMAIN pending : i = Ring!SlotAt(k-1) /\ slots[i] = pending[k]
  <2>1. i \in Ring!Live
    BY <1>3, <1>6 DEF Ring!WindowIsOccupied, Ring!Slot
  <2>2. PICK k \in 0 .. len-1 : i = Ring!SlotAt(k)
    BY <2>1 DEF Ring!Live
  <2>3. k + 1 \in 1 .. len /\ (k + 1) - 1 = k
    BY <1>1, <1>3, <2>2
  <2>4. pending[k+1] = slots[i]
    BY <1>3, <2>2, <2>3
  <2> QED
    BY <1>1, <1>3, <2>2, <2>3, <2>4
<1>7. RingProofs!UniqueIds
  BY <1>1, <1>6 DEF RingProofs!UniqueIds, RingProofs!Slot
<1> QED
  BY <1>4, <1>5, <1>7 DEF RingProofs!IInv

\* Two new drivers over queues that were given.
LEMMA InitIInv == Init => IInv /\ DequeDriver!Init /\ RingDriver!Init
<1> SUFFICES ASSUME Init
             PROVE  IInv /\ DequeDriver!Init /\ RingDriver!Init
  OBVIOUS
<1>1. DequeProofs!IInv /\ RingProofs!IInv
  BY GivenDequeIInv, GivenRingIInv DEF Init
<1>2. /\ pending \in GivenQueues /\ Ring!Pending = pending
      /\ answer = Ok /\ ring_answer = Ok
      /\ given = Len(pending)
  BY DEF Init, GivenDeque, GivenRing, Device!Init, Device!Ok, Ok
<1>3. DequeDriver!Init /\ RingDriver!Init
  BY <1>2 DEF Init, Controller!Init, Device!Init, DequeDriver!Init, RingDriver!Init,
     DequeDriver!Controller!Init, RingDriver!Controller!Init,
     DequeDriver!Controller!Offline, RingDriver!Controller!Offline,
     DequeDriver!Controller!Ok, RingDriver!Controller!Ok,
     DequeDriver!Device!Init, RingDriver!Device!Init, DequeDriver!Device!Ok,
     RingDriver!Device!Ok, Controller!Offline, Ok
<1> QED
  BY <1>1, <1>2, <1>3 DEF IInv, BackendsAgree

-----------------------------------------------------------------------------
(* What the driver of GpuDriver promises, of the real drivers.             *)

\* The proofs about the driver, for the one with the deque.  What they say of
\* the typed wrapper is not used: its variables are given any value.
DriverProofs == INSTANCE TypedDriver_proofs
                  WITH queue <- pending, marker <- "Offline", holder <- "client"

\* Its assumptions about what callers pass, from the ones made here.
LEMMA SameInputs ==
  /\ Images \subseteq [len : Nat, magic : BOOLEAN, major : 0 .. 255, minor : 0 .. 255]
  /\ Capacities \subseteq 0 .. UsizeMax
  /\ Lengths \subseteq 0 .. UsizeMax
  /\ RawCommands \subseteq DriverProofs!Validation!RawCommand
  /\ \A q \in GivenQueues :
       /\ q \in Seq(DriverProofs!Validation!ValidatedSubmission)
       /\ Len(q) <= QueueCapacity
       /\ \A i, j \in DOMAIN q : q[i].id = q[j].id => i = j
<1>1. DriverProofs!Validation!ValidatedSubmission = Validation!ValidatedSubmission
  BY DEF Validation!ValidatedSubmission, DriverProofs!Validation!ValidatedSubmission,
     Validation!CommandId, DriverProofs!Validation!CommandId,
     Validation!Priority, DriverProofs!Validation!Priority
<1> QED
  BY <1>1, InputAssumption, GivenAssumption
     DEF Validation!RawCommand, DriverProofs!Validation!RawCommand

\* A step of the driver, as its proofs name it.
LEMMA SameDriver == [DequeDriver!Next]_(DequeDriver!vars) => [DriverProofs!Next]_(DriverProofs!vars)
<1>1. ASSUME NEW image \in Images, DequeDriver!LoadFirmware(image)
      PROVE  DriverProofs!LoadFirmware(image)
  BY <1>1 DEF DequeDriver!LoadFirmware, DriverProofs!LoadFirmware,
     DequeDriver!Controller!LoadFirmware,
     DriverProofs!Controller!LoadFirmware, DequeDriver!Controller!IsOffline,
     DriverProofs!Controller!IsOffline, DequeDriver!Controller!CheckImage,
     DriverProofs!Controller!CheckImage,
     DequeDriver!Controller!FirmwareLoaded,
     DriverProofs!Controller!FirmwareLoaded, DequeDriver!Controller!Refuse,
     DriverProofs!Controller!Refuse, DequeDriver!Controller!Err,
     DriverProofs!Controller!Err, DequeDriver!Controller!Ok,
     DriverProofs!Controller!Ok
<1>2. DequeDriver!Start => DriverProofs!Start
  BY DEF DequeDriver!Start, DriverProofs!Start, DequeDriver!Controller!Start,
     DriverProofs!Controller!Start, DequeDriver!Controller!Started,
     DriverProofs!Controller!Started, DequeDriver!Controller!Ready,
     DriverProofs!Controller!Ready, DequeDriver!Controller!Err,
     DriverProofs!Controller!Err, DequeDriver!Controller!Ok,
     DriverProofs!Controller!Ok
<1>3. /\ DequeDriver!NotReady => DriverProofs!NotReady
      /\ DequeDriver!Controller!IsReady => DriverProofs!Controller!IsReady
  BY DEF DequeDriver!NotReady, DriverProofs!NotReady,
     DequeDriver!Controller!IsReady, DriverProofs!Controller!IsReady,
     DequeDriver!Controller!EnsureReady, DriverProofs!Controller!EnsureReady,
     DequeDriver!Controller!Refuse, DriverProofs!Controller!Refuse,
     DequeDriver!Controller!Err, DriverProofs!Controller!Err
<1>4. ASSUME NEW c \in Capacities, DequeDriver!AllocateBuffer(c)
      PROVE  DriverProofs!AllocateBuffer(c)
  BY <1>3, <1>4 DEF DequeDriver!AllocateBuffer, DriverProofs!AllocateBuffer,
     DequeDriver!Device!AllocateBuffer, DriverProofs!Device!AllocateBuffer,
     DequeDriver!Device!CheckedNext, DriverProofs!Device!CheckedNext,
     DequeDriver!Device!Insert, DriverProofs!Device!Insert,
     DequeDriver!Device!Refuse, DriverProofs!Device!Refuse,
     DequeDriver!Device!Err, DriverProofs!Device!Err
<1>5. ASSUME NEW id, NEW n, NEW b, DequeDriver!WriteBuffer(id, n, b)
      PROVE  DriverProofs!WriteBuffer(id, n, b)
  BY <1>3, <1>5 DEF DequeDriver!WriteBuffer, DriverProofs!WriteBuffer,
     DequeDriver!Device!WriteBuffer, DriverProofs!Device!WriteBuffer,
     DequeDriver!Device!Known, DriverProofs!Device!Known,
     DequeDriver!Device!Exceeds, DriverProofs!Device!Exceeds,
     DequeDriver!Device!Update, DriverProofs!Device!Update,
     DequeDriver!Device!Overwrite, DriverProofs!Device!Overwrite,
     DequeDriver!Device!Refuse, DriverProofs!Device!Refuse,
     DequeDriver!Device!Err, DriverProofs!Device!Err, DequeDriver!Device!Ok,
     DriverProofs!Device!Ok
<1>6. ASSUME NEW id, NEW raw, DequeDriver!Submit(id, raw)
      PROVE  DriverProofs!Submit(id, raw)
  <2>1. \A s : DequeDriver!Queue!Enqueue(s) => DriverProofs!Queue!Enqueue(s)
    BY DEF DequeDriver!Queue!Enqueue, DriverProofs!Queue!Enqueue,
     DequeDriver!Queue!EnqueueDuplicate, DriverProofs!Queue!EnqueueDuplicate,
     DequeDriver!Queue!EnqueueFull, DriverProofs!Queue!EnqueueFull,
     DequeDriver!Queue!EnqueueAccept, DriverProofs!Queue!EnqueueAccept,
     DequeDriver!Queue!QueuedIds, DriverProofs!Queue!QueuedIds,
     DequeDriver!Queue!Ok, DriverProofs!Queue!Ok, DequeDriver!Queue!ErrFor,
     DriverProofs!Queue!ErrFor
  <2>2. /\ DequeDriver!Validation!SubmissionVerdict(buffers, id, raw)
             = DriverProofs!Validation!SubmissionVerdict(buffers, id, raw)
        /\ DequeDriver!Validation!Submission(id, raw)
             = DriverProofs!Validation!Submission(id, raw)
    BY DEF DequeDriver!Validation!SubmissionVerdict,
     DriverProofs!Validation!SubmissionVerdict,
     DequeDriver!Validation!CommandVerdict,
     DriverProofs!Validation!CommandVerdict,
     DequeDriver!Validation!RangeVerdict,
     DriverProofs!Validation!RangeVerdict,
     DequeDriver!Validation!RangeOverflows,
     DriverProofs!Validation!RangeOverflows,
     DequeDriver!Validation!CommandId, DriverProofs!Validation!CommandId,
     DequeDriver!Validation!Priority, DriverProofs!Validation!Priority,
     DequeDriver!Validation!ALIGNMENT, DriverProofs!Validation!ALIGNMENT,
     DequeDriver!Validation!End, DriverProofs!Validation!End,
     DequeDriver!Validation!InitializedLen,
     DriverProofs!Validation!InitializedLen,
     DequeDriver!Validation!Submission, DriverProofs!Validation!Submission
  <2> QED
    BY <1>3, <1>6, <2>1, <2>2
       DEF DequeDriver!Submit, DriverProofs!Submit, DequeDriver!Err, DriverProofs!Err
<1>7. /\ DequeDriver!NextSubmission => DriverProofs!NextSubmission
      /\ DequeDriver!PeekSubmission => DriverProofs!PeekSubmission
      /\ DequeDriver!ObserveQueue => DriverProofs!ObserveQueue
  BY DEF DequeDriver!NextSubmission, DriverProofs!NextSubmission,
     DequeDriver!PeekSubmission, DriverProofs!PeekSubmission,
     DequeDriver!ObserveQueue, DriverProofs!ObserveQueue,
     DequeDriver!Queue!Dequeue, DriverProofs!Queue!Dequeue,
     DequeDriver!Queue!Peek, DriverProofs!Queue!Peek,
     DequeDriver!Queue!Observe, DriverProofs!Queue!Observe,
     DequeDriver!Queue!Occupancy, DriverProofs!Queue!Occupancy,
     DequeDriver!Queue!Some, DriverProofs!Queue!Some, DequeDriver!Queue!None,
     DriverProofs!Queue!None, DequeDriver!GivenAfterTake, DriverProofs!GivenAfterTake
<1>8. DequeDriver!Device!BufferId = DriverProofs!Device!BufferId
  BY DEF DequeDriver!Device!BufferId, DriverProofs!Device!BufferId
<1>9. DequeDriver!Next => DriverProofs!Next
  BY <1>1, <1>2, <1>4, <1>5, <1>6, <1>7, <1>8 DEF DequeDriver!Next, DriverProofs!Next
<1>10. UNCHANGED DequeDriver!vars => UNCHANGED DriverProofs!vars
  BY DEF DequeDriver!vars, DriverProofs!vars
<1> QED
  BY <1>9, <1>10

\* Two new drivers are drivers to those proofs, whose assumptions about the
\* constants are the ones made here.
LEMMA InitDriverIInv == DequeDriver!Init => DriverProofs!IInv
<1> SUFFICES ASSUME DequeDriver!Init PROVE DriverProofs!IInv
  OBVIOUS
<1>1. DriverProofs!Init
  BY DEF DequeDriver!Init, DriverProofs!Init, DequeDriver!Controller!Init,
     DriverProofs!Controller!Init, DequeDriver!Controller!Offline,
     DriverProofs!Controller!Offline, DequeDriver!Controller!Ok,
     DriverProofs!Controller!Ok, DequeDriver!Device!Init,
     DriverProofs!Device!Init, DequeDriver!Device!Ok, DriverProofs!Device!Ok
<1> QED
  BY <1>1, DriverProofs!InitIInv, WidthAssumption, ByteAssumption, SameInputs

-----------------------------------------------------------------------------
\* A caller of a driver cannot tell its backend: the answers are equal after
\* every call, and so are the submissions that are pending.
THEOREM Agreement == Spec => []BackendsAgree
<1>1. IInv => BackendsAgree
  BY DEF IInv
<1> QED
  BY InitIInv, NextIInv, <1>1, PTL DEF Spec

\* The driver with the growable backend is the driver of GpuDriver, and so is
\* the one with the fixed-capacity backend: what is proved of that driver is
\* true of either.
THEOREM Refinement == Spec => BothImplementDriver
BY InitIInv, NextIInv, PTL
   DEF Spec, BothImplementDriver, DequeDriver!Spec, RingDriver!Spec

\* What is proved of GpuDriver, of both real drivers and whatever queue they
\* are made over: before the device is ready neither owns a buffer or has a
\* submission pending that it was not given, and what it admitted to either
\* backend names bytes inside a buffer that exists.
THEOREM RealDriversAreSafe ==
  Spec => [](/\ DequeDriver!OnlyGivenBeforeReady /\ DequeDriver!QueuedRangeInBuffer
             /\ RingDriver!OnlyGivenBeforeReady /\ RingDriver!QueuedRangeInBuffer)
<1>1. Init => DriverProofs!IInv
  BY InitIInv, InitDriverIInv
<1>2. IInv /\ DriverProofs!IInv /\ [Next]_vars => DriverProofs!IInv'
  BY NextIInv, SameDriver, SameInputs, DriverProofs!NextIInv, WidthAssumption,
     ByteAssumption
<1>3. IInv /\ DriverProofs!IInv =>
        /\ DequeDriver!OnlyGivenBeforeReady /\ DequeDriver!QueuedRangeInBuffer
        /\ RingDriver!OnlyGivenBeforeReady /\ RingDriver!QueuedRangeInBuffer
  BY DEF IInv, BackendsAgree, DriverProofs!IInv, DriverProofs!OnlyGivenBeforeReady,
     DequeDriver!OnlyGivenBeforeReady, RingDriver!OnlyGivenBeforeReady,
     DriverProofs!QueuedRangeInBuffer, DequeDriver!QueuedRangeInBuffer,
     RingDriver!QueuedRangeInBuffer, DriverProofs!Own, DequeDriver!Own,
     RingDriver!Own, DriverProofs!RangeEnd,
     DequeDriver!RangeEnd, RingDriver!RangeEnd
<1> QED
  BY InitIInv, NextIInv, <1>1, <1>2, <1>3, PTL DEF Spec

\* The action properties of the driver, of one over each backend.
DequePromises ==
  /\ DequeDriver!AdmittedRangeInitialized
  /\ DequeDriver!OnlyAShorterWriteMakesStale
  /\ DequeDriver!RefusalChangesNothing

RingPromises ==
  /\ RingDriver!AdmittedRangeInitialized
  /\ RingDriver!OnlyAShorterWriteMakesStale
  /\ RingDriver!RefusalChangesNothing

\* Over either backend only initialized bytes are admitted, only a shorter
\* write takes them away from what is pending, and a refused call changes
\* nothing.
THEOREM RealDriversKeepPromises == Spec => DequePromises /\ RingPromises
<1> USE WidthAssumption, ByteAssumption, SameInputs
<1>1. Init => DriverProofs!IInv
  BY InitIInv, InitDriverIInv
<1>2. IInv /\ DriverProofs!IInv /\ [Next]_vars => DriverProofs!IInv'
  BY NextIInv, SameDriver, DriverProofs!NextIInv
<1>3. ASSUME IInv, DriverProofs!IInv, [Next]_vars
      PROVE  /\ pending = Ring!Pending /\ pending' = Ring!Pending'
             /\ answer = ring_answer /\ answer' = ring_answer'
             /\ [DriverProofs!Next]_(DriverProofs!vars)
  BY <1>3, NextIInv, SameDriver DEF IInv, BackendsAgree
<1>4. ASSUME IInv, DriverProofs!IInv, [Next]_vars
      PROVE  /\ [\A s \in DequeDriver!Queued' \ DequeDriver!Queued :
                   DequeDriver!IsInitialized(s)]_(DequeDriver!vars)
             /\ [\A s \in RingDriver!Queued' \ RingDriver!Queued :
                   RingDriver!IsInitialized(s)]_(RingDriver!vars)
  BY <1>3, <1>4, DriverProofs!AdmissionStep
     DEF DriverProofs!Queued, DequeDriver!Queued, RingDriver!Queued,
         DriverProofs!IsInitialized, DequeDriver!IsInitialized,
         RingDriver!IsInitialized, DriverProofs!RangeEnd,
         DequeDriver!RangeEnd, RingDriver!RangeEnd, DriverProofs!vars,
         DequeDriver!vars, RingDriver!vars
<1>5. ASSUME IInv, DriverProofs!IInv, [Next]_vars,
             NEW s \in DriverProofs!Queued \cap DriverProofs!Queued',
             DriverProofs!IsInitialized(s), ~DriverProofs!IsInitialized(s)'
      PROVE  /\ answer' = Ok
             /\ s.buffer_id \in DOMAIN buffers'
             /\ buffers'[s.buffer_id].used < buffers[s.buffer_id].used
             /\ UNCHANGED <<next_id, pending>>
  <2>1. DriverProofs!Next
    BY <1>3, <1>5 DEF DriverProofs!vars, DriverProofs!Queued, DriverProofs!IsInitialized,
         DriverProofs!RangeEnd
  <2> QED
    BY <1>5, <2>1, DriverProofs!StaleOnlyByWrite DEF DriverProofs!Ok, Ok
<1>6. ASSUME IInv, DriverProofs!IInv, [Next]_vars
      PROVE  /\ [\A s \in DequeDriver!Queued \cap DequeDriver!Queued' :
                   DequeDriver!IsInitialized(s) /\ ~DequeDriver!IsInitialized(s)' =>
                     /\ answer' = DequeDriver!Ok
                     /\ s.buffer_id \in DOMAIN buffers'
                     /\ buffers'[s.buffer_id].used < buffers[s.buffer_id].used
                     /\ UNCHANGED <<next_id, pending>>]_(DequeDriver!vars)
             /\ [\A s \in RingDriver!Queued \cap RingDriver!Queued' :
                   RingDriver!IsInitialized(s) /\ ~RingDriver!IsInitialized(s)' =>
                     /\ ring_answer' = RingDriver!Ok
                     /\ s.buffer_id \in DOMAIN buffers'
                     /\ buffers'[s.buffer_id].used < buffers[s.buffer_id].used
                     /\ UNCHANGED <<next_id, Ring!Pending>>]_(RingDriver!vars)
  BY <1>3, <1>5, <1>6 DEF DriverProofs!Queued, DequeDriver!Queued, RingDriver!Queued,
         DriverProofs!IsInitialized, DequeDriver!IsInitialized,
         RingDriver!IsInitialized, DriverProofs!RangeEnd,
         DequeDriver!RangeEnd, RingDriver!RangeEnd, DriverProofs!vars,
         DequeDriver!vars, RingDriver!vars,
         DequeDriver!Ok, RingDriver!Ok, Ok
<1>7. ASSUME IInv, DriverProofs!IInv, [Next]_vars
      PROVE  /\ [DequeDriver!IsErr(answer') =>
                   UNCHANGED <<state, next_id, buffers, pending>>]_(DequeDriver!vars)
             /\ [RingDriver!IsErr(ring_answer') =>
                   UNCHANGED <<state, next_id, buffers, Ring!Pending>>]_(RingDriver!vars)
  BY <1>3, <1>7, DriverProofs!RefusalStep
     DEF DriverProofs!IsErr, DequeDriver!IsErr, RingDriver!IsErr,
         DriverProofs!vars, DequeDriver!vars, RingDriver!vars
<1> QED
  BY InitIInv, NextIInv, <1>1, <1>2, <1>4, <1>6, <1>7, PTL
     DEF Spec, DequePromises, RingPromises,
         DequeDriver!AdmittedRangeInitialized,
         RingDriver!AdmittedRangeInitialized,
         DequeDriver!OnlyAShorterWriteMakesStale,
         RingDriver!OnlyAShorterWriteMakesStale,
         DequeDriver!RefusalChangesNothing, RingDriver!RefusalChangesNothing

=============================================================================
