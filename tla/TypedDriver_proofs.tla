------------------------- MODULE TypedDriver_proofs -------------------------
(***************************************************************************)
(* Proofs about the driver and the typestate wrapper around it, for every  *)
(* capacity, width, set of images and set of commands, and whatever is in  *)
(* the queue a driver is made over.  First the driver: before the device   *)
(* is ready it has admitted nothing, and a pending submission it admitted  *)
(* never names bytes outside its buffer.  Then the wrapper: the            *)
(* compile-time marker is the run-time state, so that the lifecycle checks *)
(* behind it cannot fail; it implements the driver, and so keeps what the  *)
(* driver promises.                                                        *)
(***************************************************************************)
EXTENDS TypedDriver, SequenceTheorems, TLAPS

\* The inductive invariant.  QueuedRangeInBuffer needs the type invariant,
\* which bounds used by the capacity: validation looks at used only.  That the
\* count of the given submissions never exceeds what is pending is needed to
\* tell which one leaves.
IInv == TypeOK /\ OnlyGivenBeforeReady /\ QueuedRangeInBuffer

-----------------------------------------------------------------------------
\* The proofs of the controller, for the one in the driver.
LifecycleProofs == INSTANCE DeviceController_proofs

\* The controller is a DeviceController: what is proved of its steps there
\* holds of the calls the driver makes.
LEMMA ControllerTyped ==
  ASSUME Controller!TypeOK, Controller!Next
  PROVE  Controller!TypeOK'
<1>1. LifecycleProofs!TypeOK
  BY DEF Controller!TypeOK, Controller!IsDeviceState, Controller!Offline,
         Controller!FirmwareLoaded, Controller!Ready, Controller!FirmwareInfo,
         LifecycleProofs!TypeOK, LifecycleProofs!IsDeviceState, LifecycleProofs!Offline,
         LifecycleProofs!FirmwareLoaded, LifecycleProofs!Ready, LifecycleProofs!FirmwareInfo
<1>2. LifecycleProofs!Next
  BY DEF Controller!Next, Controller!LoadFirmware, Controller!Start, Controller!EnsureReady,
         Controller!Reset, Controller!Refuse, Controller!CheckImage, Controller!Started,
         Controller!IsOffline, Controller!IsReady, Controller!Offline,
         Controller!FirmwareLoaded, Controller!Ready, Controller!Ok, Controller!Err,
         LifecycleProofs!Next, LifecycleProofs!LoadFirmware, LifecycleProofs!Start, LifecycleProofs!EnsureReady,
         LifecycleProofs!Reset, LifecycleProofs!Refuse, LifecycleProofs!CheckImage, LifecycleProofs!Started,
         LifecycleProofs!IsOffline, LifecycleProofs!IsReady, LifecycleProofs!Offline,
         LifecycleProofs!FirmwareLoaded, LifecycleProofs!Ready, LifecycleProofs!Ok, LifecycleProofs!Err
<1>3. LifecycleProofs!TypeOK'
  BY <1>1, <1>2, InputAssumption, LifecycleProofs!NextTyped
<1> QED
  BY <1>3
     DEF Controller!TypeOK, Controller!IsDeviceState, Controller!Offline,
         Controller!FirmwareLoaded, Controller!Ready, Controller!FirmwareInfo,
         LifecycleProofs!TypeOK, LifecycleProofs!IsDeviceState, LifecycleProofs!Offline,
         LifecycleProofs!FirmwareLoaded, LifecycleProofs!Ready, LifecycleProofs!FirmwareInfo

-----------------------------------------------------------------------------
\* No call of the driver takes a buffer away or changes its capacity.
BuffersStay ==
  /\ DOMAIN buffers \subseteq DOMAIN buffers'
  /\ \A id \in DOMAIN buffers : buffers'[id].capacity = buffers[id].capacity

\* An allocation keeps the buffer table well formed.
LEMMA AllocateTyped ==
  ASSUME Device!TypeOK, NEW c \in Capacities, Device!AllocateBuffer(c)
  PROVE  Device!TypeOK' /\ BuffersStay
<1>1. CASE UNCHANGED device
  BY <1>1 DEF device, Device!TypeOK, Device!IsGpuBuffer, BuffersStay
<1>2. CASE ~UNCHANGED device
  <2> DEFINE b == [storage |-> [i \in 0 .. c-1 |-> Zero], used |-> 0, capacity |-> c]
  <2>1. /\ c # 0
        /\ next_id' \in Device!CheckedNext
        /\ buffers' = Device!Insert(next_id, b)
    BY <1>2 DEF Device!AllocateBuffer, Device!Refuse, device
  <2>2. next_id' = next_id + 1 /\ next_id # MaxId
    BY <2>1 DEF Device!CheckedNext
  <2>3. next_id \in 0 .. MaxId /\ next_id' \in 0 .. MaxId
    BY <2>2, WidthAssumption DEF Device!TypeOK
  <2>4. buffers' = [k \in DOMAIN buffers \cup {next_id} |->
                      IF k = next_id THEN b ELSE buffers[k]]
    BY <2>1 DEF Device!Insert
  <2>5. Device!IsGpuBuffer(b)
    BY <2>1, InputAssumption, WidthAssumption, ByteAssumption DEF Device!IsGpuBuffer
  <2> HIDE DEF b
  <2>6. next_id \notin DOMAIN buffers
    BY <2>3, WidthAssumption DEF Device!TypeOK
  <2>7. ASSUME NEW k \in DOMAIN buffers' PROVE Device!IsGpuBuffer(buffers'[k])
    BY <2>4, <2>5 DEF Device!TypeOK
  <2>8. \A k \in DOMAIN buffers' : Device!IsGpuBuffer(buffers[k])'
    BY <2>7 DEF Device!IsGpuBuffer
  <2>9. DOMAIN buffers' \subseteq 0 .. next_id'-1
    BY <2>2, <2>3, <2>4 DEF Device!TypeOK
  <2>10. BuffersStay
    BY <2>4, <2>6 DEF BuffersStay
  <2> QED
    BY <2>3, <2>8, <2>9, <2>10 DEF Device!TypeOK
<1> QED
  BY <1>1, <1>2

\* A write keeps the buffer table well formed.
LEMMA WriteTyped ==
  ASSUME Device!TypeOK, NEW id, NEW n \in Lengths, NEW v \in Byte,
         Device!WriteBuffer(id, n, v)
  PROVE  Device!TypeOK' /\ BuffersStay
<1>1. CASE UNCHANGED device
  BY <1>1 DEF device, Device!TypeOK, Device!IsGpuBuffer, BuffersStay
<1>2. CASE ~UNCHANGED device
  <2> DEFINE old == buffers[id]
             new == [storage |-> Device!Overwrite(old.storage, 0, n, v),
                     used |-> n, capacity |-> old.capacity]
  <2>1. /\ id \in DOMAIN buffers
        /\ ~Device!Exceeds(n, old.capacity)
        /\ buffers' = [buffers EXCEPT ![id] = new]
        /\ UNCHANGED next_id
    BY <1>2 DEF Device!WriteBuffer, Device!Refuse, Device!Known, Device!Update, device
  <2>2. Device!IsGpuBuffer(old)
    BY <2>1 DEF Device!TypeOK
  <2>3. n \in 0 .. old.capacity
    BY <2>1, <2>2, InputAssumption, WidthAssumption DEF Device!Exceeds, Device!IsGpuBuffer
  <2>4. Device!IsGpuBuffer(new)
    BY <2>2, <2>3 DEF Device!IsGpuBuffer, Device!Overwrite
  <2>5. new.capacity = old.capacity
    OBVIOUS
  <2> HIDE DEF new
  <2>6. ASSUME NEW k \in DOMAIN buffers' PROVE Device!IsGpuBuffer(buffers'[k])
    BY <2>1, <2>4 DEF Device!TypeOK
  <2>7. \A k \in DOMAIN buffers' : Device!IsGpuBuffer(buffers[k])'
    BY <2>6 DEF Device!IsGpuBuffer
  <2>8. BuffersStay
    BY <2>1, <2>5 DEF BuffersStay
  <2> QED
    BY <2>1, <2>7, <2>8 DEF Device!TypeOK
<1> QED
  BY <1>1, <1>2

-----------------------------------------------------------------------------
\* What validation establishes: the submission is well typed, and every byte
\* it names is initialized, in exact arithmetic.
LEMMA ValidSubmission ==
  ASSUME Device!TypeOK, NEW id \in 0 .. MaxId, NEW raw \in RawCommands,
         Validation!SubmissionVerdict(buffers, id, raw) = "Valid"
  PROVE  LET s == Validation!Submission(id, raw)
         IN  /\ s \in Validation!ValidatedSubmission
             /\ IsInitialized(s)
             /\ s.buffer_id \in DOMAIN buffers
             /\ RangeEnd(s) <= buffers[s.buffer_id].capacity
<1> DEFINE s == Validation!Submission(id, raw)
<1>1. raw \in [id : 0 .. MaxCommand, offset : 0 .. UsizeMax,
               length : 0 .. UsizeMax, priority : 0 .. 255]
  BY InputAssumption DEF Validation!RawCommand
<1>2. Validation!CommandVerdict(raw) = "Valid"
  BY DEF Validation!SubmissionVerdict
<1>3. /\ raw.id \in Validation!CommandId
      /\ raw.length # 0
      /\ raw.priority \in Validation!Priority
      /\ ~Validation!RangeOverflows(raw)
  BY <1>2 DEF Validation!CommandVerdict, Validation!RangeVerdict
<1>4. /\ id \in DOMAIN buffers
      /\ ~(Validation!End(raw) > buffers[id].used)
  BY <1>2 DEF Validation!SubmissionVerdict, Validation!InitializedLen
<1>5. s = [id |-> raw.id, buffer_id |-> id,
           offset |-> raw.offset, length |-> raw.length, priority |-> raw.priority]
  BY DEF Validation!Submission
<1>6. s \in Validation!ValidatedSubmission
  BY <1>1, <1>3, <1>5, WidthAssumption DEF Validation!ValidatedSubmission
<1>7. raw.offset + raw.length \in 0 .. UsizeMax
  BY <1>1, <1>3, WidthAssumption DEF Validation!RangeOverflows
<1>8. Validation!End(raw) = raw.offset + raw.length
  BY <1>7, WidthAssumption DEF Validation!End
<1>9. buffers[id].used \in Int /\ buffers[id].capacity \in Int
      /\ buffers[id].used <= buffers[id].capacity
  BY <1>4, WidthAssumption DEF Device!TypeOK, Device!IsGpuBuffer
<1> HIDE DEF s
<1>10. s.buffer_id = id /\ RangeEnd(s) = raw.offset + raw.length
  BY <1>5 DEF RangeEnd
<1>11. /\ IsInitialized(s)
       /\ s.buffer_id \in DOMAIN buffers
       /\ RangeEnd(s) <= buffers[s.buffer_id].capacity
  BY <1>4, <1>7, <1>8, <1>9, <1>10 DEF IsInitialized
<1> QED
  BY <1>6, <1>11 DEF s

-----------------------------------------------------------------------------
(* The steps of the driver are of five kinds.                              *)

\* A refused call, a peek or an observation.
Idle == UNCHANGED <<state, next_id, buffers, queue, given>>

\* A firmware load or a start.
Lifecycle ==
  /\ Start \/ \E image \in Images : LoadFirmware(image)
  /\ UNCHANGED <<next_id, buffers, queue, given>>

\* An allocation or a write on a device that is ready.
Memory ==
  /\ Controller!IsReady
  /\ Device!TypeOK' /\ BuffersStay
  /\ UNCHANGED <<state, queue, given>>

\* A submission that the validation and the queue accepted.
Accepted(s) ==
  /\ Controller!IsReady
  /\ s \in Validation!ValidatedSubmission
  /\ IsInitialized(s)
  /\ s.buffer_id \in DOMAIN buffers
  /\ RangeEnd(s) <= buffers[s.buffer_id].capacity
  /\ Len(queue) # QueueCapacity
  /\ queue' = Append(queue, s)
  /\ UNCHANGED <<state, next_id, buffers, given>>

\* The oldest submission leaves, one that was given while there is one.
Taken ==
  /\ queue # << >>
  /\ queue' = Tail(queue)
  /\ given' = GivenAfterTake
  /\ UNCHANGED <<state, next_id, buffers>>

\* A submission is refused, or accepted with all that validation establishes.
LEMMA SubmitKind ==
  ASSUME IInv, NEW id \in 0 .. MaxId, NEW raw \in RawCommands, Submit(id, raw)
  PROVE  Idle \/ \E s : Accepted(s)
<1> DEFINE s == Validation!Submission(id, raw)
           verdict == Validation!SubmissionVerdict(buffers, id, raw)
<1>1. CASE verdict = "Valid" /\ Controller!IsReady /\ Queue!EnqueueAccept(s)
              /\ UNCHANGED <<state, next_id, buffers, given>>
  <2>1. /\ s \in Validation!ValidatedSubmission
        /\ IsInitialized(s)
        /\ s.buffer_id \in DOMAIN buffers
        /\ RangeEnd(s) <= buffers[s.buffer_id].capacity
    BY <1>1, ValidSubmission DEF IInv, TypeOK
  <2> QED
    BY <1>1, <2>1 DEF Queue!EnqueueAccept, Accepted
<1>2. CASE ~(verdict = "Valid" /\ Controller!IsReady /\ Queue!EnqueueAccept(s)
               /\ UNCHANGED <<state, next_id, buffers, given>>)
  BY <1>2 DEF Submit, NotReady, Controller!EnsureReady, Controller!Refuse,
     Queue!Enqueue, Queue!EnqueueDuplicate, Queue!EnqueueFull, Idle
<1> QED
  BY <1>1, <1>2

\* Every step is of one of the kinds.
LEMMA StepKinds ==
  ASSUME IInv, Next
  PROVE  Idle \/ Lifecycle \/ Memory \/ (\E s : Accepted(s)) \/ Taken
<1> USE DEF IInv, TypeOK
<1>1. CASE Start
  BY <1>1 DEF Start, Lifecycle
<1>2. ASSUME NEW image \in Images, LoadFirmware(image) PROVE Lifecycle
  BY <1>2 DEF LoadFirmware, Lifecycle
<1>3. ASSUME NotReady PROVE Idle
  BY <1>3 DEF NotReady, Controller!EnsureReady, Controller!Refuse, Idle
<1>4. ASSUME NEW c \in Capacities, AllocateBuffer(c) PROVE Idle \/ Memory
  BY <1>3, <1>4, AllocateTyped DEF AllocateBuffer, Memory
<1>5. ASSUME NEW id, NEW n \in Lengths, NEW b \in Byte, WriteBuffer(id, n, b)
      PROVE  Idle \/ Memory
  BY <1>3, <1>5, WriteTyped DEF WriteBuffer, Memory
<1>6. ASSUME NEW id \in 0 .. MaxId, NEW raw \in RawCommands, Submit(id, raw)
      PROVE  Idle \/ \E s : Accepted(s)
  BY <1>6, SubmitKind
<1>7. CASE NextSubmission
  <2>1. CASE queue # << >>
    BY <1>7, <2>1 DEF NextSubmission, Queue!Dequeue, Taken
  <2>2. CASE queue = << >>
    <3>1. given = 0
      BY <2>2, EmptySeq
    <3> QED
      BY <1>7, <2>2, <3>1 DEF NextSubmission, Queue!Dequeue, GivenAfterTake, Idle
  <2> QED
    BY <2>1, <2>2
<1>8. CASE PeekSubmission \/ ObserveQueue
  BY <1>8 DEF PeekSubmission, ObserveQueue, Queue!Peek, Queue!Observe, Idle
<1> QED
  BY <1>1, <1>2, <1>4, <1>5, <1>6, <1>7, <1>8 DEF Next, Device!BufferId

-----------------------------------------------------------------------------
\* The initial state satisfies the invariant, whatever the driver is given.
LEMMA InitIInv == Init => IInv
<1> SUFFICES ASSUME Init PROVE IInv
  OBVIOUS
<1>1. /\ state = [kind |-> "Offline"]
      /\ next_id = 0 /\ DOMAIN buffers = {}
      /\ queue \in Seq(Validation!ValidatedSubmission) /\ Len(queue) <= QueueCapacity
      /\ given = Len(queue)
  BY GivenAssumption DEF Init, Controller!Init, Controller!Offline, Device!Init
<1>2. Controller!TypeOK
  BY <1>1 DEF Controller!TypeOK, Controller!IsDeviceState, Controller!Offline
<1>3. Device!TypeOK
  BY <1>1, WidthAssumption DEF Device!TypeOK
<1>4. Queue!TypeOK
  BY <1>1 DEF Queue!TypeOK
<1>5. given \in 0 .. Len(queue) /\ Own = {}
  BY <1>1, LenProperties DEF Own
<1> QED
  BY <1>1, <1>2, <1>3, <1>4, <1>5
     DEF IInv, TypeOK, OnlyGivenBeforeReady, QueuedRangeInBuffer

\* The submissions of a queue a step left alone stay inside their buffers
\* when the buffers stay.
LEMMA RangesStay ==
  ASSUME QueuedRangeInBuffer, queue' = queue, given' = given, BuffersStay
  PROVE  QueuedRangeInBuffer'
BY DEF QueuedRangeInBuffer, Own, BuffersStay, RangeEnd

\* An accepted submission keeps the invariant.
LEMMA AcceptedIInv ==
  ASSUME IInv, NEW s, Accepted(s)
  PROVE  IInv'
<1>1. queue \in Seq(Validation!ValidatedSubmission) /\ Len(queue) \in Nat
      /\ Len(queue) <= QueueCapacity
  BY LenProperties DEF IInv, TypeOK, Queue!TypeOK
<1>2. /\ queue' \in Seq(Validation!ValidatedSubmission)
      /\ Len(queue') = Len(queue) + 1
      /\ \A i \in 1 .. Len(queue) : queue'[i] = queue[i]
      /\ queue'[Len(queue) + 1] = s
  BY <1>1, AppendProperties DEF Accepted
<1>3. /\ given \in 0 .. Len(queue) /\ given' = given
      /\ Own' = Own \cup {Len(queue) + 1} /\ Own \subseteq 1 .. Len(queue)
  BY <1>1, <1>2 DEF IInv, TypeOK, Own, Accepted
<1>4. Queue!TypeOK' /\ given' \in 0 .. Len(queue')
  BY <1>1, <1>2, <1>3, WidthAssumption DEF Queue!TypeOK, Accepted
<1>5. Controller!TypeOK'
  BY DEF IInv, TypeOK, Controller!TypeOK, Controller!IsDeviceState, Controller!Offline,
         Controller!FirmwareLoaded, Controller!Ready, Accepted
<1>6. Device!TypeOK'
  BY DEF IInv, TypeOK, Device!TypeOK, Device!IsGpuBuffer, Accepted
<1>7. OnlyGivenBeforeReady'
  BY DEF OnlyGivenBeforeReady, Controller!IsReady, Accepted
<1>8. ASSUME NEW i \in Own'
      PROVE  /\ queue'[i].buffer_id \in DOMAIN buffers
             /\ RangeEnd(queue'[i]) <= buffers[queue'[i].buffer_id].capacity
  <2>1. CASE i = Len(queue) + 1
    BY <1>2, <2>1 DEF Accepted
  <2>2. CASE i \in Own
    BY <1>2, <1>3, <2>2 DEF IInv, QueuedRangeInBuffer
  <2> QED
    BY <1>3, <2>1, <2>2
<1>9. QueuedRangeInBuffer'
  BY <1>8 DEF QueuedRangeInBuffer, RangeEnd, Accepted
<1> QED
  BY <1>4, <1>5, <1>6, <1>7, <1>9 DEF IInv, TypeOK

\* Taking the oldest submission keeps the invariant.
LEMMA TakenIInv ==
  ASSUME IInv, Taken
  PROVE  IInv'
<1>1. queue \in Seq(Validation!ValidatedSubmission) /\ Len(queue) <= QueueCapacity
      /\ queue # << >>
  BY DEF IInv, TypeOK, Queue!TypeOK, Taken
<1>2. /\ queue' \in Seq(Validation!ValidatedSubmission)
      /\ Len(queue') = Len(queue) - 1
      /\ \A i \in 1 .. Len(queue') : queue'[i] = queue[i+1]
  BY <1>1, HeadTailProperties DEF Taken
<1>3. Len(queue) \in Nat \ {0}
  BY <1>1, LenProperties, EmptySeq
<1>4. /\ given \in 0 .. Len(queue)
      /\ given' = IF given > 0 THEN given - 1 ELSE 0
  BY DEF IInv, TypeOK, Taken, GivenAfterTake
<1>5. Queue!TypeOK' /\ given' \in 0 .. Len(queue')
  BY <1>1, <1>2, <1>3, <1>4, WidthAssumption DEF Queue!TypeOK
<1>6. Controller!TypeOK'
  BY DEF IInv, TypeOK, Controller!TypeOK, Controller!IsDeviceState, Controller!Offline,
         Controller!FirmwareLoaded, Controller!Ready, Taken
<1>7. Device!TypeOK'
  BY DEF IInv, TypeOK, Device!TypeOK, Device!IsGpuBuffer, Taken
<1>8. OnlyGivenBeforeReady'
  <2>1. Len(queue) = given => Len(queue') = given'
    BY <1>2, <1>3, <1>4
  <2>2. state' = state /\ DOMAIN buffers' = DOMAIN buffers
    BY DEF Taken
  <2> QED
    BY <2>1, <2>2 DEF IInv, OnlyGivenBeforeReady
<1>9. ASSUME NEW i \in Own'
      PROVE  /\ queue'[i].buffer_id \in DOMAIN buffers
             /\ RangeEnd(queue'[i]) <= buffers[queue'[i].buffer_id].capacity
  <2>1. i + 1 \in Own /\ queue'[i] = queue[i+1]
    BY <1>2, <1>3, <1>4 DEF Own
  <2> QED
    BY <2>1 DEF IInv, QueuedRangeInBuffer
<1>10. QueuedRangeInBuffer'
  BY <1>9 DEF QueuedRangeInBuffer, RangeEnd, Taken
<1> QED
  BY <1>5, <1>6, <1>7, <1>8, <1>10 DEF IInv, TypeOK

\* A firmware load or a start keeps the invariant: neither admits anything,
\* and neither leaves the state Ready.
LEMMA LifecycleIInv ==
  ASSUME IInv, Lifecycle
  PROVE  IInv'
<1>1. Controller!TypeOK'
  BY ControllerTyped DEF IInv, TypeOK, Lifecycle, Start, LoadFirmware, Controller!Next
<1>2. Device!TypeOK' /\ Queue!TypeOK' /\ given' \in 0 .. Len(queue')
  BY DEF IInv, TypeOK, Device!TypeOK, Device!IsGpuBuffer, Queue!TypeOK, Lifecycle
<1>3. state.kind = "Ready" => state'.kind = "Ready"
  <2>1. CASE Start
    BY <2>1 DEF Start, Controller!Start, Controller!Started
  <2>2. ASSUME NEW image \in Images, LoadFirmware(image)
        PROVE  state.kind = "Ready" => state' = state
    BY <2>2 DEF LoadFirmware, Controller!LoadFirmware, Controller!Refuse,
                Controller!IsOffline
  <2> QED
    BY <2>1, <2>2 DEF Lifecycle
<1>4. OnlyGivenBeforeReady'
  BY <1>3 DEF IInv, OnlyGivenBeforeReady, Lifecycle
<1>5. QueuedRangeInBuffer'
  BY DEF IInv, QueuedRangeInBuffer, Own, RangeEnd, Lifecycle
<1> QED
  BY <1>1, <1>2, <1>4, <1>5 DEF IInv, TypeOK

\* Every step keeps the invariant.
LEMMA NextIInv == IInv /\ [Next]_vars => IInv'
<1> SUFFICES ASSUME IInv, [Next]_vars PROVE IInv'
  OBVIOUS
<1>1. CASE Idle
  BY <1>1 DEF Idle, IInv, TypeOK, Controller!TypeOK, Controller!IsDeviceState,
              Controller!Offline, Controller!FirmwareLoaded, Controller!Ready,
              Device!TypeOK, Device!IsGpuBuffer, Queue!TypeOK,
              OnlyGivenBeforeReady, QueuedRangeInBuffer, Own, RangeEnd
<1>2. CASE Lifecycle
  BY <1>2, LifecycleIInv
<1>3. CASE Memory
  <2>1. Controller!TypeOK' /\ Queue!TypeOK' /\ given' \in 0 .. Len(queue')
    BY <1>3 DEF Memory, IInv, TypeOK, Controller!TypeOK, Controller!IsDeviceState,
                Controller!Offline, Controller!FirmwareLoaded, Controller!Ready,
                Queue!TypeOK
  <2>2. Device!TypeOK' /\ OnlyGivenBeforeReady'
    BY <1>3 DEF Memory, OnlyGivenBeforeReady, Controller!IsReady
  <2>3. QueuedRangeInBuffer'
    BY <1>3, RangesStay DEF Memory, IInv
  <2> QED
    BY <2>1, <2>2, <2>3 DEF IInv, TypeOK
<1>4. ASSUME NEW s, Accepted(s) PROVE IInv'
  BY <1>4, AcceptedIInv
<1>5. CASE Taken
  BY <1>5, TakenIInv
<1>6. CASE UNCHANGED vars
  BY <1>1, <1>6 DEF vars, Idle
<1> QED
  BY <1>1, <1>2, <1>3, <1>4, <1>5, <1>6, StepKinds

-----------------------------------------------------------------------------
\* Until the device is ready the driver has no buffer and nothing pending but
\* what it was given, and a pending submission it admitted names bytes inside
\* a buffer that exists, in every state of every driver over every queue.
THEOREM Invariance == Spec => [](TypeOK /\ OnlyGivenBeforeReady /\ QueuedRangeInBuffer)
<1>1. IInv => TypeOK /\ OnlyGivenBeforeReady /\ QueuedRangeInBuffer
  BY DEF IInv
<1> QED
  BY InitIInv, NextIInv, <1>1, PTL DEF Spec

\* The parts of a driver stay well formed behind its interface.
THEOREM TypeCorrect == Spec => []TypeOK
BY Invariance, PTL

\* What next_submission can hand out before the device is ready, the driver
\* was given: it needs no check of the lifecycle for what it admits itself.
THEOREM OnlyGivenUntilReady == Spec => []OnlyGivenBeforeReady
BY Invariance, PTL

\* A submission that enters the queue is one the validation accepted.
LEMMA AdmissionStep ==
  ASSUME IInv, [Next]_vars
  PROVE  [\A s \in Queued' \ Queued : IsInitialized(s)]_vars
<1> SUFFICES ASSUME Next, NEW s \in Queued' \ Queued PROVE IsInitialized(s)
  OBVIOUS
<1>1. queue \in Seq(Validation!ValidatedSubmission)
  BY DEF IInv, TypeOK, Queue!TypeOK
<1>2. CASE queue' = queue
  BY <1>2 DEF Queued
<1>3. ASSUME NEW x, Accepted(x) PROVE IsInitialized(s)
  <2>1. /\ x \in Validation!ValidatedSubmission
        /\ IsInitialized(x)
        /\ queue' = Append(queue, x)
    BY <1>3 DEF Accepted
  <2>2. /\ queue' \in Seq(Validation!ValidatedSubmission)
        /\ Len(queue') = Len(queue) + 1
        /\ \A i \in 1 .. Len(queue) : queue'[i] = queue[i]
        /\ queue'[Len(queue) + 1] = x
    BY <1>1, <2>1, AppendProperties
  <2>3. DOMAIN queue = 1 .. Len(queue) /\ DOMAIN queue' = 1 .. Len(queue) + 1
        /\ Len(queue) \in Nat
    BY <1>1, <2>2, LenProperties
  <2>4. PICK i \in DOMAIN queue' : s = queue'[i]
    BY DEF Queued
  <2>5. i \notin DOMAIN queue
    BY <2>2, <2>3, <2>4 DEF Queued
  <2>6. s = x
    BY <2>2, <2>3, <2>4, <2>5
  <2> QED
    BY <2>1, <2>6
<1>4. CASE Taken
  <2>1. /\ queue' \in Seq(Validation!ValidatedSubmission)
        /\ Len(queue') = Len(queue) - 1
        /\ \A i \in 1 .. Len(queue') : queue'[i] = queue[i+1]
    BY <1>1, <1>4, HeadTailProperties DEF Taken
  <2>2. DOMAIN queue = 1 .. Len(queue) /\ DOMAIN queue' = 1 .. Len(queue) - 1
    BY <1>1, <2>1, LenProperties
  <2>3. PICK i \in DOMAIN queue' : s = queue'[i]
    BY DEF Queued
  <2>4. i + 1 \in DOMAIN queue /\ s = queue[i+1]
    BY <1>1, <2>1, <2>2, <2>3, LenProperties
  <2> QED
    BY <2>4 DEF Queued
<1> QED
  BY <1>2, <1>3, <1>4, StepKinds DEF Idle, Lifecycle, Memory

\* Validation admits initialized bytes only: the sum it compares with the
\* initialized length has not wrapped around, whatever the width of usize.
THEOREM Admission == Spec => AdmittedRangeInitialized
BY InitIInv, NextIInv, AdmissionStep, PTL DEF Spec, AdmittedRangeInitialized

\* Every part asks before it writes.
LEMMA RefusalStep ==
  ASSUME [Next]_vars
  PROVE  [IsErr(answer') => UNCHANGED <<state, next_id, buffers, queue>>]_vars
<1> SUFFICES ASSUME Next, IsErr(answer')
             PROVE  UNCHANGED <<state, next_id, buffers, queue>>
  OBVIOUS
<1> USE DEF IsErr
<1>1. CASE Start
  BY <1>1 DEF Start, Controller!Start, Controller!Started, Controller!Ok
<1>2. ASSUME NEW image \in Images, LoadFirmware(image)
      PROVE  UNCHANGED <<state, next_id, buffers, queue>>
  BY <1>2 DEF LoadFirmware, Controller!LoadFirmware, Controller!Refuse,
                    Controller!Ok
<1>3. ASSUME NotReady PROVE UNCHANGED <<state, next_id, buffers, queue>>
  BY <1>3 DEF NotReady, Controller!EnsureReady, Controller!Refuse
<1>4. ASSUME NEW c \in Capacities, AllocateBuffer(c)
      PROVE  UNCHANGED <<state, next_id, buffers, queue>>
  BY <1>3, <1>4 DEF AllocateBuffer, Device!AllocateBuffer, Device!Refuse
<1>5. ASSUME NEW id, NEW n, NEW b, WriteBuffer(id, n, b)
      PROVE  UNCHANGED <<state, next_id, buffers, queue>>
  BY <1>3, <1>5 DEF WriteBuffer, Device!WriteBuffer, Device!Refuse, Device!Ok
<1>6. ASSUME NEW id, NEW raw, Submit(id, raw)
      PROVE  UNCHANGED <<state, next_id, buffers, queue>>
  BY <1>3, <1>6 DEF Submit, Queue!Enqueue, Queue!EnqueueDuplicate,
                          Queue!EnqueueFull, Queue!EnqueueAccept, Queue!Ok
<1>7. CASE NextSubmission
  <2>1. \A x : ~IsErr(Queue!Some(x))
    BY DEF Queue!Some
  <2>2. queue' = queue
    BY <1>7, <2>1 DEF NextSubmission, Queue!Dequeue
  <2> QED
    BY <1>7, <2>2 DEF NextSubmission
<1>8. CASE PeekSubmission \/ ObserveQueue
  BY <1>8 DEF PeekSubmission, ObserveQueue, Queue!Peek, Queue!Observe
<1> QED
  BY <1>1, <1>2, <1>4, <1>5, <1>6, <1>7, <1>8 DEF Next

\* A call that returns an error leaves the controller, the buffers and the
\* queue as they were.
THEOREM Refusal == Spec => RefusalChangesNothing
BY RefusalStep, PTL DEF Spec, RefusalChangesNothing

\* The one call that shortens what is initialized of a buffer.
LEMMA StaleOnlyByWrite ==
  ASSUME IInv, Next, NEW s \in Queued \cap Queued',
         IsInitialized(s), ~IsInitialized(s)'
  PROVE  /\ answer' = Ok
         /\ s.buffer_id \in DOMAIN buffers'
         /\ buffers'[s.buffer_id].used < buffers[s.buffer_id].used
         /\ UNCHANGED <<next_id, queue>>
           /\ UNCHANGED <<next_id, queue>>
<1> DEFINE k == s.buffer_id
<1>1. s.offset \in Int /\ s.length \in Int
  <2>1. PICK i \in DOMAIN queue : s = queue[i]
    BY DEF Queued
  <2>2. s \in Validation!ValidatedSubmission
    BY <2>1, ElementOfSeq, LenProperties DEF IInv, TypeOK, Queue!TypeOK
  <2> QED
    BY <2>2, WidthAssumption DEF Validation!ValidatedSubmission
<1>2. k \in DOMAIN buffers /\ RangeEnd(s) <= buffers[k].used
  BY DEF IsInitialized
<1>3. ~(k \in DOMAIN buffers' /\ RangeEnd(s) <= buffers'[k].used)
  BY DEF IsInitialized, RangeEnd
<1>4. Device!IsGpuBuffer(buffers[k]) /\ buffers[k].used \in Int
  BY <1>2, WidthAssumption DEF IInv, TypeOK, Device!TypeOK, Device!IsGpuBuffer
<1>5. buffers' # buffers
  BY <1>2, <1>3
<1>6. ASSUME NEW c \in Capacities, AllocateBuffer(c) PROVE FALSE
  <2>1. /\ next_id' \in Device!CheckedNext
        /\ \E b : buffers' = Device!Insert(next_id, b)
    BY <1>5, <1>6 DEF AllocateBuffer, NotReady, Device!AllocateBuffer, Device!Refuse
  <2>2. next_id \notin DOMAIN buffers
    BY WidthAssumption DEF IInv, TypeOK, Device!TypeOK
  <2>3. k \in DOMAIN buffers' /\ buffers'[k] = buffers[k]
    BY <1>2, <2>1, <2>2 DEF Device!Insert
  <2> QED
    BY <1>2, <1>3, <2>3
<1>7. ASSUME NEW id, NEW n \in Lengths, NEW b, WriteBuffer(id, n, b)
      PROVE  /\ answer' = Ok
             /\ k \in DOMAIN buffers'
             /\ buffers'[k].used < buffers[k].used
             /\ UNCHANGED <<next_id, queue>>
  <2>1. /\ answer' = Device!Ok
        /\ Device!Update(id, Device!Overwrite(buffers[id].storage, 0, n, b), n)
        /\ id \in DOMAIN buffers
        /\ UNCHANGED <<next_id, queue>>
    BY <1>5, <1>7 DEF WriteBuffer, NotReady, Device!WriteBuffer, Device!Refuse, Device!Known
  <2>2. k \in DOMAIN buffers' /\ (k # id => buffers'[k] = buffers[k])
        /\ (k = id => buffers'[k].used = n)
    BY <1>2, <2>1 DEF Device!Update
  <2>3. k = id /\ buffers'[k].used = n /\ n \in Int
    BY <1>2, <1>3, <2>2, InputAssumption, WidthAssumption
  <2>4. n < buffers[k].used
    BY <1>1, <1>2, <1>3, <1>4, <2>2, <2>3 DEF RangeEnd
  <2> QED
    BY <2>1, <2>2, <2>3, <2>4 DEF Ok, Device!Ok
<1>8. ASSUME \/ Start
             \/ \E image \in Images : LoadFirmware(image)
             \/ \E id, raw : Submit(id, raw)
             \/ NextSubmission \/ PeekSubmission \/ ObserveQueue
      PROVE  FALSE
  BY <1>5, <1>8 DEF Start, LoadFirmware, Submit, NotReady, NextSubmission,
                    PeekSubmission, ObserveQueue
<1> QED
  BY <1>6, <1>7, <1>8 DEF Next

\* What takes the data of a pending submission away is a shorter write to its
\* own buffer, and nothing else.
THEOREM Staleness == Spec => OnlyAShorterWriteMakesStale
<1>1. ASSUME IInv, [Next]_vars
      PROVE  [\A s \in Queued \cap Queued' :
                IsInitialized(s) /\ ~IsInitialized(s)' =>
                  /\ answer' = Ok
                  /\ s.buffer_id \in DOMAIN buffers'
                  /\ buffers'[s.buffer_id].used < buffers[s.buffer_id].used
                  /\ UNCHANGED <<next_id, queue>>]_vars
  BY <1>1, StaleOnlyByWrite
<1> QED
  BY <1>1, InitIInv, NextIInv, PTL DEF Spec, OnlyAShorterWriteMakesStale

-----------------------------------------------------------------------------
(* The wrapper.                                                            *)

\* The inductive invariant.  Who holds the driver matters: a session can
\* submit whatever the marker, so it has to be known that it began on a
\* ready driver.
TypedIInv ==
  /\ MarkerMatchesRuntime
  /\ marker \in DriverState
  /\ holder \in {"client", "error", "session"}
  /\ holder = "session" => marker = "Ready"
  /\ holder = "error" => marker # "Ready"
  /\ answer # Err("InvalidState")

-----------------------------------------------------------------------------
\* What a call of the driver does to the lifecycle state, as the wrapper
\* sees it.

\* A firmware load that returns an error keeps the state, any other makes it
\* FirmwareLoaded.
LEMMA LoadFirmwareKind ==
  ASSUME NEW image, LoadFirmware(image), state.kind = "Offline"
  PROVE  /\ IsErr(answer') => UNCHANGED state
         /\ ~IsErr(answer') => state'.kind = "FirmwareLoaded"
         /\ answer' # Err("InvalidState")
         /\ UNCHANGED <<next_id, buffers, queue>>
BY DEF LoadFirmware, Controller!LoadFirmware, Controller!IsOffline,
       Controller!Refuse, Controller!FirmwareLoaded, Controller!Err,
       Controller!Ok, IsErr, Err, Controller!CheckImage

\* A start of a driver with firmware makes it ready.
LEMMA StartKind ==
  ASSUME Start, state.kind = "FirmwareLoaded"
  PROVE  /\ ~IsErr(answer')
         /\ state'.kind = "Ready"
         /\ UNCHANGED <<next_id, buffers, queue>>
BY DEF Start, Controller!Start, Controller!Started,
       Controller!Ready, Controller!Ok, IsErr

\* A refusal of the validation is not one of the lifecycle.
LEMMA VerdictKind ==
  ASSUME NEW table, NEW id, NEW raw
  PROVE  Validation!SubmissionVerdict(table, id, raw) # "InvalidState"
BY DEF Validation!SubmissionVerdict, Validation!CommandVerdict,
       Validation!RangeVerdict

\* The calls of the wrapper that need a ready device, on one that is.
OperationalCall ==
  \/ \E c \in Capacities : AllocateBuffer(c)
  \/ \E id \in 0 .. MaxId :
       \/ \E n \in Lengths, b \in Byte : WriteBuffer(id, n, b)
       \/ \E raw \in RawCommands : Submit(id, raw)
  \/ NextSubmission
  \/ PeekSubmission
  \/ ObserveQueue

\* On a ready device such a call keeps the lifecycle state and is not
\* refused because of it.
LEMMA OperationalKind ==
  ASSUME OperationalCall, state.kind = "Ready"
  PROVE  UNCHANGED state /\ answer' # Err("InvalidState")
<1>1. Controller!IsReady /\ ~NotReady
  BY DEF Controller!IsReady, NotReady
<1>2. ASSUME NEW c \in Capacities, AllocateBuffer(c)
      PROVE  UNCHANGED state /\ answer' # Err("InvalidState")
  BY <1>1, <1>2 DEF AllocateBuffer, Device!AllocateBuffer,
                    Device!Refuse, Device!Err, Err
<1>3. ASSUME NEW id, NEW n, NEW b, WriteBuffer(id, n, b)
      PROVE  UNCHANGED state /\ answer' # Err("InvalidState")
  BY <1>1, <1>3 DEF WriteBuffer, Device!WriteBuffer,
                    Device!Refuse, Device!Err, Device!Ok, Err
<1>4. ASSUME NEW id, NEW raw, Submit(id, raw)
      PROVE  UNCHANGED state /\ answer' # Err("InvalidState")
  BY <1>1, <1>4, VerdictKind
     DEF Submit, Queue!Enqueue, Queue!EnqueueDuplicate,
         Queue!EnqueueFull, Queue!EnqueueAccept, Queue!ErrFor,
         Queue!Ok, Err
<1>5. ASSUME NextSubmission \/ PeekSubmission
      PROVE  UNCHANGED state /\ answer' # Err("InvalidState")
  <2>1. \A x : Queue!Some(x) # Err("InvalidState")
    BY DEF Queue!Some, Err
  <2>2. Queue!None # Err("InvalidState")
    BY DEF Queue!None, Err
  <2>3. UNCHANGED state
        /\ (answer' = Queue!None \/ \E x : answer' = Queue!Some(x))
    BY <1>5 DEF NextSubmission, PeekSubmission, Queue!Dequeue,
                Queue!Peek
  <2> QED
    BY <2>1, <2>2, <2>3
<1>6. ASSUME ObserveQueue
      PROVE  UNCHANGED state /\ answer' # Err("InvalidState")
  BY <1>6 DEF ObserveQueue, Queue!Observe, Err
<1> QED
  BY <1>2, <1>3, <1>4, <1>5, <1>6 DEF OperationalCall

-----------------------------------------------------------------------------
(* The steps of the wrapper.                                               *)

\* A transition.
Transitions == TypedStart \/ \E image \in Images : TypedLoadFirmware(image)

\* A call of the inner driver, by the client or by the session.
Calls ==
  /\ OperationalCall
  /\ marker = "Ready" \/ holder = "session"
  /\ UNCHANGED wrapper

\* The driver changes hands and nothing else changes.
Handover == IntoDriver \/ BeginSubmissionSession \/ Finish

\* Every step is of one of the three kinds.
LEMMA TypedStepKinds == TypedNext => Transitions \/ Calls \/ Handover
<1> SUFFICES ASSUME TypedNext PROVE Transitions \/ Calls \/ Handover
  OBVIOUS
<1> USE DEF Calls, OperationalCall, Operational, OperationalState
<1>1. ASSUME NEW c \in Capacities, TypedAllocateBuffer(c) PROVE Calls
  BY <1>1 DEF TypedAllocateBuffer
<1>2. ASSUME NEW id \in 0 .. MaxId, NEW n \in Lengths, NEW b \in Byte,
             TypedWriteBuffer(id, n, b)
      PROVE  Calls
  BY <1>2 DEF TypedWriteBuffer
<1>3. ASSUME NEW id \in 0 .. MaxId, NEW raw \in RawCommands,
             TypedSubmit(id, raw) \/ SessionSubmit(id, raw)
      PROVE  Calls
  BY <1>3 DEF TypedSubmit, SessionSubmit
<1>4. ASSUME TypedNextSubmission \/ TypedPeekSubmission \/ TypedObserveQueue \/ SessionObserve
      PROVE  Calls
  BY <1>4 DEF TypedNextSubmission, TypedPeekSubmission, TypedObserveQueue, SessionObserve
<1> QED
  BY <1>1, <1>2, <1>3, <1>4 DEF TypedNext, Transitions, Handover

\* A transition keeps the invariant, and a failed one keeps the driver.
LEMMA TransitionStep ==
  ASSUME TypedIInv, Transitions
  PROVE  /\ TypedIInv'
         /\ holder = "client"
         /\ holder' = "error" => UNCHANGED <<marker, state, next_id, buffers, queue>>
<1> USE DEF TypedIInv, MarkerMatchesRuntime, DriverState
<1>1. ASSUME NEW image \in Images, TypedLoadFirmware(image)
      PROVE  /\ TypedIInv'
             /\ holder = "client"
             /\ holder' = "error" => UNCHANGED <<marker, state, next_id, buffers, queue>>
  <2>1. /\ IsErr(answer') => UNCHANGED state
        /\ ~IsErr(answer') => state'.kind = "FirmwareLoaded"
        /\ answer' # Err("InvalidState")
        /\ UNCHANGED <<next_id, buffers, queue>>
    BY <1>1, LoadFirmwareKind DEF TypedLoadFirmware
  <2> QED
    BY <1>1, <2>1 DEF TypedLoadFirmware, Transition
<1>2. ASSUME TypedStart
      PROVE  /\ TypedIInv'
             /\ holder = "client"
             /\ holder' = "error" => UNCHANGED <<marker, state, next_id, buffers, queue>>
  <2>1. /\ ~IsErr(answer')
        /\ state'.kind = "Ready"
    BY <1>2, StartKind DEF TypedStart
  <2>2. answer' # Err("InvalidState")
    BY <2>1 DEF IsErr, Err
  <2> QED
    BY <1>2, <2>1, <2>2 DEF TypedStart, Transition
<1> QED
  BY <1>1, <1>2 DEF Transitions

\* Every step keeps the invariant.
LEMMA NextTypedIInv == TypedIInv /\ [TypedNext]_typedVars => TypedIInv'
<1> SUFFICES ASSUME TypedIInv, [TypedNext]_typedVars PROVE TypedIInv'
  OBVIOUS
<1>1. CASE Transitions
  BY <1>1, TransitionStep
<1>2. CASE Calls
  BY <1>2, OperationalKind DEF Calls, TypedIInv, MarkerMatchesRuntime, wrapper
<1>3. CASE Handover
  BY <1>3 DEF Handover, IntoDriver, BeginSubmissionSession, Finish, Operational, OperationalState,
              vars, TypedIInv, MarkerMatchesRuntime
<1>4. CASE UNCHANGED typedVars
  BY <1>4 DEF typedVars, vars, wrapper, TypedIInv, MarkerMatchesRuntime
<1> QED
  BY <1>1, <1>2, <1>3, <1>4, TypedStepKinds

\* The initial state satisfies the invariant.
LEMMA InitTypedIInv == TypedInit => TypedIInv
BY DEF TypedInit, Init, Controller!Init, Controller!Offline,
       Controller!Ok, TypedIInv, MarkerMatchesRuntime, DriverState, Err

-----------------------------------------------------------------------------
\* The compile-time marker equals the run-time state, in every state of
\* every wrapper.
THEOREM Marker == TypedSpec => []MarkerMatchesRuntime
<1>1. TypedIInv => MarkerMatchesRuntime
  BY DEF TypedIInv
<1> QED
  BY InitTypedIInv, NextTypedIInv, <1>1, PTL DEF TypedSpec

\* The lifecycle checks of the driver never refuse a call that compiles.
THEOREM NoInvalidState == TypedSpec => NeverInvalidState
<1>1. TypedIInv' => answer' # Err("InvalidState")
  BY DEF TypedIInv
<1> QED
  BY InitTypedIInv, NextTypedIInv, <1>1, PTL DEF TypedSpec, NeverInvalidState

\* The error of a failed transition holds the driver as it was.
THEOREM Failure == TypedSpec => FailureReturnsOriginal
<1>1. ASSUME TypedIInv, [TypedNext]_typedVars
      PROVE  [holder' = "error" /\ holder # "error" =>
                UNCHANGED <<marker, state, next_id, buffers, queue>>]_typedVars
  <2>1. CASE Transitions
    BY <1>1, <2>1, TransitionStep
  <2>2. CASE Calls
    BY <2>2 DEF Calls, wrapper
  <2>3. CASE Handover
    BY <2>3 DEF Handover, IntoDriver, BeginSubmissionSession, Finish
  <2> QED
    BY <1>1, <2>1, <2>2, <2>3, TypedStepKinds
<1> QED
  BY InitTypedIInv, NextTypedIInv, <1>1, PTL DEF TypedSpec, FailureReturnsOriginal

\* Every step of the wrapper is a step of the driver or changes nothing in it.
LEMMA DriverStep == [TypedNext]_typedVars => [Next]_vars
<1> SUFFICES ASSUME [TypedNext]_typedVars
             PROVE  [Next]_vars
  OBVIOUS
<1>1. CASE Transitions
  BY <1>1 DEF Transitions, TypedStart, TypedLoadFirmware, Next
<1>2. CASE Calls
  BY <1>2 DEF Calls, OperationalCall, Next, Device!BufferId
<1>3. CASE Handover
  BY <1>3 DEF Handover, IntoDriver, BeginSubmissionSession, Finish, vars
<1>4. CASE UNCHANGED typedVars
  BY <1>4 DEF typedVars
<1> QED
  BY <1>1, <1>2, <1>3, <1>4, TypedStepKinds

\* The wrapper adds no behaviour to the driver.
THEOREM Refinement == TypedSpec => ImplementsDriver
<1>1. TypedInit => Init
  BY DEF TypedInit
<1> QED
  BY <1>1, DriverStep, PTL DEF TypedSpec, ImplementsDriver, Spec

-----------------------------------------------------------------------------
\* The wrapper keeps what the types promise: a session borrows ready drivers
\* only, and no ready driver ever sits in a TransitionError, because a failed
\* transition keeps the marker it began with and none begins on a ready one.
THEOREM TypedCorrect == TypedSpec => []TypedOK
<1>1. TypedIInv /\ TypeOK => TypedOK
  BY DEF TypedIInv, TypedOK
<1>2. TypedSpec => []TypeOK
  BY Refinement, TypeCorrect, PTL DEF ImplementsDriver
<1> QED
  BY <1>1, <1>2, InitTypedIInv, NextTypedIInv, PTL DEF TypedSpec

\* Whatever a client of the wrapper does, the driver in it keeps what a driver
\* promises about its buffers and its pending submissions.
THEOREM Inherited ==
  TypedSpec => /\ [](OnlyGivenBeforeReady /\ QueuedRangeInBuffer)
               /\ AdmittedRangeInitialized
               /\ OnlyAShorterWriteMakesStale
               /\ RefusalChangesNothing
BY Refinement, Invariance, Admission, Staleness, Refusal, PTL DEF ImplementsDriver

\* A TransitionError carries no work of its driver: a client who drops it
\* instead of taking the driver back out loses no buffer, and no submission but
\* those in the queue the client handed to new.
THEOREM ErrorsCarryOnlyGiven ==
  TypedSpec => [](holder = "error" => DOMAIN buffers = {} /\ Len(queue) = given)
<1>1. TypedIInv /\ OnlyGivenBeforeReady =>
        (holder = "error" => DOMAIN buffers = {} /\ Len(queue) = given)
  BY DEF TypedIInv, MarkerMatchesRuntime, OnlyGivenBeforeReady
<1> QED
  BY <1>1, InitTypedIInv, NextTypedIInv, Inherited, PTL DEF TypedSpec

\* While a session borrows the driver only its own submissions change it, and
\* they change nothing that is already pending.
THEOREM Session == TypedSpec => SessionOnlyAppends
<1>1. ASSUME IInv, TypedIInv, [TypedNext]_typedVars
      PROVE  [holder = "session" =>
                /\ UNCHANGED <<marker, state, next_id, buffers>>
                /\ Len(queue) <= Len(queue')
                /\ \A i \in 1 .. Len(queue) : queue'[i] = queue[i]]_typedVars
  <2> SUFFICES ASSUME TypedNext, holder = "session"
               PROVE  /\ UNCHANGED <<marker, state, next_id, buffers>>
                      /\ Len(queue) <= Len(queue')
                      /\ \A i \in 1 .. Len(queue) : queue'[i] = queue[i]
    BY <1>1
  <2>1. queue \in Seq(Validation!ValidatedSubmission) /\ Len(queue) \in Nat
    BY <1>1, LenProperties DEF IInv, TypeOK, Queue!TypeOK
  <2>2. CASE Idle /\ UNCHANGED marker
    BY <2>1, <2>2 DEF Idle
  <2>3. ASSUME NEW s, Accepted(s), UNCHANGED marker
        PROVE  /\ UNCHANGED <<marker, state, next_id, buffers>>
               /\ Len(queue) <= Len(queue')
               /\ \A i \in 1 .. Len(queue) : queue'[i] = queue[i]
    BY <2>1, <2>3, AppendProperties DEF Accepted
  <2>4. ASSUME NEW id \in 0 .. MaxId, NEW raw \in RawCommands, SessionSubmit(id, raw)
        PROVE  UNCHANGED marker /\ (Idle \/ \E s : Accepted(s))
    BY <1>1, <2>4, SubmitKind DEF SessionSubmit, wrapper
  <2>5. ASSUME SessionObserve \/ Finish
        PROVE  Idle /\ UNCHANGED marker
    BY <2>5 DEF SessionObserve, ObserveQueue, Queue!Observe, Finish, vars, wrapper, Idle
  <2> QED
    BY <2>2, <2>3, <2>4, <2>5
       DEF TypedNext, TypedLoadFirmware, TypedStart, IntoDriver, TypedAllocateBuffer,
           TypedWriteBuffer, TypedSubmit, TypedNextSubmission, TypedPeekSubmission,
           TypedObserveQueue, BeginSubmissionSession, Operational
<1>2. TypedSpec => []IInv
  BY Refinement, InitIInv, NextIInv, PTL DEF ImplementsDriver, Spec
<1> QED
  BY <1>1, <1>2, InitTypedIInv, NextTypedIInv, PTL DEF TypedSpec, SessionOnlyAppends

=============================================================================
