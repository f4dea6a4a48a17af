-------------------------- MODULE GpuDevice_proofs --------------------------
(***************************************************************************)
(* Proofs about the buffer manager, for every counter width, usize width,  *)
(* set of bytes and set of inputs: used stays within the capacity, no id   *)
(* is handed out twice, and reads see the last write.                      *)
(***************************************************************************)
EXTENDS GpuDeviceHistory, TLAPS

\* The ids handed out are the ones below the counter.  This is what makes
\* the id an allocation takes from the counter a new one.
IssuedBelowCounter == issued = 0 .. next_id-1

\* What becomes of an offset: a byte, or one of the three fates.
Trace == Byte \cup {Fresh, Cut, Cleared}

\* The history has an entry for every offset of every allocated buffer.
ClientTyped ==
  /\ DOMAIN client = DOMAIN buffers
  /\ \A id \in DOMAIN buffers : client[id] \in [0 .. buffers[id].capacity-1 -> Trace]

IInv == TypeOK /\ IssuedBelowCounter /\ ClientTyped /\ ReadsSeeLastWrite

-----------------------------------------------------------------------------
\* What the invariant says of one buffer and the history of its bytes.
Sound(buffer, history) ==
  /\ IsGpuBuffer(buffer)
  /\ history \in [0 .. buffer.capacity-1 -> Trace]
  /\ \A i \in 0 .. buffer.capacity-1 :
       /\ history[i] \in Byte => i < buffer.used /\ buffer.storage[i] = history[i]
       /\ history[i] = Fresh => buffer.storage[i] = Zero

\* The invariant again, buffer by buffer.
Buffers ==
  /\ next_id \in 0 .. MaxId
  /\ DOMAIN buffers \subseteq 0 .. next_id-1
  /\ issued = 0 .. next_id-1
  /\ DOMAIN client = DOMAIN buffers
  /\ \A id \in DOMAIN buffers : Sound(buffers[id], client[id])

\* The two forms of the invariant are the same.
LEMMA IInvIsBuffers == IInv <=> Buffers
<1>1. ASSUME NEW b, IsGpuBuffer(b)
      PROVE  DOMAIN b.storage = 0 .. b.capacity-1
  BY <1>1 DEF IsGpuBuffer
<1> QED
  BY <1>1 DEF IInv, TypeOK, IssuedBelowCounter, ClientTyped, ReadsSeeLastWrite,
              Readable, Sound, Buffers

\* A step that replaces one buffer and its history by a sound pair, and
\* touches nothing else, keeps the invariant.
LEMMA ReplaceOne ==
  ASSUME Buffers, NEW id \in DOMAIN buffers, NEW b, NEW h, Sound(b, h),
         buffers' = [buffers EXCEPT ![id] = b],
         client' = [client EXCEPT ![id] = h],
         UNCHANGED <<next_id, issued>>
  PROVE  Buffers'
<1>1. /\ DOMAIN buffers' = DOMAIN buffers
      /\ DOMAIN client' = DOMAIN client
  OBVIOUS
<1>2. ASSUME NEW k \in DOMAIN buffers
      PROVE  Sound(buffers'[k], client'[k])
  <2>1. CASE k = id
    BY <2>1 DEF Buffers
  <2>2. CASE k # id
    BY <2>2 DEF Buffers
  <2> QED
    BY <2>1, <2>2
<1>3. \A k \in DOMAIN buffers' : Sound(buffers[k], client[k])'
  BY <1>1, <1>2 DEF Sound, IsGpuBuffer
<1> QED
  BY <1>1, <1>3 DEF Buffers

\* A step that changes none of the four variables keeps the invariant.
LEMMA KeepAll ==
  ASSUME Buffers, UNCHANGED <<next_id, buffers, issued, client>>
  PROVE  Buffers'
BY DEF Buffers, Sound, IsGpuBuffer

-----------------------------------------------------------------------------
\* The initial state satisfies the invariant.
LEMMA InitBuffers == HInit => Buffers
BY MaxIdAssumption DEF HInit, Init, Buffers

\* An allocation keeps the invariant: its buffer is zeroed and all Fresh,
\* and its id is the one the counter moves past.
LEMMA AllocateBuffers ==
  ASSUME Buffers, NEW c \in Capacities, HAllocate(c)
  PROVE  Buffers'
<1>1. CASE answer' \in {Err("ZeroSizedAllocation"), Err("BufferIdExhausted")}
  <2>1. IsErr(answer')
    BY <1>1 DEF IsErr, Err
  <2>2. UNCHANGED <<issued, client>>
    BY <2>1 DEF HAllocate
  <2>3. answer' # [id |-> next_id]
    BY <1>1 DEF Err
  <2>4. UNCHANGED <<next_id, buffers>>
    BY <2>3 DEF HAllocate, AllocateBuffer, Refuse
  <2> QED
    BY <2>2, <2>4, KeepAll
<1>2. CASE answer' \notin {Err("ZeroSizedAllocation"), Err("BufferIdExhausted")}
  <2> DEFINE b == [storage |-> [i \in 0 .. c-1 |-> Zero], used |-> 0, capacity |-> c]
             h == [i \in 0 .. c-1 |-> Fresh]
  <2>1. /\ c # 0
        /\ next_id' \in CheckedNext
        /\ buffers' = Insert(next_id, b)
        /\ answer' = [id |-> next_id]
    BY <1>2 DEF HAllocate, AllocateBuffer, Refuse
  <2>2. next_id' = next_id + 1 /\ next_id # MaxId
    BY <2>1 DEF CheckedNext
  <2>3. next_id \in 0 .. MaxId /\ next_id' \in 0 .. MaxId
    BY <2>2, MaxIdAssumption DEF Buffers
  <2>4. ~IsErr(answer') /\ answer'.id = next_id
    BY <2>1 DEF IsErr
  <2>5. /\ issued' = issued \cup {next_id}
        /\ client' = [id \in DOMAIN client \cup {next_id} |->
                        IF id = next_id THEN h ELSE client[id]]
    BY <2>4 DEF HAllocate
  <2>6. c \in 1 .. UsizeMax
    BY <2>1, InputAssumption, UsizeAssumption
  <2>7. Sound(b, h)
    <3>1. IsGpuBuffer(b)
      BY <2>6, ByteAssumption, UsizeAssumption DEF IsGpuBuffer
    <3>2. h \in [0 .. b.capacity-1 -> Trace]
      BY DEF Trace
    <3>3. \A i \in 0 .. b.capacity-1 : h[i] = Fresh /\ b.storage[i] = Zero
      OBVIOUS
    <3>4. Fresh \notin Byte
      BY HistoryAssumption
    <3> QED
      BY <3>1, <3>2, <3>3, <3>4 DEF Sound
  <2>8. buffers' = [k \in DOMAIN buffers \cup {next_id} |->
                      IF k = next_id THEN b ELSE buffers[k]]
    BY <2>1 DEF Insert
  <2> HIDE DEF b, h
  <2>9. ASSUME NEW k \in DOMAIN buffers'
        PROVE  Sound(buffers'[k], client'[k])
    <3>1. CASE k = next_id
      BY <3>1, <2>5, <2>7, <2>8
    <3>2. CASE k # next_id
      BY <3>2, <2>5, <2>8 DEF Buffers
    <3> QED
      BY <3>1, <3>2
  <2>10. \A k \in DOMAIN buffers' : Sound(buffers[k], client[k])'
    BY <2>9 DEF Sound, IsGpuBuffer
  <2>11. DOMAIN client' = DOMAIN buffers'
    BY <2>5, <2>8 DEF Buffers
  <2>12. issued' = 0 .. next_id'-1
    BY <2>2, <2>3, <2>5 DEF Buffers
  <2>13. DOMAIN buffers' \subseteq 0 .. next_id'-1
    BY <2>2, <2>3, <2>8 DEF Buffers
  <2> QED
    BY <2>3, <2>10, <2>11, <2>12, <2>13 DEF Buffers
<1> QED
  BY <1>1, <1>2

\* A refused call changes neither the buffers nor the history.
LEMMA RefusedWrite ==
  ASSUME Buffers, NEW id, NEW n, NEW b, HWrite(id, n, b),
         ~(Known(id) /\ ~Exceeds(n, buffers[id].capacity))
  PROVE  Buffers'
<1>1. Refuse("UnknownBuffer") \/ Refuse("WriteTooLarge")
  BY DEF HWrite, WriteBuffer
<1>2. IsErr(answer') /\ UNCHANGED <<next_id, buffers>>
  BY <1>1 DEF Refuse, IsErr, Err
<1>3. UNCHANGED <<issued, client>>
  BY <1>2 DEF HWrite, Fate
<1> QED
  BY <1>2, <1>3, KeepAll

\* write_buffer keeps the invariant: what the shorter data cuts off of the
\* history is what it cuts off of the readable prefix.
LEMMA WriteBuffers ==
  ASSUME Buffers, NEW id \in BufferId, NEW n \in Lengths, NEW b \in Byte,
         HWrite(id, n, b)
  PROVE  Buffers'
<1>1. CASE ~(Known(id) /\ ~Exceeds(n, buffers[id].capacity))
  BY <1>1, RefusedWrite
<1>2. CASE Known(id) /\ ~Exceeds(n, buffers[id].capacity)
  <2> DEFINE old == buffers[id]
             past == client[id]
             new == [storage |-> Overwrite(old.storage, 0, n, b),
                     used |-> n, capacity |-> old.capacity]
             h == [i \in DOMAIN past |->
                     IF i < n THEN b ELSE IF past[i] \in Byte THEN Cut ELSE past[i]]
  <2>1. id \in DOMAIN buffers /\ Sound(old, past)
    BY <1>2 DEF Known, Buffers
  <2>2. /\ buffers' = [buffers EXCEPT ![id] = new]
        /\ answer' = Ok
        /\ UNCHANGED <<next_id, issued>>
    BY <1>2 DEF HWrite, WriteBuffer, Update
  <2>3. ~IsErr(answer')
    BY <2>2 DEF Ok, IsErr
  <2>4. client' = [client EXCEPT ![id] = h]
    BY <2>3 DEF HWrite, Fate
  <2>7. n \in 0 .. old.capacity /\ old.capacity \in 1 .. UsizeMax
    BY <1>2, <2>1, InputAssumption, UsizeAssumption DEF Exceeds, Sound, IsGpuBuffer
  <2>8. Sound(new, h)
    <3>1. IsGpuBuffer(new)
      BY <2>1, <2>7 DEF Sound, IsGpuBuffer, Overwrite
    <3>2. h \in [0 .. new.capacity-1 -> Trace]
      BY <2>1 DEF Sound, Trace
    <3>3. ASSUME NEW i \in 0 .. new.capacity-1
          PROVE  /\ h[i] \in Byte => i < new.used /\ new.storage[i] = h[i]
                 /\ h[i] = Fresh => new.storage[i] = Zero
      <4>1. /\ DOMAIN past = 0 .. old.capacity-1
            /\ DOMAIN old.storage = 0 .. old.capacity-1
        BY <2>1 DEF Sound, IsGpuBuffer
      <4>2. i \in Nat /\ n \in Nat /\ (i \in 0 .. 0+n-1 <=> i < n)
        BY <2>7, UsizeAssumption
      <4>3. CASE i < n
        BY <4>1, <4>2, <4>3, HistoryAssumption DEF Overwrite
      <4>4. CASE ~(i < n)
        BY <2>1, <4>1, <4>2, <4>4, HistoryAssumption DEF Overwrite, Sound
      <4> QED
        BY <4>3, <4>4
    <3> QED
      BY <3>1, <3>2, <3>3 DEF Sound
  <2> QED
    BY <2>1, <2>2, <2>4, <2>8, ReplaceOne
<1> QED
  BY <1>1, <1>2

\* A refused write at an offset changes neither the buffers nor the history.
LEMMA RefusedWriteAt ==
  ASSUME Buffers, NEW id, NEW o, NEW n, NEW b, HWriteAt(id, o, n, b),
         ~(/\ Known(id)
           /\ ~Overflows(o, n)
           /\ ~Exceeds(o + n, buffers[id].capacity))
  PROVE  Buffers'
<1>1. Refuse("UnknownBuffer") \/ Refuse("RangeOverflow") \/ Refuse("WriteOutOfBounds")
  BY DEF HWriteAt, WriteBufferAt
<1>2. IsErr(answer') /\ UNCHANGED <<next_id, buffers>>
  BY <1>1 DEF Refuse, IsErr, Err
<1>3. UNCHANGED <<issued, client>>
  BY <1>2 DEF HWriteAt, Fate
<1> QED
  BY <1>2, <1>3, KeepAll

\* write_buffer_at keeps the invariant: the readable prefix only grows.
LEMMA WriteAtBuffers ==
  ASSUME Buffers, NEW id \in BufferId, NEW o \in Offsets, NEW n \in Lengths,
         NEW b \in Byte, HWriteAt(id, o, n, b)
  PROVE  Buffers'
<1>1. CASE ~(/\ Known(id)
             /\ ~Overflows(o, n)
             /\ ~Exceeds(o + n, buffers[id].capacity))
  BY <1>1, RefusedWriteAt
<1>2. CASE /\ Known(id)
           /\ ~Overflows(o, n)
           /\ ~Exceeds(o + n, buffers[id].capacity)
  <2> DEFINE old == buffers[id]
             past == client[id]
             new == [storage |-> Overwrite(old.storage, o, n, b),
                     used |-> Larger(old.used, o + n), capacity |-> old.capacity]
             h == [i \in DOMAIN past |-> IF i >= o /\ i < o + n THEN b ELSE past[i]]
  <2>1. id \in DOMAIN buffers /\ Sound(old, past)
    BY <1>2 DEF Known, Buffers
  <2>2. /\ buffers' = [buffers EXCEPT ![id] = new]
        /\ answer' = Ok
        /\ UNCHANGED <<next_id, issued>>
    BY <1>2 DEF HWriteAt, WriteBufferAt, Update
  <2>3. ~IsErr(answer')
    BY <2>2 DEF Ok, IsErr
  <2>4. client' = [client EXCEPT ![id] = h]
    BY <2>3 DEF HWriteAt, Fate
  <2>7. /\ o \in Nat /\ n \in Nat
        /\ old.capacity \in 1 .. UsizeMax
        /\ old.used \in 0 .. old.capacity
        /\ o + n \in 0 .. old.capacity
    BY <1>2, <2>1, InputAssumption, UsizeAssumption DEF Exceeds, Sound, IsGpuBuffer
  <2>8. /\ new.used \in 0 .. new.capacity
        /\ old.used <= new.used /\ o + n <= new.used
    BY <2>7, UsizeAssumption DEF Larger
  <2>9. Sound(new, h)
    <3>1. IsGpuBuffer(new)
      BY <2>1, <2>7, <2>8 DEF Sound, IsGpuBuffer, Overwrite
    <3>2. h \in [0 .. new.capacity-1 -> Trace]
      BY <2>1 DEF Sound, Trace
    <3>3. ASSUME NEW i \in 0 .. new.capacity-1
          PROVE  /\ h[i] \in Byte => i < new.used /\ new.storage[i] = h[i]
                 /\ h[i] = Fresh => new.storage[i] = Zero
      <4>1. /\ DOMAIN past = 0 .. old.capacity-1
            /\ DOMAIN old.storage = 0 .. old.capacity-1
        BY <2>1 DEF Sound, IsGpuBuffer
      <4>2. i \in Nat /\ (i \in o .. o+n-1 <=> i >= o /\ i < o + n)
        BY <2>7, UsizeAssumption
      <4>3. CASE i >= o /\ i < o + n
        BY <2>7, <2>8, <4>1, <4>2, <4>3, HistoryAssumption, UsizeAssumption DEF Overwrite
      <4>4. CASE ~(i >= o /\ i < o + n)
        <5>1. h[i] = past[i] /\ new.storage[i] = old.storage[i]
          BY <4>1, <4>2, <4>4 DEF Overwrite
        <5>2. i < old.used => i < new.used
          BY <2>7, <2>8, <4>2, UsizeAssumption
        <5> QED
          BY <2>1, <5>1, <5>2 DEF Sound
      <4> QED
        BY <4>3, <4>4
    <3> QED
      BY <3>1, <3>2, <3>3 DEF Sound
  <2> QED
    BY <2>1, <2>2, <2>4, <2>9, ReplaceOne
<1> QED
  BY <1>1, <1>2

\* clear_buffer keeps the invariant: no byte of the history is left.
LEMMA ClearBuffers ==
  ASSUME Buffers, NEW id \in BufferId, HClear(id)
  PROVE  Buffers'
<1>1. CASE ~Known(id)
  <2>1. Refuse("UnknownBuffer")
    BY <1>1 DEF HClear, ClearBuffer
  <2>2. IsErr(answer') /\ UNCHANGED <<next_id, buffers>>
    BY <2>1 DEF Refuse, IsErr, Err
  <2>3. UNCHANGED <<issued, client>>
    BY <2>2 DEF HClear, Fate
  <2> QED
    BY <2>2, <2>3, KeepAll
<1>2. CASE Known(id)
  <2> DEFINE old == buffers[id]
             past == client[id]
             new == [storage |-> old.storage, used |-> 0, capacity |-> old.capacity]
             h == [i \in DOMAIN past |-> IF past[i] = Fresh THEN Fresh ELSE Cleared]
  <2>1. id \in DOMAIN buffers /\ Sound(old, past)
    BY <1>2 DEF Known, Buffers
  <2>2. /\ buffers' = [buffers EXCEPT ![id] = new]
        /\ answer' = Ok
        /\ UNCHANGED <<next_id, issued>>
    BY <1>2 DEF HClear, ClearBuffer, Update
  <2>3. ~IsErr(answer')
    BY <2>2 DEF Ok, IsErr
  <2>4. client' = [client EXCEPT ![id] = h]
    BY <2>3 DEF HClear, Fate
  <2>5. Sound(new, h)
    <3>1. IsGpuBuffer(new)
      BY <2>1, UsizeAssumption DEF Sound, IsGpuBuffer
    <3>2. h \in [0 .. new.capacity-1 -> Trace]
      BY <2>1 DEF Sound, Trace
    <3>3. ASSUME NEW i \in 0 .. new.capacity-1
          PROVE  h[i] \notin Byte /\ (h[i] = Fresh => new.storage[i] = Zero)
      BY <2>1, HistoryAssumption DEF Sound
    <3> QED
      BY <3>1, <3>2, <3>3 DEF Sound
  <2> QED
    BY <2>1, <2>2, <2>4, <2>5, ReplaceOne
<1> QED
  BY <1>1, <1>2

\* release_buffer keeps the invariant: the id stays among the issued ones.
LEMMA ReleaseBuffers ==
  ASSUME Buffers, NEW id \in BufferId, HRelease(id)
  PROVE  Buffers'
<1>1. /\ DOMAIN buffers' = DOMAIN buffers \ {id}
      /\ \A k \in DOMAIN buffers' : buffers'[k] = buffers[k]
  <2>1. CASE ~Known(id)
    BY <2>1 DEF HRelease, ReleaseBuffer, Refuse, Known
  <2>2. CASE Known(id)
    BY <2>2 DEF HRelease, ReleaseBuffer
  <2> QED
    BY <2>1, <2>2
<1>2. /\ client' = [k \in DOMAIN client \ {id} |-> client[k]]
      /\ UNCHANGED <<next_id, issued>>
  BY DEF HRelease, ReleaseBuffer, Refuse
<1>3. ASSUME NEW k \in DOMAIN buffers'
      PROVE  Sound(buffers'[k], client'[k])
  BY <1>1, <1>2 DEF Buffers
<1>4. \A k \in DOMAIN buffers' : Sound(buffers[k], client[k])'
  BY <1>3 DEF Sound, IsGpuBuffer
<1> QED
  BY <1>1, <1>2, <1>4 DEF Buffers

-----------------------------------------------------------------------------
\* Every step keeps the invariant.
LEMMA NextBuffers == Buffers /\ [HNext]_hvars => Buffers'
<1> SUFFICES ASSUME Buffers, [HNext]_hvars PROVE Buffers'
  OBVIOUS
<1>1. ASSUME NEW c \in Capacities, HAllocate(c) PROVE Buffers'
  BY <1>1, AllocateBuffers
<1>2. ASSUME NEW id \in BufferId, NEW n \in Lengths, NEW b \in Byte, HWrite(id, n, b)
      PROVE  Buffers'
  BY <1>2, WriteBuffers
<1>3. ASSUME NEW id \in BufferId, NEW o \in Offsets, NEW n \in Lengths, NEW b \in Byte,
             HWriteAt(id, o, n, b)
      PROVE  Buffers'
  BY <1>3, WriteAtBuffers
<1>4. ASSUME NEW id \in BufferId, HRead(id) PROVE Buffers'
  <2>1. UNCHANGED <<next_id, buffers, issued, client>>
    BY <1>4 DEF HRead, ReadBuffer, ReadBufferRange, Refuse
  <2> QED
    BY <2>1, KeepAll
<1>5. ASSUME NEW id \in BufferId, HClear(id) PROVE Buffers'
  BY <1>5, ClearBuffers
<1>6. ASSUME NEW id \in BufferId, HRelease(id) PROVE Buffers'
  BY <1>6, ReleaseBuffers
<1>7. CASE UNCHANGED hvars
  BY <1>7, KeepAll DEF hvars
<1> QED
  BY <1>1, <1>2, <1>3, <1>4, <1>5, <1>6, <1>7 DEF HNext

\* In every state of every buffer manager the table is well formed, and a
\* byte a client wrote, and neither cleared nor cut off, reads back as it was
\* written last.
THEOREM Invariance == HSpec => [](TypeOK /\ ReadsSeeLastWrite)
<1>1. Buffers => TypeOK /\ ReadsSeeLastWrite
  BY IInvIsBuffers DEF IInv
<1> QED
  BY InitBuffers, NextBuffers, <1>1, PTL DEF HSpec

\* The initialized length of a buffer never exceeds its storage, whatever mix
\* of writes and clears led to it: no slice of the code is out of range.
THEOREM TypeCorrect == HSpec => []TypeOK
BY Invariance, PTL

\* The counter never issues an id again, whatever is released in between and
\* however wide it is.
THEOREM NoReuse == HSpec => IdsNeverReused
<1>1. ASSUME Buffers, [HNext]_hvars
      PROVE  [\A id \in BufferId : answer' = [id |-> id] => id \notin issued]_hvars
  <2> SUFFICES ASSUME HNext, NEW id \in BufferId, answer' = [id |-> id]
               PROVE  id \notin issued
    BY <1>1
  <2>1. next_id \notin issued
    BY <1>1, MaxIdAssumption DEF Buffers
  <2>2. ASSUME NEW c \in Capacities, HAllocate(c) PROVE id = next_id
    BY <1>1, <2>2 DEF HAllocate, AllocateBuffer, Refuse, Err
  <2>3. ASSUME NEW k \in BufferId, NEW n, NEW b, HWrite(k, n, b) PROVE FALSE
    BY <2>3 DEF HWrite, WriteBuffer, Refuse, Err, Ok
  <2>4. ASSUME NEW k \in BufferId, NEW o, NEW n, NEW b, HWriteAt(k, o, n, b) PROVE FALSE
    BY <2>4 DEF HWriteAt, WriteBufferAt, Refuse, Err, Ok
  <2>5. ASSUME NEW k \in BufferId, HRead(k) PROVE FALSE
    BY <2>5 DEF HRead, ReadBuffer, ReadBufferRange, Refuse, Err
  <2>6. ASSUME NEW k \in BufferId, HClear(k) PROVE FALSE
    BY <2>6 DEF HClear, ClearBuffer, Refuse, Err, Ok
  <2>7. ASSUME NEW k \in BufferId, HRelease(k) PROVE FALSE
    BY <2>7 DEF HRelease, ReleaseBuffer, Refuse, Err
  <2> QED
    BY <2>1, <2>2, <2>3, <2>4, <2>5, <2>6, <2>7 DEF HNext
<1> QED
  BY InitBuffers, NextBuffers, <1>1, PTL DEF HSpec, IdsNeverReused

=============================================================================
