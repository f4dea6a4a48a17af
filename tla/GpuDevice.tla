------------------------------ MODULE GpuDevice ------------------------------
(***************************************************************************)
(* The buffer manager (GpuDevice of lib.rs): a table of allocated buffers  *)
(* keyed by BufferId, and the counter that issues the ids.  A buffer has a *)
(* storage of fixed capacity, zeroed at allocation, and used, the length   *)
(* of the prefix that counts as initialized.                               *)
(*                                                                         *)
(* The id inside a GpuBuffer always equals its key and is left out.  The   *)
(* data of one write is a length and a byte repeated: the program copies   *)
(* bytes and never looks at them.                                          *)
(***************************************************************************)
EXTENDS Integers, Answers

CONSTANTS
  MaxId,       \* u32::MAX, the last value of next_id
  UsizeMax,    \* usize::MAX, the last offset and length a caller can pass
  Byte,        \* the values of a byte
  Zero,        \* the byte a new storage is filled with
  Capacities,  \* the capacities callers ask for, zero included
  Offsets,     \* the offsets callers pass
  Lengths      \* the lengths of the data callers pass or ask for

ASSUME MaxIdAssumption == MaxId \in Nat
ASSUME UsizeAssumption == UsizeMax \in Nat
ASSUME ByteAssumption == Zero \in Byte
ASSUME InputAssumption ==
  /\ Capacities \subseteq 0 .. UsizeMax
  /\ Offsets \subseteq 0 .. UsizeMax
  /\ Lengths \subseteq 0 .. UsizeMax

VARIABLES
  next_id,     \* the id the next allocation issues
  buffers,     \* the allocated buffers by id
  answer       \* what the last call returned

vars == <<next_id, buffers, answer>>

BufferId == 0 .. MaxId

\* capacity is storage.len(), which no call changes.
IsGpuBuffer(b) ==
  /\ b = [storage |-> b.storage, used |-> b.used, capacity |-> b.capacity]
  /\ b.capacity \in 1 .. UsizeMax
  /\ b.storage \in [0 .. b.capacity-1 -> Byte]
  /\ b.used \in 0 .. b.capacity

-----------------------------------------------------------------------------
Init ==
  /\ next_id = 0
  /\ buffers = [id \in {} |-> {}]
  /\ answer = Ok

Known(id) == id \in DOMAIN buffers

\* Mutant: the length of the data is not compared with the storage.
NothingExceeds(end, capacity) == FALSE

Exceeds(end, capacity) == end > capacity

\* checked_end: offset + length, or an overflow of usize.
Overflows(offset, length) == offset + length > UsizeMax

\* copy_from_slice of length bytes b to storage[offset..].
Overwrite(storage, offset, length, b) ==
  [i \in DOMAIN storage |->
     IF i \in offset .. offset + length - 1 THEN b ELSE storage[i]]

\* Mutant: the initialized length becomes the end of the last write.
Latest(a, b) == b

Larger(a, b) == IF a >= b THEN a ELSE b

Refuse(e) ==
  /\ answer' = Err(e)
  /\ UNCHANGED <<next_id, buffers>>

\* Through get_mut: the buffer's bytes and its initialized length.
Update(id, storage, used) ==
  buffers' = [buffers EXCEPT ![id] = [storage |-> storage, used |-> used,
                                      capacity |-> @.capacity]]

Insert(id, buffer) ==
  [b \in DOMAIN buffers \cup {id} |-> IF b = id THEN buffer ELSE buffers[b]]

\* Mutants: the counter wraps around, or does not move.
WrappingNext == {(next_id + 1) % (MaxId + 1)}
SameNext == {next_id}

\* next_id.checked_add(1): one value, or none when the counter is exhausted.
CheckedNext == IF next_id = MaxId THEN {} ELSE {next_id + 1}

AllocateBuffer(capacity) ==
  \/ /\ capacity = 0
     /\ Refuse("ZeroSizedAllocation")
  \/ /\ capacity # 0
     /\ CheckedNext = {}
     /\ Refuse("BufferIdExhausted")
  \/ /\ capacity # 0
     /\ next_id' \in CheckedNext
     /\ buffers' = Insert(next_id, [storage |-> [i \in 0 .. capacity-1 |-> Zero],
                                    used |-> 0, capacity |-> capacity])
     /\ answer' = [id |-> next_id]

\* write_buffer: the data replaces the initialized prefix, which may shrink.
WriteBuffer(id, length, b) ==
  \/ /\ ~Known(id)
     /\ Refuse("UnknownBuffer")
  \/ /\ Known(id)
     /\ Exceeds(length, buffers[id].capacity)
     /\ Refuse("WriteTooLarge")
  \/ /\ Known(id)
     /\ ~Exceeds(length, buffers[id].capacity)
     /\ Update(id, Overwrite(buffers[id].storage, 0, length, b), length)
     /\ answer' = Ok
     /\ UNCHANGED next_id

\* write_buffer_at: the initialized prefix grows to the end of the data.
WriteBufferAt(id, offset, length, b) ==
  \/ /\ ~Known(id)
     /\ Refuse("UnknownBuffer")
  \/ /\ Known(id)
     /\ Overflows(offset, length)
     /\ Refuse("RangeOverflow")
  \/ /\ Known(id)
     /\ ~Overflows(offset, length)
     /\ Exceeds(offset + length, buffers[id].capacity)
     /\ Refuse("WriteOutOfBounds")
  \/ /\ Known(id)
     /\ ~Overflows(offset, length)
     /\ ~Exceeds(offset + length, buffers[id].capacity)
     /\ Update(id, Overwrite(buffers[id].storage, offset, length, b),
                   Larger(buffers[id].used, offset + length))
     /\ answer' = Ok
     /\ UNCHANGED next_id

\* clear_buffer: the bytes stay in the storage.
ClearBuffer(id) ==
  \/ /\ ~Known(id)
     /\ Refuse("UnknownBuffer")
  \/ /\ Known(id)
     /\ Update(id, buffers[id].storage, 0)
     /\ answer' = Ok
     /\ UNCHANGED next_id

\* release_buffer: the buffer leaves the table and belongs to the caller.
ReleaseBuffer(id) ==
  \/ /\ ~Known(id)
     /\ Refuse("UnknownBuffer")
  \/ /\ Known(id)
     /\ answer' = [buffer |-> buffers[id]]
     /\ buffers' = [b \in DOMAIN buffers \ {id} |-> buffers[b]]
     /\ UNCHANGED next_id

Slice(buffer, from, to) == [i \in from .. to-1 |-> buffer.storage[i]]

\* read_buffer: the initialized prefix.
ReadBuffer(id) ==
  \/ /\ ~Known(id)
     /\ Refuse("UnknownBuffer")
  \/ /\ Known(id)
     /\ answer' = [bytes |-> Slice(buffers[id], 0, buffers[id].used)]
     /\ UNCHANGED <<next_id, buffers>>

ReadBufferRange(id, offset, length) ==
  \/ /\ ~Known(id)
     /\ Refuse("UnknownBuffer")
  \/ /\ Known(id)
     /\ Overflows(offset, length)
     /\ Refuse("RangeOverflow")
  \/ /\ Known(id)
     /\ ~Overflows(offset, length)
     /\ buffers[id].used < offset + length
     /\ Refuse("ReadOutOfBounds")
  \/ /\ Known(id)
     /\ ~Overflows(offset, length)
     /\ offset + length <= buffers[id].used
     /\ answer' = [bytes |-> Slice(buffers[id], offset, offset + length)]
     /\ UNCHANGED <<next_id, buffers>>

\* Callers pass any id they were given, those of released buffers included.
Next ==
  \/ \E c \in Capacities : AllocateBuffer(c)
  \/ \E id \in BufferId :
       \/ \E n \in Lengths, b \in Byte : WriteBuffer(id, n, b)
       \/ \E o \in Offsets, n \in Lengths, b \in Byte : WriteBufferAt(id, o, n, b)
       \/ \E o \in Offsets, n \in Lengths : ReadBufferRange(id, o, n)
       \/ ReadBuffer(id)
       \/ ClearBuffer(id)
       \/ ReleaseBuffer(id)

Spec == Init /\ [][Next]_vars

-----------------------------------------------------------------------------
(* Properties of the buffer table alone.                                   *)

\* Type invariant.  used stays within the capacity, so that no slice of the
\* storage can be out of range, and only issued ids name a buffer.
TypeOK ==
  /\ next_id \in 0 .. MaxId
  /\ DOMAIN buffers \subseteq 0 .. next_id-1
  /\ \A id \in DOMAIN buffers : IsGpuBuffer(buffers[id])

=============================================================================
