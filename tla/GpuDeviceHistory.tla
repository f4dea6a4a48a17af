-------------------------- MODULE GpuDeviceHistory --------------------------
(***************************************************************************)
(* GpuDevice with two history variables, which record what the clients did *)
(* and never what the code stored: the ids handed out, and for every       *)
(* offset of every allocated buffer what became of the last byte a client  *)
(* wrote there.                                                            *)
(***************************************************************************)
EXTENDS GpuDevice

CONSTANTS
  Fresh,    \* nothing was written at this offset since the allocation
  Cut,      \* what was written here was cut off by a shorter write_buffer
  Cleared   \* what was written here was dropped by clear_buffer

ASSUME HistoryAssumption ==
  /\ {Fresh, Cut, Cleared} \cap Byte = {}
  /\ Fresh # Cut /\ Fresh # Cleared /\ Cut # Cleared

VARIABLES
  issued,   \* the ids handed out so far
  client    \* for each buffer and offset: the last byte written, or its fate

hvars == <<next_id, buffers, answer, issued, client>>

-----------------------------------------------------------------------------
HInit == Init /\ issued = {} /\ client = [id \in {} |-> {}]

HAllocate(c) ==
  /\ AllocateBuffer(c)
  /\ IF IsErr(answer')
     THEN UNCHANGED <<issued, client>>
     ELSE /\ issued' = issued \cup {answer'.id}
          /\ client' = [id \in DOMAIN client \cup {answer'.id} |->
                          IF id = answer'.id THEN [i \in 0 .. c-1 |-> Fresh]
                                             ELSE client[id]]

Fate(id, history) ==
  client' = IF IsErr(answer') THEN client ELSE [client EXCEPT ![id] = history]

HWrite(id, n, b) ==
  /\ WriteBuffer(id, n, b)
  /\ Fate(id, [i \in DOMAIN client[id] |->
                 IF i < n THEN b
                 ELSE IF client[id][i] \in Byte THEN Cut ELSE client[id][i]])
  /\ UNCHANGED issued

HWriteAt(id, o, n, b) ==
  /\ WriteBufferAt(id, o, n, b)
  /\ Fate(id, [i \in DOMAIN client[id] |->
                 IF i >= o /\ i < o + n THEN b ELSE client[id][i]])
  /\ UNCHANGED issued

HClear(id) ==
  /\ ClearBuffer(id)
  /\ Fate(id, [i \in DOMAIN client[id] |->
                 IF client[id][i] = Fresh THEN Fresh ELSE Cleared])
  /\ UNCHANGED issued

HRelease(id) ==
  /\ ReleaseBuffer(id)
  /\ UNCHANGED issued
  /\ client' = [b \in DOMAIN client \ {id} |-> client[b]]

HRead(id) ==
  /\ \/ ReadBuffer(id)
     \/ \E o \in Offsets, n \in Lengths : ReadBufferRange(id, o, n)
  /\ UNCHANGED <<issued, client>>

HNext ==
  \/ \E c \in Capacities : HAllocate(c)
  \/ \E id \in BufferId :
       \/ \E n \in Lengths, b \in Byte : HWrite(id, n, b)
       \/ \E o \in Offsets, n \in Lengths, b \in Byte : HWriteAt(id, o, n, b)
       \/ HRead(id)
       \/ HClear(id)
       \/ HRelease(id)

HSpec == HInit /\ [][HNext]_hvars

-----------------------------------------------------------------------------
(* Properties.                                                             *)

\* allocate_buffer never hands out an id twice, released ids included: a
\* client that kept the id of a buffer it released cannot reach the buffer
\* of another one.
IdsNeverReused ==
  [][\A id \in BufferId : answer' = [id |-> id] => id \notin issued]_hvars

Readable(id, i) == i < buffers[id].used

\* A byte a client wrote, and neither cleared nor cut off, is readable and
\* has the value written last, whatever mix of write_buffer and
\* write_buffer_at came after it; an offset nobody wrote reads as zero.
ReadsSeeLastWrite ==
  \A id \in DOMAIN buffers : \A i \in DOMAIN buffers[id].storage :
    /\ client[id][i] \in Byte =>
         Readable(id, i) /\ buffers[id].storage[i] = client[id][i]
    /\ client[id][i] = Fresh => buffers[id].storage[i] = Zero

\* What clear_buffer dropped stays invalid: no readable byte was last written
\* before the buffer was cleared.
ClearedStaysInvalid ==
  \A id \in DOMAIN buffers : \A i \in DOMAIN buffers[id].storage :
    Readable(id, i) => client[id][i] # Cleared

=============================================================================
