----------------------------- MODULE Submissions -----------------------------
(***************************************************************************)
(* Validation of a client's request (command.rs and submission.rs): the    *)
(* checks that turn a raw command and a buffer id into a                   *)
(* ValidatedSubmission, in the order the code makes them.                  *)
(***************************************************************************)
EXTENDS Integers

CONSTANTS
  UsizeMax,    \* usize::MAX
  MaxId,       \* u32::MAX, the largest BufferId
  MaxCommand   \* u64::MAX, the largest command id

\* A command id is any number but zero.
CommandId == 1 .. MaxCommand

ALIGNMENT == 4

\* Priority::MIN ..= Priority::MAX
Priority == 0 .. 3

\* What a client can ask for: each field any value of its width.
RawCommand ==
  [id : 0 .. MaxCommand, offset : 0 .. UsizeMax, length : 0 .. UsizeMax,
   priority : 0 .. 255]

\* What validation can return.  Only offset + length <= UsizeMax is left out
\* of the type: that is what the validation has to establish.
ValidatedSubmission ==
  [id : CommandId, buffer_id : 0 .. MaxId,
   offset : 0 .. UsizeMax, length : 1 .. UsizeMax, priority : Priority]

-----------------------------------------------------------------------------
\* CommandRange::end adds without a check: a range that reached it
\* unvalidated would wrap around in a build without overflow checks.
End(range) == (range.offset + range.length) % (UsizeMax + 1)

\* Mutant: the sum of offset and length is not checked.
NeverOverflows(raw) == FALSE

RangeOverflows(raw) == raw.offset + raw.length > UsizeMax

\* CommandRange::new.
RangeVerdict(raw) ==
  IF raw.offset % ALIGNMENT # 0 THEN "MisalignedOffset"
  ELSE IF raw.length = 0 THEN "ZeroLength"
  ELSE IF RangeOverflows(raw) THEN "RangeOverflow"
  ELSE "Valid"

\* ValidatedCommand::try_from: the id, then the range, then the priority.
CommandVerdict(raw) ==
  IF raw.id \notin CommandId THEN "ZeroCommandId"
  ELSE IF RangeVerdict(raw) # "Valid" THEN RangeVerdict(raw)
  ELSE IF raw.priority \notin Priority THEN "InvalidPriority"
  ELSE "Valid"

\* Mutant: the whole storage counts as initialized.
AllocatedLen(buffer) == buffer.capacity

\* initialized_len.
InitializedLen(buffer) == buffer.used

\* validate_submission: the command, then the buffer, then the range against
\* what of the buffer is initialized now.
SubmissionVerdict(buffers, buffer_id, raw) ==
  IF CommandVerdict(raw) # "Valid" THEN CommandVerdict(raw)
  ELSE IF buffer_id \notin DOMAIN buffers THEN "UnknownBuffer"
  ELSE IF End(raw) > InitializedLen(buffers[buffer_id]) THEN "RangeExceedsInitialized"
  ELSE "Valid"

Submission(buffer_id, raw) ==
  [id |-> raw.id, buffer_id |-> buffer_id,
   offset |-> raw.offset, length |-> raw.length, priority |-> raw.priority]

=============================================================================
