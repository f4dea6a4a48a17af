# A verification of rust-gpu-driver-lab in TLA+

`rust-gpu-driver-lab` is a small user-space model of a GPU driver in Rust: a
buffer manager, a device lifecycle, a validated submission queue with two
backends, a driver facade that ties them together, a typestate wrapper around
the facade, and a hardware layer (memory-mapped registers, register fields,
interrupts, status polling).  This directory holds TLA+ modules of these
parts, translated from the code in `src/src/`, TLC configurations that check
them on small instances, and TLAPS proofs of the properties that matter most
for every value of the constants.

`PROJECT.json` relates every definition to the lines it stands for, and lists
the runs, the mutants that show that each property can fail, the hazards and
the theorems.

## 1. The system

| Part | Code | State | Operations |
|---|---|---|---|
| Buffer manager | `lib.rs` `GpuDevice`, `GpuBuffer` | `next_id`, the buffers by id; in a buffer `storage` and `used` | allocate, write, write at an offset, read, read a range, clear, release |
| Device lifecycle | `device_state.rs` `DeviceController` | `DeviceState` and in it the firmware version | load_firmware, start, ensure_ready, reset |
| Validation | `command.rs`, `submission.rs` | none | `ValidatedCommand::try_from`, `validate_submission` |
| Queue contract | `queue_backend.rs` `SubmissionQueue` | (trait) | enqueue, dequeue, peek, len, is_empty, is_full |
| Growable queue | `queue.rs` `CommandQueue` | `pending` deque, `active_ids` set | the contract |
| Fixed-capacity queue | `static_queue.rs` `StaticCommandQueue` | `slots`, `head`, `len` | the contract |
| Driver facade | `driver.rs`, `generic_driver.rs` | a controller, a device, a queue | load_firmware, start, allocate, write, submit, next, peek, queue observers |
| Typestate wrapper, session | `typed_driver.rs`, `typed_generic_driver.rs`, `submission_session.rs` | the inner driver, the type parameter `S`, who owns the driver | the driver's, split over types; begin_submission_session, finish |
| MMIO, registers, fields | `mmio.rs`, `registers.rs`, `register_fields.rs` | a region of 32-bit words shared with the hardware | read, write, modify_control, read_status, issue_command |
| Interrupts | `interrupts.rs` | the words INT_STATUS and INT_ACK | pending, acknowledge |
| Status polling | `polling.rs` `wait_until_ready` | the loop's clock, count and last snapshot | one blocking call |

**Interaction.**  Everything above the registers is single-threaded and calls
downwards: the wrapper calls the driver, the driver calls `ensure_ready`, then
the validation (which reads the buffer's initialized length), then the queue.
A `?` after each of these ends the call.  Ownership is the protocol between
the layers: a failed transition moves the driver into an error value, a
session borrows it exclusively.  The generic driver and its wrapper are made
over a queue the caller hands to `new`, in whatever state it is;
`SimulatedGpuDriver` and `TypedDriver` make an empty one themselves.  The
hardware layer is where two actors meet:
the device changes a status, control or interrupt register between any two
accesses of the driver, and time passes between the steps of the polling loop.

**What is hard here.**

- *Redundant state.*  `active_ids` beside `pending`; `slots`, `head` and `len`
  of the ring; the type parameter beside the run-time lifecycle state.  Each
  pair is written by separate statements.
- *Values checked early and used late.*  The initialized length of a buffer is
  read when a command is submitted; the submission then waits in the queue.
  A status snapshot is tested after it was read.
- *Boundaries.*  The exhaustion of the id counter, `offset + length` at the end
  of `usize`, a full queue, the wrap of the ring, the last sleep of a timeout.
- *Calls that fail half way.*  `start` takes the state out with `mem::replace`;
  `submit` can be refused by each of three parts; a failed typed transition has
  consumed the driver.
- *Long legal sequences.*  Mixes of writes, offset writes and clears of a
  buffer; ids of released buffers; enqueues and dequeues of one id; a driver
  made over a queue that already holds submissions.
- *Time.*  The polling loop has no bound of its own, its timeout races the
  device, and sleeps end late.

The file and line of each is in the list of hazards of `PROJECT.json`.

## 2. The modules

| Module | Models | Built on |
|---|---|---|
| `Answers` | the `Result`s and `Option`s calls return | |
| `SubmissionQueue` | the queue contract: a bounded FIFO with distinct ids (abstract specification) | `Answers` |
| `CommandQueue` | `queue.rs` | implements `SubmissionQueue` |
| `StaticCommandQueue` | `static_queue.rs` | implements `SubmissionQueue` |
| `GpuDevice` | `lib.rs` | `Answers` |
| `GpuDeviceHistory` | `GpuDevice` and two history variables: ids handed out, what became of each written byte | extends `GpuDevice` |
| `DeviceController` | `device_state.rs` | `Answers` |
| `Submissions` | `command.rs`, `submission.rs` as pure operators | |
| `GpuDriver` | `generic_driver.rs`, and `driver.rs` as the case of a new queue | instances of `DeviceController`, `GpuDevice`, `Submissions`, `SubmissionQueue` |
| `TypedDriver` | `typed_driver.rs`, `typed_generic_driver.rs`, `submission_session.rs` | extends `GpuDriver`, whose variables it adds two to, and implements it |
| `DriverBackends` | two drivers generic over the queue, one with `queue.rs` and one with `static_queue.rs`, made over the same submissions and given the same calls | instances of `CommandQueue`, `StaticCommandQueue` and the parts of `GpuDriver`; implements `GpuDriver` |
| `RegisterFields` | `register_fields.rs` and the event masks of `interrupts.rs`, as pure operators on words | |
| `StatusWait` | what a caller may expect of `wait_until_ready` (abstract specification) | `Answers` |
| `Polling` | `polling.rs` beside the device and the clock | extends `RegisterFields`, implements `StatusWait` |
| `RegisterBlock` | `mmio.rs`, `registers.rs`, `modify_control` and `issue_command` of `register_fields.rs` | extends `RegisterFields` |
| `Interrupts` | `interrupts.rs` beside a device that raises lines and the driver's `modify_control` | extends `RegisterBlock`, whose variables it adds three to |
| `MC*` | inputs for TLC | the module they are named after |
| `*_proofs` | theorems | the module they are named after; `Interrupts_proofs` is about `RegisterBlock` too, `TypedDriver_proofs` about `GpuDriver` too |

State and actions keep the names of the code.  Each public method is one
action with the whole of its effect; the early returns are the disjuncts, in
the order of the code.  `answer` is what the last call returned to its caller;
the properties use it to tell a refused call from an accepted one, and the
refinements compare it too, so an implementation that keeps the right queue
but reports the wrong error does not refine the contract.

How the data is abstracted:

- A queue entry is a record with an `id`; in the queue modules the rest of it
  is a tag that tells two submissions with the same id apart.
- A firmware image is the four things `check_image` reads: its length, whether
  the magic bytes are right, and the two version bytes.
- A write is a length and one byte that is repeated; the program copies bytes
  and never looks at them.  A `GpuBuffer`'s storage is a function on
  `0 .. capacity-1`, so a byte's position is kept.
- `usize`, `u32` and `u64` are `0 .. UsizeMax`, `0 .. MaxId`,
  `0 .. MaxCommand`.  `checked_add` compares with the maximum; the unchecked
  sum in `CommandRange::end` is taken modulo `UsizeMax + 1`, as in a build
  without overflow checks, and what makes that harmless is a property.
- A 32-bit register word is the set of its bits that are one, so the masks
  of the code are set operations and the bits keep their places.
- Error payloads that repeat the arguments are dropped and the variant is
  kept, except that a refusal by a queue keeps the command id, so that the
  contract can tell which of two refusals a call deserved.
- The type system is modelled by guards: a method is enabled when `marker` is
  the type that has it and the driver is not moved or borrowed.  The
  `compile_fail` doc tests of the wrapper are these guards.
- `GpuDriver` uses the queue contract in place of a backend.  The refinements
  of `CommandQueue` and `StaticCommandQueue` justify that for both, and
  `DriverBackends` puts the real backends in.

**The queue a driver is made over.**  `GenericGpuDriver::new` and
`TypedGenericGpuDriver::new` store the queue they are given, and everything it
takes to fill one before is public: a device of one's own, `validate_submission`
and `enqueue`.  So the initial queue is any element of the constant
`GivenQueues`, of which only what `enqueue` guarantees is assumed
(`GivenAssumption`): validated submissions with distinct ids, no more of them
than the capacity.  Their buffer ids and ranges may have nothing to do with
this device.  The history variable `given` counts those of them that are still
pending, which a queue keeps in front, and `Own` is the rest: what this driver
admitted.  The properties that speak of what the driver does with what it
admits say `Own`; the properties of steps hold of all.  `SimulatedGpuDriver`
(`driver.rs:50-57`) is `GivenQueues = {<< >>}`: for it `given` is 0 for ever,
`Own` is the whole queue, and `OnlyGivenBeforeReady` says that it is empty.
`DriverBackends` starts with the same submissions in both backends, and each
backend in any state with these submissions that its invariant allows: the
deque with the ids in its set, the ring with its head at any slot.

`Polling` splits `wait_until_ready` into the steps between which what was seen
can go out of date: the read of the status, the tests on the snapshot and the
clock, and the end of the sleep.  `Tick` and `DeviceChanges` may come between
any two of them.  A read lasts at most `Latency` units and a sleep ends at
most `Oversleep` units late.

`RegisterBlock` splits `modify_control` into its read and its write, the only
operation of the hardware layer that is two accesses; the exclusive borrow
keeps other accesses of the driver out, and nothing keeps the hardware out.
`touched` is a history variable: the bits of CONTROL the hardware changed in
between.  A bare `MmioRegion` takes any index and can answer `OutOfBounds`; a
`GpuRegisterBlock` takes a register.  Contents of a region start as zeros, and
the hardware acts while a block has the region.

`Polling` looks at a whole status word, so one snapshot can show ready, busy
and a fault at once, and `Verdict` is the order of the tests.  `StatusWait` has
no polls: a call that returns does so with what its last look showed.

In `Interrupts` the device is external: a line stays up until its bit is
written to INT_ACK, and a line that is up cannot be raised again.  So is the
client, of whom nothing is assumed: it acknowledges any events, at any time and
as often as it likes, as the public constants and a `Copy` snapshot allow.
`snapshot` and `acked` are what it saw last and what it acknowledged since;
with them the property says which acknowledgements can lose an event no
snapshot has shown, and that no other can.

## 3. The runs

All numbers are distinct states.

| Run | States | Question |
|---|---|---|
| `command_queue` | 4 853 | Do the id set and the deque agree after every call, and is the queue the contract? |
| `static_queue` | 5 599 | Are the occupied slots exactly the window of `head` and `len`, is every submission served to a caller who keeps taking, and is the ring the contract? |
| `gpu_device` | 63 346 | Do reads see the last write through any mix of writes, clears and releases, and is no id issued twice? |
| `gpu_device_clear` | violated | Does what `clear_buffer` dropped stay invalid? |
| `device_controller` | 165 | Does the lifecycle go through its states in order, and does a refused call restore the state? |
| `gpu_driver` | 68 377 | The parts composed, over any given queue: nothing allocated or admitted before ready, only initialized ranges admitted, admitted ranges stay in their buffers and go stale in one way only, a refusal anywhere in the chain changes nothing. |
| `queued_range_stale` | violated | Are the bytes of a pending submission the driver admitted still initialized? |
| `driver_backends` | 23 643 | Do the drivers over the two backends, made over the same submissions, give the same answers to the same calls, and does each implement the driver? |
| `typed_driver` | 12 486 | Is the compile-time state the run-time state, in errors and sessions too, and does the wrapper add no behaviour? |
| `register_block` | 588 004 | Does any access of an accepted block fail, and what may `modify_control` overwrite when the hardware comes between its read and its write? |
| `interrupts` | 238 656 | Which acknowledgements can lose an event nobody has seen, and are reserved bits left alone? |
| `polling` | 23 644 | Does the loop end, inside its budget, with few reads, does it see a device that was ready in time, and does it return what its last look showed? |

**Bounds.**

- Queues: five ids for three places of `CommandQueue`, four ids for a ring of
  three.  The queue fills while there are ids left to refuse and to repeat;
  `head` takes every value and the window wraps with every length.
- Buffers: `MaxId = 2` issues two ids and then exhausts the counter
  (`BufferIdExhausted` is returned when `next_id` is the maximum, so the
  maximum itself is never issued).  `UsizeMax = 4` and offset 4 overflow
  with every non-empty write; capacity 2 has room for a prefix, a gap and an
  end.  Two byte values tell an old byte from a new one.
- Driver: `usize` has four bits and offset 12 with length 4 is the range whose
  end is exactly one past the maximum.  Three valid ids compete for two
  places; capacities and lengths 0, 4 and 8 give equal, shorter and longer
  writes.  One image and one command fail each check alone.  The given queues
  are a new one, one with a place left and a full one; their submissions take
  ids from the driver's, and name a buffer it will issue, with a range beyond
  its storage, and one it will never issue.
- Typed driver: one image that fails and one that passes, two ids and their
  duplicates, one invalid command; a new queue, and one with a foreign
  submission.
- Driver over two backends: three places, four ids and one buffer, so that
  both queues fill, wrap and see each kind of refusal; given queues with none, two
  and three submissions, and every place of the ring's head.
- Polling: timeouts that are zero, shorter than, a multiple of and no multiple
  of the intervals 2 and 3, and the rejected interval zero; reads and sleeps
  that are one unit late.  `MaxPolls = 9` is above the largest number of reads,
  so the saturation does not hide a read.
- Register block: regions of 0, 4 and 5 words, one short of and exactly the
  registers; raw words with reserved bits; a hardware that sets and clears each
  field; each field updated alone with each of its values, and all together.
- Interrupts: three of the four events, so that one is seen, one comes late
  and one is neither, and a reserved line.

No state constraint is used; the specifications are finite with these
constants.  No run switches off the check for deadlock.

**Mutants.**  For every property of every passing run, `PROJECT.json` names a
definition and a mutated form of it (the comments in the modules say what bug
it stands for), with which TLC finds the property violated: a queue one too
long, an id not given back, a head that stays, a counter that wraps, a
`used` that is the end of the last write, a state not put back by `start`, a
`change_state` before the outcome is known, a sleep that is a whole interval,
and so on.

**Fairness.**  `Polling` assumes weak fairness of the thread's own steps
(reading, testing, waking) and of the clock.  The thread is in a loop without
locks, and the host schedules it; time passes.  Nothing is assumed of the
device, which may never become ready, nor of the caller, who need not call.
Under it every call returns (`CallReturns`).  `FairSpec` of
`StaticCommandQueue` assumes a caller who keeps calling `dequeue`, the only
one for whom `PendingIsServed` says anything: the queue is passive, and the
property is that its own state never stands in the way of such a caller.  The
other modules are passive too, and nothing in them has to happen.

## 4. What the two violated runs show

1. `gpu_device_clear`.  `clear_buffer` says it marks the buffer "as containing
   no valid client data" (`lib.rs:147`), and `used` is described as "how many
   bytes currently contain valid data" (`lib.rs:55`).  `clear_buffer` only sets
   `used` to 0; `write_buffer_at` then raises it to `offset + length`
   (`lib.rs:116`), over a gap that still holds the bytes written before the
   clear, and a read returns them.  In a buffer never cleared the gap reads
   as zero (`ReadsSeeLastWrite`, checked and proved).
2. `queued_range_stale`.  The README of the crate says that a submission
   ensures that its range "doesn't exceed initialized data".  That is checked
   once, at submission.  `write_buffer` assigns `used = data.len()`
   (`lib.rs:198`), which may be smaller, and the pending submission is handed
   out with a range beyond it.  TLC's run shows it of a submission
   the driver admitted itself.  The range stays inside the storage
   (`QueuedRangeInBuffer`) and nothing but a shorter write to the same buffer
   has this effect (`OnlyAShorterWriteMakesStale`), which are both proved.

## 5. The proofs

`tlapm` checks every leaf.  The assumptions are the named `ASSUME`s on the
constants: capacities are positive (both constructors refuse zero), widths
are naturals, inputs are in their types, a given queue is one its `enqueue`
allows (`GivenAssumption`), `Zero` is a byte, the history values
are not bytes, the empty slot is not a submission, `MaxPolls` (`u64::MAX`) is
positive.  TLC evaluates them in the runs.

| Module | Theorem | Argument |
|---|---|---|
| `CommandQueue_proofs` | `Invariance`, `TypeCorrect`, `Refinement` | The inductive invariant adds to the agreement of `active_ids` with `pending` that the pending ids are distinct: without it, giving back the id of the head would take it from a second submission. With the agreement, the look-up in the set is the search of the contract. |
| `StaticCommandQueue_proofs` | `Invariance`, `TypeCorrect`, `Refinement` | `WindowIsOccupied` with distinct ids. Lemmas say that going around is one-to-one on `0 .. N-1`, that `TailIndex` is the place `len` after `head`, and that moving `head` moves every place by one; the sequence `Pending` then changes by `Append` and `Tail`. |
| `GpuDevice_proofs` | `Invariance`, `TypeCorrect`, `NoReuse` | Type correctness, that every issued id is below `next_id`, and that the history has the shape of the table. `checked_add` makes `next_id` strictly larger, so the id it stood for is new; without the bound on the issued ids the step proves nothing. |
| `DeviceController_proofs` | `TypeCorrect`, `Forward`, `Refusal` | A state of the lifecycle is one of three records, and `start` gives back what it took out unless it was `FirmwareLoaded`; a load that succeeds brings the version of an image with a whole header and the magic bytes; with the reset, which no driver calls. |
| `TypedDriver_proofs`, the driver | `Invariance`, `TypeCorrect`, `OnlyGivenUntilReady` | The controller cannot leave `Ready` (the driver does not expose `reset`), so until then it allocates and admits nothing, and what is pending is what it was given; given submissions are in front and leave first, so the places behind them are its own, before and after each call; the table of buffers only grows and no capacity changes, so a range admitted below the initialized length stays inside the storage. |
| | `Admission` | The overflow check of `CommandRange::new` makes the modular sum of `CommandRange::end` the exact one. |
| | `Staleness`, `Refusal` | By the kind of the step (idle, lifecycle, memory, accepted, taken), from lemmas that say what each kind leaves alone. |
| `TypedDriver_proofs`, the wrapper | `Marker`, `NoInvalidState`, `Failure`, `Session`, `Refinement` | `marker = state.kind` with a fact about the holder (a session only of a ready driver); each step maps to a step of the driver or to a stutter. |
| | `TypedCorrect`, `Inherited` | From `Refinement`: every step of the wrapper is a step of the driver, so what is proved of the driver holds in the wrapper, the two invariants and the three action properties alike. |
| | `ErrorsCarryOnlyGiven` | The holder is an error only before the device is ready, and until then the driver has no buffer and nothing but given submissions (`Inherited`). What was in the queue given to `new` is in the error, and goes with it if it is dropped. |
| `DriverBackends_proofs` | `Agreement`, `Refinement` | Equal answers alone are not inductive: the next answers come from three representations. The invariant, which holds of every pair of given queues wherever the head of the ring is (`GivenDequeIInv`, `GivenRingIInv`), is the agreement together with the invariants of the two backends, under which every call of either is a call of the contract (`EnqueueSimulation`, `OtherSimulation` of their proofs). The contract is deterministic (`ContractDetermines`), so queues that agree before a call agree after it, and each driver makes the step of `GpuDriver`. |
| | `RealDriversAreSafe`, `RealDriversKeepPromises` | The inductive invariant of the driver and its step lemmas (`AdmissionStep`, `StaleOnlyByWrite`, `RefusalStep`), instantiated for the one over the deque and carried along by the steps of `Refinement`; the agreement hands them on to the one over the ring. |
| `Polling_proofs` | `TypeCorrect`, `Sleeps`, `Budget` | Where the thread is says how far the clock can be: at most one late read past the end of its sleep, which never ends after the timeout by more than `Oversleep`. `Sleeps` is about the step that begins a sleep: the timeout is not over at the test, so what remains of it is not nothing, and neither is the interval. |
| | `Reads` | The reads done are bounded by the time passed: between two reads lies a whole interval, unless the second is the last. |
| | `ReadyIsSeen`, `Refinement` | What was read is what the device was at the end of a read that began before the timeout; the abstract wait takes its look when the read ends. |
| `Interrupts_proofs` | `TypeCorrect`, `NoRegisterError` | `BlockInv`: a region is its first `n` words, a block has all its registers and never met an error, at most one `modify_control` is under way. |
| | `RacingBits` | `Raced`: while `modify_control` holds its copy, a bit of CONTROL that differs from the copy is in `touched`. The closure leaves every bit outside its fields alone (`UpdatedWord`). |
| | `ReadBack` | A number of eight bits is the sum of the weights of its bits, and shifting left is undone by shifting right; opcode and queue id occupy different bits. |
| | `InterruptsTyped`, `CarelessAcks` | `Traced`: a line of the snapshot that is down, and one that is up but unseen, was acknowledged since the snapshot. So an acknowledgement that takes an unseen line down names a line the snapshot did not show, or one acknowledged before. |

The inductive invariants were checked by TLC on the runs' instances before they
were proved.  The constants of the composed parts are arbitrary, so the results
hold for every width of the integers, every capacity, every set of interrupt
lines, and every timeout, interval and latency.  A register word keeps its 32
bits.

**How the proofs are composed.**  The proofs of a part are used where the part
is used, and not repeated: `TypedDriver_proofs` instantiates
`DeviceController_proofs` for the controller of the driver, and
`DriverBackends_proofs` instantiates the proofs of the two queues and of the
driver.  The prover takes the lemmas of an instance about states and steps,
under the instance's own assumptions, and not its theorems about behaviours;
so what is cited are `InitIInv`, `NextIInv`, the step simulations and the step
lemmas, and the temporal step is made again.  It also keeps two instances of one module
apart, and does not see that `Deque!Enqueue` and `DequeProofs!Enqueue` are one
action: the lemmas named `Same...` say so.

**Only model-checked.**  `CallReturns` and `PendingIsServed`: they are liveness
properties under fairness, which the prover cannot reach.  Every other property
of a passing run is proved.  `QueuedRangeInitialized` and
`ClearedStaysInvalid` are the two properties that do not hold
(section 4).

## 6. What is not modelled

- `Faulted` of `DeviceState`: no code constructs it.
- `DeviceController::reset`, `clear_buffer`, `release_buffer` and
  `write_buffer_at` *through the driver*: the driver does not expose them.
  They are modelled in their own components.
- What the compiler checks of the hardware layer: that a region does not
  outlive the borrowed storage, and the access types of the registers, which are
  the guards `Readable` and `Writable`.  The safety contract of
  `from_raw_parts` is assumed.
- Raw writes go past the types: `write(INT_ACK, w)` and `write(COMMAND, w)` take
  any word.  They are actions of `RegisterBlock`; that `InterruptsTypeOK`
  keeps reserved bits out of INT_ACK is about acknowledgements through the
  interrupt controller.
- Where the submissions in a queue given to `new` come from, and what their
  buffer ids and ranges mean to the device that admitted them: the code does not
  look at them, hands them out as they are, also before the device is ready,
  and no property promises anything of their ranges.  That a caller is given
  such a queue's submissions in its order and limits is in the model.
- Backends of `SubmissionQueue` other than the two of the crate.  `GpuDriver` is
  about every one that keeps the contract.
- Timers and the hardware are external: `Tick` and `DeviceChanges` say what
  the code relies on.
- `capacity()`, `state()`, `state_name()`, `Debug`, the texts of errors.

## 7. Plan

Done, in this order: the two queues and their contract, the buffer manager,
the lifecycle, the validation, the driver, the typed driver, polling, the
register block, the interrupts; their runs; the proofs of the queues, the
buffer manager, the driver and the typed driver.  Then the driver over the two
real backends, the abstract wait that polling implements, the interrupt
controller composed with the register block and an unrestricted client,
sessions as actions of their own, and the liveness of the ring.  Then the proofs
about the lifecycle, polling, the register block and the interrupt controller,
and the two drivers over the two backends.  Last, the typed driver as an
extension of the driver, which inherits what is proved of it, the driver over
the growable queue as an implementation of `GpuDriver`, and the safety of the
drivers over the real backends from the proofs of their parts; and the queue a
driver is made over as a parameter of the driver.

Nothing of the plan is left.  What could follow, should the code grow: the
drivers over `GpuDeviceHistory`, once they pass on offset writes and clears,
and a driver that polls a register block before it reports ready, once `start`
does.
