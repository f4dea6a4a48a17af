---------------------------- MODULE RegisterBlock ----------------------------
(***************************************************************************)
(* The register block (registers.rs over mmio.rs) and the operations on    *)
(* CONTROL and COMMAND (register_fields.rs).  The words are shared with    *)
(* the hardware, which changes CONTROL and STATUS whenever it likes.       *)
(*                                                                         *)
(* Every access is one volatile access, except modify_control, which is    *)
(* two: it borrows the block exclusively, so no other access of the driver *)
(* comes between them, but the hardware may.  The access types of the      *)
(* registers (ReadOnly, WriteOnly, ReadWrite) are checked by the compiler  *)
(* and are the sets Readable and Writable here.                            *)
(***************************************************************************)
EXTENDS RegisterFields, FiniteSets, Answers

CONSTANTS
  Counts,         \* the sizes of the regions callers map, zero included
  Words,          \* the raw words callers write to a register
  ControlWords,   \* the words the hardware may leave in CONTROL
  StatusWords,    \* the words the hardware may leave in STATUS
  Updates,        \* the closures callers give to modify_control
  Opcodes,        \* the opcodes and
  QueueIds        \* queues of the commands they issue

\* The fields of CONTROL a closure sets, and the values it gives them.
Update == [sets : SUBSET {"enabled", "irq_enabled", "power_mode"},
           enabled : BOOLEAN, irq_enabled : BOOLEAN, power_mode : PowerMode]

ASSUME WordAssumption ==
  /\ Counts \subseteq Nat
  /\ Words \cup ControlWords \cup StatusWords \subseteq Word
  /\ Updates \subseteq Update
  /\ Opcodes \subseteq CommandOpCode /\ QueueIds \subseteq QueueId

VARIABLES
  region,      \* the words of the mapped region; none while it is not mapped
  block,       \* whether a GpuRegisterBlock has taken the region over
  modifying,   \* the modify_control between its read and its write, if any
  touched,     \* the bits of CONTROL the hardware changed since that read
  answer       \* what the last call returned

vars == <<region, block, modifying, touched, answer>>

CONTROL == 0
STATUS == 1
COMMAND == 2
INT_STATUS == 3
INT_ACK == 4

Registers == {CONTROL, STATUS, COMMAND, INT_STATUS, INT_ACK}
Readable == {CONTROL, STATUS, INT_STATUS}
Writable == {CONTROL, COMMAND, INT_ACK}

\* Mutant: the highest index is taken for the number of registers.
HighestIndex == INT_ACK

REQUIRED_REGISTERS == 5

-----------------------------------------------------------------------------
IsMapped == region # << >>

Init ==
  /\ region = << >>
  /\ block = FALSE
  /\ modifying = {}
  /\ touched = {}
  /\ answer = Ok

Refuse(e) ==
  /\ answer' = Err(e)
  /\ UNCHANGED <<region, block, modifying, touched>>

Base == {"aligned", "null", "misaligned"}

\* MmioRegion::from_raw_parts, whose checks from_slice makes in part: the base
\* of a slice is never null and always aligned.
RegionVerdict(base, count) ==
  IF base = "null" THEN "NullBase"
  ELSE IF count = 0 THEN "EmptyRegion"
  ELSE IF base = "misaligned" THEN "MisalignedBase"
  ELSE "Valid"

\* Mutant: any region will do.
HasAnyRegister(count) == count > 0

\* GpuRegisterBlock::check_register_len.
HasRegisters(count) == count >= REQUIRED_REGISTERS

\* The words of a region are zero when it is mapped.
Map(count, as_block) ==
  /\ region' = [i \in 0 .. count-1 |-> {}]
  /\ block' = as_block
  /\ answer' = Ok
  /\ UNCHANGED <<modifying, touched>>

\* MmioRegion::from_slice and MmioRegion::from_raw_parts.
MapRegion(base, count) ==
  /\ ~IsMapped
  /\ IF RegionVerdict(base, count) = "Valid"
     THEN Map(count, FALSE)
     ELSE Refuse(RegionVerdict(base, count))

\* GpuRegisterBlock::from_slice counts the registers before the region looks
\* at the slice, and so reports an empty one as too small.
FromSlice(count) ==
  /\ ~IsMapped
  /\ IF HasRegisters(count)
     THEN Map(count, TRUE)
     ELSE Refuse("RegionTooSmall")

\* The region is dropped, alone or with the block that has it.
Unmap ==
  /\ IsMapped /\ modifying = {}
  /\ region' = << >>
  /\ block' = FALSE
  /\ UNCHANGED <<modifying, touched, answer>>

\* GpuRegisterBlock::from_mmio takes the region by value: a region that is too
\* small is dropped.
FromMmio ==
  /\ IsMapped /\ ~block
  /\ IF HasRegisters(Cardinality(DOMAIN region))
     THEN answer' = Ok /\ block' = TRUE /\ UNCHANGED region
     ELSE answer' = Err("RegionTooSmall") /\ region' = << >> /\ UNCHANGED block
  /\ UNCHANGED <<modifying, touched>>

\* check_index.
InBounds(index) == index \in DOMAIN region

\* MmioRegion::read and MmioRegion::write.
ReadAt(index) ==
  \/ ~InBounds(index) /\ Refuse("OutOfBounds")
  \/ /\ InBounds(index)
     /\ answer' = [word |-> region[index]]
     /\ UNCHANGED <<region, block, modifying, touched>>

WriteAt(index, w) ==
  \/ ~InBounds(index) /\ Refuse("OutOfBounds")
  \/ /\ InBounds(index)
     /\ region' = [region EXCEPT ![index] = w]
     /\ answer' = Ok
     /\ UNCHANGED <<block, modifying, touched>>

\* The accesses of a region no block has taken over: any index.
RegionRead(index) == IsMapped /\ ~block /\ ReadAt(index)
RegionWrite(index, w) == IsMapped /\ ~block /\ WriteAt(index, w)

\* The accesses of the block: a register, by its access type.
Read(register) == block /\ modifying = {} /\ ReadAt(register)
Write(register, w) == block /\ modifying = {} /\ WriteAt(register, w)

IssueCommand(opcode, queue_id) == Write(COMMAND, CommandWord(opcode, queue_id))

\* modify_control up to its read.
ModifyRead(update) ==
  /\ block /\ modifying = {}
  /\ IF InBounds(CONTROL)
     THEN /\ modifying' = {[current |-> region[CONTROL], update |-> update]}
          /\ touched' = {}
          /\ UNCHANGED <<region, block, answer>>
     ELSE Refuse("OutOfBounds")

\* The closure: with_enabled, with_irq_enabled and with_power_mode.
Updated(current, update) ==
  LET on == IF "enabled" \in update.sets
            THEN WithEnabled(current, update.enabled) ELSE current
      irq == IF "irq_enabled" \in update.sets
             THEN WithIrqEnabled(on, update.irq_enabled) ELSE on
  IN  IF "power_mode" \in update.sets
      THEN WithPowerMode(irq, update.power_mode) ELSE irq

\* modify_control from its closure on: the whole register is written back.
ModifyWrite ==
  \E m \in modifying :
    /\ InBounds(CONTROL)
    /\ region' = [region EXCEPT ![CONTROL] = Updated(m.current, m.update)]
    /\ answer' = [word |-> Updated(m.current, m.update)]
    /\ modifying' = {}
    /\ touched' = {}
    /\ UNCHANGED block

\* The hardware changes a register between two accesses of the block.
HardwareControl(w) ==
  /\ block
  /\ region' = [region EXCEPT ![CONTROL] = w]
  /\ touched' = IF modifying = {} THEN {}
                ELSE touched \cup {b \in 0 .. 31 : (b \in w) # (b \in region[CONTROL])}
  /\ UNCHANGED <<block, modifying, answer>>

HardwareStatus(w) ==
  /\ block
  /\ region' = [region EXCEPT ![STATUS] = w]
  /\ UNCHANGED <<block, modifying, touched, answer>>

Next ==
  \/ \E count \in Counts :
       FromSlice(count) \/ \E base \in Base : MapRegion(base, count)
  \/ FromMmio
  \/ Unmap
  \/ \E index \in Counts : RegionRead(index) \/ \E w \in Words : RegionWrite(index, w)
  \/ \E register \in Readable : Read(register)
  \/ \E register \in Writable, w \in Words : Write(register, w)
  \/ \E opcode \in Opcodes, queue_id \in QueueIds : IssueCommand(opcode, queue_id)
  \/ \E update \in Updates : ModifyRead(update)
  \/ ModifyWrite
  \/ \E w \in ControlWords : HardwareControl(w)
  \/ \E w \in StatusWords : HardwareStatus(w)

Spec == Init /\ [][Next]_vars

-----------------------------------------------------------------------------
(* Properties.                                                             *)

\* Type invariant.  A block's region holds every register.
TypeOK ==
  /\ DOMAIN region = 0 .. Cardinality(DOMAIN region) - 1
  /\ \A i \in DOMAIN region : region[i] \in Word
  /\ block \in BOOLEAN
  /\ block => Registers \subseteq DOMAIN region
  /\ modifying # {} => block
  /\ \A m \in modifying : m.current \in Word /\ m.update \in Update
  /\ touched \in Word

\* Once a block is made, none of its operations ever fails: the error every
\* access of a register may return is never seen, so the interrupt and the
\* polling code above it never meet a register error.
BlockNeverFails == [][block => ~IsErr(answer')]_vars

\* The bits of CONTROL a closure sets.
UpdatedBits(update) ==
  UNION {IF "enabled" \in update.sets THEN CONTROL_ENABLE_MASK ELSE {},
         IF "irq_enabled" \in update.sets THEN CONTROL_IRQ_ENABLE_MASK ELSE {},
         IF "power_mode" \in update.sets THEN CONTROL_POWERMODE_MASK ELSE {}}

\* modify_control overwrites no more than it has to: a bit the closure does
\* not set keeps its value, reserved bits included, unless the hardware
\* changed it between the read and the write.
OnlyRacingBitsAreLost ==
  [][\A m \in modifying \ modifying' : \A b \in 0 .. 31 \ UpdatedBits(m.update) :
       (b \in region'[CONTROL]) # (b \in region[CONTROL]) => b \in touched]_vars

\* What the driver writes to a field is what the field reads back.  After
\* modify_control, CONTROL has in the fields that were set the values that
\* were asked for, whatever the hardware did to them in between; the word in
\* COMMAND names the opcode and the queue of the command that was issued, for
\* every opcode and the widest queue ids.
FieldsReadBack ==
  [][/\ \A m \in modifying \ modifying' :
          /\ "enabled" \in m.update.sets =>
               Enabled(region'[CONTROL]) = m.update.enabled
          /\ "irq_enabled" \in m.update.sets =>
               IrqEnabled(region'[CONTROL]) = m.update.irq_enabled
          /\ "power_mode" \in m.update.sets =>
               PowerModeOf(region'[CONTROL]) = m.update.power_mode
     /\ \A opcode \in Opcodes, queue_id \in QueueIds :
          IssueCommand(opcode, queue_id) =>
            /\ OpcodeBits(region'[COMMAND]) = opcode
            /\ QueueIdOf(region'[COMMAND]) = queue_id]_vars

=============================================================================
