--------------------------- MODULE RegisterFields ---------------------------
(***************************************************************************)
(* The fields of the device's registers (register_fields.rs, and the event *)
(* masks of interrupts.rs).  A 32-bit word is the set of its bits that are *)
(* one, so that the operators | & !& of the code are set operations.       *)
(***************************************************************************)
EXTENDS Naturals

Word == SUBSET (0 .. 31)

\* The bits of a number of eight bits, and the number of a set of such bits.
BitsOf(n) == {b \in 0 .. 7 : (n \div 2^b) % 2 = 1}

ValueOf(bits) ==
  LET weight(b) == IF b \in bits THEN 2^b ELSE 0
  IN  weight(0) + weight(1) + weight(2) + weight(3)
        + weight(4) + weight(5) + weight(6) + weight(7)

ShiftLeft(bits, k) == {b + k : b \in bits}
ShiftRight(bits, k) == {b - k : b \in {c \in bits : c >= k}}

-----------------------------------------------------------------------------
(* CONTROL.                                                                *)

CONTROL_ENABLE_MASK == {0}
CONTROL_IRQ_ENABLE_MASK == {3}
CONTROL_POWERMODE_MASK == {1, 2}
CONTROL_POWERMODE_SHIFT == 1

\* Idle, LowPower, Normal and Performance.
PowerMode == 0 .. 3

Enabled(w) == w \cap CONTROL_ENABLE_MASK # {}
IrqEnabled(w) == w \cap CONTROL_IRQ_ENABLE_MASK # {}
PowerModeOf(w) ==
  ValueOf(ShiftRight(w \cap CONTROL_POWERMODE_MASK, CONTROL_POWERMODE_SHIFT))

With(w, mask, on) == IF on THEN w \cup mask ELSE w \ mask
WithEnabled(w, on) == With(w, CONTROL_ENABLE_MASK, on)
WithIrqEnabled(w, on) == With(w, CONTROL_IRQ_ENABLE_MASK, on)

ModeField(mode) ==
  ShiftLeft(BitsOf(mode), CONTROL_POWERMODE_SHIFT) \cap CONTROL_POWERMODE_MASK

\* Mutants: the field is set without being cleared, or is all that is left.
WithModeAdded(w, mode) == w \cup ModeField(mode)
WithModeOnly(w, mode) == ModeField(mode)

WithPowerMode(w, mode) == (w \ CONTROL_POWERMODE_MASK) \cup ModeField(mode)

-----------------------------------------------------------------------------
(* STATUS: the three flags of a StatusSnapshot.                            *)

STATUS_READY_MASK == {0}
STATUS_BUSY_MASK == {1}
STATUS_FAULT_MASK == {2}

Ready(w) == w \cap STATUS_READY_MASK # {}
Busy(w) == w \cap STATUS_BUSY_MASK # {}
Fault(w) == w \cap STATUS_FAULT_MASK # {}

\* The status words that differ in a flag.
FlagWords == SUBSET (STATUS_READY_MASK \cup STATUS_BUSY_MASK \cup STATUS_FAULT_MASK)

-----------------------------------------------------------------------------
(* COMMAND.                                                                *)

\* Kick, Flush and Reset.
CommandOpCode == 1 .. 3
QueueId == 0 .. 255

COMMAND_OPCODE_MASK == 0 .. 3

COMMAND_QUEUE_SHIFT == 8
COMMAND_QUEUE_MASK == ShiftLeft(0 .. 7, COMMAND_QUEUE_SHIFT)

CommandWord(opcode, queue_id) ==
  (BitsOf(opcode) \cap COMMAND_OPCODE_MASK)
    \cup ShiftLeft(BitsOf(queue_id), COMMAND_QUEUE_SHIFT)

QueueIdOf(w) ==
  ValueOf(ShiftRight(w \cap COMMAND_QUEUE_MASK, COMMAND_QUEUE_SHIFT))
OpcodeBits(w) == ValueOf(w \cap COMMAND_OPCODE_MASK)

-----------------------------------------------------------------------------
(* INT_STATUS and INT_ACK.                                                 *)

\* Command complete, queue fault, thermal warning and firmware fault.
VALID_INTERRUPT_MASK == 0 .. 3

\* Mutant: the reserved bits are kept.
UnmaskedEvents(raw) == raw

\* InterruptEvents::from_status_bits.
FromStatusBits(raw) == raw \cap VALID_INTERRUPT_MASK

=============================================================================
