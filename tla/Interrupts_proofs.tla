-------------------------- MODULE Interrupts_proofs --------------------------
(***************************************************************************)
(* Proofs about the register block and about the interrupt controller that *)
(* extends it, for regions of every size, every set of words, commands and *)
(* closures, and every set of interrupt lines: an access of a block never  *)
(* fails, modify_control overwrites only what raced with it, fields read   *)
(* back what was written, and only careless acknowledgements lose events.  *)
(***************************************************************************)
EXTENDS Interrupts, FiniteSetTheorems, TLAPS

-----------------------------------------------------------------------------
(* Numbers and their bits.                                                 *)

\* A number of eight bits is the sum of the weights of its bits.
LEMMA ValueOfBits ==
  ASSUME NEW n \in 0 .. 255
  PROVE  ValueOf(BitsOf(n)) = n
<1>1. n = (n % 2) + 2 * ((n \div 2) % 2) + 4 * ((n \div 4) % 2) + 8 * ((n \div 8) % 2)
            + 16 * ((n \div 16) % 2) + 32 * ((n \div 32) % 2)
            + 64 * ((n \div 64) % 2) + 128 * ((n \div 128) % 2)
  OBVIOUS
<1>2. /\ 2^0 = 1 /\ 2^1 = 2 /\ 2^2 = 4 /\ 2^3 = 8
      /\ 2^4 = 16 /\ 2^5 = 32 /\ 2^6 = 64 /\ 2^7 = 128
  OBVIOUS
<1>3. \A m \in Int : m % 2 \in {0, 1}
  OBVIOUS
<1>4. /\ 0 \in BitsOf(n) <=> n % 2 = 1
      /\ 1 \in BitsOf(n) <=> (n \div 2) % 2 = 1
      /\ 2 \in BitsOf(n) <=> (n \div 4) % 2 = 1
      /\ 3 \in BitsOf(n) <=> (n \div 8) % 2 = 1
      /\ 4 \in BitsOf(n) <=> (n \div 16) % 2 = 1
      /\ 5 \in BitsOf(n) <=> (n \div 32) % 2 = 1
      /\ 6 \in BitsOf(n) <=> (n \div 64) % 2 = 1
      /\ 7 \in BitsOf(n) <=> (n \div 128) % 2 = 1
  BY <1>2 DEF BitsOf
<1> QED
  BY <1>1, <1>2, <1>3, <1>4 DEF ValueOf

\* Shifting left and back again.
LEMMA ShiftBack ==
  ASSUME NEW bits \in SUBSET Nat, NEW k \in Nat
  PROVE  ShiftRight(ShiftLeft(bits, k), k) = bits
<1>1. \A b \in bits : b + k \in ShiftLeft(bits, k) /\ b + k >= k /\ (b + k) - k = b
  BY DEF ShiftLeft
<1>2. \A c \in ShiftLeft(bits, k) : c - k \in bits
  BY DEF ShiftLeft
<1> QED
  BY <1>1, <1>2 DEF ShiftRight

\* The bits of a small number are low.
LEMMA LowBits ==
  ASSUME NEW n \in 0 .. 3
  PROVE  BitsOf(n) \subseteq {0, 1}
<1>1. /\ 2^2 = 4 /\ 2^3 = 8 /\ 2^4 = 16 /\ 2^5 = 32 /\ 2^6 = 64 /\ 2^7 = 128
  OBVIOUS
<1>2. /\ (n \div 4) % 2 = 0 /\ (n \div 8) % 2 = 0 /\ (n \div 16) % 2 = 0
      /\ (n \div 32) % 2 = 0 /\ (n \div 64) % 2 = 0 /\ (n \div 128) % 2 = 0
  OBVIOUS
<1>3. /\ 2 \notin BitsOf(n) /\ 3 \notin BitsOf(n) /\ 4 \notin BitsOf(n)
      /\ 5 \notin BitsOf(n) /\ 6 \notin BitsOf(n) /\ 7 \notin BitsOf(n)
  BY <1>1, <1>2 DEF BitsOf
<1>4. \A b \in BitsOf(n) : b \in 0 .. 7
  BY DEF BitsOf
<1>5. \A b \in 0 .. 7 : b \in {0, 1} \/ b \in {2, 3, 4, 5, 6, 7}
  OBVIOUS
<1> QED
  BY <1>3, <1>4, <1>5, Zenon

\* The power mode that was set is the one that is read.
LEMMA ModeReadsBack ==
  ASSUME NEW w \in Word, NEW mode \in PowerMode
  PROVE  /\ WithPowerMode(w, mode) \in Word
         /\ PowerModeOf(WithPowerMode(w, mode)) = mode
         /\ \A b \in 0 .. 31 \ CONTROL_POWERMODE_MASK :
              b \in WithPowerMode(w, mode) <=> b \in w
<1>1. BitsOf(mode) \in SUBSET Nat /\ BitsOf(mode) \subseteq {0, 1}
  BY LowBits DEF PowerMode
<1>2. ShiftLeft(BitsOf(mode), 1) \subseteq {1, 2}
  BY <1>1 DEF ShiftLeft
<1>3. ModeField(mode) = ShiftLeft(BitsOf(mode), 1)
  BY <1>2 DEF ModeField, CONTROL_POWERMODE_SHIFT, CONTROL_POWERMODE_MASK
<1>4. WithPowerMode(w, mode) \cap CONTROL_POWERMODE_MASK = ModeField(mode)
  BY <1>2, <1>3 DEF WithPowerMode, CONTROL_POWERMODE_MASK
<1>5. ValueOf(BitsOf(mode)) = mode
  BY ValueOfBits DEF PowerMode
<1>6. PowerModeOf(WithPowerMode(w, mode)) = mode
  BY <1>1, <1>3, <1>4, <1>5, ShiftBack DEF PowerModeOf, CONTROL_POWERMODE_SHIFT
<1>7. ModeField(mode) \subseteq {1, 2}
  BY <1>2, <1>3
<1>8. WithPowerMode(w, mode) \in Word
  <2>1. {1, 2} \subseteq 0 .. 31 /\ w \subseteq 0 .. 31
    BY DEF Word
  <2>2. (w \ CONTROL_POWERMODE_MASK) \cup ModeField(mode) \subseteq 0 .. 31
    BY <1>7, <2>1
  <2> QED
    BY <2>2 DEF WithPowerMode, Word
<1>9. \A b \in 0 .. 31 \ CONTROL_POWERMODE_MASK : b \in WithPowerMode(w, mode) <=> b \in w
  BY <1>7 DEF WithPowerMode, CONTROL_POWERMODE_MASK
<1> QED
  BY <1>6, <1>8, <1>9

\* The opcode and the queue of a command do not overlap.
LEMMA CommandReadsBack ==
  ASSUME NEW opcode \in CommandOpCode, NEW queue_id \in QueueId
  PROVE  /\ CommandWord(opcode, queue_id) \in Word
         /\ OpcodeBits(CommandWord(opcode, queue_id)) = opcode
         /\ QueueIdOf(CommandWord(opcode, queue_id)) = queue_id
<1> DEFINE high == ShiftLeft(BitsOf(queue_id), COMMAND_QUEUE_SHIFT)
<1>1. BitsOf(queue_id) \in SUBSET Nat /\ BitsOf(queue_id) \subseteq 0 .. 7
  BY DEF BitsOf
<1>2. BitsOf(opcode) \subseteq {0, 1} /\ opcode \in 0 .. 255
  BY LowBits DEF CommandOpCode
<1>3. high \subseteq 8 .. 15 /\ high \subseteq COMMAND_QUEUE_MASK
  BY <1>1 DEF ShiftLeft, COMMAND_QUEUE_SHIFT, COMMAND_QUEUE_MASK
<1>4. COMMAND_QUEUE_MASK \subseteq 8 .. 15
  BY DEF ShiftLeft, COMMAND_QUEUE_SHIFT, COMMAND_QUEUE_MASK
<1>5. CommandWord(opcode, queue_id) = BitsOf(opcode) \cup high
  BY <1>2 DEF CommandWord, COMMAND_OPCODE_MASK
<1> HIDE DEF high
<1>6. CommandWord(opcode, queue_id) \cap COMMAND_OPCODE_MASK = BitsOf(opcode)
  BY <1>2, <1>3, <1>5 DEF COMMAND_OPCODE_MASK
<1>7. CommandWord(opcode, queue_id) \cap COMMAND_QUEUE_MASK = high
  <2>1. BitsOf(opcode) \cap COMMAND_QUEUE_MASK = {}
    BY <1>2, <1>4
  <2> QED
    BY <1>3, <1>5, <2>1
<1>8. OpcodeBits(CommandWord(opcode, queue_id)) = opcode
  BY <1>2, <1>6, ValueOfBits DEF OpcodeBits
<1>9. ShiftRight(high, COMMAND_QUEUE_SHIFT) = BitsOf(queue_id)
  BY <1>1, ShiftBack DEF high, COMMAND_QUEUE_SHIFT
<1>10. QueueIdOf(CommandWord(opcode, queue_id)) = queue_id
  BY <1>7, <1>9, ValueOfBits DEF QueueIdOf, QueueId
<1>11. BitsOf(opcode) \cup high \subseteq 0 .. 31
  <2>1. {0, 1} \subseteq 0 .. 31 /\ 8 .. 15 \subseteq 0 .. 31
    OBVIOUS
  <2> QED
    BY <1>2, <1>3, <2>1
<1> QED
  BY <1>5, <1>8, <1>10, <1>11 DEF Word

\* What a closure makes of a word: the fields it sets have the values it
\* gives them, and every other bit stays.
LEMMA UpdatedWord ==
  ASSUME NEW w \in Word, NEW update \in Update
  PROVE  /\ Updated(w, update) \in Word
         /\ "enabled" \in update.sets => Enabled(Updated(w, update)) = update.enabled
         /\ "irq_enabled" \in update.sets =>
              IrqEnabled(Updated(w, update)) = update.irq_enabled
         /\ "power_mode" \in update.sets =>
              PowerModeOf(Updated(w, update)) = update.power_mode
         /\ \A b \in 0 .. 31 \ UpdatedBits(update) : b \in Updated(w, update) <=> b \in w
<1> DEFINE on == IF "enabled" \in update.sets
                 THEN WithEnabled(w, update.enabled) ELSE w
           irq == IF "irq_enabled" \in update.sets
                  THEN WithIrqEnabled(on, update.irq_enabled) ELSE on
           all == IF "power_mode" \in update.sets
                  THEN WithPowerMode(irq, update.power_mode) ELSE irq
<1>1. /\ update.enabled \in BOOLEAN /\ update.irq_enabled \in BOOLEAN
      /\ update.power_mode \in PowerMode
  BY DEF Update
<1>2. Updated(w, update) = all
  BY DEF Updated
<1>3. /\ on \in Word
      /\ "enabled" \in update.sets => (0 \in on <=> update.enabled)
      /\ \A b \in 0 .. 31 : ("enabled" \in update.sets /\ b = 0) \/ (b \in on <=> b \in w)
  BY <1>1 DEF WithEnabled, With, CONTROL_ENABLE_MASK, Word
<1> HIDE DEF on
<1>4. /\ irq \in Word
      /\ "irq_enabled" \in update.sets => (3 \in irq <=> update.irq_enabled)
      /\ \A b \in 0 .. 31 : ("irq_enabled" \in update.sets /\ b = 3) \/ (b \in irq <=> b \in on)
  BY <1>1, <1>3 DEF WithIrqEnabled, With, CONTROL_IRQ_ENABLE_MASK, Word
<1> HIDE DEF irq
<1>5. /\ all \in Word
      /\ "power_mode" \in update.sets => PowerModeOf(all) = update.power_mode
      /\ \A b \in 0 .. 31 : ("power_mode" \in update.sets /\ b \in {1, 2})
                              \/ (b \in all <=> b \in irq)
  BY <1>1, <1>4, ModeReadsBack DEF CONTROL_POWERMODE_MASK
<1> HIDE DEF all
<1>6. "enabled" \in update.sets => Enabled(all) = update.enabled
  <2>1. "enabled" \in update.sets => (0 \in all <=> update.enabled)
    BY <1>3, <1>4, <1>5
  <2>2. Enabled(all) <=> 0 \in all
    BY DEF Enabled, CONTROL_ENABLE_MASK
  <2>3. Enabled(all) \in BOOLEAN
    BY DEF Enabled
  <2> QED
    BY <1>1, <2>1, <2>2, <2>3
<1>7. "irq_enabled" \in update.sets => IrqEnabled(all) = update.irq_enabled
  <2>1. "irq_enabled" \in update.sets => (3 \in all <=> update.irq_enabled)
    BY <1>4, <1>5
  <2>2. IrqEnabled(all) <=> 3 \in all
    BY DEF IrqEnabled, CONTROL_IRQ_ENABLE_MASK
  <2>3. IrqEnabled(all) \in BOOLEAN
    BY DEF IrqEnabled
  <2> QED
    BY <1>1, <2>1, <2>2, <2>3
<1>8. ASSUME NEW b \in 0 .. 31 \ UpdatedBits(update)
      PROVE  b \in all <=> b \in w
  <2>1. /\ "enabled" \in update.sets => b # 0
        /\ "irq_enabled" \in update.sets => b # 3
        /\ "power_mode" \in update.sets => b \notin {1, 2}
    BY DEF UpdatedBits, CONTROL_ENABLE_MASK, CONTROL_IRQ_ENABLE_MASK,
           CONTROL_POWERMODE_MASK
  <2> QED
    BY <1>3, <1>4, <1>5, <2>1
<1> QED
  BY <1>2, <1>5, <1>6, <1>7, <1>8

-----------------------------------------------------------------------------
(* The register block.                                                     *)

\* The mapped words are the region's first ones, as many as were mapped.
Mapped == \E n \in Nat : region \in [0 .. n-1 -> Word]

\* A block has all its registers, and never met an error.
Whole ==
  /\ block \in BOOLEAN
  /\ block => Registers \subseteq DOMAIN region /\ ~IsErr(answer)

\* At most one modify_control is under way, and only on a block.
Exclusive ==
  /\ modifying # {} => block
  /\ \A m \in modifying :
       /\ m.current \in Word /\ m.update \in Update
       /\ modifying = {m}

\* A bit of CONTROL that is no longer what modify_control read was changed by
\* the hardware since: the link between the copy and the register that
\* OnlyRacingBitsAreLost needs.
Raced ==
  /\ touched \in Word
  /\ \A m \in modifying : \A b \in 0 .. 31 :
       (b \in m.current) # (b \in region[CONTROL]) => b \in touched

BlockInv == Mapped /\ Whole /\ Exclusive /\ Raced

\* What a region of any size is.
LEMMA RegionShape ==
  ASSUME NEW n \in Nat, NEW f \in [0 .. n-1 -> Word]
  PROVE  /\ Cardinality(DOMAIN f) = n
         /\ DOMAIN f = 0 .. n-1
         /\ HasRegisters(n) => Registers \subseteq DOMAIN f
<1>1. DOMAIN f = 0 .. n-1 /\ n - 1 \in Int
  OBVIOUS
<1>2. Cardinality(0 .. n-1) = IF 0 > n - 1 THEN 0 ELSE n - 1 - 0 + 1
  BY <1>1, FS_Interval
<1>3. HasRegisters(n) => Registers \subseteq 0 .. n-1
  BY DEF HasRegisters, REQUIRED_REGISTERS, Registers, CONTROL, STATUS, COMMAND,
         INT_STATUS, INT_ACK
<1> QED
  BY <1>1, <1>2, <1>3

\* One word of a region is written.
LEMMA RegionUpdate ==
  ASSUME Mapped, NEW i \in DOMAIN region, NEW w \in Word,
         region' = [region EXCEPT ![i] = w]
  PROVE  /\ Mapped' /\ DOMAIN region' = DOMAIN region
         /\ region'[i] = w
         /\ \A j \in DOMAIN region : j # i => region'[j] = region[j]
BY DEF Mapped

\* An Ok, with a value or without, is no error.
LEMMA Answered ==
  /\ ~IsErr(Ok)
  /\ \A w : ~IsErr([word |-> w])
BY DEF IsErr, Ok

\* The types, of the invariant.
LEMMA BlockTyped == BlockInv => TypeOK
<1> SUFFICES ASSUME BlockInv
             PROVE  TypeOK
  OBVIOUS
<1>1. PICK n \in Nat : region \in [0 .. n-1 -> Word]
  BY DEF BlockInv, Mapped
<1>2. Cardinality(DOMAIN region) = n /\ DOMAIN region = 0 .. n-1
  BY <1>1, RegionShape
<1>3. \A i \in DOMAIN region : region[i] \in Word
  BY <1>1
<1> QED
  BY <1>2, <1>3 DEF BlockInv, Whole, Exclusive, Raced, TypeOK

\* Before a region is mapped.
LEMMA InitBlockInv == Init => BlockInv
<1> SUFFICES ASSUME Init
             PROVE  BlockInv
  OBVIOUS
<1>1. region \in [0 .. 0-1 -> Word]
  BY DEF Init
<1> QED
  BY <1>1, Answered DEF Init, BlockInv, Mapped, Whole, Exclusive, Raced, Word

\* A word of CONTROL the block can read.
LEMMA HasControl ==
  ASSUME BlockInv, block
  PROVE  /\ Registers \subseteq DOMAIN region
         /\ \A i \in Registers : region[i] \in Word
         /\ CONTROL \in Registers
BY DEF BlockInv, Whole, Mapped, Registers

\* A read changes no word, and does not fail on a block.
LEMMA ReadKeepsInv ==
  ASSUME BlockInv, NEW i, ReadAt(i), block => i \in Registers
  PROVE  BlockInv' /\ (block => answer' = [word |-> region[i]] /\ ~IsErr(answer'))
<1>1. block => i \in DOMAIN region
  BY DEF BlockInv, Whole
<1>2. block => answer' = [word |-> region[i]]
  BY <1>1 DEF ReadAt, InBounds
<1>3. UNCHANGED <<region, block, modifying, touched>>
  BY DEF ReadAt, Refuse
<1> QED
  BY <1>2, <1>3, Answered DEF BlockInv, Mapped, Whole, Exclusive, Raced

\* A write changes one word, and does not fail on a block; no modify_control is
\* under way.
LEMMA WriteKeepsInv ==
  ASSUME BlockInv, modifying = {}, NEW i, NEW w \in Word, WriteAt(i, w),
         block => i \in Registers
  PROVE  BlockInv' /\ (block => ~IsErr(answer') /\ region'[i] = w)
<1>1. block => i \in DOMAIN region
  BY DEF BlockInv, Whole
<1>2. CASE ~InBounds(i)
  BY <1>1, <1>2 DEF WriteAt, InBounds, Refuse, BlockInv, Mapped, Whole, Exclusive, Raced
<1>3. CASE InBounds(i)
  <2>1. /\ region' = [region EXCEPT ![i] = w] /\ answer' = Ok
        /\ UNCHANGED <<block, modifying, touched>>
    BY <1>3 DEF WriteAt
  <2>2. Mapped' /\ DOMAIN region' = DOMAIN region /\ region'[i] = w
    BY <1>3, <2>1, RegionUpdate DEF BlockInv, InBounds
  <2> QED
    BY <2>1, <2>2, Answered DEF BlockInv, Whole, Exclusive, Raced
<1> QED
  BY <1>2, <1>3

\* The copy modify_control takes is what CONTROL holds: nothing has raced yet.
LEMMA ModifyReadKeepsInv ==
  ASSUME BlockInv, NEW update \in Update, ModifyRead(update)
  PROVE  BlockInv' /\ ~IsErr(answer') /\ UNCHANGED region /\ modifying = {}
<1>1. /\ CONTROL \in DOMAIN region /\ region[CONTROL] \in Word
      /\ ~IsErr(answer)
  BY HasControl DEF ModifyRead, BlockInv, Whole
<1>2. /\ modifying' = {[current |-> region[CONTROL], update |-> update]}
      /\ touched' = {}
      /\ UNCHANGED <<region, block, answer>> /\ modifying = {}
  BY <1>1 DEF ModifyRead, InBounds
<1>3. Exclusive' /\ Raced'
  BY <1>1, <1>2 DEF ModifyRead, Exclusive, Raced, Word
<1> QED
  BY <1>1, <1>2, <1>3 DEF BlockInv, Mapped, Whole

\* The closure is applied to the copy, and the result written and returned.
LEMMA ModifyWriteKeepsInv ==
  ASSUME BlockInv, ModifyWrite
  PROVE  /\ BlockInv' /\ ~IsErr(answer')
         /\ modifying' = {}
         /\ \A m \in modifying : region'[CONTROL] = Updated(m.current, m.update)
         /\ DOMAIN region' = DOMAIN region
         /\ \A j \in DOMAIN region : j # CONTROL => region'[j] = region[j]
<1>1. PICK m \in modifying :
        /\ InBounds(CONTROL)
        /\ region' = [region EXCEPT ![CONTROL] = Updated(m.current, m.update)]
        /\ answer' = [word |-> Updated(m.current, m.update)]
        /\ modifying' = {} /\ touched' = {} /\ UNCHANGED block
  BY DEF ModifyWrite
<1>2. modifying = {m} /\ Updated(m.current, m.update) \in Word
  BY UpdatedWord DEF BlockInv, Exclusive
<1>3. /\ Mapped' /\ DOMAIN region' = DOMAIN region
      /\ region'[CONTROL] = Updated(m.current, m.update)
      /\ \A j \in DOMAIN region : j # CONTROL => region'[j] = region[j]
  BY <1>1, <1>2, RegionUpdate DEF BlockInv, InBounds
<1>4. ~IsErr(answer')
  BY <1>1, Answered
<1> QED
  BY <1>1, <1>2, <1>3, <1>4 DEF BlockInv, Whole, Exclusive, Raced, Word

\* A region is mapped, or refused.
LEMMA MapKeepsInv ==
  ASSUME BlockInv, ~block, modifying = {}, NEW count \in Nat, NEW as_block \in BOOLEAN,
         as_block => HasRegisters(count), Map(count, as_block)
  PROVE  BlockInv'
<1> DEFINE words == [i \in 0 .. count-1 |-> {}]
<1>1. words \in [0 .. count-1 -> Word]
  BY DEF Word
<1>2. as_block => Registers \subseteq DOMAIN words
  BY <1>1, RegionShape
<1>3. /\ region' = words /\ block' = as_block /\ answer' = Ok
      /\ UNCHANGED <<modifying, touched>>
  BY DEF Map
<1> HIDE DEF words
<1>4. Mapped'
  BY <1>1, <1>3 DEF Mapped
<1> QED
  BY <1>2, <1>3, <1>4, Answered DEF BlockInv, Whole, Exclusive, Raced

\* A refusal, where there is no block.
LEMMA RefuseKeepsInv ==
  ASSUME BlockInv, ~block, NEW e, Refuse(e)
  PROVE  BlockInv'
BY DEF Refuse, BlockInv, Mapped, Whole, Exclusive, Raced

\* A region is dropped, with its block if it has one.
LEMMA DropKeepsInv ==
  ASSUME BlockInv, modifying = {}, region' = << >>, ~block', block' \in BOOLEAN,
         UNCHANGED <<modifying, touched>>
  PROVE  BlockInv'
<1>1. region' \in [0 .. 0-1 -> Word]
  OBVIOUS
<1> QED
  BY <1>1 DEF BlockInv, Mapped, Whole, Exclusive, Raced

\* The hardware changes a register, and leaves a trace when it races.
LEMMA HardwareKeepsInv ==
  ASSUME BlockInv, NEW w \in Word, HardwareControl(w) \/ HardwareStatus(w)
  PROVE  BlockInv' /\ ~IsErr(answer') /\ UNCHANGED modifying
<1>1. /\ block /\ ~IsErr(answer) /\ UNCHANGED <<block, modifying, answer>>
  BY DEF HardwareControl, HardwareStatus, BlockInv, Whole
<1>2. CONTROL \in DOMAIN region /\ STATUS \in DOMAIN region /\ CONTROL # STATUS
  BY <1>1, HasControl DEF Registers, CONTROL, STATUS
<1>3. CASE HardwareControl(w)
  <2>1. /\ region' = [region EXCEPT ![CONTROL] = w]
        /\ touched' = IF modifying = {} THEN {}
                      ELSE touched \cup {b \in 0 .. 31 : (b \in w) # (b \in region[CONTROL])}
    BY <1>3 DEF HardwareControl
  <2>2. Mapped' /\ DOMAIN region' = DOMAIN region /\ region'[CONTROL] = w
    BY <1>2, <2>1, RegionUpdate DEF BlockInv
  <2>3. touched' \in Word
    BY <2>1 DEF BlockInv, Raced, Word
  <2>4. ASSUME NEW m \in modifying, NEW b \in 0 .. 31, (b \in m.current) # (b \in w)
        PROVE  b \in touched'
    <3>1. touched' = touched \cup {c \in 0 .. 31 : (c \in w) # (c \in region[CONTROL])}
      BY <2>1
    <3>2. CASE (b \in w) # (b \in region[CONTROL])
      BY <3>1, <3>2
    <3>3. CASE (b \in m.current) # (b \in region[CONTROL])
      BY <3>1, <3>3 DEF BlockInv, Raced
    <3> QED
      BY <2>4, <3>2, <3>3
  <2> QED
    BY <1>1, <2>2, <2>3, <2>4 DEF BlockInv, Whole, Exclusive, Raced
<1>4. CASE HardwareStatus(w)
  <2>1. region' = [region EXCEPT ![STATUS] = w] /\ UNCHANGED touched
    BY <1>4 DEF HardwareStatus
  <2>2. Mapped' /\ DOMAIN region' = DOMAIN region /\ region'[CONTROL] = region[CONTROL]
    BY <1>2, <2>1, RegionUpdate DEF BlockInv
  <2> QED
    BY <1>1, <2>1, <2>2 DEF BlockInv, Whole, Exclusive, Raced
<1> QED
  BY <1>3, <1>4

\* Every step of the block's operations, and of the hardware: none fails on a
\* block, and only ModifyWrite ends the modify_control that is under way.
LEMMA NextBlockInv ==
  ASSUME BlockInv, [Next]_vars
  PROVE  /\ BlockInv'
         /\ block => ~IsErr(answer') \/ UNCHANGED vars
         /\ ModifyWrite \/ modifying \ modifying' = {}
<1>1. CASE \E count \in Counts : FromSlice(count)
  <2>1. PICK count \in Nat : FromSlice(count)
    BY <1>1, WordAssumption
  <2>2. ~block /\ modifying = {}
    BY <2>1 DEF FromSlice, IsMapped, BlockInv, Whole, Exclusive, Registers
  <2> QED
    BY <2>1, <2>2, MapKeepsInv, RefuseKeepsInv DEF FromSlice
<1>2. CASE \E count \in Counts, base \in Base : MapRegion(base, count)
  <2>1. PICK count \in Nat, base \in Base : MapRegion(base, count)
    BY <1>2, WordAssumption
  <2>2. ~block /\ modifying = {}
    BY <2>1 DEF MapRegion, IsMapped, BlockInv, Whole, Exclusive, Registers
  <2> QED
    BY <2>1, <2>2, MapKeepsInv, RefuseKeepsInv DEF MapRegion
<1>3. CASE FromMmio
  <2>1. ~block /\ modifying = {} /\ UNCHANGED <<modifying, touched>>
    BY <1>3 DEF FromMmio, BlockInv, Exclusive
  <2>2. PICK n \in Nat : region \in [0 .. n-1 -> Word]
    BY DEF BlockInv, Mapped
  <2>3. CASE HasRegisters(Cardinality(DOMAIN region))
    <3>1. answer' = Ok /\ block' = TRUE /\ UNCHANGED region
      BY <1>3, <2>3 DEF FromMmio
    <3>2. Registers \subseteq DOMAIN region
      BY <2>2, <2>3, RegionShape
    <3> QED
      BY <2>1, <3>1, <3>2, Answered DEF BlockInv, Mapped, Whole, Exclusive, Raced
  <2>4. CASE ~HasRegisters(Cardinality(DOMAIN region))
    <3>1. region' = << >> /\ UNCHANGED block
      BY <1>3, <2>4 DEF FromMmio
    <3> QED
      BY <2>1, <3>1, DropKeepsInv DEF BlockInv, Whole
  <2> QED
    BY <2>3, <2>4
<1>4. CASE Unmap
  BY <1>4, DropKeepsInv DEF Unmap, BlockInv, Whole
<1>5. CASE \E index \in Counts : RegionRead(index)
  BY <1>5, ReadKeepsInv DEF RegionRead, ReadAt, Refuse
<1>6. CASE \E index \in Counts, w \in Words : RegionWrite(index, w)
  <2>1. PICK index \in Counts, w \in Word : ~block /\ WriteAt(index, w)
    BY <1>6, WordAssumption DEF RegionWrite
  <2> QED
    BY <2>1, WriteKeepsInv DEF BlockInv, Exclusive
<1>7. CASE \E register \in Readable : Read(register)
  BY <1>7, ReadKeepsInv DEF Read, Readable, Registers, ReadAt, Refuse
<1>8. CASE \E register \in Writable, w \in Words : Write(register, w)
  <2>1. PICK register \in Registers, w \in Word : modifying = {} /\ WriteAt(register, w)
    BY <1>8, WordAssumption DEF Write, Writable, Registers
  <2> QED
    BY <2>1, WriteKeepsInv
<1>9. CASE \E opcode \in Opcodes, queue_id \in QueueIds : IssueCommand(opcode, queue_id)
  <2>1. PICK opcode \in CommandOpCode, queue_id \in QueueId :
          modifying = {} /\ WriteAt(COMMAND, CommandWord(opcode, queue_id))
    BY <1>9, WordAssumption DEF IssueCommand, Write
  <2>2. CommandWord(opcode, queue_id) \in Word /\ COMMAND \in Registers
    BY CommandReadsBack DEF Registers
  <2> QED
    BY <2>1, <2>2, WriteKeepsInv
<1>10. CASE \E update \in Updates : ModifyRead(update)
  BY <1>10, ModifyReadKeepsInv, WordAssumption
<1>11. CASE ModifyWrite
  BY <1>11, ModifyWriteKeepsInv
<1>12. CASE \E w \in ControlWords : HardwareControl(w)
  BY <1>12, HardwareKeepsInv, WordAssumption
<1>13. CASE \E w \in StatusWords : HardwareStatus(w)
  BY <1>13, HardwareKeepsInv, WordAssumption
<1>14. CASE UNCHANGED vars
  BY <1>14 DEF vars, BlockInv, Mapped, Whole, Exclusive, Raced
<1> QED
  BY <1>1, <1>2, <1>3, <1>4, <1>5, <1>6, <1>7, <1>8, <1>9, <1>10, <1>11, <1>12,
     <1>13, <1>14 DEF Next

\* Registers hold words, and a block's region holds every register, whatever
\* was mapped and however the calls and the hardware take turns
\* (GpuRegisterBlock::check_register_len).
THEOREM TypeCorrect == Spec => []TypeOK
<1>1. BlockInv /\ [Next]_vars => BlockInv'
  BY NextBlockInv
<1>2. BlockInv => TypeOK
  BY BlockTyped
<1> QED
  BY InitBlockInv, <1>1, <1>2, PTL DEF Spec

\* Once a block is made, none of its accesses returns the register error that
\* check_index can give: 5 registers are enough for every index in use.
THEOREM NoRegisterError == Spec => BlockNeverFails
<1>1. BlockInv /\ [Next]_vars => BlockInv'
  BY NextBlockInv
<1>2. BlockInv /\ [Next]_vars => [block => ~IsErr(answer')]_vars
  BY NextBlockInv
<1> QED
  BY InitBlockInv, <1>1, <1>2, PTL DEF Spec, BlockNeverFails

\* modify_control loses a bit the closure does not set only when the hardware
\* changed that bit between the read and the write.
THEOREM RacingBits == Spec => OnlyRacingBitsAreLost
<1>1. BlockInv /\ [Next]_vars => BlockInv'
  BY NextBlockInv
<1>2. ASSUME BlockInv, [Next]_vars, NEW m \in modifying \ modifying',
             NEW b \in 0 .. 31 \ UpdatedBits(m.update),
             (b \in region'[CONTROL]) # (b \in region[CONTROL])
      PROVE  b \in touched
  <2>1. region'[CONTROL] = Updated(m.current, m.update)
    BY <1>2, NextBlockInv, ModifyWriteKeepsInv
  <2>2. b \in Updated(m.current, m.update) <=> b \in m.current
    BY <1>2, UpdatedWord DEF BlockInv, Exclusive
  <2>3. (b \in m.current) # (b \in region[CONTROL])
    BY <1>2, <2>1, <2>2
  <2> QED
    BY <1>2, <2>3 DEF BlockInv, Raced
<1>3. BlockInv /\ [Next]_vars =>
        [\A m \in modifying \ modifying' : \A b \in 0 .. 31 \ UpdatedBits(m.update) :
           (b \in region'[CONTROL]) # (b \in region[CONTROL]) => b \in touched]_vars
  BY <1>2
<1> QED
  BY InitBlockInv, <1>1, <1>3, PTL DEF Spec, OnlyRacingBitsAreLost

\* Every field reads back what was written to it: the fields a closure set,
\* whatever raced with modify_control, and the opcode and queue of a command,
\* for all 256 queue ids.
THEOREM ReadBack == Spec => FieldsReadBack
<1>1. BlockInv /\ [Next]_vars => BlockInv'
  BY NextBlockInv
<1>2. ASSUME BlockInv, [Next]_vars, NEW m \in modifying \ modifying'
      PROVE  /\ "enabled" \in m.update.sets =>
                  Enabled(region'[CONTROL]) = m.update.enabled
             /\ "irq_enabled" \in m.update.sets =>
                  IrqEnabled(region'[CONTROL]) = m.update.irq_enabled
             /\ "power_mode" \in m.update.sets =>
                  PowerModeOf(region'[CONTROL]) = m.update.power_mode
  <2>1. region'[CONTROL] = Updated(m.current, m.update)
    BY <1>2, NextBlockInv, ModifyWriteKeepsInv
  <2>2. m.current \in Word /\ m.update \in Update
    BY <1>2 DEF BlockInv, Exclusive
  <2> QED
    BY <2>1, <2>2, UpdatedWord
<1>3. ASSUME BlockInv, NEW opcode \in Opcodes, NEW queue_id \in QueueIds,
             IssueCommand(opcode, queue_id)
      PROVE  /\ OpcodeBits(region'[COMMAND]) = opcode
             /\ QueueIdOf(region'[COMMAND]) = queue_id
  <2>1. opcode \in CommandOpCode /\ queue_id \in QueueId
    BY WordAssumption
  <2>2. /\ block /\ modifying = {} /\ COMMAND \in Registers
        /\ WriteAt(COMMAND, CommandWord(opcode, queue_id))
    BY <1>3 DEF IssueCommand, Write, Registers
  <2>3. region'[COMMAND] = CommandWord(opcode, queue_id)
    BY <1>3, <2>1, <2>2, CommandReadsBack, WriteKeepsInv
  <2> QED
    BY <2>1, <2>3, CommandReadsBack
<1>4. BlockInv /\ [Next]_vars =>
        [/\ \A m \in modifying \ modifying' :
              /\ "enabled" \in m.update.sets =>
                   Enabled(region'[CONTROL]) = m.update.enabled
              /\ "irq_enabled" \in m.update.sets =>
                   IrqEnabled(region'[CONTROL]) = m.update.irq_enabled
              /\ "power_mode" \in m.update.sets =>
                   PowerModeOf(region'[CONTROL]) = m.update.power_mode
         /\ \A opcode \in Opcodes, queue_id \in QueueIds :
              IssueCommand(opcode, queue_id) =>
                /\ OpcodeBits(region'[COMMAND]) = opcode
                /\ QueueIdOf(region'[COMMAND]) = queue_id]_vars
  BY <1>2, <1>3
<1> QED
  BY InitBlockInv, <1>1, <1>4, PTL DEF Spec, FieldsReadBack

-----------------------------------------------------------------------------
(* The interrupt controller.                                               *)

\* The lines and the reserved bits.
LinesTyped ==
  /\ {int_status, snapshot, unseen} \subseteq SUBSET Lines
  /\ {int_ack, acked} \subseteq SUBSET VALID_INTERRUPT_MASK

\* A line of the snapshot that is down, or up and not seen, was acknowledged
\* since the snapshot was read: what it takes for an acknowledgement of the
\* snapshot to lose an event is that it was acknowledged before.
Traced ==
  /\ snapshot \ int_status \subseteq acked
  /\ snapshot \cap unseen \subseteq acked

IntInv == BlockInv /\ block /\ LinesTyped /\ Traced

\* The types, of the invariant.
LEMMA IntInvTyped == IntInv => InterruptsTypeOK
BY BlockTyped DEF IntInv, InterruptsTypeOK, LinesTyped

\* A controller with any lines up.
LEMMA InitIntInv == InterruptInit => IntInv
<1> SUFFICES ASSUME InterruptInit
             PROVE  IntInv
  OBVIOUS
<1>1. PICK up \in SUBSET Lines :
        /\ region = [i \in Registers |-> IF i = INT_STATUS THEN up ELSE {}]
        /\ unseen = up
  BY DEF InterruptInit
<1>2. /\ block = TRUE /\ modifying = {} /\ touched = {} /\ answer = Ok
      /\ snapshot = {} /\ acked = {}
  BY DEF InterruptInit
<1>3. Registers = 0 .. 5-1
  BY DEF Registers, CONTROL, STATUS, COMMAND, INT_STATUS, INT_ACK
<1>4. region \in [Registers -> Word] /\ DOMAIN region = Registers
  BY <1>1, LinesAssumption DEF Word
<1>5. Mapped
  BY <1>3, <1>4 DEF Mapped
<1>6. BlockInv
  BY <1>2, <1>4, <1>5, Answered DEF BlockInv, Whole, Exclusive, Raced, Word
<1>7. int_status = up /\ int_ack = {}
  BY <1>1 DEF int_status, int_ack, Registers, INT_STATUS, INT_ACK
<1> QED
  BY <1>1, <1>2, <1>6, <1>7 DEF IntInv, LinesTyped, Traced

\* A word of the block other than CONTROL is changed by nothing but the
\* controller and its hardware.
LEMMA OtherWords ==
  ASSUME IntInv, NEW i \in Registers \ {CONTROL}, NEW w \in Word,
         region' = [region EXCEPT ![i] = w],
         UNCHANGED <<block, modifying, touched>>, ~IsErr(answer')
  PROVE  /\ BlockInv' /\ block'
         /\ region'[i] = w
         /\ \A j \in Registers : j # i => region'[j] = region[j]
<1>1. i \in DOMAIN region /\ Registers \subseteq DOMAIN region
  BY HasControl DEF IntInv
<1>2. /\ Mapped' /\ DOMAIN region' = DOMAIN region
      /\ region'[i] = w
      /\ \A j \in DOMAIN region : j # i => region'[j] = region[j]
  BY <1>1, RegionUpdate DEF IntInv, BlockInv
<1>3. CONTROL \in Registers
  BY DEF Registers
<1> QED
  BY <1>1, <1>2, <1>3 DEF IntInv, BlockInv, Whole, Exclusive, Raced

\* A line goes up; one that the snapshot showed was acknowledged before.
LEMMA RaiseKeepsInv ==
  ASSUME IntInv, NEW line \in Lines, Raise(line)
  PROVE  IntInv' /\ int_status \subseteq int_status'
<1>1. /\ INT_STATUS \in Registers \ {CONTROL} /\ INT_ACK \in Registers
      /\ INT_ACK # INT_STATUS
  BY DEF Registers, INT_STATUS, INT_ACK, CONTROL
<1>2. region[INT_STATUS] \cup {line} \in Word
  BY LinesAssumption DEF IntInv, LinesTyped, int_status, Word
<1>3. ~IsErr(answer')
  BY DEF Raise, IntInv, BlockInv, Whole
<1>4. /\ BlockInv' /\ block' /\ int_status' = int_status \cup {line}
      /\ int_ack' = int_ack
  BY <1>1, <1>2, <1>3, OtherWords DEF Raise, int_status, int_ack
<1> QED
  BY <1>4 DEF Raise, IntInv, LinesTyped, Traced

\* A snapshot sees every line that is up.
LEMMA PendingKeepsInv ==
  ASSUME IntInv, Pending
  PROVE  IntInv' /\ int_status' = int_status
<1>1. INT_STATUS \in Registers
  BY DEF Registers
<1>2. BlockInv' /\ answer' = [word |-> region[INT_STATUS]] /\ ~IsErr(answer')
  BY <1>1, ReadKeepsInv DEF Pending, Read, IntInv
<1>3. UNCHANGED <<region, block>>
  BY DEF Pending, Read, ReadAt, Refuse
<1>4. snapshot' = int_status /\ acked' = {} /\ unseen' = unseen \ int_status
  BY <1>2 DEF Pending, int_status
<1> QED
  BY <1>2, <1>3, <1>4 DEF IntInv, LinesTyped, Traced, int_status, int_ack

\* The events a client can name are no reserved ones.
LEMMA AckKeepsInv ==
  ASSUME IntInv, NEW events \in EventSets, Ack(events)
  PROVE  /\ IntInv'
         /\ int_status' = int_status \ events
         /\ acked' = acked \cup events
         /\ UNCHANGED <<snapshot, unseen>>
<1>1. events \subseteq VALID_INTERRUPT_MASK
  BY DEF EventSets, Events, FromStatusBits
<1>2. /\ INT_STATUS \in Registers \ {CONTROL} /\ INT_ACK \in Registers \ {CONTROL}
      /\ INT_ACK # INT_STATUS /\ Registers \subseteq DOMAIN region
      /\ CONTROL \in Registers
  BY HasControl DEF IntInv, Registers, INT_STATUS, INT_ACK, CONTROL
<1>3. /\ region' = [region EXCEPT ![INT_ACK] = events, ![INT_STATUS] = @ \ events]
      /\ answer' = Ok /\ acked' = acked \cup events
      /\ UNCHANGED <<block, modifying, touched, snapshot, unseen>>
  BY <1>2 DEF Ack, AckWord, InBounds
<1>4. VALID_INTERRUPT_MASK \subseteq 0 .. 31
  BY DEF VALID_INTERRUPT_MASK
<1>5. events \in Word /\ region[INT_STATUS] \ events \in Word
  BY <1>1, <1>4, LinesAssumption DEF IntInv, LinesTyped, int_status, Word
<1>6. Mapped' /\ DOMAIN region' = DOMAIN region
  BY <1>3, <1>5 DEF IntInv, BlockInv, Mapped
<1>7. /\ region'[INT_ACK] = events /\ region'[INT_STATUS] = region[INT_STATUS] \ events
      /\ region'[CONTROL] = region[CONTROL]
  BY <1>2, <1>3
<1>8. BlockInv' /\ block'
  BY <1>2, <1>3, <1>6, <1>7, Answered DEF IntInv, BlockInv, Whole, Exclusive, Raced
<1>9. LinesTyped'
  BY <1>1, <1>3, <1>7 DEF IntInv, LinesTyped, int_status, int_ack
<1>10. Traced'
  BY <1>3, <1>7 DEF IntInv, Traced, int_status
<1> QED
  BY <1>3, <1>7, <1>8, <1>9, <1>10 DEF IntInv, int_status

\* modify_control leaves the interrupt registers alone.
LEMMA ModifyControlKeepsInv ==
  ASSUME IntInv, ModifyControl
  PROVE  IntInv' /\ int_status' = int_status
<1>1. INT_STATUS \in Registers \ {CONTROL} /\ INT_ACK \in Registers \ {CONTROL}
  BY DEF Registers, INT_STATUS, INT_ACK, CONTROL
<1>2. Registers \subseteq DOMAIN region /\ UNCHANGED client
  BY HasControl DEF IntInv, ModifyControl
<1>3. CASE ModifyWrite
  <2>1. BlockInv' /\ \A j \in DOMAIN region : j # CONTROL => region'[j] = region[j]
    BY <1>3, ModifyWriteKeepsInv DEF IntInv
  <2>2. block'
    BY <1>3 DEF ModifyWrite, IntInv
  <2> QED
    BY <1>1, <1>2, <2>1, <2>2 DEF IntInv, LinesTyped, Traced, client, int_status, int_ack
<1>4. CASE \E update \in Updates : ModifyRead(update)
  <2>1. PICK update \in Update : ModifyRead(update)
    BY <1>4, WordAssumption
  <2>2. BlockInv' /\ UNCHANGED region
    BY <2>1, ModifyReadKeepsInv DEF IntInv
  <2>3. block'
    BY <2>1 DEF ModifyRead, IntInv, Refuse
  <2> QED
    BY <1>2, <2>2, <2>3 DEF IntInv, LinesTyped, Traced, client, int_status, int_ack
<1> QED
  BY <1>3, <1>4 DEF ModifyControl

\* Only an acknowledgement takes a line down, and the lines it names alone.
LEMMA NextIntInv ==
  ASSUME IntInv, [InterruptNext]_interruptVars
  PROVE  /\ IntInv'
         /\ \A line \in unseen \cap (int_status \ int_status') :
              line \in acked' /\ (line \in snapshot => line \in acked)
<1>1. CASE \E line \in Lines : Raise(line)
  BY <1>1, RaiseKeepsInv
<1>2. CASE Pending
  BY <1>2, PendingKeepsInv
<1>3. CASE \E events \in EventSets : Ack(events)
  BY <1>3, AckKeepsInv DEF IntInv, Traced
<1>4. CASE ModifyControl
  BY <1>4, ModifyControlKeepsInv
<1>5. CASE UNCHANGED interruptVars
  BY <1>5 DEF interruptVars, vars, client, IntInv, BlockInv, Mapped, Whole, Exclusive,
     Raced, LinesTyped, Traced, int_status, int_ack
<1> QED
  BY <1>1, <1>2, <1>3, <1>4, <1>5 DEF InterruptNext

\* Reserved bits of INT_ACK are never written, for every set of lines.
THEOREM InterruptsTyped == InterruptSpec => []InterruptsTypeOK
<1>1. IntInv /\ [InterruptNext]_interruptVars => IntInv'
  BY NextIntInv
<1> QED
  BY InitIntInv, IntInvTyped, <1>1, PTL DEF InterruptSpec

\* An event no snapshot has shown survives every acknowledgement but one that
\* names it unseen, or for the second time.
THEOREM CarelessAcks == InterruptSpec => OnlyCarelessAcksLose
<1>1. IntInv /\ [InterruptNext]_interruptVars => IntInv'
  BY NextIntInv
<1>2. IntInv /\ [InterruptNext]_interruptVars =>
        [\A line \in unseen \cap (int_status \ int_status') :
           line \in acked' /\ (line \in snapshot => line \in acked)]_interruptVars
  BY NextIntInv
<1> QED
  BY InitIntInv, <1>1, <1>2, PTL DEF InterruptSpec, OnlyCarelessAcksLose

=============================================================================
