----------------------------- MODULE Interrupts -----------------------------
(***************************************************************************)
(* Interrupt handling: the InterruptController of interrupts.rs over the   *)
(* register block of RegisterBlock, which this module extends by what the  *)
(* client saw and did, with modify_control beside the controller.  The     *)
(* hardware raises lines between any two accesses of the block; the client *)
(* reads a snapshot of all lines and acknowledges events.                  *)
(*                                                                         *)
(* The device is external: a line stays up until its bit is written to     *)
(* INT_ACK, a line that is up cannot be raised again, and reserved lines   *)
(* can be up as well.  The client is external too, and writes INT_ACK only *)
(* through the controller.  Nothing else is asked of it: the constants of  *)
(* InterruptEvents are public and a snapshot is Copy, so it acknowledges   *)
(* what it likes, events no snapshot showed and the same ones again too.   *)
(***************************************************************************)
EXTENDS RegisterBlock

CONSTANT
  Lines        \* the lines of INT_STATUS the hardware raises

ASSUME LinesAssumption == Lines \in Word

VARIABLES
  snapshot,    \* the InterruptSnapshot read last
  acked,       \* the events the client acknowledged since it read it
  unseen       \* the events raised that no snapshot has shown

client == <<snapshot, acked, unseen>>
interruptVars == <<vars, client>>

int_status == region[INT_STATUS]
int_ack == region[INT_ACK]

-----------------------------------------------------------------------------
\* A block over the five registers, with any lines up.
InterruptInit ==
  /\ \E up \in SUBSET Lines :
       /\ region = [i \in Registers |-> IF i = INT_STATUS THEN up ELSE {}]
       /\ unseen = up
  /\ block = TRUE
  /\ modifying = {} /\ touched = {}
  /\ answer = Ok
  /\ snapshot = {} /\ acked = {}

\* The hardware raises a line.
Raise(line) ==
  /\ line \notin int_status
  /\ region' = [region EXCEPT ![INT_STATUS] = @ \cup {line}]
  /\ unseen' = unseen \cup {line}
  /\ UNCHANGED <<block, modifying, touched, answer, snapshot, acked>>

\* pending: a snapshot of the raw word, reserved lines included.
Pending ==
  /\ Read(INT_STATUS)
  /\ IF IsErr(answer')
     THEN UNCHANGED client
     ELSE /\ snapshot' = answer'.word
          /\ acked' = {}
          /\ unseen' = unseen \ answer'.word

\* InterruptSnapshot::events.
Events(raw) == FromStatusBits(raw)

\* Mutant: every event is acknowledged, whatever was asked for.
AckAll(events) == VALID_INTERRUPT_MASK

\* ack_interrupts writes the bits of the events and no other.
AckWord(events) == events

\* ack: Write(INT_ACK, ...) of the block, at which the hardware takes the lines
\* down whose bits are written.
Ack(events) ==
  /\ block /\ modifying = {}
  /\ IF InBounds(INT_ACK)
     THEN /\ region' = [region EXCEPT ![INT_ACK] = AckWord(events),
                                      ![INT_STATUS] = @ \ AckWord(events)]
          /\ answer' = Ok
          /\ acked' = acked \cup events
          /\ UNCHANGED <<block, modifying, touched, snapshot, unseen>>
     ELSE Refuse("OutOfBounds") /\ UNCHANGED client

\* The event sets a client can make: combinations of the constants of
\* InterruptEvents, and what a snapshot gives.
EventSets == (SUBSET VALID_INTERRUPT_MASK) \cup {Events(snapshot)}

\* modify_control borrows the block exclusively: the controller waits, the
\* lines do not.
ModifyControl ==
  /\ ModifyWrite \/ \E update \in Updates : ModifyRead(update)
  /\ UNCHANGED client

InterruptNext ==
  \/ \E line \in Lines : Raise(line)
  \/ Pending
  \/ \E events \in EventSets : Ack(events)
  \/ ModifyControl

InterruptSpec == InterruptInit /\ [][InterruptNext]_interruptVars

-----------------------------------------------------------------------------
(* Properties.                                                             *)

\* Type invariant.  The reserved bits of INT_ACK are never written, also when
\* reserved lines are up in the snapshot that is acknowledged.
InterruptsTypeOK ==
  /\ TypeOK
  /\ {int_status, snapshot, unseen} \subseteq SUBSET Lines
  /\ {int_ack, acked} \subseteq SUBSET VALID_INTERRUPT_MASK

\* An event that no snapshot has shown is lost only by a careless client: one
\* that asks for it though its snapshot did not show it, or asks for it again.
\* An event that arrives between the read of INT_STATUS and the write of
\* INT_ACK survives the acknowledgement of what was read, and of other events.
OnlyCarelessAcksLose ==
  [][\A line \in unseen \cap (int_status \ int_status') :
       line \in acked' /\ (line \in snapshot => line \in acked)]_interruptVars

=============================================================================
