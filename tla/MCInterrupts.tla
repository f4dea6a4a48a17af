---------------------------- MODULE MCInterrupts ----------------------------
(***************************************************************************)
(* A small interrupt controller for TLC.                                   *)
(***************************************************************************)
EXTENDS Interrupts

\* The driver turns interrupts on.
MCUpdates ==
  {[sets |-> {"irq_enabled"}, enabled |-> FALSE, irq_enabled |-> TRUE, power_mode |-> 0]}

=============================================================================
