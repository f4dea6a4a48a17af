-------------------------- MODULE MCRegisterBlock --------------------------
(***************************************************************************)
(* A small register block for TLC.                                         *)
(***************************************************************************)
EXTENDS RegisterBlock

\* One field at a time with each of its values, and all of them together.
MCUpdates ==
  {u \in Update :
     \/ u.sets = {"enabled"} /\ u.irq_enabled = FALSE /\ u.power_mode = 0
     \/ u.sets = {"irq_enabled"} /\ u.enabled = FALSE /\ u.power_mode = 0
     \/ u.sets = {"power_mode"} /\ u.enabled = FALSE /\ u.irq_enabled = FALSE
     \/ /\ u.sets = {"enabled", "irq_enabled", "power_mode"}
        /\ u.enabled = TRUE /\ u.irq_enabled = FALSE /\ u.power_mode = 1}

=============================================================================
