----------------------------- MODULE StatusWait -----------------------------
(***************************************************************************)
(* What wait_until_ready (polling.rs) promises its caller, and nothing of  *)
(* how it polls: a call looks at the device's status any number of times   *)
(* and returns what the last look shows.  The device may change after the  *)
(* last look, so that Ready says what the device was, not what it is.      *)
(***************************************************************************)
EXTENDS Naturals, RegisterFields

CONSTANT Timeouts  \* the timeouts callers configure

VARIABLES
  waiting,  \* a call is in progress
  timeout,  \* its timeout
  elapsed,  \* the time since its start
  seen,     \* the status it saw last, if it looked at all
  result,   \* what the last call returned
  device    \* the STATUS register, as the hardware has it now

vars == <<waiting, timeout, elapsed, seen, result, device>>

Init ==
  /\ ~waiting
  /\ timeout = 0 /\ elapsed = 0
  /\ seen = {}
  /\ result = "None"
  /\ device \in FlagWords

RefuseConfig ==
  /\ ~waiting
  /\ result' = "ZeroPollInterval"
  /\ UNCHANGED <<waiting, timeout, elapsed, seen, device>>

Begin ==
  /\ ~waiting
  /\ waiting'
  /\ timeout' \in Timeouts
  /\ elapsed' = 0
  /\ seen' = {}
  /\ result' = "None"
  /\ UNCHANGED device

Decided == \E w \in seen : Fault(w) \/ Ready(w)

\* A status that decides the call is the last one it looks at.
Look ==
  /\ waiting
  /\ ~Decided
  /\ seen' = {device}
  /\ UNCHANGED <<waiting, timeout, elapsed, result, device>>

Justified(outcome) ==
  CASE outcome = "Fault"   -> \E w \in seen : Fault(w)
    [] outcome = "Ready"   -> \E w \in seen : Ready(w) /\ ~Fault(w)
    [] outcome = "Timeout" -> seen # {} /\ ~Decided /\ elapsed >= timeout
    [] outcome = "Source"  -> ~Decided

Return ==
  /\ waiting
  /\ ~waiting'
  /\ result' \in {"Ready", "Fault", "Timeout", "Source"}
  /\ Justified(result')
  /\ seen' = {}
  /\ UNCHANGED <<timeout, elapsed, device>>

TimePasses ==
  /\ waiting
  /\ elapsed' > elapsed
  /\ UNCHANGED <<waiting, timeout, seen, result, device>>

DeviceChanges ==
  /\ device' \in FlagWords
  /\ UNCHANGED <<waiting, timeout, elapsed, seen, result>>

Next ==
  RefuseConfig \/ Begin \/ Look \/ Return \/ TimePasses \/ DeviceChanges

Spec == Init /\ [][Next]_vars

=============================================================================
