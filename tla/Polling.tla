------------------------------ MODULE Polling ------------------------------
(***************************************************************************)
(* wait_until_ready (polling.rs): a thread reads the device's status until *)
(* the device is ready, reports a fault, or the timeout is over, sleeping  *)
(* between the reads.  The device and the clock run beside the thread: the *)
(* status may change, and time may pass, between any two of its steps.     *)
(*                                                                         *)
(* Time is counted from the start of the call, in the unit of the          *)
(* durations.  Three steps of the loop are told apart because what they    *)
(* see can be out of date by the next one: the read of the status, the     *)
(* tests on it and on the clock, and the end of the sleep.                 *)
(***************************************************************************)
EXTENDS Integers, RegisterFields

CONSTANTS
  Timeouts,    \* the timeouts callers configure
  Intervals,   \* the poll intervals callers configure, zero included
  MaxPolls,    \* u64::MAX, where the count of reads saturates
  Latency,     \* how long the read of a status takes at most
  Oversleep    \* how much longer than asked a sleep lasts at most

ASSUME DurationAssumption == Timeouts \subseteq Nat /\ Intervals \subseteq Nat
ASSUME TimerAssumption == Latency \in Nat /\ Oversleep \in Nat
ASSUME MaxPollsAssumption == MaxPolls \in Nat \ {0}

\* The results of a call, and the two values the last result can have beside.
Outcome == {"Ready", "Fault", "Timeout", "Source"}
Never == -1

VARIABLES
  pc,          \* "idle", "read", "test" or "sleep"
  timeout,     \* the PollConfig of the call
  poll_interval,
  elapsed,     \* the time since the start of the call
  polls,       \* the reads begun by the call
  status,      \* the StatusSnapshot the call read last
  read_at,     \* when it read it
  wake_at,     \* when the sleep asked for ends
  result,      \* what the last call returned
  device,      \* the STATUS register, as the hardware has it now
  ready_since  \* since when the device is ready and has no fault, or Never

call == <<timeout, poll_interval, polls, status, read_at, wake_at>>
vars == <<pc, timeout, poll_interval, elapsed, polls, status, read_at, wake_at,
          result, device, ready_since>>

-----------------------------------------------------------------------------
IsUsable(w) == Ready(w) /\ ~Fault(w)

Init ==
  /\ pc = "idle"
  /\ timeout = 0 /\ poll_interval = 1
  /\ elapsed = 0 /\ polls = 0 /\ read_at = 0 /\ wake_at = 0
  /\ status = {}
  /\ result = "None"
  /\ device \in FlagWords
  /\ ready_since = IF IsUsable(device) THEN 0 ELSE Never

\* Mutant: an interval of zero is accepted.
AcceptsAny(i) == TRUE

\* PollConfig::new refuses an interval of zero.
Accepts(i) == i # 0

PollConfig == [timeout : Timeouts, poll_interval : Intervals]

RejectConfig(config) ==
  /\ pc = "idle"
  /\ ~Accepts(config.poll_interval)
  /\ result' = "ZeroPollInterval"
  /\ UNCHANGED <<pc, call, elapsed, device, ready_since>>

\* PollConfig::new and the call of wait_until_ready, which notes the time.
Call(config) ==
  /\ pc = "idle"
  /\ Accepts(config.poll_interval)
  /\ pc' = "read"
  /\ timeout' = config.timeout /\ poll_interval' = config.poll_interval
  /\ elapsed' = 0 /\ polls' = 0 /\ read_at' = 0 /\ wake_at' = 0
  /\ status' = {}
  /\ result' = "None"
  /\ ready_since' = IF ready_since = Never THEN Never ELSE 0
  /\ UNCHANGED device

Return(outcome) ==
  /\ result' = outcome
  /\ pc' = "idle"

Counted == IF polls = MaxPolls THEN polls ELSE polls + 1

ReadStatus ==
  /\ pc = "read"
  /\ polls' = Counted
  /\ status' = device
  /\ read_at' = elapsed
  /\ pc' = "test"
  /\ UNCHANGED <<timeout, poll_interval, elapsed, wake_at, result, device, ready_since>>

\* read_status fails, which ends the call.
ReadFails ==
  /\ pc = "read"
  /\ polls' = Counted
  /\ Return("Source")
  /\ UNCHANGED <<timeout, poll_interval, elapsed, status, read_at, wake_at,
                 device, ready_since>>

Shorter(a, b) == IF a <= b THEN a ELSE b

\* Mutants: a whole interval whatever remains, or the shortest sleep.
WholeInterval == poll_interval
OneUnit == Shorter(1, timeout - elapsed)

\* How long the loop sleeps: an interval, or what remains of the timeout.
Delay == Shorter(poll_interval, timeout - elapsed)

\* Mutant: the loop gives up only after the timeout, not at its end.
IsOverLate == elapsed > timeout

\* Mutant: the loop gives up when the next sleep would use the budget up.
IsOverAfterSleep == elapsed + Delay >= timeout

IsOver == elapsed >= timeout

\* Mutant: the flags of the snapshot are tested in the other order.
VerdictReadyFirst(w) ==
  IF Ready(w) THEN "Ready" ELSE IF Fault(w) THEN "Fault" ELSE "Undecided"

\* The tests on the snapshot: a fault wins over ready, and busy is not asked.
Verdict(w) ==
  IF Fault(w) THEN "Fault" ELSE IF Ready(w) THEN "Ready" ELSE "Undecided"

\* The tests on the snapshot, then on the clock: a status that decides the
\* call wins over a timeout that is over.
Test ==
  /\ pc = "test"
  /\ \/ /\ Verdict(status) # "Undecided"
        /\ Return(Verdict(status))
        /\ UNCHANGED wake_at
     \/ /\ Verdict(status) = "Undecided"
        /\ IsOver
        /\ Return("Timeout")
        /\ UNCHANGED wake_at
     \/ /\ Verdict(status) = "Undecided"
        /\ ~IsOver
        /\ wake_at' = elapsed + Delay
        /\ pc' = "sleep"
        /\ UNCHANGED result
  /\ UNCHANGED <<timeout, poll_interval, elapsed, polls, status, read_at,
                 device, ready_since>>

Wake ==
  /\ pc = "sleep"
  /\ elapsed >= wake_at
  /\ pc' = "read"
  /\ UNCHANGED <<call, elapsed, result, device, ready_since>>

\* Time passes while the thread reads or sleeps, within what the bus and the
\* scheduler of the host allow.
Tick ==
  /\ \/ pc = "test" /\ elapsed < read_at + Latency
     \/ pc = "sleep" /\ elapsed < wake_at + Oversleep
  /\ elapsed' = elapsed + 1
  /\ UNCHANGED <<pc, call, result, device, ready_since>>

\* The hardware changes its status whenever it likes.
DeviceChanges ==
  /\ device' \in FlagWords
  /\ device' # device
  /\ ready_since' = IF ~IsUsable(device') THEN Never
                    ELSE IF ready_since = Never THEN elapsed ELSE ready_since
  /\ UNCHANGED <<pc, call, elapsed, result>>

Next ==
  \/ \E config \in PollConfig : RejectConfig(config) \/ Call(config)
  \/ ReadStatus
  \/ ReadFails
  \/ Test
  \/ Wake
  \/ Tick
  \/ DeviceChanges

Spec == Init /\ [][Next]_vars

\* The thread keeps running and time keeps passing; the caller need not call
\* and the device need not change.
Fairness ==
  /\ WF_vars(ReadStatus \/ ReadFails)
  /\ WF_vars(Test)
  /\ WF_vars(Wake)
  /\ WF_vars(Tick)

FairSpec == Spec /\ Fairness

-----------------------------------------------------------------------------
(* Properties.                                                             *)

\* Type invariant.
TypeOK ==
  /\ pc \in {"idle", "read", "test", "sleep"}
  /\ timeout \in Nat /\ poll_interval \in Nat \ {0}
  /\ {elapsed, polls, read_at, wake_at} \subseteq Nat
  /\ {status, device} \subseteq FlagWords
  /\ result \in Outcome \cup {"None", "ZeroPollInterval"}
  /\ ready_since \in Nat \cup {Never}

\* The loop never asks for a sleep past the end of the timeout, and never for
\* an empty one, with which it would read the bus without a pause: however
\* long the read took, the sleep ends after the time at which it begins.
SleepWithinBudget ==
  [][pc' = "sleep" /\ pc # "sleep" =>
       elapsed < wake_at' /\ wake_at' <= timeout]_vars

\* The call is over, or about to be, at most one late wake-up and one read
\* after the timeout.
EndsInBudget ==
  elapsed <= timeout + Oversleep + Latency

\* A call reads at most once per interval that the timeout begins, and once
\* more when it is over, however the reads and the sleeps run late.
PollsBounded ==
  polls <= (timeout + poll_interval - 1) \div poll_interval + 1

\* No timeout is reported to the caller of a device that is ready without a
\* fault in time, and stays so: a device ready Latency before the end of the
\* timeout is seen, though the loop may have slept past the end.
ReadyInTimeIsSeen ==
  [][result' = "Timeout" /\ result # "Timeout" =>
       ~(ready_since # Never /\ ready_since < timeout - Latency)]_vars

\* What a call promises a caller who does not see the loop: the refinement
\* hides the sleeps, the interval and the count of the reads.
Wait == INSTANCE StatusWait WITH
  waiting <- pc # "idle",
  seen <- IF pc = "idle" \/ polls = 0 THEN {} ELSE {status}

\* The loop implements the wait: it returns on the first snapshot that decides
\* the call, with the fault when there is one, and reports a timeout only when
\* the last snapshot shows neither flag.
ImplementsWait == Wait!Spec

\* Every call returns, whatever the device does.
CallReturns == pc # "idle" ~> pc = "idle"

=============================================================================
