--------------------------- MODULE Polling_proofs ---------------------------
(***************************************************************************)
(* Proofs about wait_until_ready, for every timeout, every interval and    *)
(* every latency of the bus and of the host's timer: the loop stays in its *)
(* budget, reads the status a bounded number of times, does not report a   *)
(* timeout for a device that was ready in time, and implements the wait of *)
(* StatusWait.                                                             *)
(***************************************************************************)
EXTENDS Polling, TLAPS

\* How far the clock can be: the thread has slept to the end of the timeout
\* at most, and every delay of the host counts once.
Clock ==
  /\ read_at <= elapsed
  /\ pc = "read"  => elapsed <= timeout + Oversleep
  /\ pc = "test"  => read_at <= timeout + Oversleep /\ elapsed <= read_at + Latency
  /\ pc = "sleep" => elapsed <= wake_at + Oversleep
  /\ elapsed <= timeout + Oversleep + Latency

\* The reads done are bounded by the time passed: a whole interval has passed
\* for each of them, but for the last one, whose sleep ended with the timeout.
Pace ==
  /\ (polls - 2) * poll_interval < timeout
  /\ pc = "read"  => /\ (polls - 1) * poll_interval < timeout
                     /\ elapsed >= timeout \/ polls * poll_interval <= elapsed
  /\ pc = "test"  => read_at >= timeout \/ (polls - 1) * poll_interval <= read_at
  /\ pc = "sleep" => /\ (polls - 1) * poll_interval < timeout
                     /\ wake_at = timeout \/ polls * poll_interval <= wake_at

\* What the snapshot shows.  A device that was ready before the read, and has
\* been since, was ready at the read.  A loop that goes on has seen nothing
\* that decides the call.
Snapshot ==
  /\ ready_since # Never => IsUsable(device) /\ ready_since <= elapsed
  /\ pc = "test" /\ ready_since # Never /\ ready_since < read_at => IsUsable(status)
  /\ pc \in {"test", "sleep"} => polls # 0
  /\ pc \in {"read", "sleep"} /\ polls # 0 => Verdict(status) = "Undecided"

\* A sleep ends after the read before it and not after the timeout.
Sleeping == pc = "sleep" => read_at < wake_at /\ wake_at <= timeout

\* The inductive invariant.
IInv == TypeOK /\ Sleeping /\ Clock /\ Pace /\ Snapshot

-----------------------------------------------------------------------------
(* Words and durations.                                                    *)

\* A word is usable, decides for a fault, or decides nothing.
LEMMA Verdicts ==
  ASSUME NEW w
  PROVE  /\ IsUsable(w) <=> Verdict(w) = "Ready"
         /\ Fault(w) <=> Verdict(w) = "Fault"
         /\ Verdict(w) \in {"Ready", "Fault", "Undecided"}
         /\ Verdict(w) = "Undecided" <=> ~Ready(w) /\ ~Fault(w)
BY DEF Verdict, IsUsable

\* A step of the loop before the end of the timeout asks for a sleep that is
\* not empty and ends with the interval or with the timeout.
LEMMA DelayBounds ==
  ASSUME TypeOK, ~IsOver
  PROVE  /\ Delay \in Nat \ {0}
         /\ elapsed + Delay <= timeout
         /\ Delay = poll_interval \/ elapsed + Delay = timeout
BY DEF TypeOK, IsOver, Delay, Shorter

\* One more interval.
LEMMA Product ==
  ASSUME NEW n \in Int, NEW i \in Int
  PROVE  /\ n * i \in Int
         /\ (n + 1) * i = n * i + i
         /\ (n - 1) * i = n * i - i
         /\ (n - 2) * i = n * i - 2 * i
OBVIOUS

-----------------------------------------------------------------------------
\* The initial state satisfies the invariant.
LEMMA InitIInv == Init => IInv
<1> SUFFICES ASSUME Init PROVE IInv
  OBVIOUS
<1> USE DEF Init
<1>1. TypeOK
  BY DEF TypeOK, Never, FlagWords
<1>2. Sleeping
  BY DEF Sleeping
<1>3. Clock
  BY TimerAssumption DEF Clock
<1>4. Pace
  BY DEF Pace
<1>5. Snapshot
  BY DEF Snapshot, Never
<1> QED
  BY <1>1, <1>2, <1>3, <1>4, <1>5 DEF IInv

\* Every step keeps the types.
LEMMA TypeStep == TypeOK /\ [Next]_vars => TypeOK'
<1> SUFFICES ASSUME TypeOK, [Next]_vars PROVE TypeOK'
  OBVIOUS
<1> USE DEF TypeOK, Outcome
<1>1. ASSUME NEW config \in PollConfig, RejectConfig(config)
      PROVE  TypeOK'
  BY <1>1 DEF RejectConfig, call
<1>2. ASSUME NEW config \in PollConfig, Call(config)
      PROVE  TypeOK'
  BY <1>2, DurationAssumption DEF Call, PollConfig, Accepts, FlagWords
<1>3. CASE ReadStatus
  BY <1>3 DEF ReadStatus, Counted
<1>4. CASE ReadFails
  BY <1>4 DEF ReadFails, Counted, Return
<1>5. CASE Test
  <2>1. CASE Verdict(status) # "Undecided" /\ Return(Verdict(status)) /\ UNCHANGED wake_at
    BY <1>5, <2>1, Verdicts DEF Test, Return
  <2>2. CASE Return("Timeout") /\ UNCHANGED wake_at
    BY <1>5, <2>2 DEF Test, Return
  <2>3. CASE ~IsOver /\ wake_at' = elapsed + Delay /\ pc' = "sleep" /\ UNCHANGED result
    BY <1>5, <2>3, DelayBounds DEF Test
  <2> QED
    BY <1>5, <2>1, <2>2, <2>3 DEF Test
<1>6. CASE Wake
  BY <1>6 DEF Wake, call
<1>7. CASE Tick
  BY <1>7 DEF Tick, call
<1>8. CASE DeviceChanges
  BY <1>8 DEF DeviceChanges, call
<1>9. CASE UNCHANGED vars
  BY <1>9 DEF vars
<1> QED
  BY <1>1, <1>2, <1>3, <1>4, <1>5, <1>6, <1>7, <1>8, <1>9 DEF Next

-----------------------------------------------------------------------------
(* The steps of the loop.                                                  *)

\* The beginning of a call.
LEMMA CallStep ==
  ASSUME IInv, TypeOK', NEW config \in PollConfig, Call(config)
  PROVE  IInv'
<1> USE DEF Call
<1>1. timeout' \in Nat /\ poll_interval' \in Nat \ {0} /\ polls' = 0
  BY DEF TypeOK
<1>2. Sleeping' /\ Clock'
  BY <1>1, TimerAssumption DEF Sleeping, Clock
<1>3. Pace'
  BY <1>1, Product DEF Pace
<1>4. Snapshot'
  BY DEF IInv, Snapshot, Never
<1> QED
  BY <1>2, <1>3, <1>4 DEF IInv

\* The count of a read, saturated or not.
LEMMA CountStep ==
  ASSUME TypeOK
  PROVE  /\ Counted \in {polls, polls + 1}
         /\ Counted # 0
         /\ Counted * poll_interval <= polls * poll_interval + poll_interval
<1>1. polls \in Nat /\ poll_interval \in Nat
  BY DEF TypeOK
<1> QED
  BY <1>1, Product, MaxPollsAssumption DEF Counted

\* A read, and a read that fails.
LEMMA ReadStep ==
  ASSUME IInv, TypeOK', ReadStatus \/ ReadFails
  PROVE  IInv'
<1>1. /\ {polls, polls', elapsed} \subseteq Nat /\ timeout \in Nat
      /\ poll_interval \in Nat \ {0}
      /\ pc = "read" /\ pc' \in {"test", "idle"}
      /\ polls' = Counted
      /\ UNCHANGED <<timeout, poll_interval, elapsed, ready_since, device>>
  BY DEF IInv, TypeOK, ReadStatus, ReadFails, Return
<1>2. Sleeping'
  BY <1>1 DEF Sleeping
<1>3. Clock'
  <2>1. elapsed <= timeout + Oversleep /\ read_at <= elapsed
    BY <1>1 DEF IInv, Clock
  <2>2. read_at' \in {read_at, elapsed} /\ (pc' = "test" => read_at' = elapsed)
    BY DEF ReadStatus, ReadFails, Return
  <2> QED
    BY <1>1, <2>1, <2>2, TimerAssumption DEF Clock
<1>4. Pace'
  <2>1. /\ (polls - 1) * poll_interval < timeout
        /\ elapsed >= timeout \/ polls * poll_interval <= elapsed
    BY <1>1 DEF IInv, Pace
  <2>2. polls' * poll_interval <= polls * poll_interval + poll_interval
    BY <1>1, CountStep DEF IInv
  <2>3. pc' = "test" => read_at' = elapsed
    BY DEF ReadStatus, ReadFails, Return
  <2>4. /\ (polls' - 2) * poll_interval = polls' * poll_interval - 2 * poll_interval
        /\ (polls' - 1) * poll_interval = polls' * poll_interval - poll_interval
        /\ (polls - 1) * poll_interval = polls * poll_interval - poll_interval
        /\ {polls * poll_interval, polls' * poll_interval} \subseteq Int
    BY <1>1, Product
  <2>5. (polls' - 2) * poll_interval < timeout
    BY <1>1, <2>1, <2>2, <2>4
  <2>6. elapsed >= timeout \/ (polls' - 1) * poll_interval <= elapsed
    BY <1>1, <2>1, <2>2, <2>4
  <2> QED
    BY <1>1, <2>3, <2>5, <2>6 DEF Pace
<1>5. Snapshot'
  <2>1. polls' # 0
    BY <1>1, CountStep DEF IInv
  <2>2. pc' = "test" => status' = device
    BY DEF ReadStatus, ReadFails, Return
  <2> QED
    BY <1>1, <2>1, <2>2 DEF IInv, Snapshot
<1> QED
  BY <1>2, <1>3, <1>4, <1>5 DEF IInv

\* The tests: the call returns, or goes to sleep for what the budget leaves.
LEMMA TestStep ==
  ASSUME IInv, TypeOK', Test
  PROVE  IInv'
<1>1. /\ {polls, elapsed, read_at, wake_at} \subseteq Nat /\ timeout \in Nat
      /\ poll_interval \in Nat \ {0}
      /\ pc = "test"
      /\ UNCHANGED <<timeout, poll_interval, elapsed, polls, status, read_at,
                     device, ready_since>>
  BY DEF IInv, TypeOK, Test
<1>2. CASE pc' = "idle"
  <2>1. Clock'
    BY <1>1, <1>2 DEF IInv, Clock
  <2>2. Pace'
    BY <1>1, <1>2 DEF IInv, Pace
  <2> QED
    BY <1>1, <1>2, <2>1, <2>2 DEF IInv, Sleeping, Snapshot
<1>3. CASE /\ Verdict(status) = "Undecided" /\ ~IsOver
           /\ wake_at' = elapsed + Delay /\ pc' = "sleep"
  <2>1. /\ Delay \in Nat \ {0} /\ elapsed + Delay <= timeout
        /\ Delay = poll_interval \/ elapsed + Delay = timeout
        /\ elapsed < timeout
    BY <1>1, <1>3, DelayBounds DEF IInv, IsOver
  <2>2. read_at <= elapsed
    BY DEF IInv, Clock
  <2>3. Sleeping'
    BY <1>1, <1>3, <2>1, <2>2 DEF Sleeping
  <2>4. Clock'
    BY <1>1, <1>3, <2>1, <2>2, TimerAssumption DEF IInv, Clock
  <2>5. Pace'
    <3>1. (polls - 1) * poll_interval <= read_at
      BY <1>1, <2>1, <2>2 DEF IInv, Pace
    <3>2. /\ (polls - 1) * poll_interval \in Int
          /\ polls * poll_interval = (polls - 1) * poll_interval + poll_interval
      BY <1>1, Product
    <3>3. wake_at' = timeout \/ polls * poll_interval <= wake_at'
      BY <1>1, <1>3, <2>1, <2>2, <3>1, <3>2
    <3>4. (polls - 1) * poll_interval < timeout
      BY <1>1, <2>1, <2>2, <3>1, <3>2
    <3> QED
      BY <1>1, <1>3, <3>3, <3>4 DEF IInv, Pace
  <2>6. Snapshot'
    BY <1>1, <1>3 DEF IInv, Snapshot
  <2> QED
    BY <2>3, <2>4, <2>5, <2>6 DEF IInv
<1> QED
  BY <1>2, <1>3 DEF Test, Return

\* The end of a sleep.
LEMMA WakeStep ==
  ASSUME IInv, TypeOK', Wake
  PROVE  IInv'
<1>1. /\ {polls, elapsed, read_at, wake_at} \subseteq Nat /\ timeout \in Nat
      /\ poll_interval \in Nat \ {0}
      /\ pc = "sleep" /\ pc' = "read" /\ elapsed >= wake_at
      /\ UNCHANGED <<timeout, poll_interval, elapsed, polls, status, read_at, wake_at,
                     device, ready_since>>
  BY DEF IInv, TypeOK, Wake, call
<1>2. wake_at <= timeout
  BY <1>1 DEF IInv, Sleeping
<1>3. Sleeping' /\ Clock'
  BY <1>1, <1>2, TimerAssumption DEF IInv, Sleeping, Clock
<1>4. Pace'
  <2>1. polls * poll_interval \in Int
    BY <1>1, Product
  <2> QED
    BY <1>1, <2>1 DEF IInv, Pace
<1>5. Snapshot'
  BY <1>1 DEF IInv, Snapshot
<1> QED
  BY <1>3, <1>4, <1>5 DEF IInv

\* The clock, while the thread reads or sleeps.
LEMMA TickStep ==
  ASSUME IInv, TypeOK', Tick
  PROVE  IInv'
<1>1. /\ {polls, elapsed, read_at, wake_at} \subseteq Nat /\ timeout \in Nat
      /\ ready_since \in Nat \cup {Never}
      /\ elapsed' = elapsed + 1
      /\ \/ pc = "test" /\ elapsed < read_at + Latency
         \/ pc = "sleep" /\ elapsed < wake_at + Oversleep
      /\ UNCHANGED <<pc, timeout, poll_interval, polls, status, read_at, wake_at,
                     device, ready_since>>
  BY DEF IInv, TypeOK, Tick, call
<1>2. Sleeping'
  BY <1>1 DEF IInv, Sleeping
<1>3. Clock'
  BY <1>1, TimerAssumption DEF IInv, Clock, Sleeping
<1>4. Pace'
  BY <1>1 DEF IInv, Pace
<1>5. Snapshot'
  BY <1>1 DEF IInv, Snapshot, Never
<1> QED
  BY <1>2, <1>3, <1>4, <1>5 DEF IInv

\* The hardware.  A device that becomes ready after the read is one the
\* snapshot need not show.
LEMMA DeviceStep ==
  ASSUME IInv, TypeOK', DeviceChanges
  PROVE  IInv'
<1>1. /\ {elapsed, read_at} \subseteq Nat
      /\ ready_since \in Nat \cup {Never}
      /\ ready_since' = IF ~IsUsable(device') THEN Never
                        ELSE IF ready_since = Never THEN elapsed ELSE ready_since
      /\ UNCHANGED <<pc, timeout, poll_interval, elapsed, polls, status, read_at, wake_at>>
  BY DEF IInv, TypeOK, DeviceChanges, call
<1>2. Sleeping' /\ Clock' /\ Pace'
  BY <1>1 DEF IInv, Sleeping, Clock, Pace
<1>3. Snapshot'
  <2>1. read_at <= elapsed
    BY DEF IInv, Clock
  <2> QED
    BY <1>1, <2>1 DEF IInv, Snapshot, Never
<1> QED
  BY <1>2, <1>3 DEF IInv

\* The invariant is inductive.
LEMMA NextIInv == IInv /\ [Next]_vars => IInv'
<1> SUFFICES ASSUME IInv, [Next]_vars PROVE IInv'
  OBVIOUS
<1>0. TypeOK'
  BY TypeStep DEF IInv
<1>1. ASSUME NEW config \in PollConfig, Call(config)
      PROVE  IInv'
  BY <1>0, <1>1, CallStep
<1>2. CASE ReadStatus \/ ReadFails
  BY <1>0, <1>2, ReadStep
<1>3. CASE Test
  BY <1>0, <1>3, TestStep
<1>4. CASE Wake
  BY <1>0, <1>4, WakeStep
<1>5. CASE Tick
  BY <1>0, <1>5, TickStep
<1>6. CASE DeviceChanges
  BY <1>0, <1>6, DeviceStep
<1>7. CASE \/ \E config \in PollConfig : RejectConfig(config)
           \/ UNCHANGED vars
  <2>1. UNCHANGED <<pc, timeout, poll_interval, elapsed, polls, status, read_at, wake_at,
                    device, ready_since>>
    BY <1>7 DEF RejectConfig, call, vars
  <2>2. Sleeping' /\ Clock' /\ Pace' /\ Snapshot'
    BY <2>1 DEF IInv, Sleeping, Clock, Pace, Snapshot
  <2> QED
    BY <1>0, <2>2 DEF IInv
<1> QED
  BY <1>1, <1>2, <1>3, <1>4, <1>5, <1>6, <1>7 DEF Next

\* Every state of every call satisfies the invariant.
LEMMA Inductive == Spec => []IInv
BY InitIInv, NextIInv, PTL DEF Spec

-----------------------------------------------------------------------------
(* Safety.                                                                 *)

\* The types of a call's state, for every configuration.
THEOREM TypeCorrect == Spec => []TypeOK
BY Inductive, PTL DEF IInv

\* No sleep is empty and none ends after the timeout.
THEOREM Sleeps == Spec => SleepWithinBudget
<1>1. ASSUME IInv, [Next]_vars
      PROVE  [pc' = "sleep" /\ pc # "sleep" =>
                elapsed < wake_at' /\ wake_at' <= timeout]_vars
  <2> SUFFICES ASSUME Next, pc' = "sleep", pc # "sleep"
               PROVE  elapsed < wake_at' /\ wake_at' <= timeout
    BY <1>1
  <2>1. Test /\ ~IsOver /\ wake_at' = elapsed + Delay
    BY DEF Next, RejectConfig, Call, ReadStatus, ReadFails, Return, Test, Wake,
           Tick, DeviceChanges
  <2>2. elapsed < timeout /\ elapsed \in Nat
    BY <1>1, <2>1 DEF IInv, TypeOK, IsOver
  <2> QED
    BY <1>1, <2>1, <2>2, DelayBounds DEF IInv
<1> QED
  BY Inductive, <1>1, PTL DEF Spec, SleepWithinBudget

\* A call is at most one late wake-up and one late read longer than its
\* timeout.
THEOREM Budget == Spec => []EndsInBudget
<1>1. IInv => EndsInBudget
  BY DEF IInv, Clock, EndsInBudget
<1> QED
  BY Inductive, <1>1, PTL

\* The intervals a duration begins, rounded up, last at least as long as it.
LEMMA RoundedUp ==
  ASSUME NEW t \in Nat, NEW i \in Nat \ {0}
  PROVE  /\ (t + i - 1) \div i \in Nat
         /\ t <= ((t + i - 1) \div i) * i
<1> DEFINE d == t + i - 1
<1>1. d \in Nat /\ i \in Nat /\ i > 0
  OBVIOUS
<1> HIDE DEF d
<1>2. d = (d \div i) * i + (d % i) /\ d % i \in 0 .. i-1 /\ d \div i \in Nat
  BY <1>1
<1>3. (d \div i) * i \in Int
  BY <1>2, <1>1
<1> QED
  BY <1>1, <1>2, <1>3 DEF d

\* A product grows with its first factor.
LEMMA Monotone ==
  ASSUME NEW m \in Int, NEW n \in Int, NEW i \in Nat, m * i < n * i
  PROVE  m < n
<1> SUFFICES ASSUME m >= n PROVE FALSE
  OBVIOUS
<1>1. m * i = n * i + (m - n) * i
  OBVIOUS
<1>2. (m - n) * i >= 0
  OBVIOUS
<1> QED
  BY <1>1, <1>2

\* A call reads the status once per interval and once more, however late the
\* reads and the sleeps are and however long the call takes.
THEOREM Reads == Spec => []PollsBounded
<1>1. ASSUME IInv PROVE PollsBounded
  <2> DEFINE q == (timeout + poll_interval - 1) \div poll_interval
  <2>1. polls \in Nat /\ timeout \in Nat /\ poll_interval \in Nat \ {0}
    BY <1>1 DEF IInv, TypeOK
  <2>2. q \in Nat /\ timeout <= q * poll_interval
    BY <2>1, RoundedUp
  <2> HIDE DEF q
  <2>3. (polls - 2) * poll_interval < q * poll_interval
    <3>1. (polls - 2) * poll_interval \in Int /\ q * poll_interval \in Int
      BY <2>1, <2>2
    <3> QED
      BY <1>1, <2>1, <2>2, <3>1 DEF IInv, Pace
  <2>4. polls - 2 < q
    BY <2>1, <2>2, <2>3, Monotone
  <2> QED
    BY <2>1, <2>2, <2>4 DEF PollsBounded, q
<1> QED
  BY Inductive, <1>1, PTL

\* No timeout is reported for a device that was ready in time: the snapshot
\* that is tested after the timeout was read at most Latency before, and
\* would show it.
THEOREM ReadyIsSeen == Spec => ReadyInTimeIsSeen
<1>1. ASSUME IInv, [Next]_vars
      PROVE  [result' = "Timeout" /\ result # "Timeout" =>
                ~(ready_since # Never /\ ready_since < timeout - Latency)]_vars
  <2> SUFFICES ASSUME result' = "Timeout", result # "Timeout",
                      ready_since # Never, ready_since < timeout - Latency
               PROVE  FALSE
    OBVIOUS
  <2>1. Test /\ Verdict(status) # "Ready" /\ IsOver
    BY <1>1, Verdicts DEF Next, vars, RejectConfig, Call, ReadStatus, ReadFails, Test, Wake,
                          Tick, DeviceChanges, Return, call
  <2>2. /\ {elapsed, read_at, ready_since} \subseteq Nat /\ timeout \in Nat
        /\ pc = "test" /\ elapsed >= timeout /\ elapsed <= read_at + Latency
    BY <1>1, <2>1 DEF IInv, TypeOK, Clock, Test, IsOver
  <2>3. ready_since < read_at
    BY <2>2, TimerAssumption
  <2>4. IsUsable(status)
    BY <1>1, <2>2, <2>3 DEF IInv, Snapshot
  <2> QED
    BY <2>1, <2>4, Verdicts
<1> QED
  BY Inductive, <1>1, PTL DEF Spec, ReadyInTimeIsSeen

-----------------------------------------------------------------------------
(* The refinement of StatusWait.                                           *)

\* What the caller has seen, as the refinement maps it.
Seen == IF pc = "idle" \/ polls = 0 THEN {} ELSE {status}

\* The loop has seen nothing that decides the call when it has seen nothing, or
\* what it saw last does not.
LEMMA SeenDecides ==
  /\ Wait!Decided <=> \E w \in Seen : Verdict(w) # "Undecided"
  /\ \A w : Wait!Fault(w) <=> Fault(w)
  /\ \A w : Wait!Ready(w) <=> Ready(w)
  /\ Wait!FlagWords = FlagWords
<1>1. /\ \A w : Wait!Fault(w) <=> Fault(w)
      /\ \A w : Wait!Ready(w) <=> Ready(w)
  BY DEF Wait!Fault, Wait!Ready, Fault, Ready, Wait!STATUS_FAULT_MASK,
         Wait!STATUS_READY_MASK, STATUS_FAULT_MASK, STATUS_READY_MASK
<1>2. Wait!FlagWords = FlagWords
  BY DEF Wait!FlagWords, FlagWords, Wait!STATUS_FAULT_MASK, Wait!STATUS_READY_MASK,
         Wait!STATUS_BUSY_MASK, STATUS_FAULT_MASK, STATUS_READY_MASK, STATUS_BUSY_MASK
<1>3. Wait!Decided <=> \E w \in Seen : Verdict(w) # "Undecided"
  BY <1>1, Verdicts DEF Wait!Decided, Seen, Verdict
<1> QED
  BY <1>1, <1>2, <1>3

\* A return of the loop is a return of the wait, justified by what was seen.
LEMMA ReturnSimulation ==
  ASSUME IInv, ReadFails \/ Test, pc' = "idle"
  PROVE  Wait!Return
<1>1. /\ pc # "idle"
      /\ UNCHANGED <<timeout, elapsed, device>>
  BY DEF ReadFails, Test
<1>2. CASE ReadFails
  <2>1. result' = "Source" /\ pc = "read"
    BY <1>2 DEF ReadFails, Return
  <2>2. ~Wait!Decided
    BY <2>1, SeenDecides DEF IInv, Snapshot, Seen
  <2> QED
    BY <1>1, <2>1, <2>2 DEF Wait!Return, Wait!Justified
<1>3. CASE Test
  <2>1. pc = "test" /\ Seen = {status}
    BY <1>3 DEF Test, IInv, Snapshot, Seen
  <2>2. CASE Verdict(status) # "Undecided" /\ result' = Verdict(status)
    <3>1. CASE Verdict(status) = "Fault"
      BY <1>1, <2>1, <2>2, <3>1, Verdicts, SeenDecides
         DEF Wait!Return, Wait!Justified, Seen
    <3>2. CASE Verdict(status) = "Ready"
      BY <1>1, <2>1, <2>2, <3>2, Verdicts, SeenDecides
         DEF Wait!Return, Wait!Justified, Seen, IsUsable
    <3> QED
      BY <2>2, <3>1, <3>2, Verdicts
  <2>3. CASE Verdict(status) = "Undecided" /\ result' = "Timeout" /\ IsOver
    <3>1. ~Wait!Decided /\ Seen # {}
      BY <2>1, <2>3, SeenDecides
    <3> QED
      BY <1>1, <2>3, <3>1 DEF Wait!Return, Wait!Justified, Seen, IsOver
  <2> QED
    BY <1>3, <2>2, <2>3 DEF Test, Return
<1> QED
  BY <1>2, <1>3

\* Every step of the loop is a step of the wait or invisible to the caller.
LEMMA WaitSimulation == IInv /\ IInv' /\ [Next]_vars => [Wait!Next]_(Wait!vars)
<1> SUFFICES ASSUME IInv, IInv', [Next]_vars PROVE [Wait!Next]_(Wait!vars)
  OBVIOUS
<1> USE DEF Wait!Next
<1>1. ASSUME NEW config \in PollConfig, RejectConfig(config)
      PROVE  Wait!RefuseConfig
  BY <1>1 DEF RejectConfig, Wait!RefuseConfig, call
<1>2. ASSUME NEW config \in PollConfig, Call(config)
      PROVE  Wait!Begin
  BY <1>2 DEF Call, PollConfig, Wait!Begin
<1>3. CASE ReadStatus
  <2>1. pc = "read" /\ pc' = "test" /\ polls' # 0 /\ status' = device
    BY <1>3 DEF ReadStatus, IInv, Snapshot
  <2>2. ~Wait!Decided
    BY <2>1, SeenDecides DEF IInv, Snapshot, Seen
  <2> QED
    BY <1>3, <2>1, <2>2 DEF ReadStatus, Wait!Look
<1>4. CASE (ReadFails \/ Test) /\ pc' = "idle"
  BY <1>4, ReturnSimulation
<1>5. CASE Test /\ pc' # "idle"
  BY <1>5 DEF Test, Return, Wait!vars
<1>6. CASE Wake
  BY <1>6 DEF Wake, Wait!vars, call
<1>7. CASE Tick
  <2>1. elapsed \in Nat
    BY DEF IInv, TypeOK
  <2> QED
    BY <1>7, <2>1 DEF Tick, Wait!TimePasses, call
<1>8. CASE DeviceChanges
  BY <1>8, SeenDecides DEF DeviceChanges, Wait!DeviceChanges, call
<1>9. CASE UNCHANGED vars
  BY <1>9 DEF vars, Wait!vars
<1> QED
  BY <1>1, <1>2, <1>3, <1>4, <1>5, <1>6, <1>7, <1>8, <1>9 DEF Next, ReadFails, Return

\* The loop implements the wait.
THEOREM Refinement == Spec => ImplementsWait
<1>1. Init => Wait!Init
  BY SeenDecides DEF Init, Wait!Init
<1> QED
  BY Inductive, <1>1, WaitSimulation, PTL DEF Spec, ImplementsWait, Wait!Spec

=============================================================================
