\* Timeouts that are zero, shorter than, a multiple of and no multiple of the
\* intervals.
SPECIFICATION FairSpec
CONSTANTS
  Timeouts = {0, 1, 4, 5}
  Intervals = {0, 2, 3}
  MaxPolls = 9
  Latency = 1
  Oversleep = 1
INVARIANTS
  TypeOK
  EndsInBudget
  PollsBounded
PROPERTIES
  SleepWithinBudget
  ReadyInTimeIsSeen
  ImplementsWait
  CallReturns
