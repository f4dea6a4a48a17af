\* usize has four bits: offset 12 with length 4 is the range whose end wraps
\* to zero.  Three valid ids for two places in the queue.
SPECIFICATION Spec
CONSTANTS
  QueueCapacity = 2
  Images <- MCImages
  MaxId = 2
  UsizeMax = 15
  Byte = {0}
  Zero = 0
  Capacities = {0, 4, 8}
  Lengths = {0, 4, 8}
  MaxCommand = 3
  RawCommands <- MCRawCommands
  GivenQueues <- MCGivenQueues
  CommandIds = {1, 2, 3}
  CommandOffsets = {0, 4, 12}
  CommandLengths = {4, 8}
INVARIANTS
  TypeOK
  OnlyGivenBeforeReady
  QueuedRangeInBuffer
PROPERTIES
  AdmittedRangeInitialized
  OnlyAShorterWriteMakesStale
  RefusalChangesNothing
