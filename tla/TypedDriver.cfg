SPECIFICATION TypedSpec
CONSTANTS
  QueueCapacity = 2
  Images <- MCImages
  MaxId = 2
  UsizeMax = 15
  Byte = {0}
  Zero = 0
  Capacities = {0, 8}
  Lengths = {0, 4, 8, 12}
  MaxCommand = 3
  RawCommands <- MCRawCommands
  GivenQueues <- MCGivenQueues
INVARIANTS
  TypedOK
  MarkerMatchesRuntime
PROPERTIES
  NeverInvalidState
  FailureReturnsOriginal
  SessionOnlyAppends
  ImplementsDriver
