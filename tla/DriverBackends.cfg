\* Three places, so that head takes three values and the window wraps in more
\* than one way, for four ids and one buffer.
SPECIFICATION Spec
CONSTANTS
  QueueCapacity = 3
  Images <- MCImages
  MaxId = 1
  UsizeMax = 15
  Byte = {0}
  Zero = 0
  Capacities = {8}
  Lengths = {4, 8}
  MaxCommand = 4
  RawCommands <- MCRawCommands
  GivenQueues <- MCGivenQueues
  CommandIds = {1, 2, 3, 4}
  Empty = Empty
INVARIANT
  BackendsAgree
PROPERTY
  BothImplementDriver
