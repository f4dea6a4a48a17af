\* Three events, so that one is seen, one comes late and one is neither, and a
\* reserved line.  No region is mapped or accessed but by the controller and by
\* modify_control.
SPECIFICATION InterruptSpec
CONSTANTS
  Counts = {}
  Words = {}
  ControlWords = {}
  StatusWords = {}
  Opcodes = {}
  QueueIds = {}
  Lines = {0, 1, 3, 31}
  Updates <- MCUpdates
INVARIANT
  InterruptsTypeOK
PROPERTY
  OnlyCarelessAcksLose
