\* Regions around the five registers; words with reserved bits.
SPECIFICATION Spec
CONSTANTS
  Counts = {0, 4, 5}
  Words = {{0, 3, 31}}
  ControlWords = {{}, {1, 2, 30}, {0, 3}}
  StatusWords = {{}, {0}}
  Updates <- MCUpdates
  Opcodes = {1, 3}
  QueueIds = {0, 129}
INVARIANTS
  TypeOK
PROPERTIES
  BlockNeverFails
  OnlyRacingBitsAreLost
  FieldsReadBack
