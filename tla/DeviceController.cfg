SPECIFICATION Spec
CONSTANTS
  Images <- MCImages
INVARIANTS
  TypeOK
PROPERTIES
  LifecycleOrder
  RefusalKeepsState
