\* Three slots: head takes every value, and the window wraps in several ways.
SPECIFICATION FairSpec
CONSTANTS
  N = 3
  CommandIds = {c1, c2, c3, c4}
  Tags = {t1, t2}
  Submission <- MCSubmission
  Empty = Empty
INVARIANTS
  TypeOK
  WindowIsOccupied
PROPERTIES
  ImplementsContract
  PendingIsServed
