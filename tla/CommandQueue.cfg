\* Five ids for three places: the queue fills while ids are left to try.
SPECIFICATION Spec
CONSTANTS
  Capacity = 3
  CommandIds = {c1, c2, c3, c4, c5}
  Tags = {t1, t2}
  Submission <- MCSubmission
INVARIANTS
  TypeOK
  ActiveIdsMatchPending
PROPERTIES
  ImplementsContract
