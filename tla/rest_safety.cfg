SPECIFICATION Spec
CONSTANTS
  Threads = {t1, t2, t3}
  Requests = {r1, r2}
  Jobs = {j1, j2}
  Failed = failed
  Empty = empty
  Null = null
SYMMETRY Symmetry
INVARIANTS TypeOK JobHasOneOwner FreeJobsAreClean
PROPERTY AnswersOnce
