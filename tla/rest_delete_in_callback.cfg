SPECIFICATION Spec
CONSTANTS
  Threads = {t1, t2}
  Requests = {r1, r2}
  Jobs = {j1, j2}
  Failed = failed
  Empty = empty
  Null = null
PROPERTY NeverDeletedInCallback
