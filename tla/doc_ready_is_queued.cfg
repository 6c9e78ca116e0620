\* Run now, while the queued row it found is claimed and finished.
SPECIFICATION Spec
CONSTANTS
  w1 = w1  w2 = w2  t1 = t1  t2 = t2  r1 = r1  r2 = r2
  Tickets = {t1}
  Workers = {w1}
  Concurrency = 1
  Triagers = {}
  Reqs = {r1}
  Kinds = {"create", "run"}
  NewStatuses = {"ready"}
  DragStatuses = {}
  Settings <- NoLimit
  Claimable <- AnyPC
  Rank <- FlatRank
  DependsOn <- NoDeps
  MaxAttempts = 2
  MaxDelegations = 2
  MaxItems = 3
INVARIANTS ReadyIsQueued
