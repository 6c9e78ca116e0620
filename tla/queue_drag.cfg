\* A client drags a ticket anywhere and kills it while it is queued or running
\* on a PC that also triages it; the server may restart.
SPECIFICATION Spec
CONSTANTS
  w1 = w1  w2 = w2  t1 = t1  t2 = t2  r1 = r1  r2 = r2
  Tickets = {t1}
  Workers = {w1}
  Concurrency = 1
  Triagers = {w1}
  Reqs = {r1}
  Kinds = {"create", "patch", "kill", "restart"}
  NewStatuses = {"todo"}
  DragStatuses = {"todo", "ready"}
  Settings <- NoLimit
  Claimable <- AnyPC
  Rank <- FlatRank
  DependsOn <- NoDeps
  MaxAttempts = 2
  MaxDelegations = 2
  MaxItems = 3
INVARIANTS TypeOK KilledOnRequest
PROPERTIES OnlyRacesDuplicate IsAttemptLog
