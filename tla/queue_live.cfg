\* One PC that may crash, two tickets, one of which waits for the other, a cap
\* of one and retries.
SPECIFICATION FairSpec
CONSTANTS
  w1 = w1  w2 = w2  t1 = t1  t2 = t2  r1 = r1  r2 = r2
  Tickets = {t1, t2}
  Workers = {w1}
  Concurrency = 1
  Triagers = {}
  Reqs = {r1}
  Kinds = {"create"}
  NewStatuses = {"ready"}
  DragStatuses = {}
  Settings <- OneAtATime
  Claimable <- AnyPC
  Rank <- FlatRank
  DependsOn <- T2OnT1
  MaxAttempts = 2
  MaxDelegations = 4
  MaxItems = 4
INVARIANTS RetryBudget
PROPERTIES ReadySettles ClaimsAreReleased
