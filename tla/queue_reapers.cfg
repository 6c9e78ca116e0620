\* Two PCs claim, and reap each other's claims, under a cap of one that the
\* settings page swaps for stop-all, while a client re-queues the ticket and
\* the server may restart.
SPECIFICATION Spec
CONSTANTS
  w1 = w1  w2 = w2  t1 = t1  t2 = t2  r1 = r1  r2 = r2
  Tickets = {t1}
  Workers = {w1, w2}
  Concurrency = 1
  Triagers = {}
  Reqs = {r1}
  Kinds = {"create", "run", "settings", "restart"}
  NewStatuses = {"ready"}
  DragStatuses = {}
  Settings <- CapOrStop
  Claimable <- AnyPC
  Rank <- FlatRank
  DependsOn <- NoDeps
  MaxAttempts = 2
  MaxDelegations = 2
  MaxItems = 3
SYMMETRY Symmetry
INVARIANTS NoDoubleClaim
PROPERTIES LateResultIsDropped OnlyRacesDuplicate OnlyRacesStrand ClaimsRespectGate
