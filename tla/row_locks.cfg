\* A PC with two slots and its main loop, and a request, over two tickets.
SPECIFICATION Spec
CONSTANTS
  w1 = w1  s1 = s1  s2 = s2  r1 = r1
  Settings = Settings  None = None
  Tickets = {1, 2}
  PCs = {w1}
  Slots = {s1, s2}
  PC <- AllOnOne
  Reqs = {r1}
  Items = {11, 12, 13}
INVARIANTS DeadlockNeedsRace SettingsHolderIsQuick
PROPERTIES IsAtomicQueue
\* Once the rows are used up and closed nothing is left to do.
CHECK_DEADLOCK FALSE
