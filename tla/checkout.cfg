\* Two slots, on one PC or on two, and two tickets of one board.
SPECIFICATION Spec
CONSTANTS
  s1 = s1  s2 = s2  w1 = w1  w2 = w2  t1 = t1  t2 = t2
  Slots = {s1, s2}
  PCs = {w1, w2}
  Tickets = {t1, t2}
  Boards <- AllBoards
  MaxRuns = 3
  MaxShared = 2
SYMMETRY Symmetry
INVARIANTS PushedStays OnlyOwnWork OnlyVettedWork
PROPERTIES WorkSurvives
\* Once the runs are used up and every ticket is ready nothing is left to do.
CHECK_DEADLOCK FALSE
