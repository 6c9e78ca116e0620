\* Three tickets whose dependencies an editor, triage and deletion change.
SPECIFICATION FairSpec
CONSTANTS
  t1 = t1  t2 = t2  t3 = t3  r1 = r1  w1 = w1
  Tickets = {t1, t2, t3}
  Reqs = {r1}
  Triagers = {w1}
PROPERTIES CycleNeedsRace RefusesOnlyCycles SaveIsWhole WalkEnds
\* Once every ticket has been deleted nothing is left to do.
CHECK_DEADLOCK FALSE
