\* One question, answered; the other PC claims the row that resumes.
SPECIFICATION Spec
CONSTANTS
  s1 = s1  s2 = s2  w1 = w1  w2 = w2  r1 = r1  r2 = r2
  Slots = {s1, s2}
  PCs = {w1, w2}
  PC <- OneEach
  Reqs = {r1}
  Drags = {"ready"}
  MaxCalls = 1
  MaxRetries = 1
INVARIANTS ResumesOwnSession
\* Once the calls are used up and the ticket has settled nothing is left to do.
CHECK_DEADLOCK FALSE
