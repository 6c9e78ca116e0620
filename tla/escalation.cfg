\* Two PCs with one slot each; a client drags the ticket, answers its questions
\* and may do both at once; the server may die, runs fail and claims are reaped.
SPECIFICATION FairSpec
CONSTANTS
  s1 = s1  s2 = s2  w1 = w1  w2 = w2  r1 = r1  r2 = r2
  Slots = {s1, s2}
  PCs = {w1, w2}
  PC <- OneEach
  Reqs = {r1, r2}
  Drags = {"ready", "done"}
  MaxCalls = 2
  MaxRetries = 1
INVARIANTS StrayAnswersWereOvertaken OneAgentPerSession BlockedHasReason
PROPERTIES AnswersAreHandedOver
\* Once the calls are used up and the ticket has settled nothing is left to do.
CHECK_DEADLOCK FALSE
